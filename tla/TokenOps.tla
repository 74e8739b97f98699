-------------------------------- MODULE TokenOps --------------------------------
(***************************************************************************)
(* cancelation_token.hpp, the data: a token is the flag and the stack of    *)
(* callbacks that its mutex protects, and each of its operations is one     *)
(* critical section that computes the new token and the callback to run     *)
(* after the mutex is released.                                             *)
(***************************************************************************)
EXTENDS Naturals, Sequences

\* The empty cancelation_callback{} of the code: nothing to run.
NoCallback == "none"

Token(Callbacks) == [requested : BOOLEAN, callbacks : Seq(Callbacks)]

NewToken == [requested |-> FALSE, callbacks |-> <<>>]

Depth(t) == Len(t.callbacks)

\* _do_cancels.back(), if there is one.
Top(t) == IF Depth(t) = 0 THEN NoCallback ELSE t.callbacks[Depth(t)]

PushCallback(t, cb) == [t EXCEPT !.callbacks = Append(@, cb)]

\* Only defined, as pop_back() is, on a token that has a callback.
PopCallback(t) == [t EXCEPT !.callbacks = SubSeq(@, 1, Len(@) - 1)]

RequestCancel(t) == [t EXCEPT !.requested = TRUE]

\* What push_cancelation_callback(), pop_cancelation_callback() and
\* request_cancel() copy under the mutex to run it after they released it,
\* where t is the token they leave behind.
ToCall(t) == IF t.requested THEN Top(t) ELSE NoCallback
================================================================================
