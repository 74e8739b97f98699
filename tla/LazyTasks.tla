------------------------------- MODULE LazyTasks -------------------------------
(***************************************************************************)
(* include/tconcurrent/lazy: a chain of senders                             *)
(*                                                                          *)
(*    connect(then(s1, f1), then(s2, f2)) ...                               *)
(*                                                                          *)
(* that sync_wait() or submit_to_future() submits, each s an async() or an  *)
(* async_wait(), while another thread requests its cancelation.             *)
(*                                                                          *)
(* The chain has one cancelation_token, with room for the canceler of one   *)
(* stage, and a recursive mutex that request_cancel() and set_canceler()    *)
(* hold while they run a canceler.  The last receiver is that of sync_wait()*)
(* or of the future: the result is "none" until it is called.               *)
(***************************************************************************)
EXTENDS Integers, FiniteSets

CONSTANTS Last,     \* how many stages the chain has
          Executors \* how many threads run the handlers

ASSUME LazyAssumption == Last \in Nat \ {0} /\ Executors \in Nat \ {0}

Stages == 1..Last

VARIABLES
  kind,      \* "async" or "wait": the sender of each stage
  consumer,  \* "sync" or "future": who submits the chain
  user,      \* "submitting" or "returned": the thread that submits it
  submit,    \* how far submit() of each stage is
  handler,   \* how far the handler that each stage posts is
  fired,     \* the stages whose "fired" is set
  called,    \* the stages whose function was called
  slot,      \* _cancel: the stage whose canceler the token has, or 0
  canceled,  \* _canceled
  born,      \* the stages that were submitted after the cancelation
  canceler,  \* "idle", "calling" or "returned": the thread that cancels
  copied,    \* the stage whose canceler it copied
  result,    \* "none", "value", "error" or "done": the result of the chain
  notifying, \* the result of sync_wait() is set, and the user not notified yet
  aborted    \* "", or what failed: "canceler", assert(!_cancel); "result", a second
             \* result; "dangling", the use of the state of a sync_wait() that is over

chainVars == <<kind, consumer, user, submit, handler, fired, called>>
tokenVars == <<slot, canceled, born, canceler, copied>>
endVars == <<result, notifying, aborted>>
lazyVars == <<chainVars, tokenVars, endVars>>

LazyInit == /\ kind \in [Stages -> {"async", "wait"}]
            /\ consumer \in {"sync", "future"}
            /\ user = "submitting"
            /\ submit = [i \in Stages |-> IF i = 1 THEN "begun" ELSE "none"]
            /\ handler = [i \in Stages |-> "none"]
            /\ fired = {} /\ called = {}
            /\ slot = 0 /\ canceled = FALSE /\ born = {}
            /\ canceler = "idle" /\ copied = 0
            /\ result = "none" /\ notifying = FALSE /\ aborted = ""

Up == aborted = ""

\* A thread that runs no canceler may lock the mutex of the token.
Lockable == Up /\ canceler # "calling"

Handle(i, p) == handler' = [handler EXCEPT ![i] = p]
Submit(i, p) == submit' = [submit EXCEPT ![i] = p]

\* The last receiver: it resets the token, which its thread may lock, and sets the
\* result.  promise_ptr asserts that it has none.
Complete(r) == /\ slot' = 0
               /\ result' = r
               /\ aborted' = IF result # "none" THEN "result" ELSE ""

\* A thread other than the user's unlocks the state of sync_wait() before it notifies.
NotifiesLater == notifying' = (consumer = "sync")

--------------------------------------------------------------------------------
(* submit() of a stage *)

\* The executor has the handler of async(), or the timer of async_wait() runs.
Arm(i) ==
  /\ Up
  /\ \/ kind[i] = "async" /\ submit[i] = "set"
     \/ kind[i] = "wait" /\ submit[i] = "begun"
  /\ Handle(i, "armed")
  /\ Submit(i, IF kind[i] = "async" THEN "over" ELSE "armed")
  /\ UNCHANGED <<kind, consumer, user, fired, called, tokenVars, endVars>>

\* async() sets its canceler before it posts, async_wait() once its timer runs.
Sets(i) == /\ Lockable
           /\ submit[i] = IF kind[i] = "async" THEN "begun" ELSE "armed"
           /\ Submit(i, IF kind[i] = "async" THEN "set" ELSE "over")
           /\ UNCHANGED <<kind, consumer, user, handler, called,
                          canceled, born, canceler, copied>>

\* MUTANT: a cancelation that came before the canceler is not heard.
SetCanceler_TooLate(i) ==
  /\ Sets(i)
  /\ slot = 0 /\ slot' = i
  /\ UNCHANGED <<fired, endVars>>

\* set_canceler(): if the token is canceled, the canceler runs at once.
SetCanceler(i) ==
  /\ Sets(i)
  /\ \/ /\ slot # 0
        /\ aborted' = "canceler"
        /\ UNCHANGED <<fired, slot, result, notifying>>
     \/ /\ slot = 0 /\ canceled /\ i \notin fired
        /\ fired' = fired \cup {i}
        /\ Complete("done")
        /\ IF i = 1 THEN UNCHANGED notifying ELSE NotifiesLater
     \/ /\ slot = 0 /\ (canceled => i \in fired)
        /\ slot' = i
        /\ UNCHANGED <<fired, endVars>>

--------------------------------------------------------------------------------
(* The handler of a stage, and the receivers *)

\* The handlers that a thread of the executor runs: the last thing a handler does may
\* be to submit the next stage.
Running == {i \in Stages : \/ handler[i] \in {"won", "checked", "reset"}
                           \/ handler[i] = "called" /\ submit[i + 1] # "over"}

\* MUTANT: the handler tests "fired" and does not set it.
Fire_Tests(i) ==
  /\ Up /\ handler[i] = "armed" /\ Cardinality(Running) < Executors
  /\ Handle(i, IF i \in fired THEN "over" ELSE "won")
  /\ UNCHANGED <<kind, consumer, user, submit, fired, called, tokenVars, endVars>>

\* A thread of the executor runs the handler: the first of the handler and the
\* canceler to exchange "fired" goes on.
Fire(i) ==
  /\ Up /\ handler[i] = "armed" /\ Cardinality(Running) < Executors
  /\ Handle(i, IF i \in fired THEN "over" ELSE "won")
  /\ fired' = fired \cup {i}
  /\ UNCHANGED <<kind, consumer, user, submit, called, tokenVars, endVars>>

\* MUTANT: then() does not look at the token before it calls its function.
Check_Skips(i) ==
  /\ Lockable /\ handler[i] = "won"
  /\ Handle(i, "checked")
  /\ UNCHANGED <<kind, consumer, user, submit, fired, called, tokenVars, endVars>>

\* set_value() of then(): is_cancel_requested(), and set_done() if so.
Check(i) ==
  /\ Lockable /\ handler[i] = "won"
  /\ IF canceled
     THEN Handle(i, "over") /\ Complete("done") /\ NotifiesLater
     ELSE Handle(i, "checked") /\ UNCHANGED <<slot, endVars>>
  /\ UNCHANGED <<kind, consumer, user, submit, fired, called,
                 canceled, born, canceler, copied>>

\* It resets the token: the canceler of this stage is gone.
Reset(i) ==
  /\ Lockable /\ handler[i] = "checked"
  /\ Handle(i, "reset")
  /\ slot' = 0
  /\ UNCHANGED <<kind, consumer, user, submit, fired, called,
                 canceled, born, canceler, copied, endVars>>

\* It calls the function, which may throw, and submits the next stage or gives the
\* last receiver its value.
Call(i) ==
  /\ Up /\ handler[i] = "reset"
  /\ called' = called \cup {i}
  /\ \/ /\ Lockable
        /\ Handle(i, "over")
        /\ \/ Complete("error")
           \/ i = Last /\ Complete("value")
        /\ NotifiesLater
        /\ UNCHANGED <<submit, born>>
     \/ /\ i < Last
        /\ Handle(i, "called")
        /\ Submit(i + 1, "begun")
        /\ born' = IF canceled THEN born \cup {i + 1} ELSE born
        /\ UNCHANGED <<slot, endVars>>
  /\ UNCHANGED <<kind, consumer, user, fired, canceled, canceler, copied>>

--------------------------------------------------------------------------------
(* The thread that cancels, and the user *)

\* request_cancel() of the token, or of the future, which calls it: it holds the
\* mutex while the canceler it copied runs.
RequestCancel ==
  /\ Up /\ canceler = "idle"
  /\ canceled' = TRUE
  /\ copied' = slot
  /\ canceler' = IF slot = 0 THEN "returned" ELSE "calling"
  /\ UNCHANGED <<chainVars, slot, born, endVars>>

\* The canceler: nothing if the handler fired.
CancelCall ==
  /\ Up /\ canceler = "calling"
  /\ canceler' = "returned"
  /\ IF copied \in fired
     THEN UNCHANGED <<fired, slot, endVars>>
     ELSE fired' = fired \cup {copied} /\ Complete("done") /\ NotifiesLater
  /\ UNCHANGED <<kind, consumer, user, submit, handler, called, canceled, born, copied>>

\* notify_one() on the state of sync_wait(), which its user may have left: the result
\* that it waits for was there.
Notify ==
  /\ Up /\ notifying
  /\ notifying' = FALSE
  /\ aborted' = IF user = "returned" THEN "dangling" ELSE ""
  /\ UNCHANGED <<chainVars, tokenVars, result>>

\* submit_to_future() returns once submit() did, sync_wait() when there is a result.
Return ==
  /\ Up /\ user = "submitting" /\ submit[1] = "over"
  /\ consumer = "sync" => result # "none"
  /\ user' = "returned"
  /\ UNCHANGED <<kind, consumer, submit, handler, fired, called, tokenVars, endVars>>

Steps(i) == Arm(i) \/ SetCanceler(i) \/ Check(i) \/ Reset(i) \/ Call(i)

LazyNext == \/ \E i \in Stages : Steps(i) \/ Fire(i)
            \/ RequestCancel \/ CancelCall \/ Notify \/ Return

LazySafeSpec == LazyInit /\ [][LazyNext]_lazyVars

\* Each thread runs on.  A timer may be arbitrarily long and the executor busy: no
\* fairness for Fire, nor for a cancelation.
LazyFairness == /\ \A i \in 1..Last : WF_lazyVars(Steps(i))
                /\ WF_lazyVars(CancelCall) /\ WF_lazyVars(Notify) /\ WF_lazyVars(Return)

LazySpec == LazySafeSpec /\ LazyFairness

--------------------------------------------------------------------------------
(* Properties *)

\* Once the chain has a result, be it that of a cancelation that another thread
\* requested, no function of the chain is called and it gets no other result.
ResultIsFinal == [][result # "none" => UNCHANGED called /\ aborted' # "result"]_lazyVars

\* A stage that is submitted after the cancelation does not run its function,
\* whichever of its timer, its canceler and its handler comes first.
CanceledStageIsSkipped == born \cap called = {}

\* A chain that is canceled ends without its timers: the cancelation finds the stage
\* that waits, or the stage that is about to wait finds the cancelation, and the user
\* returns.
CancelEnds == canceled ~> (user = "returned" /\ result # "none") \/ ~Up

\* assert(!_cancel) of set_canceler(): a stage finds the token without a canceler.
OneCanceler == aborted # "canceler"
================================================================================
