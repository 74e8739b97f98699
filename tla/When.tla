---------------------------------- MODULE When ----------------------------------
(***************************************************************************)
(* when.hpp: when_all() and when_any() over futures that other threads end  *)
(* while the calling thread still attaches its callbacks.                   *)
(*                                                                          *)
(* A call loops over its futures.  The callback of one that has ended runs  *)
(* in the loop, the others on the thread that ends the future.  The last    *)
(* callback of when_all(), the first one of when_any(), sets the result.    *)
(***************************************************************************)
EXTENDS Integers, Sequences, SequencesExt

CONSTANTS Futures,    \* the futures that are waited for
          Whens,      \* the calls of when_all() and when_any()
          None

ASSUME WhenAssumption == /\ IsFiniteSet(Futures)
                         /\ {None, "none", "all"} \cap Futures = {}

VARIABLES
  state,     \* "none", "pending" or "ended", of each future
  told,      \* the futures that were asked to cancel while they were pending
  kind,      \* what each call is: "all", "any", or "auto" with auto_cancel
  pc,        \* where the thread of each call is
  list,      \* the futures of each call
  at,        \* the index of its loop
  inline,    \* the callback that the loop is running
  cb,        \* where the callback of each call on each future is
  stored,    \* finished_futures
  count,     \* how many callbacks of when_all() counted
  triggered, \* the calls of when_any() that have a winner
  moved,     \* the calls of when_any() whose vector of futures was moved away
  result,    \* the result of each call
  asked,     \* the calls whose future was asked to cancel before its result
  asking,    \* the index of the next canceler that request_cancel() runs, or 0
  aborted    \* an element of a vector that was moved away was used

futureVars == <<state, told>>
loopVars == <<kind, pc, list, at, inline>>
callbackVars == <<cb, stored, count, triggered, moved, result>>
askVars == <<asked, asking>>
whenVars == <<futureVars, loopVars, callbackVars, askVars, aborted>>

WhenInit(initial) ==
  /\ state = [f \in Futures |-> initial]
  /\ told = {}
  /\ kind = [w \in Whens |-> "all"]
  /\ pc = [w \in Whens |-> "idle"]
  /\ list = [w \in Whens |-> <<>>]
  /\ at = [w \in Whens |-> 1]
  /\ inline = [w \in Whens |-> None]
  /\ cb = [w \in Whens |-> [f \in Futures |-> "none"]]
  /\ stored = [w \in Whens |-> {}]
  /\ count = [w \in Whens |-> 0]
  /\ triggered = {} /\ moved = {}
  /\ result = [w \in Whens |-> "none"]
  /\ asked = {}
  /\ asking = [w \in Whens |-> 0]
  /\ aborted = FALSE

IsAny(w) == kind[w] \in {"any", "auto"}

Pending(fs) == {f \in fs : state[f] = "pending"}

--------------------------------------------------------------------------------
(* The futures *)

\* MUTANT: what was attached to the future is forgotten.
End_Forgets(f) ==
  /\ ~aborted
  /\ state[f] = "pending"
  /\ state' = [state EXCEPT ![f] = "ended"]
  /\ UNCHANGED <<told, loopVars, callbackVars, askVars, aborted>>

\* The future ends, with a value, an error or a cancelation: the callbacks that are
\* attached to it are to run.
End(f) ==
  /\ ~aborted
  /\ state[f] = "pending"
  /\ state' = [state EXCEPT ![f] = "ended"]
  /\ cb' = [w \in Whens |-> IF cb[w][f] = "attached" THEN [cb[w] EXCEPT ![f] = "due"]
                                                     ELSE cb[w]]
  /\ UNCHANGED <<told, loopVars, stored, count, triggered, moved, result, askVars, aborted>>

--------------------------------------------------------------------------------
(* The loop that attaches the callbacks *)

InlineIsOver(w) == inline[w] # None => cb[w][inline[w]] = "over"

\* The loop of when_any() compares its index with the size of the vector that its
\* callback moves away.
Check(w) ==
  /\ ~aborted /\ pc[w] = "looping" /\ IsAny(w) /\ InlineIsOver(w)
  /\ at[w] <= Len(list[w]) /\ w \notin moved
  /\ pc' = [pc EXCEPT ![w] = "reading"]
  /\ UNCHANGED <<futureVars, kind, list, at, inline, callbackVars, askVars, aborted>>

\* then(): the callback runs at once if the future has ended.  The vector of
\* when_all() is its own: its loop needs no check.
Attach(w) ==
  /\ ~aborted
  /\ \/ pc[w] = "reading"
     \/ pc[w] = "looping" /\ ~IsAny(w) /\ InlineIsOver(w) /\ at[w] <= Len(list[w])
  /\ LET f == list[w][at[w]]
         due == state[f] = "ended"
     IN /\ cb' = [cb EXCEPT ![w][f] = IF due THEN "due" ELSE "attached"]
        /\ inline' = [inline EXCEPT ![w] = IF due THEN f ELSE None]
  /\ at' = [at EXCEPT ![w] = @ + 1]
  /\ pc' = [pc EXCEPT ![w] = "looping"]
  /\ UNCHANGED <<futureVars, kind, list, stored, count, triggered, moved, result, askVars, aborted>>

\* A callback on another thread moved the vector of when_any() between the check
\* and the use of its element: the element may be gone.
UseMoved(w) ==
  /\ ~aborted /\ pc[w] = "reading" /\ w \in moved
  /\ aborted' = TRUE
  /\ UNCHANGED <<futureVars, loopVars, callbackVars, askVars>>

LoopIsOver(w) == /\ ~aborted /\ pc[w] = "looping" /\ InlineIsOver(w)
                 /\ at[w] > Len(list[w]) \/ w \in moved

--------------------------------------------------------------------------------
(* The callbacks *)

\* The callback of when_all() puts the future in its place,
Store(w, f) ==
  /\ ~aborted /\ ~IsAny(w) /\ cb[w][f] = "due"
  /\ stored' = [stored EXCEPT ![w] = @ \cup {f}]
  /\ cb' = [cb EXCEPT ![w][f] = "stored"]
  /\ UNCHANGED <<futureVars, loopVars, count, triggered, moved, result, askVars, aborted>>

\* then counts it, and sets the result if it is the last.
Count(w, f) ==
  /\ ~aborted /\ cb[w][f] = "stored"
  /\ count' = [count EXCEPT ![w] = @ + 1]
  /\ result' = [result EXCEPT ![w] = IF count[w] + 1 = Len(list[w]) THEN "all" ELSE @]
  /\ cb' = [cb EXCEPT ![w][f] = "over"]
  /\ UNCHANGED <<futureVars, loopVars, stored, triggered, moved, askVars, aborted>>

\* MUTANT: the winner is decided by a test and a later write.
Trigger_Races(w, f) ==
  /\ ~aborted /\ IsAny(w) /\ cb[w][f] = "due"
  /\ cb' = [cb EXCEPT ![w][f] = IF w \in triggered THEN "over" ELSE "won"]
  /\ triggered' = triggered \cup {v \in {w} : result[w] # "none"}
  /\ UNCHANGED <<futureVars, loopVars, stored, count, moved, result, askVars, aborted>>

\* The callback of when_any(): the first one to exchange "triggered" wins, and
\* cancels the others with auto_cancel,
Trigger(w, f) ==
  /\ ~aborted /\ IsAny(w) /\ cb[w][f] = "due"
  /\ triggered' = triggered \cup {w}
  /\ cb' = [cb EXCEPT ![w][f] = IF w \in triggered THEN "over" ELSE "won"]
  /\ told' = IF kind[w] = "auto" /\ w \notin triggered
             THEN told \cup Pending(Range(list[w]) \ {f}) ELSE told
  /\ UNCHANGED <<state, loopVars, stored, count, moved, result, askVars, aborted>>

\* and moves the vector of futures into the result.
Win(w, f) ==
  /\ ~aborted /\ cb[w][f] = "won"
  /\ result' = [result EXCEPT ![w] = f]
  /\ moved' = moved \cup {w}
  /\ cb' = [cb EXCEPT ![w][f] = "over"]
  /\ UNCHANGED <<futureVars, loopVars, stored, count, triggered, askVars, aborted>>

--------------------------------------------------------------------------------
(* request_cancel() on the future of the call *)

\* A state that has its result has no token: nothing happens then.  The future of
\* terminate() is left out: its own were all canceled before.
Ask(w) ==
  /\ ~aborted /\ pc[w] = "returned" /\ w \notin asked /\ result[w] = "none"
  /\ asked' = asked \cup {w}
  /\ asking' = [asking EXCEPT ![w] = 1]
  /\ UNCHANGED <<futureVars, loopVars, callbackVars, aborted>>

\* MUTANT: the walk stops at a future that has ended.
AskNext_Stops(w) ==
  /\ ~aborted /\ asking[w] > 0
  /\ LET f == list[w][asking[w]]
     IN /\ told' = told \cup Pending({f})
        /\ asking' = [asking EXCEPT ![w] = IF @ < Len(list[w]) /\ state[f] = "pending"
                                           THEN @ + 1 ELSE 0]
  /\ UNCHANGED <<state, loopVars, callbackVars, asked, aborted>>

\* It cancels the futures one after the other.
AskNext(w) ==
  /\ ~aborted /\ asking[w] > 0
  /\ LET f == list[w][asking[w]]
     IN /\ told' = told \cup Pending({f})
        /\ asking' = [asking EXCEPT ![w] = IF @ < Len(list[w]) THEN @ + 1 ELSE 0]
  /\ UNCHANGED <<state, loopVars, callbackVars, asked, aborted>>

WhenStep(w) == \/ Check(w) \/ Attach(w) \/ UseMoved(w) \/ AskNext(w)
               \/ \E f \in Futures : \/ Store(w, f) \/ Count(w, f) \/ Trigger(w, f)
                                     \/ Win(w, f)

================================================================================
