---------------------------------- MODULE Job ----------------------------------
(***************************************************************************)
(* job.hpp: a callback that threads trigger; triggers made before a run     *)
(* starts share it, those made during a run share the next one.             *)
(*                                                                          *)
(* Each trigger extends the chain of futures that ends in _future: the run  *)
(* at its head is in progress, and at most one more waits for it.  All      *)
(* these futures share one cancelation token, that of the very first        *)
(* _future.  A critical section of _mutex is one step; an assert that fails *)
(* and a back() of an empty vector end the program.                         *)
(***************************************************************************)
EXTENDS Naturals, Sequences, SequencesExt

CONSTANT Calls  \* the calls of trigger() and trigger_success()

VARIABLES
  scheduled,  \* _scheduled
  stopping,   \* _stopping
  running,    \* _running
  promises,   \* _successPromises, each named after the call that pushed it
  pending,    \* pendingPromises of the run in progress
  phase,      \* how far the run at the head of the chain is
  linked,     \* its cancelation is reachable from the token of the chain
  outcome,    \* how the latest run ended
  next,       \* another run waits for it
  requested,  \* the flag of the token of the chain
  future,     \* what each call's future waits for, then "ready"
  result,     \* what a future of trigger() is resolved with
  success,    \* the promise that a future of trigger_success() waits for
  began,      \* the calls after which a run began
  canceled,   \* the calls after which, or before which in the run they share,
              \* somebody requested a cancelation
  fulfilled,  \* the promises that were set
  destroyed,  \* the destructor returned
  aborted     \* why the program ended, or "none"

jobVars == <<scheduled, stopping, running, promises, pending>>
runVars == <<phase, linked, outcome, next, requested>>
callVars == <<future, result, success, began, canceled, fulfilled>>
vars == <<jobVars, runVars, callVars, destroyed, aborted>>

Init == /\ scheduled = FALSE /\ stopping = FALSE /\ running = FALSE
        /\ promises = <<>>
        /\ pending = 0
        /\ phase = "none" /\ linked = FALSE /\ outcome = "value" /\ next = FALSE
        /\ requested = FALSE
        /\ future = [u \in Calls |-> "none"]
        /\ result = [u \in Calls |-> "none"]
        /\ success = [u \in Calls |-> "none"]
        /\ began = {} /\ canceled = {} /\ fulfilled = {}
        /\ destroyed = FALSE
        /\ aborted = "none"

Waiting == {u \in Calls : future[u] \in {"head", "next"}}
Made == {u \in Calls : future[u] # "none"}

--------------------------------------------------------------------------------
(* trigger() and trigger_success() *)

\* The future of trigger() is _future: the end of the chain.
Return(u, head, isNext) ==
  IF head = "none"
    THEN /\ future' = [future EXCEPT ![u] = "ready"]
         /\ result' = [result EXCEPT ![u] = outcome]
    ELSE /\ future' = [future EXCEPT ![u] = IF isNext THEN "next" ELSE "head"]
         /\ UNCHANGED result

\* triggerImpl() on a scheduled job does nothing.
TriggerScheduled ==
  /\ scheduled
  /\ UNCHANGED <<scheduled, runVars>>

\* triggerImpl() posts the run at once if the chain is resolved, or attaches it
\* to the run in progress.
TriggerNew ==
  /\ ~scheduled
  /\ scheduled' = TRUE
  /\ IF phase = "none"
       THEN phase' = "queued" /\ linked' = FALSE /\ UNCHANGED next
       ELSE next' = TRUE /\ UNCHANGED <<phase, linked>>
  /\ UNCHANGED <<outcome, requested>>

Trigger(u) ==
  /\ ~stopping /\ future[u] = "none"
  /\ TriggerScheduled \/ TriggerNew
  /\ Return(u, phase', next')
  /\ canceled' = canceled \cup {w \in {u} : scheduled /\ requested /\ phase # "none"}
  /\ UNCHANGED <<stopping, running, promises, pending, success, began, fulfilled,
                 destroyed, aborted>>

\* trigger_success(): a promise is pushed only if the job was not scheduled, and
\* the future is that of back() in any case.
TriggerSuccess(u) ==
  /\ ~stopping /\ future[u] = "none"
  /\ TriggerScheduled \/ TriggerNew
  /\ promises' = IF scheduled THEN promises ELSE Append(promises, u)
  /\ IF promises' = <<>>
       THEN aborted' = "back" /\ UNCHANGED <<future, success>>
       ELSE /\ future' = [future EXCEPT ![u] = "promise"]
            /\ success' = [success EXCEPT ![u] = Last(promises')]
            /\ UNCHANGED aborted
  /\ UNCHANGED <<stopping, running, pending, result, began, canceled, fulfilled,
                 destroyed>>

--------------------------------------------------------------------------------
(* A run *)

\* The task that reschedule() posted was canceled before the executor took it.
CancelQueued(reachable) ==
  IF requested' /\ reachable /\ phase = "queued"
    THEN phase' = "ending" /\ outcome' = "canceled"
    ELSE UNCHANGED <<phase, outcome>>

\* unwrap() pushes the canceler of the run on the token of the chain, which runs
\* it if the token was ever canceled.
Link ==
  /\ phase \notin {"none", "resolved"}
  /\ ~linked
  /\ linked' = TRUE
  /\ UNCHANGED requested
  /\ CancelQueued(TRUE)
  /\ UNCHANGED <<next, jobVars, callVars, destroyed, aborted>>

\* The executor takes the task: it cannot be canceled any more.
Take ==
  /\ phase = "queued"
  /\ phase' = "taken"
  /\ UNCHANGED <<linked, outcome, next, requested, jobVars, callVars, destroyed,
                 aborted>>

\* The first critical section of the task.
Begin ==
  /\ phase = "taken"
  /\ IF ~scheduled \/ (running /\ ~stopping)
       THEN aborted' = "assert" /\ UNCHANGED <<scheduled, running, pending, phase,
                                              outcome, began>>
       ELSE /\ scheduled' = FALSE
            /\ IF stopping
                 THEN /\ phase' = "ending" /\ outcome' = "canceled"
                      /\ UNCHANGED <<running, pending, began>>
                 ELSE /\ phase' = "calling"
                      /\ running' = TRUE /\ pending' = Len(promises)
                      /\ began' = began \cup Made
                      /\ UNCHANGED outcome
            /\ UNCHANGED aborted
  /\ UNCHANGED <<stopping, promises, linked, next, requested, future, result,
                 success, canceled, fulfilled, destroyed>>

\* The callback throws, or returns a future.
CallbackThrows ==
  /\ phase = "calling"
  /\ running' = FALSE
  /\ phase' = "ending" /\ outcome' = "error"
  /\ UNCHANGED <<scheduled, stopping, promises, pending, linked, next, requested,
                 callVars, destroyed, aborted>>

CallbackReturns ==
  /\ phase = "calling"
  /\ phase' = "inner"
  /\ UNCHANGED <<linked, outcome, next, requested, jobVars, callVars, destroyed,
                 aborted>>

FulfilFirst(n) ==
  /\ fulfilled' = fulfilled \cup {promises[i] : i \in 1..n}
  /\ promises' = SubSeq(promises, n + 1, Len(promises))

\* MUTANT: a success fulfils all the promises there are.
FutureEnds_AllPromises(v) ==
  /\ phase = "inner"
  /\ phase' = "ending" /\ outcome' = v
  /\ running' = FALSE
  /\ IF v = "value" THEN FulfilFirst(Len(promises))
                    ELSE UNCHANGED <<promises, fulfilled>>
  /\ UNCHANGED <<scheduled, stopping, pending, linked, next, requested, future,
                 result, success, began, canceled, destroyed, aborted>>

\* The continuation of the callback's future: a value fulfils the promises there
\* were when the run began.
FutureEnds(v) ==
  /\ phase = "inner"
  /\ phase' = "ending" /\ outcome' = v
  /\ running' = FALSE
  /\ IF v = "value" THEN FulfilFirst(pending) ELSE UNCHANGED <<promises, fulfilled>>
  /\ UNCHANGED <<scheduled, stopping, pending, linked, next, requested, future,
                 result, success, began, canceled, destroyed, aborted>>

\* The calls that waited for the head of the chain have its outcome; those that
\* waited for the next run now wait for the head.
Deliver(v) ==
  /\ future' = [u \in Calls |-> CASE future[u] = "head" -> "ready"
                                  [] future[u] = "next" -> "head"
                                  [] OTHER -> future[u]]
  /\ result' = [u \in Calls |-> IF future[u] = "head" THEN v ELSE result[u]]

\* unwrap() pops the canceler and resolves the run.
Resolve ==
  /\ phase = "ending"
  /\ linked
  /\ phase' = IF next THEN "resolved" ELSE "none"
  /\ next' = FALSE
  /\ Deliver(outcome)
  /\ UNCHANGED <<linked, outcome, requested, jobVars, success, began, canceled,
                 fulfilled, destroyed, aborted>>

\* MUTANT: a stopping job forgets the run that waits.
BeginNext_Forgets ==
  /\ phase = "resolved"
  /\ ~stopping
  /\ phase' = "queued" /\ linked' = FALSE
  /\ UNCHANGED <<outcome, next, requested, jobVars, callVars, destroyed, aborted>>

\* The continuation on the previous run: it posts the task, unless the job is
\* being destroyed.
BeginNext ==
  /\ phase = "resolved"
  /\ IF ~scheduled
       THEN aborted' = "assert" /\ UNCHANGED <<phase, linked, outcome>>
       ELSE /\ IF stopping
                 THEN phase' = "ending" /\ outcome' = "canceled" /\ linked' = TRUE
                 ELSE phase' = "queued" /\ linked' = FALSE /\ UNCHANGED outcome
            /\ UNCHANGED aborted
  /\ UNCHANGED <<next, requested, jobVars, callVars, destroyed>>

--------------------------------------------------------------------------------
(* Cancelation and destruction *)

\* request_cancel() on the future of a call, or by the destructor on _future,
\* reaches the one token of the chain.
Request ==
  /\ requested' = TRUE
  /\ canceled' = canceled \cup Made
  /\ CancelQueued(linked)

Cancel(u) ==
  /\ u \in Waiting
  /\ Request
  /\ UNCHANGED <<linked, next, jobVars, future, result, success, began, fulfilled,
                 destroyed, aborted>>

\* ~job(): the critical section, then request_cancel().
Stop ==
  /\ ~stopping
  /\ stopping' = TRUE
  /\ UNCHANGED <<scheduled, running, promises, pending, runVars, callVars, destroyed,
                 aborted>>

StopCancel ==
  /\ stopping /\ ~destroyed
  /\ phase # "none"
  /\ Request
  /\ UNCHANGED <<linked, next, jobVars, future, result, success, began, fulfilled,
                 destroyed, aborted>>

\* MUTANT: the destructor waits for the run in progress only.
Destroy_HeadOnly ==
  /\ stopping /\ ~destroyed
  /\ phase \in {"none", "resolved"}
  /\ destroyed' = TRUE
  /\ UNCHANGED <<jobVars, runVars, callVars, aborted>>

\* `fut.wait()` returns once the end of the chain is resolved.
Destroy ==
  /\ stopping /\ ~destroyed
  /\ phase = "none"
  /\ destroyed' = TRUE
  /\ UNCHANGED <<jobVars, runVars, callVars, aborted>>

--------------------------------------------------------------------------------

RunStep == \/ Link \/ Take \/ Begin \/ CallbackThrows \/ CallbackReturns
           \/ (\E v \in {"value", "error", "canceled"} : FutureEnds(v))
           \/ Resolve \/ BeginNext

Rest == /\ destroyed \/ aborted # "none"
        /\ UNCHANGED vars

Next == \/ /\ aborted = "none"
           /\ \/ \E u \in Calls : Trigger(u) \/ TriggerSuccess(u) \/ Cancel(u)
              \/ RunStep
              \/ Stop \/ StopCancel \/ Destroy
        \/ Rest

SafeSpec == Init /\ [][Next]_vars

\* The executor runs what it was given, the callback and its future end, and a
\* thread inside the destructor goes on.
Fairness == /\ WF_vars(aborted = "none" /\ RunStep)
            /\ WF_vars(aborted = "none" /\ Link)
            /\ WF_vars(aborted = "none" /\ Destroy)

Spec == SafeSpec /\ Fairness

--------------------------------------------------------------------------------
(* Properties *)

\* assert(_scheduled) and assert(!_running): there is never a run that nobody
\* scheduled, or that overlaps another.
AssertsHold == aborted # "assert"

\* "a future that will finish when the job has run once from begin to end after
\* the call to trigger": if it has a value, a run began after the call.
ValueMeansRan == \A u \in Calls : result[u] = "value" => u \in began

\* A promise of trigger_success() is fulfilled by a run that began after the call
\* that pushed it.
PromiseMeansRan == fulfilled \subseteq began

\* Whatever a caller is told of, a value or a success, is of a run that began after
\* his call, and runs do not overlap.
RunsAreHonest == AssertsHold /\ ValueMeansRan /\ PromiseMeansRan

\* When the destructor returned, no run touches the job any more, and none waits.
DestroyedIsQuiet == destroyed => phase = "none" /\ ~next /\ ~running

\* The future of every trigger gets ready, with a run or without.
TriggerReturns ==
  \A u \in Calls : (u \in Waiting) ~> (future[u] = "ready" \/ aborted = "back")

\* Not so (README, Known disagreements): "a future that will finish when the job
\* has run once from begin to end after the call to trigger" (trigger): it does not
\* finish without a run unless somebody canceled it, or the run it shares.
ReadyMeansRan ==
  \A u \in Calls : future[u] = "ready" /\ u \notin canceled => u \in began

\* Not so (README, Known disagreements): "Same as trigger(), but the future
\* will finish only when the job has run once without error" (trigger_success): a run
\* that began after the call.
SuccessMeansRan == \A u \in Calls : success[u] \in fulfilled => u \in began

--------------------------------------------------------------------------------
(* The inductive invariant: why the asserts hold and values are honest *)

Phases == {"none", "queued", "taken", "calling", "inner", "ending", "resolved"}

TypeInv == /\ scheduled \in BOOLEAN /\ stopping \in BOOLEAN /\ running \in BOOLEAN
           /\ promises \in Seq(Calls) /\ pending \in Nat
           /\ phase \in Phases /\ next \in BOOLEAN
           /\ outcome \in {"value", "error", "canceled"}
           /\ future \in [Calls -> {"none", "head", "next", "promise", "ready"}]
           /\ result \in [Calls -> {"none", "value", "error", "canceled"}]
           /\ began \subseteq Calls

\* _running is the body of a run; _scheduled covers exactly the run that is not
\* taken yet, but for a run canceled in its queue, which nothing follows.
ScheduleInv ==
  /\ running <=> phase \in {"calling", "inner"}
  /\ phase \in {"queued", "taken", "resolved"} => scheduled /\ ~next
  /\ phase \in {"calling", "inner"} /\ scheduled => next
  /\ next => scheduled /\ phase \in {"calling", "inner", "ending"}
  /\ phase \in {"none", "ending"} /\ scheduled /\ ~next => outcome = "canceled"

\* The run at the head called the callback, and may have a value.
Began == \/ phase \in {"calling", "inner"}
         \/ phase = "ending" /\ outcome = "value"

\* Whoever waits for the head of the chain while it runs called before it began.
BeganInv ==
  /\ \A u \in Calls :
       /\ future[u] = "next" => next
       /\ future[u] = "head" => phase # "none"
       /\ future[u] = "head" /\ Began => u \in began
  /\ \A i \in DOMAIN promises : future[promises[i]] = "promise"
  /\ phase \in {"calling", "inner"} =>
       /\ pending <= Len(promises)
       /\ \A i \in 1..pending : promises[i] \in began

DestroyInv == destroyed => stopping /\ phase = "none"

IndInv == /\ TypeInv /\ ScheduleInv /\ BeganInv /\ DestroyInv
          /\ AssertsHold /\ ValueMeansRan /\ PromiseMeansRan
================================================================================
