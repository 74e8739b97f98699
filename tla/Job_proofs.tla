------------------------------- MODULE Job_proofs -------------------------------
(* Theorems about Job, for any number of calls. *)
EXTENDS Job, TLAPS

\* The first state.
LEMMA InitInv == Init => IndInv
  <1>. SUFFICES ASSUME Init PROVE IndInv
    OBVIOUS
  <1>1. promises \in Seq(Calls) /\ DOMAIN promises = {}
    BY DEF Init
  <1>2. TypeInv
    BY <1>1 DEF Init, TypeInv, Phases
  <1>3. BeganInv
    BY <1>1 DEF Init, BeganInv, Began
  <1>. QED
    BY <1>2, <1>3 DEF Init, IndInv, ScheduleInv, DestroyInv, AssertsHold, ValueMeansRan,
                      PromiseMeansRan

\* A trigger, with a promise or without.
LEMMA TriggerStep ==
  ASSUME IndInv, NEW u \in Calls, Trigger(u) \/ TriggerSuccess(u), aborted = "none"
  PROVE  IndInv'
  <1>. USE DEF IndInv, TypeInv, ScheduleInv, Phases
  <1>1. /\ ~stopping /\ future[u] = "none"
        /\ TriggerScheduled \/ TriggerNew
        /\ UNCHANGED <<stopping, running, pending, began, fulfilled, destroyed, outcome>>
        /\ Trigger(u) => UNCHANGED <<promises, success, aborted>>
        /\ TriggerSuccess(u) => UNCHANGED result
    BY DEF Trigger, TriggerSuccess, TriggerScheduled, TriggerNew, runVars
  <1>2. ScheduleInv'
    BY <1>1 DEF TriggerScheduled, TriggerNew, runVars
  <1>3. /\ phase \in {"calling", "inner", "ending", "taken", "resolved"} => phase' = phase
        /\ phase' = phase \/ (phase = "none" /\ phase' = "queued")
        /\ next => next'
        /\ phase' # "none" \/ (phase = "none" /\ scheduled /\ ~next)
        /\ phase' \in {"calling", "inner"} \/ (phase' = "ending" /\ outcome = "value")
             => next'
    BY <1>1 DEF TriggerScheduled, TriggerNew, runVars
  <1>4. CASE Trigger(u)
    <2>1. Return(u, phase', next')
      BY <1>4 DEF Trigger
    <2>2. /\ future' \in [Calls -> {"none", "head", "next", "promise", "ready"}]
          /\ result' \in [Calls -> {"none", "value", "error", "canceled"}]
          /\ \A w \in Calls : w # u => future'[w] = future[w] /\ result'[w] = result[w]
          /\ phase' = "none" => future'[u] = "ready" /\ result'[u] = outcome
          /\ phase' # "none" => /\ result' = result
                                /\ future'[u] = IF next' THEN "next" ELSE "head"
      BY <2>1 DEF Return
    <2>3. TypeInv'
      BY <1>1, <1>3, <1>4, <2>2 DEF TriggerScheduled, TriggerNew, runVars
    <2>4. BeganInv'
      BY <1>1, <1>3, <1>4, <2>2 DEF BeganInv, Began
    <2>5. (AssertsHold /\ ValueMeansRan /\ PromiseMeansRan /\ DestroyInv)'
      BY <1>1, <1>3, <1>4, <2>2 DEF AssertsHold, ValueMeansRan, PromiseMeansRan, DestroyInv
    <2>. QED  BY <1>2, <2>3, <2>4, <2>5
  <1>5. CASE TriggerSuccess(u)
    <2>1. /\ promises' \in Seq(Calls)
          /\ Len(promises) <= Len(promises')
          /\ \A i \in DOMAIN promises : promises'[i] = promises[i]
          /\ \A i \in DOMAIN promises' : i \in DOMAIN promises \/ promises'[i] = u
      BY <1>5 DEF TriggerSuccess
    <2>2. /\ future' \in [Calls -> {"none", "head", "next", "promise", "ready"}]
          /\ \A w \in Calls : w # u => future'[w] = future[w]
          /\ promises' = <<>> => future' = future
          /\ promises' # <<>> => future'[u] = "promise"
          /\ aborted' \in {"none", "back"}
      BY <1>5 DEF TriggerSuccess
    <2>3. TypeInv'
      BY <1>1, <1>3, <2>1, <2>2, <1>5 DEF TriggerScheduled, TriggerNew, runVars
    <2>4. BeganInv'
      <3>1. \A w \in Calls :
              /\ (future[w] = "next" => next)'
              /\ (future[w] = "head" => phase # "none")'
              /\ (future[w] = "head" /\ Began => w \in began)'
        BY <1>1, <1>3, <2>2 DEF BeganInv, Began
      <3>2. \A i \in DOMAIN promises' : future'[promises'[i]] = "promise"
        BY <1>1, <2>1, <2>2 DEF BeganInv
      <3>3. (phase \in {"calling", "inner"} =>
               /\ pending <= Len(promises)
               /\ \A i \in 1..pending : promises[i] \in began)'
        BY <1>1, <1>3, <2>1 DEF BeganInv
      <3>. QED  BY <3>1, <3>2, <3>3 DEF BeganInv
    <2>5. (AssertsHold /\ ValueMeansRan /\ PromiseMeansRan /\ DestroyInv)'
      BY <1>1, <1>3, <1>5, <2>2 DEF AssertsHold, ValueMeansRan, PromiseMeansRan, DestroyInv
    <2>. QED  BY <1>2, <2>3, <2>4, <2>5
  <1>. QED  BY <1>4, <1>5

\* The steps that a run takes before its callback is called, and the requests.
LEMMA QueueStep ==
  ASSUME IndInv, Link \/ Take \/ BeginNext \/ StopCancel \/ \E u \in Calls : Cancel(u)
  PROVE  IndInv'
  <1>. USE DEF IndInv, TypeInv, ScheduleInv, BeganInv, Began, DestroyInv, Phases,
               AssertsHold, ValueMeansRan, PromiseMeansRan, jobVars, callVars
  <1>1. CASE Link
    BY <1>1 DEF Link, CancelQueued
  <1>2. CASE Take
    BY <1>2 DEF Take
  <1>3. CASE BeginNext
    BY <1>3 DEF BeginNext
  <1>4. CASE StopCancel \/ \E u \in Calls : Cancel(u)
    BY <1>4 DEF StopCancel, Cancel, Request, CancelQueued
  <1>. QED  BY <1>1, <1>2, <1>3, <1>4

\* The first critical section of the task: whoever called by now has a run that
\* began afterwards.
LEMMA BeginStep ==
  ASSUME IndInv, Begin
  PROVE  IndInv'
  <1>. USE DEF IndInv, TypeInv, ScheduleInv, Phases
  <1>1. /\ phase = "taken" /\ scheduled /\ ~running /\ ~next
        /\ scheduled' = FALSE
        /\ UNCHANGED <<stopping, promises, next, future, result, fulfilled, destroyed,
                       aborted>>
    BY DEF Begin
  <1>2. CASE stopping
    <2>1. /\ phase' = "ending" /\ outcome' = "canceled"
          /\ UNCHANGED <<running, pending, began>>
      BY <1>1, <1>2 DEF Begin
    <2>2. TypeInv' /\ ScheduleInv'
      BY <1>1, <2>1
    <2>3. BeganInv'
      BY <1>1, <2>1 DEF BeganInv, Began
    <2>. QED
      BY <1>1, <1>2, <2>1, <2>2, <2>3
         DEF DestroyInv, AssertsHold, ValueMeansRan, PromiseMeansRan
  <1>3. CASE ~stopping
    <2>1. /\ phase' = "calling" /\ running' = TRUE /\ pending' = Len(promises)
          /\ began' = began \cup Made /\ outcome' = outcome
      BY <1>1, <1>3 DEF Begin
    <2>2. began' \subseteq Calls /\ pending' \in Nat
      BY <2>1 DEF Made
    <2>3. TypeInv'
      BY <1>1, <2>1, <2>2
    <2>4. ScheduleInv'
      BY <1>1, <2>1
    <2>5. BeganInv'
      <3>1. \A u \in Calls : future[u] # "none" => u \in began'
        BY <2>1 DEF Made
      <3>2. \A i \in DOMAIN promises : promises[i] \in began'
        BY <3>1 DEF BeganInv
      <3>. QED  BY <1>1, <2>1, <3>1, <3>2 DEF BeganInv, Began
    <2>. QED
      BY <1>1, <2>1, <2>3, <2>4, <2>5
         DEF DestroyInv, AssertsHold, ValueMeansRan, PromiseMeansRan
  <1>. QED  BY <1>2, <1>3

\* The callback and its future: a value fulfils promises that the run began after.
LEMMA BodyStep ==
  ASSUME IndInv,
         CallbackThrows \/ CallbackReturns
           \/ \E v \in {"value", "error", "canceled"} : FutureEnds(v)
  PROVE  IndInv'
  <1>. USE DEF IndInv, TypeInv, ScheduleInv, Began, DestroyInv, Phases,
               AssertsHold, ValueMeansRan, PromiseMeansRan
  <1>1. CASE CallbackThrows \/ CallbackReturns
    <2>1. /\ phase = "calling" /\ phase' \in {"inner", "ending"}
          /\ running' = (phase' = "inner")
          /\ outcome' = IF phase' = "inner" THEN outcome ELSE "error"
          /\ UNCHANGED <<scheduled, stopping, promises, pending, next, callVars,
                         destroyed, aborted>>
      BY <1>1 DEF CallbackThrows, CallbackReturns, jobVars
    <2>2. TypeInv' /\ ScheduleInv'
      BY <2>1 DEF callVars
    <2>3. BeganInv'
      BY <2>1 DEF BeganInv, callVars
    <2>. QED  BY <2>1, <2>2, <2>3 DEF callVars
  <1>2. ASSUME NEW v \in {"value", "error", "canceled"}, FutureEnds(v)
        PROVE  IndInv'
    <2>1. /\ phase = "inner" /\ phase' = "ending" /\ outcome' = v /\ running' = FALSE
          /\ UNCHANGED <<scheduled, stopping, pending, next, future, result, began,
                         destroyed, aborted>>
      BY <1>2 DEF FutureEnds
    <2>2. pending <= Len(promises) /\ \A i \in 1..pending : promises[i] \in began
      BY <2>1 DEF BeganInv
    <2>3. CASE v # "value"
      <3>1. UNCHANGED <<promises, fulfilled>>
        BY <1>2, <2>3 DEF FutureEnds
      <3>2. TypeInv' /\ ScheduleInv'
        BY <2>1, <3>1
      <3>3. BeganInv'
        BY <2>1, <2>3, <3>1 DEF BeganInv
      <3>. QED  BY <2>1, <3>1, <3>2, <3>3
    <2>4. CASE v = "value"
      <3>1. /\ promises' = SubSeq(promises, pending + 1, Len(promises))
            /\ fulfilled' = fulfilled \cup {promises[i] : i \in 1..pending}
        BY <1>2, <2>4 DEF FutureEnds, FulfilFirst
      <3>2. /\ promises' \in Seq(Calls)
            /\ \A i \in DOMAIN promises' :
                 pending + i \in DOMAIN promises /\ promises'[i] = promises[pending + i]
        BY <2>2, <3>1
      <3>3. fulfilled' \subseteq began
        BY <2>2, <3>1
      <3>4. TypeInv' /\ ScheduleInv'
        BY <2>1, <3>2
      <3>5. BeganInv'
        BY <2>1, <3>2 DEF BeganInv
      <3>. QED  BY <2>1, <3>3, <3>4, <3>5
    <2>. QED  BY <2>3, <2>4
  <1>. QED  BY <1>1, <1>2

\* The end of a run: those who waited for the head have its outcome.
LEMMA ResolveStep ==
  ASSUME IndInv, Resolve
  PROVE  IndInv'
  <1>. USE DEF IndInv, TypeInv, ScheduleInv, Phases
  <1>1. /\ phase = "ending" /\ next' = FALSE
        /\ phase' = IF next THEN "resolved" ELSE "none"
        /\ UNCHANGED <<outcome, jobVars, began, fulfilled, destroyed, aborted>>
        /\ Deliver(outcome)
    BY DEF Resolve
  <1>2. /\ future' \in [Calls -> {"none", "head", "next", "promise", "ready"}]
        /\ \A u \in Calls :
             /\ future'[u] = "head" => future[u] = "next"
             /\ future'[u] # "next"
             /\ future[u] = "promise" => future'[u] = "promise"
    BY <1>1 DEF Deliver
  <1>3. /\ result' \in [Calls -> {"none", "value", "error", "canceled"}]
        /\ \A u \in Calls :
             result'[u] = result[u] \/ (future[u] = "head" /\ result'[u] = outcome)
    BY <1>1 DEF Deliver
  <1>4. TypeInv' /\ ScheduleInv'
    BY <1>1, <1>2, <1>3 DEF jobVars
  <1>5. BeganInv'
    BY <1>1, <1>2 DEF BeganInv, Began, jobVars
  <1>6. ValueMeansRan'
    BY <1>1, <1>3 DEF ValueMeansRan, BeganInv, Began
  <1>. QED
    BY <1>1, <1>4, <1>5, <1>6 DEF DestroyInv, AssertsHold, PromiseMeansRan, jobVars

\* The destructor, and a program that is over.
LEMMA EndStep ==
  ASSUME IndInv, Stop \/ Destroy \/ UNCHANGED vars
  PROVE  IndInv'
  <1>1. /\ UNCHANGED <<scheduled, running, promises, pending, runVars, callVars, aborted>>
        /\ stopping' \in BOOLEAN
        /\ destroyed' => destroyed \/ (stopping /\ phase = "none")
        /\ stopping => stopping'
    <2>1. CASE Stop
      BY <2>1 DEF Stop
    <2>2. CASE Destroy \/ UNCHANGED vars
      BY <2>2 DEF Destroy, vars, jobVars, IndInv, TypeInv
    <2>. QED  BY <2>1, <2>2
  <1>2. TypeInv' /\ ScheduleInv'
    BY <1>1 DEF IndInv, TypeInv, ScheduleInv, Phases, runVars, callVars
  <1>3. BeganInv'
    BY <1>1 DEF IndInv, BeganInv, Began, runVars, callVars
  <1>4. (DestroyInv /\ AssertsHold /\ ValueMeansRan /\ PromiseMeansRan)'
    BY <1>1 DEF IndInv, DestroyInv, AssertsHold, ValueMeansRan, PromiseMeansRan, runVars,
                callVars
  <1>. QED  BY <1>2, <1>3, <1>4 DEF IndInv

\* The inductive invariant holds throughout.
THEOREM Invariance == SafeSpec => []IndInv
  <1>1. IndInv /\ [Next]_vars => IndInv'
    BY TriggerStep, QueueStep, BeginStep, BodyStep, ResolveStep, EndStep
       DEF Next, RunStep, Rest
  <1>. QED  BY InitInv, <1>1, PTL DEF SafeSpec

\* assert(_scheduled) and assert(!_running) never fail: runs do not overlap.
THEOREM RunsAreScheduled == SafeSpec => []AssertsHold
  BY Invariance, PTL DEF IndInv

\* A value given to trigger()'s caller comes from a run that began after the call.
THEOREM ValuesAreFresh == SafeSpec => []ValueMeansRan
  BY Invariance, PTL DEF IndInv

\* A run fulfils promises that were pushed before it began.
THEOREM PromisesAreFresh == SafeSpec => []PromiseMeansRan
  BY Invariance, PTL DEF IndInv

\* A caller is told of nothing but runs that began after his call.
THEOREM Honesty == SafeSpec => []RunsAreHonest
  BY RunsAreScheduled, ValuesAreFresh, PromisesAreFresh, PTL DEF RunsAreHonest

\* Nothing of a job runs or waits once its destructor returned.
THEOREM DestructionIsQuiet == SafeSpec => []DestroyedIsQuiet
  <1>1. IndInv => DestroyedIsQuiet
    BY DEF IndInv, TypeInv, ScheduleInv, DestroyInv, DestroyedIsQuiet
  <1>. QED  BY Invariance, <1>1, PTL
================================================================================
