---------------------------- MODULE Results_proofs -----------------------------
(* Proofs about the two ways in which a result gets to who waits for it: the state that a promise and
its futures share, and the receivers of a chain of lazy senders.  Each has a section of its own. *)
EXTENDS SharedState, LazyTasks, FiniteSetTheorems, TLAPS

--------------------------------------------------------------------------------
(* The shared state: for any finite set of promises, and any number of continuations and of waiters. *)

\* The promises that own the state are finitely many, and the counter is zero
\* exactly when there is none.
LEMMA LiveFinite == /\ IsFiniteSet(Live)
                    /\ Cardinality(Live) \in Nat
                    /\ Cardinality(Live) = 0 <=> Live = {}
  <1>1. Live \subseteq Promises  BY DEF Live
  <1>2. IsFiniteSet(Live)  BY <1>1, PromisesAssumption, FS_Subset
  <1>. QED  BY <1>2, FS_CardinalityType, FS_EmptySet

\* Only one owner: it is the last.
LEMMA LastOwner ==
  ASSUME NEW p \in Live
  PROVE  Cardinality(Live) = 1 <=> Live = {p}
  <1>1. IsFiniteSet(Live)  BY LiveFinite
  <1>2. Cardinality(Live \ {p}) = Cardinality(Live) - 1
    BY <1>1, FS_RemoveElement
  <1>3. IsFiniteSet(Live \ {p})  BY <1>1, FS_Subset
  <1>4. Cardinality(Live \ {p}) = 0 <=> Live \ {p} = {}
    BY <1>3, FS_EmptySet
  <1>5. Cardinality(Live) \in Nat  BY LiveFinite
  <1>. QED  BY <1>2, <1>4, <1>5

--------------------------------------------------------------------------------
(* How each step moves the set of owners *)

\* An increment_promise() that succeeds adds one owner.
LEMMA LiveIncrement ==
  ASSUME TypeOK, CopyInv, NEW q \in Promises, IncrementDone(q)
  PROVE  Live' = Live \cup {q} /\ q \notin Live
  <1>. QED
    BY DEF TypeOK, CopyInv, IncrementDone, EndIncrement, Live, Owns, Finishing,
           PCs

\* A decrement_promise() removes the one that ran it.
LEMMA LiveDecrement ==
  ASSUME TypeOK, NEW p \in Promises, Decrement(p)
  PROVE  Live' = Live \ {p} /\ p \in Live
  <1>. QED
    BY DEF TypeOK, Decrement, Live, Owns, Finishing, PCs

\* A step that moves no promise between owning and not owning keeps the owners.
LEMMA LiveSame ==
  ASSUME TypeOK, CopyInv,
         \/ \E p, q \in Promises : CopyBegin(q, p)
         \/ \E p \in Promises : \/ TryLockBegin(p) \/ IncrementRetry(p)
                                \/ IncrementFails(p) \/ CheckBroken(p)
                                \/ Finish(p)
         \/ \E p \in Promises, v \in {"value", "exception"} : SetResult(p, v)
         \/ UNCHANGED promiseVars
  PROVE  Live' = Live
  <1>1. ASSUME NEW p \in Promises, NEW q \in Promises, CopyBegin(q, p)
        PROVE  Live' = Live
    BY <1>1 DEF TypeOK, CopyBegin, Live, Owns, Finishing, PCs
  <1>2. ASSUME NEW p \in Promises, TryLockBegin(p) \/ IncrementRetry(p)
        PROVE  Live' = Live
    BY <1>2 DEF TypeOK, TryLockBegin, IncrementRetry, Live, Owns, Finishing, PCs
  <1>3. ASSUME NEW p \in Promises, IncrementFails(p)
        PROVE  Live' = Live
    BY <1>3 DEF TypeOK, CopyInv, IncrementFails, EndIncrement, Live, Owns,
                Finishing, PCs
  <1>4. ASSUME NEW p \in Promises, CheckBroken(p)
        PROVE  Live' = Live
    BY <1>4 DEF TypeOK, CheckBroken, Live, Owns, Finishing, PCs
  <1>5. ASSUME NEW p \in Promises, Finish(p)
        PROVE  Live' = Live
    <2>lock. CASE FinishLock(p)
      BY <2>lock DEF TypeOK, FinishLock, Live, Owns, Finishing, PCs
    <2>stores. CASE FinishSetVal(p)
      BY <2>stores DEF TypeOK, FinishSetVal, Live, Owns, Finishing, PCs
    <2>swap. CASE FinishSwap(p)
      BY <2>swap DEF TypeOK, FinishSwap, Live, Owns, Finishing, PCs
    <2>notify. CASE FinishNotify(p)
      BY <2>notify DEF TypeOK, FinishNotify, Live, Owns, Finishing, PCs
    <2>post. CASE FinishPost(p)
      BY <2>post DEF TypeOK, FinishPost, Live, Owns, Finishing, PCs
    <2>returns. CASE FinishReturn(p)
      BY <2>returns DEF TypeOK, FinishReturn, Live, Owns, Finishing, PCs
    <2>. QED  BY <1>5, <2>lock, <2>stores, <2>swap, <2>notify, <2>post, <2>returns DEF Finish
  <1>6. ASSUME NEW p \in Promises, NEW v \in {"value", "exception"},
               SetResult(p, v)
        PROVE  Live' = Live
    BY <1>6 DEF TypeOK, SetResult, Live, Owns, Finishing, PCs
  <1>7. ASSUME UNCHANGED promiseVars
        PROVE  Live' = Live
    BY <1>7 DEF promiseVars, Live, Owns
  <1>. QED  BY <1>1, <1>2, <1>3, <1>4, <1>5, <1>6, <1>7

\* Every step is one of these; the steps that leave the promises alone first.
FutureStep == \/ \E c \in Conts : Then(c) \/ ThenPost(c)
              \/ \E w \in Waiters :
                   WaitTest(w) \/ SpuriousWakeup(w) \/ WaitTimeout(w)
              \/ UNCHANGED vars

\* The steps of the futures leave the promises alone.
LEMMA FutureStepKeepsPromises ==
  ASSUME FutureStep
  PROVE  UNCHANGED promiseVars /\ r' = r /\ locked' = locked
  <1>. QED
    BY DEF FutureStep, Then, ThenPost, WaitTest, SpuriousWakeup, WaitTimeout, vars, promiseVars

\* The steps of the promises and of the futures, one disjunct each.
LEMMA StateSteps ==
  ASSUME [Next]_vars
  PROVE  \/ \E p, q \in Promises : CopyBegin(q, p)
         \/ \E p \in Promises : \/ TryLockBegin(p) \/ IncrementDone(p)
                                \/ IncrementRetry(p) \/ IncrementFails(p)
                                \/ Decrement(p) \/ CheckBroken(p)
                                \/ FinishLock(p) \/ FinishSetVal(p)
                                \/ FinishSwap(p) \/ FinishNotify(p)
                                \/ FinishPost(p) \/ FinishReturn(p)
         \/ \E p \in Promises, v \in {"value", "exception"} : SetResult(p, v)
         \/ FutureStep
  <1>. QED  BY DEF Next, PromiseStep, Increment, Finish, FutureStep, Finished

--------------------------------------------------------------------------------
(* Each part of the invariant is kept by every step *)

\* Every step keeps the types.
LEMMA TypeStep ==
  ASSUME IndInv, [Next]_vars
  PROVE  TypeOK'
  <1>. USE DEF IndInv, TypeOK, PCs, Finishing, Results, contVars, waitVars,
               promiseVars
  <1>1. ASSUME NEW p \in Promises, NEW q \in Promises, CopyBegin(q, p)
        PROVE  TypeOK'
    BY <1>1 DEF CopyBegin
  <1>2. ASSUME NEW p \in Promises, TryLockBegin(p) \/ IncrementRetry(p)
        PROVE  TypeOK'
    BY <1>2 DEF TryLockBegin, IncrementRetry
  <1>3. ASSUME NEW p \in Promises, IncrementDone(p) \/ IncrementFails(p)
        PROVE  TypeOK'
    BY <1>3 DEF IncrementDone, IncrementFails, EndIncrement
  <1>4. ASSUME NEW p \in Promises, Decrement(p)
        PROVE  TypeOK'
    <2>1. Live # {}  BY <1>4, LiveDecrement
    <2>2. count - 1 \in Nat  BY <2>1, LiveFinite DEF CountInv
    <2>. QED  BY <1>4, <2>2 DEF Decrement
  <1>5. ASSUME NEW p \in Promises, CheckBroken(p) \/ FinishLock(p) \/
               FinishSetVal(p)
        PROVE  TypeOK'
    BY <1>5 DEF CheckBroken, FinishLock, FinishSetVal
  <1>6. ASSUME NEW p \in Promises, FinishSwap(p) \/ FinishNotify(p) \/
               FinishReturn(p)
        PROVE  TypeOK'
    BY <1>6 DEF FinishSwap, FinishNotify, FinishReturn
  <1>7. ASSUME NEW p \in Promises, FinishPost(p)
        PROVE  TypeOK'
    BY <1>7 DEF FinishPost
  <1>8. ASSUME NEW p \in Promises, NEW v \in {"value", "exception"},
               SetResult(p, v)
        PROVE  TypeOK'
    BY <1>8 DEF SetResult
  <1>9. ASSUME NEW c \in Conts, Then(c) \/ ThenPost(c)
        PROVE  TypeOK'
    BY <1>9 DEF Then, ThenPost
  <1>10. ASSUME NEW w \in Waiters,
                WaitTest(w) \/ SpuriousWakeup(w) \/ WaitTimeout(w)
         PROVE  TypeOK'
    BY <1>10 DEF WaitTest, SpuriousWakeup, WaitTimeout
  <1>11. CASE UNCHANGED vars
    BY <1>11 DEF vars
  <1>. QED
    BY StateSteps, <1>1, <1>2, <1>3, <1>4, <1>5, <1>6, <1>7, <1>8, <1>9, <1>10, <1>11
       DEF FutureStep

\* Every step keeps _promise_count equal to the number of owners.
LEMMA CountStep ==
  ASSUME IndInv, [Next]_vars
  PROVE  CountInv'
  <1>. USE DEF IndInv
  <1>1. ASSUME NEW p \in Promises, IncrementDone(p)
        PROVE  CountInv'
    <2>1. Live' = Live \cup {p} /\ p \notin Live  BY <1>1, LiveIncrement
    <2>2. Cardinality(Live') = Cardinality(Live) + 1
      BY <2>1, LiveFinite, FS_AddElement
    <2>. QED  BY <1>1, <2>2 DEF CountInv, IncrementDone
  <1>2. ASSUME NEW p \in Promises, Decrement(p)
        PROVE  CountInv'
    <2>1. Live' = Live \ {p} /\ p \in Live  BY <1>2, LiveDecrement
    <2>2. Cardinality(Live') = Cardinality(Live) - 1
      BY <2>1, LiveFinite, FS_RemoveElement
    <2>. QED  BY <1>2, <2>2 DEF CountInv, Decrement
  <1>3. ASSUME Live' = Live, count' = count
        PROVE  CountInv'
    BY <1>3 DEF CountInv
  <1>4. ASSUME NEW p \in Promises, NEW q \in Promises, CopyBegin(q, p)
        PROVE  CountInv'
    BY <1>3, <1>4, LiveSame DEF CopyBegin
  <1>5. ASSUME NEW p \in Promises,
               \/ TryLockBegin(p) \/ IncrementRetry(p) \/ IncrementFails(p)
               \/ CheckBroken(p)
        PROVE  CountInv'
    <2>1. Live' = Live  BY <1>5, LiveSame
    <2>. QED
      BY <1>3, <1>5, <2>1
         DEF TryLockBegin, IncrementRetry, IncrementFails, CheckBroken
  <1>6. ASSUME NEW p \in Promises, Finish(p)
        PROVE  CountInv'
    <2>1. Live' = Live  BY <1>6, LiveSame
    <2>. QED
      BY <1>3, <1>6, <2>1
         DEF Finish, FinishLock, FinishSetVal, FinishSwap, FinishNotify,
             FinishPost, FinishReturn
  <1>7. ASSUME NEW p \in Promises, NEW v \in {"value", "exception"},
               SetResult(p, v)
        PROVE  CountInv'
    BY <1>3, <1>7, LiveSame DEF SetResult
  <1>8. CASE FutureStep
    BY <1>3, <1>8, FutureStepKeepsPromises, LiveSame DEF promiseVars
  <1>. QED
    BY StateSteps, <1>1, <1>2, <1>4, <1>5, <1>6, <1>7, <1>8 DEF Finish

\* Every step keeps the owner that a copy in progress copies, one at a time.
LEMMA CopyStep ==
  ASSUME IndInv, [Next]_vars
  PROVE  CopyInv'
  <1>. USE DEF IndInv, TypeOK, PCs, Finishing, CopyInv
  <1>. DEFINE Untouched ==
                \A p \in Promises :
                  /\ pc[p] \in {"copying", "lending"} => pc'[p] = pc[p]
                  /\ pc'[p] \in {"copying", "copy_failed"} => pc'[p] = pc[p]
  <1>2. ASSUME NEW p \in Promises, pc[p] \in {"held", "lending"}
        PROVE  count # 0
    BY <1>2, LiveFinite DEF CountInv, Live, Owns
  <1>3. ASSUME Untouched, source' = source, seen' = seen
        PROVE  CopyInv'
    BY <1>3
  <1>4. ASSUME NEW p \in Promises, NEW q \in Promises, CopyBegin(q, p)
        PROVE  CopyInv'
    BY <1>2, <1>4 DEF CopyBegin
  <1>5. ASSUME NEW p \in Promises, TryLockBegin(p)
        PROVE  CopyInv'
    BY <1>5 DEF TryLockBegin
  <1>6. ASSUME NEW p \in Promises, IncrementRetry(p)
        PROVE  CopyInv'
    BY <1>2, <1>6 DEF IncrementRetry
  <1>7. ASSUME NEW p \in Promises, IncrementDone(p) \/ IncrementFails(p)
        PROVE  CopyInv'
    BY <1>7 DEF IncrementDone, IncrementFails, EndIncrement
  <1>8. ASSUME NEW p \in Promises,
               \/ Decrement(p) \/ CheckBroken(p) \/ FinishLock(p)
               \/ FinishSetVal(p) \/ FinishSwap(p) \/ FinishNotify(p)
               \/ FinishReturn(p)
        PROVE  CopyInv'
    BY <1>3, <1>8
       DEF Decrement, CheckBroken, FinishLock, FinishSetVal, FinishSwap,
           FinishNotify, FinishReturn
  <1>9. ASSUME NEW p \in Promises, FinishPost(p)
        PROVE  CopyInv'
    BY <1>3, <1>9 DEF FinishPost
  <1>10. ASSUME NEW p \in Promises, NEW v \in {"value", "exception"},
                SetResult(p, v)
         PROVE  CopyInv'
    BY <1>3, <1>10 DEF SetResult
  <1>11. CASE FutureStep
    BY <1>3, <1>11, FutureStepKeepsPromises DEF promiseVars
  <1>. QED
    BY StateSteps, <1>4, <1>5, <1>6, <1>7, <1>8, <1>9, <1>10, <1>11

\* Every step keeps at most one promise in finish() or about to decide that it
\* is broken, the latter when nobody owns the state.
LEMMA FinisherStep ==
  ASSUME IndInv, [Next]_vars
  PROVE  FinisherInv'
  <1>. USE DEF IndInv, TypeOK, PCs, Finishing, Busy, FinisherInv
  <1>1. \A p \in Promises : p \in Live <=> Owns(p)  BY DEF Live
  <1>2. \A p \in Promises : p \in Live' <=> Owns(p)'  BY DEF Live
  <1>3. ASSUME Live' = Live,
               \A p \in Promises : pc'[p] \in Busy => pc[p] \in Busy
        PROVE  FinisherInv'
    <2>1. \A p \in Promises : Owns(p)' <=> Owns(p)  BY <1>1, <1>2, <1>3
    <2>. QED  BY <1>3, <2>1
  <1>4. ASSUME NEW p \in Promises, NEW q \in Promises, CopyBegin(q, p)
        PROVE  FinisherInv'
    <2>1. Live' = Live  BY <1>4, LiveSame
    <2>. QED  BY <1>3, <1>4, <2>1 DEF CopyBegin
  <1>5. ASSUME NEW p \in Promises,
               \/ TryLockBegin(p) \/ IncrementRetry(p) \/ CheckBroken(p)
        PROVE  FinisherInv'
    <2>1. Live' = Live  BY <1>5, LiveSame
    <2>. QED  BY <1>3, <1>5, <2>1 DEF TryLockBegin, IncrementRetry, CheckBroken
  <1>6. ASSUME NEW p \in Promises, IncrementFails(p)
        PROVE  FinisherInv'
    <2>1. Live' = Live  BY <1>6, LiveSame
    <2>. QED  BY <1>3, <1>6, <2>1 DEF IncrementFails, EndIncrement, CopyInv
  <1>7. ASSUME NEW p \in Promises, IncrementDone(p)
        PROVE  FinisherInv'
    <2>1. Live # {}  BY <1>7, LiveFinite DEF CountInv, IncrementDone
    <2>2. \A q \in Promises : pc[q] \in Busy => Owns(q)  BY <2>1
    <2>3. \A q \in Promises : pc'[q] \in Busy => pc[q] \in Busy /\ Owns(q)'
      BY <1>7, <2>2 DEF IncrementDone, EndIncrement, CopyInv, Owns
    <2>. QED  BY <2>3
  <1>8. ASSUME NEW p \in Promises, Decrement(p)
        PROVE  FinisherInv'
    <2>1. Live' = Live \ {p} /\ p \in Live  BY <1>8, LiveDecrement
    <2>2. count = 1 <=> Live = {p}  BY <2>1, LastOwner DEF CountInv
    <2>3. \A q \in Promises : pc[q] \in Busy => q \in Live /\ q # p
      BY <1>1, <1>8, <2>1 DEF Decrement
    <2>4. CASE count = 1
      <3>1. \A q \in Promises : pc[q] \notin Busy  BY <2>2, <2>3, <2>4
      <3>2. \A q \in Promises : pc'[q] \in Busy => q = p
        BY <1>8, <3>1 DEF Decrement
      <3>. QED  BY <2>1, <2>2, <2>4, <3>2
    <2>5. CASE count # 1
      <3>1. \A q \in Promises : pc'[q] \in Busy => pc[q] \in Busy
        BY <1>8, <2>5 DEF Decrement
      <3>. QED  BY <1>2, <2>1, <2>3, <3>1
    <2>. QED  BY <2>4, <2>5
  <1>9. ASSUME NEW p \in Promises, Finish(p)
        PROVE  FinisherInv'
    <2>1. Live' = Live  BY <1>9, LiveSame
    <2>. QED
      BY <1>3, <1>9, <2>1
         DEF Finish, FinishLock, FinishSetVal, FinishSwap, FinishNotify,
             FinishPost, FinishReturn
  <1>10. ASSUME NEW p \in Promises, NEW v \in {"value", "exception"},
                SetResult(p, v)
         PROVE  FinisherInv'
    <2>1. p \in Live  BY <1>10 DEF SetResult, Live, Owns
    <2>2. \A q \in Promises : pc[q] \notin Busy
      BY <1>10, <2>1 DEF SetResult, ResultInv, Owns
    <2>3. \A q \in Promises : pc'[q] \in Busy => q = p /\ Owns(q)'
      BY <1>10, <2>2 DEF SetResult, Owns
    <2>. QED  BY <2>3
  <1>11. CASE FutureStep
    <2>1. Live' = Live
      BY <1>11, FutureStepKeepsPromises, LiveSame
    <2>. QED  BY <1>3, <1>11, <2>1, FutureStepKeepsPromises DEF promiseVars
  <1>. QED
    BY StateSteps, <1>4, <1>5, <1>6, <1>7, <1>8, <1>9, <1>10, <1>11 DEF Finish

\* Every step keeps _mutex held by the promise that is inside its critical
\* section.
LEMMA LockStep ==
  ASSUME IndInv, [Next]_vars
  PROVE  LockInv'
  <1>. USE DEF IndInv, TypeOK, PCs, Finishing, LockInv
  <1>1. ASSUME locked' = locked,
               \A p \in Promises : pc'[p] \in {"setval", "swap"} <=>
                                   pc[p] \in {"setval", "swap"}
        PROVE  LockInv'
    BY <1>1
  <1>2. ASSUME NEW p \in Promises, NEW q \in Promises, CopyBegin(q, p)
        PROVE  LockInv'
    BY <1>1, <1>2 DEF CopyBegin
  <1>3. ASSUME NEW p \in Promises,
               \/ TryLockBegin(p) \/ IncrementRetry(p) \/ Decrement(p)
               \/ CheckBroken(p)
        PROVE  LockInv'
    BY <1>1, <1>3 DEF TryLockBegin, IncrementRetry, Decrement, CheckBroken
  <1>4. ASSUME NEW p \in Promises, IncrementDone(p) \/ IncrementFails(p)
        PROVE  LockInv'
    BY <1>1, <1>4 DEF IncrementDone, IncrementFails, EndIncrement, CopyInv
  <1>5. ASSUME NEW p \in Promises, FinishLock(p)
        PROVE  LockInv'
    BY <1>5 DEF FinishLock
  <1>6. ASSUME NEW p \in Promises, FinishSwap(p)
        PROVE  LockInv'
    <2>1. \A q \in Promises : pc'[q] \notin {"setval", "swap"}
      BY <1>6 DEF FinishSwap, FinisherInv, Busy
    <2>. QED  BY <1>6, <2>1 DEF FinishSwap
  <1>7. ASSUME NEW p \in Promises,
               \/ FinishSetVal(p) \/ FinishNotify(p) \/ FinishPost(p)
               \/ FinishReturn(p)
        PROVE  LockInv'
    BY <1>1, <1>7 DEF FinishSetVal, FinishNotify, FinishPost, FinishReturn
  <1>8. ASSUME NEW p \in Promises, NEW v \in {"value", "exception"},
               SetResult(p, v)
        PROVE  LockInv'
    BY <1>1, <1>8 DEF SetResult
  <1>9. CASE FutureStep
    BY <1>1, <1>9, FutureStepKeepsPromises DEF promiseVars
  <1>. QED
    BY StateSteps, <1>2, <1>3, <1>4, <1>5, <1>6, <1>7, <1>8, <1>9

\* Every step keeps the result absent before finish() stores it, and what
\* it is afterwards.
LEMMA ResultStep ==
  ASSUME IndInv, [Next]_vars
  PROVE  ResultInv'
  <1>. USE DEF IndInv, TypeOK, PCs, Finishing, ResultInv
  <1>1. ASSUME Live' = Live, UNCHANGED <<r, claimed, outcome>>,
               \A p \in Promises : pc[p] \in Busy \/ pc'[p] \in Busy => pc'[p] = pc[p]
        PROVE  ResultInv'
    BY <1>1 DEF Busy
  <1>2. ASSUME NEW p \in Promises, NEW q \in Promises, CopyBegin(q, p)
        PROVE  ResultInv'
    <2>1. Live' = Live  BY <1>2, LiveSame
    <2>. QED  BY <1>1, <1>2, <2>1 DEF CopyBegin, Busy
  <1>3. ASSUME NEW p \in Promises, TryLockBegin(p) \/ IncrementRetry(p)
        PROVE  ResultInv'
    <2>1. Live' = Live  BY <1>3, LiveSame
    <2>. QED  BY <1>1, <1>3, <2>1 DEF TryLockBegin, IncrementRetry, Busy
  <1>4. ASSUME NEW p \in Promises, IncrementFails(p)
        PROVE  ResultInv'
    <2>1. Live' = Live  BY <1>4, LiveSame
    <2>. QED
      BY <1>1, <1>4, <2>1 DEF IncrementFails, EndIncrement, CopyInv, Busy
  <1>5. ASSUME NEW p \in Promises, IncrementDone(p)
        PROVE  ResultInv'
    <2>1. Live # {}  BY <1>5, LiveFinite DEF CountInv, IncrementDone
    <2>2. Live' # {}  BY <1>5, LiveIncrement
    <2>3. \A q \in Promises : pc[q] \in Busy \/ pc'[q] \in Busy => pc'[q] = pc[q]
      BY <1>5 DEF IncrementDone, EndIncrement, CopyInv, Busy
    <2>. QED  BY <1>5, <2>1, <2>2, <2>3 DEF IncrementDone, Busy
  <1>6. ASSUME NEW p \in Promises, Decrement(p)
        PROVE  ResultInv'
    <2>1. Live' = Live \ {p} /\ p \in Live  BY <1>6, LiveDecrement
    <2>2. count = 1 <=> Live = {p}  BY <2>1, LastOwner DEF CountInv
    <2>3. \A q \in Promises : pc[q] \in Busy => q \in Live /\ q # p
      BY <1>6, <2>1 DEF Decrement, FinisherInv, Live, Busy
    <2>4. CASE count = 1
      <3>1. \A q \in Promises : pc[q] \notin Busy  BY <2>2, <2>3, <2>4
      <3>2. r = "none" => ~claimed  BY <3>1 DEF Busy
      <3>3. Live' = {}  BY <2>1, <2>2, <2>4
      <3>4. pc' = [pc EXCEPT ![p] = "check"]  BY <1>6, <2>4 DEF Decrement
      <3>5. r # "broken"  BY <2>1
      <3>. QED
        BY <1>6, <3>1, <3>2, <3>3, <3>4, <3>5 DEF Decrement, Busy
    <2>5. CASE count # 1
      <3>1. pc' = [pc EXCEPT ![p] = "gone"]  BY <1>6, <2>5 DEF Decrement
      <3>2. Live' # {} /\ Live # {}  BY <2>1, <2>2, <2>5
      <3>3. UNCHANGED <<r, claimed, outcome>>  BY <1>6 DEF Decrement
      <3>4. pc[p] = "held"  BY <1>6 DEF Decrement
      <3>. QED  BY <3>1, <3>2, <3>3, <3>4 DEF Busy
    <2>. QED  BY <2>4, <2>5
  <1>7. ASSUME NEW p \in Promises, CheckBroken(p)
        PROVE  ResultInv'
    <2>1. Live' = Live /\ Live = {}
      BY <1>7, LiveSame DEF CheckBroken, FinisherInv, Busy, Owns
    <2>2. \A q \in Promises : pc[q] \in Busy => q = p
      BY <1>7 DEF CheckBroken, FinisherInv, Busy
    <2>. QED  BY <1>7, <2>1, <2>2 DEF CheckBroken, Busy
  <1>8. ASSUME NEW p \in Promises, FinishLock(p) \/ FinishSwap(p) \/
               FinishNotify(p)
        PROVE  ResultInv'
    <2>1. Live' = Live  BY <1>8, LiveSame DEF Finish
    <2>. QED  BY <1>8, <2>1 DEF FinishLock, FinishSwap, FinishNotify
  <1>9. ASSUME NEW p \in Promises, FinishSetVal(p)
        PROVE  ResultInv'
    <2>1. Live' = Live  BY <1>9, LiveSame DEF Finish
    <2>2. outcome[p] = "broken" => Live = {}
      BY <1>9 DEF FinishSetVal, FinisherInv, Busy, Owns
    <2>3. \A q \in Promises : pc[q] \in Busy => q = p
      BY <1>9 DEF FinishSetVal, FinisherInv, Busy
    <2>. QED  BY <1>9, <2>1, <2>2, <2>3 DEF FinishSetVal, Busy
  <1>10. ASSUME NEW p \in Promises, FinishPost(p)
         PROVE  ResultInv'
    <2>1. Live' = Live  BY <1>10, LiveSame DEF Finish
    <2>. QED  BY <1>1, <1>10, <2>1 DEF FinishPost
  <1>11. ASSUME NEW p \in Promises, FinishReturn(p)
         PROVE  ResultInv'
    <2>1. Live' = Live  BY <1>11, LiveSame DEF Finish
    <2>. QED  BY <1>11, <2>1 DEF FinishReturn
  <1>12. ASSUME NEW p \in Promises, NEW v \in {"value", "exception"},
                SetResult(p, v)
         PROVE  ResultInv'
    <2>1. Live' = Live  BY <1>12, LiveSame
    <2>2. p \in Live  BY <1>12 DEF SetResult, Live, Owns
    <2>3. r = "none"  BY <1>12, <2>2 DEF SetResult
    <2>4. \A q \in Promises : pc[q] \notin Busy
      BY <1>12, <2>2 DEF SetResult, FinisherInv, Owns, Busy
    <2>. QED  BY <1>12, <2>1, <2>2, <2>3, <2>4 DEF SetResult, Busy
  <1>13. CASE FutureStep
    <2>1. Live' = Live  BY <1>13, FutureStepKeepsPromises, LiveSame
    <2>. QED  BY <1>1, <1>13, <2>1, FutureStepKeepsPromises DEF promiseVars
  <1>. QED
    BY StateSteps, <1>2, <1>3, <1>4, <1>5, <1>6, <1>7, <1>8, <1>9, <1>10, <1>11,
       <1>12, <1>13

\* Every step keeps each continuation queued, swapped or posted, once.
LEMMA QueueStep ==
  ASSUME IndInv, [Next]_vars
  PROVE  QueueInv'
  <1>. USE DEF IndInv, TypeOK, PCs, Finishing, QueueInv
  <1>1. ASSUME UNCHANGED <<r, batch, contVars>>,
               \A p \in Promises :
                 pc[p] \in {"swap", "notify", "post"} => pc'[p] = pc[p]
        PROVE  QueueInv'
    BY <1>1 DEF contVars
  <1>2. ASSUME NEW p \in Promises, NEW q \in Promises, CopyBegin(q, p)
        PROVE  QueueInv'
    BY <1>1, <1>2 DEF CopyBegin
  <1>3. ASSUME NEW p \in Promises,
               \/ TryLockBegin(p) \/ IncrementRetry(p) \/ Decrement(p)
               \/ CheckBroken(p) \/ FinishLock(p)
        PROVE  QueueInv'
    BY <1>1, <1>3
       DEF TryLockBegin, IncrementRetry, Decrement, CheckBroken, FinishLock
  <1>4. ASSUME NEW p \in Promises, IncrementDone(p) \/ IncrementFails(p)
        PROVE  QueueInv'
    BY <1>1, <1>4 DEF IncrementDone, IncrementFails, EndIncrement, CopyInv
  <1>5. ASSUME NEW p \in Promises, FinishSetVal(p)
        PROVE  QueueInv'
    BY <1>5 DEF FinishSetVal, ResultInv, contVars
  <1>6. ASSUME NEW p \in Promises, FinishSwap(p)
        PROVE  QueueInv'
    <2>1. r # "none"  BY <1>6 DEF FinishSwap, ResultInv
    <2>2. \A q \in Promises : batch[q] = {}
      BY <1>6 DEF FinishSwap, FinisherInv, Busy
    <2>. QED  BY <1>6, <2>1, <2>2 DEF FinishSwap
  <1>7. ASSUME NEW p \in Promises, FinishNotify(p)
        PROVE  QueueInv'
    BY <1>7 DEF FinishNotify, contVars
  <1>8. ASSUME NEW p \in Promises, FinishPost(p)
        PROVE  QueueInv'
    <2>ready. r # "none"  BY <1>8 DEF FinishPost, ResultInv
    <2>others. \A q \in Promises : q # p => batch[q] = {}
      BY <1>8 DEF FinishPost, FinisherInv, Busy
    <2>posted. PICK c \in batch[p] :
            /\ posts' = [posts EXCEPT ![c] = @ + 1]
            /\ batch' = [batch EXCEPT ![p] = @ \ {c}]
      BY <1>8 DEF FinishPost
    <2>queued. c \in Conts /\ posts[c] = 0 /\ reg[c] = "queued" /\ c \notin then
      BY <2>posted
    <2>same. UNCHANGED <<pc, r, then, reg>>  BY <1>8 DEF FinishPost
    <2>. QED  BY <1>8, <2>ready, <2>others, <2>posted, <2>queued, <2>same
  <1>9. ASSUME NEW p \in Promises, FinishReturn(p)
        PROVE  QueueInv'
    BY <1>9 DEF FinishReturn, contVars
  <1>10. ASSUME NEW p \in Promises, NEW v \in {"value", "exception"},
                SetResult(p, v)
         PROVE  QueueInv'
    BY <1>1, <1>10 DEF SetResult
  <1>11. ASSUME NEW c \in Conts, Then(c)
         PROVE  QueueInv'
    <2>1. posts[c] = 0
      BY <1>11 DEF Then
    <2>. QED  BY <1>11, <2>1 DEF Then, promiseVars
  <1>12. ASSUME NEW c \in Conts, ThenPost(c)
         PROVE  QueueInv'
    <2>1. posts[c] = 0  BY <1>12 DEF ThenPost
    <2>. QED  BY <1>12, <2>1 DEF ThenPost, promiseVars
  <1>13. ASSUME NEW w \in Waiters,
                WaitTest(w) \/ SpuriousWakeup(w) \/ WaitTimeout(w)
         PROVE  QueueInv'
    BY <1>1, <1>13 DEF WaitTest, SpuriousWakeup, WaitTimeout, promiseVars
  <1>14. CASE UNCHANGED vars
    BY <1>1, <1>14 DEF vars, promiseVars
  <1>. QED
    BY StateSteps, <1>2, <1>3, <1>4, <1>5, <1>6, <1>7, <1>8, <1>9, <1>10, <1>11,
       <1>12, <1>13, <1>14 DEF FutureStep

\* Every step keeps a notify_all() to come for whoever sleeps on a result.
LEMMA WakeupStep ==
  ASSUME IndInv, [Next]_vars
  PROVE  NoLostWakeup'
  <1>. USE DEF IndInv, TypeOK, PCs, Finishing, NoLostWakeup
  <1>1. ASSUME r' = r, waitset' \subseteq waitset,
               \A p \in Promises :
                 pc[p] \in {"swap", "notify"} => pc'[p] \in {"swap", "notify"}
        PROVE  NoLostWakeup'
    BY <1>1
  <1>2. ASSUME NEW p \in Promises, NEW q \in Promises, CopyBegin(q, p)
        PROVE  NoLostWakeup'
    BY <1>1, <1>2 DEF CopyBegin, waitVars
  <1>3. ASSUME NEW p \in Promises,
               \/ TryLockBegin(p) \/ IncrementRetry(p) \/ Decrement(p)
               \/ CheckBroken(p) \/ FinishLock(p) \/ FinishSwap(p)
               \/ FinishReturn(p)
        PROVE  NoLostWakeup'
    BY <1>1, <1>3
       DEF TryLockBegin, IncrementRetry, Decrement, CheckBroken, FinishLock,
           FinishSwap, FinishReturn, waitVars
  <1>4. ASSUME NEW p \in Promises, IncrementDone(p) \/ IncrementFails(p)
        PROVE  NoLostWakeup'
    BY <1>1, <1>4
       DEF IncrementDone, IncrementFails, EndIncrement, CopyInv, waitVars
  <1>5. ASSUME NEW p \in Promises, FinishSetVal(p)
        PROVE  NoLostWakeup'
    BY <1>5 DEF FinishSetVal
  <1>6. ASSUME NEW p \in Promises, FinishNotify(p)
        PROVE  NoLostWakeup'
    BY <1>6 DEF FinishNotify
  <1>7. ASSUME NEW p \in Promises, FinishPost(p)
        PROVE  NoLostWakeup'
    BY <1>1, <1>7 DEF FinishPost, waitVars
  <1>8. ASSUME NEW p \in Promises, NEW v \in {"value", "exception"},
               SetResult(p, v)
        PROVE  NoLostWakeup'
    BY <1>1, <1>8 DEF SetResult, waitVars
  <1>9. ASSUME NEW w \in Waiters, WaitTest(w)
        PROVE  NoLostWakeup'
    BY <1>9 DEF WaitTest, promiseVars
  <1>10. CASE FutureStep /\ waitset' \subseteq waitset
    BY <1>1, <1>10, FutureStepKeepsPromises DEF promiseVars
  <1>11. ASSUME FutureStep, \A w \in Waiters : ~WaitTest(w)
         PROVE  waitset' \subseteq waitset
    BY <1>11
       DEF FutureStep, Then, ThenPost, SpuriousWakeup, WaitTimeout,
           vars, waitVars
  <1>. QED
    BY StateSteps, <1>2, <1>3, <1>4, <1>5, <1>6, <1>7, <1>8, <1>9, <1>10, <1>11

\* The first state.
LEMMA InitInv == Init => IndInv
  <1>. SUFFICES ASSUME Init PROVE IndInv
    OBVIOUS
  <1>1. /\ Original \in Promises
        /\ pc = [p \in Promises |-> IF p = Original THEN "held" ELSE "empty"]
    BY PromisesAssumption DEF Init
  <1>2. Live = {Original}  BY <1>1 DEF Live, Owns, Finishing
  <1>3. CountInv  BY <1>2, FS_Singleton DEF Init, CountInv
  <1>4. TypeOK  BY <1>1 DEF Init, TypeOK, PCs, Finishing, Results
  <1>5. CopyInv  BY <1>1 DEF CopyInv
  <1>6. FinisherInv /\ LockInv
    BY <1>1 DEF Init, FinisherInv, LockInv, Busy, Finishing
  <1>7. ResultInv
    BY <1>1, <1>2 DEF Init, ResultInv, Busy, Finishing
  <1>8. QueueInv /\ NoLostWakeup  BY <1>1 DEF Init, QueueInv, NoLostWakeup
  <1>. QED  BY <1>3, <1>4, <1>5, <1>6, <1>7, <1>8 DEF IndInv

\* The inductive invariant holds throughout: the counter is the number of
\* owners, and there is one finish() at a time, by somebody with the right to.
THEOREM StateInvariance == SafeSpec => []IndInv
  <1>1. IndInv /\ [Next]_vars => IndInv'
    BY TypeStep, CountStep, CopyStep, FinisherStep, ResultStep, LockStep,
       QueueStep, WakeupStep DEF IndInv
  <1>. QED  BY InitInv, <1>1, PTL DEF SafeSpec

\* The variables keep their types.
THEOREM TypeCorrect == SafeSpec => []TypeOK
  <1>1. IndInv => TypeOK  BY DEF IndInv
  <1>. QED  BY StateInvariance, <1>1, PTL

\* "state already set" and the assert of promise_ptr's copies never fail:
\* no set() is overtaken by a broken_promise or the other way round.
THEOREM AssertsHold == SafeSpec => [](SetOnce /\ CopyNeverFails)
  <1>1. IndInv => SetOnce /\ CopyNeverFails
    BY DEF IndInv, ResultInv, SetOnce, CopyInv, CopyNeverFails
  <1>. QED  BY StateInvariance, <1>1, PTL

\* A shared state nobody can set any more has a result when it is destroyed.
THEOREM DestructorSafe == SafeSpec => []DestructorAsserts
  <1>1. ASSUME IndInv, \A p \in Promises : pc[p] \in {"empty", "locking", "gone"}
        PROVE  count = 0 /\ r # "none"
    <2>1. Live = {}  BY <1>1 DEF Live, Owns, Finishing
    <2>2. count = 0  BY <1>1, <2>1, LiveFinite DEF IndInv, CountInv
    <2>. QED  BY <1>1, <2>1, <2>2 DEF IndInv, ResultInv
  <1>2. IndInv => DestructorAsserts  BY <1>1 DEF DestructorAsserts
  <1>. QED  BY StateInvariance, <1>2, PTL

\* No assert of the shared state fails, for any number of promises.
THEOREM AssertsSafe == SafeSpec => []AssertsNeverFail
  BY AssertsHold, DestructorSafe, PTL DEF AssertsNeverFail

\* broken_promise means that nobody set a result and nobody can any more.
THEOREM BrokenIsAbandoned == SafeSpec => []BrokenOnlyWhenAbandoned
  <1>1. IndInv => BrokenOnlyWhenAbandoned
    BY DEF IndInv, ResultInv, BrokenOnlyWhenAbandoned
  <1>. QED  BY StateInvariance, <1>1, PTL

\* Continuations are posted once at most, after the result, and never dropped
\* while the result is being stored.
THEOREM ContinuationsSafe == SafeSpec => []ContinuationsArePosted
  <1>1. IndInv => PostedOnceAfterResult
    BY DEF IndInv, QueueInv, PostedOnceAfterResult
  <1>2. IndInv => NoContinuationLost
    <2>1. SUFFICES ASSUME IndInv, NEW c \in Conts,
                          reg[c] = "queued", posts[c] = 0
                   PROVE  \/ c \in then /\ r = "none"
                          \/ c \in then /\ \E p \in Promises : pc[p] = "swap"
                          \/ \E p \in Promises :
                               c \in batch[p] /\ pc[p] \in {"notify", "post"}
      BY DEF NoContinuationLost
    <2>. QED  BY <2>1 DEF IndInv, QueueInv
  <1>. QED  BY StateInvariance, <1>1, <1>2, PTL DEF ContinuationsArePosted

\* Nobody sleeps on a result that is there without a notify_all() to come.
THEOREM WakeupsSafe == SafeSpec => []NoLostWakeup
  <1>1. IndInv => NoLostWakeup  BY DEF IndInv
  <1>. QED  BY StateInvariance, <1>1, PTL

--------------------------------------------------------------------------------
(* What no step does *)

\* How a step changes the counter: only increment_promise() raises it, and not
\* from zero.
LEMMA CountChange ==
  ASSUME IndInv, [Next]_vars, count = 0
  PROVE  count' = 0
  <1>1. ASSUME NEW p \in Promises, Decrement(p)
        PROVE  FALSE
    <2>1. Live # {}  BY <1>1, LiveDecrement DEF IndInv
    <2>. QED  BY <2>1, LiveFinite DEF IndInv, CountInv
  <1>. QED
    BY StateSteps, <1>1, FutureStepKeepsPromises
       DEF CopyBegin, TryLockBegin, IncrementDone, IncrementRetry,
           IncrementFails, CheckBroken, FinishLock, FinishSetVal, FinishSwap,
           FinishNotify, FinishPost, FinishReturn, SetResult, promiseVars

\* Only FinishSetVal writes _r, and it finds it empty.
LEMMA ResultChange ==
  ASSUME IndInv, [Next]_vars
  PROVE  \/ r' = r
         \/ \E p \in Promises : FinishSetVal(p) /\ r = "none" /\ r' = outcome[p]
  <1>1. ASSUME NEW p \in Promises, FinishSetVal(p)
        PROVE  r = "none" /\ r' = outcome[p]
    BY <1>1 DEF FinishSetVal, IndInv, ResultInv
  <1>. QED
    BY StateSteps, <1>1, FutureStepKeepsPromises
       DEF CopyBegin, TryLockBegin, IncrementDone, IncrementRetry,
           IncrementFails, Decrement, CheckBroken, FinishLock, FinishSwap,
           FinishNotify, FinishPost, FinishReturn, SetResult

\* No promise_ptr::try_lock() revives a shared state that lost its last owner.
THEOREM NoRevival == SafeSpec => NeverRevived
  <1>1. IndInv /\ [Next]_vars => [count = 0 => count' = 0]_vars
    BY CountChange
  <1>. QED  BY StateInvariance, <1>1, PTL DEF SafeSpec, NeverRevived

\* The result of a future never changes.
THEOREM ResultFinality == SafeSpec => ResultStays
  <1>1. IndInv /\ [Next]_vars => [r # "none" => r' = r]_vars
    BY ResultChange
  <1>. QED  BY StateInvariance, <1>1, PTL DEF SafeSpec, ResultStays

--------------------------------------------------------------------------------
(* Refinement: the shared state does what OneShot says, step by step *)

Registered == {c \in Conts : reg[c] # "idle"}

\* The first state maps to the first state of OneShot.
LEMMA RefineInit == Init => Abstract!Init
  <1>. SUFFICES ASSUME Init PROVE Abstract!Init
    OBVIOUS
  <1>1. /\ Original \in Promises
        /\ pc = [p \in Promises |-> IF p = Original THEN "held" ELSE "empty"]
    BY PromisesAssumption DEF Init
  <1>2. Live = {Original}  BY <1>1 DEF Live, Owns, Finishing
  <1>3. Registered = {}  BY DEF Init, Registered
  <1>. QED  BY <1>1, <1>2, <1>3 DEF Init, Abstract!Init, Registered

\* Every step maps to a step of OneShot or to a stutter.
LEMMA RefineStep ==
  ASSUME IndInv, [Next]_vars
  PROVE  [Abstract!Next]_(Abstract!vars)
  <1>. USE DEF IndInv
  <1>1. ASSUME Live' = Live, r' = r, Registered' = Registered, posts' = posts
        PROVE  UNCHANGED Abstract!vars
    BY <1>1 DEF Abstract!vars, Registered
  <1>2. ASSUME NEW p \in Promises, NEW q \in Promises, CopyBegin(q, p)
        PROVE  UNCHANGED Abstract!vars
    BY <1>1, <1>2, LiveSame DEF CopyBegin, contVars, Registered
  <1>3. ASSUME NEW p \in Promises,
               \/ TryLockBegin(p) \/ IncrementRetry(p) \/ IncrementFails(p)
               \/ CheckBroken(p)
        PROVE  UNCHANGED Abstract!vars
    <2>1. Live' = Live  BY <1>3, LiveSame
    <2>. QED
      BY <1>1, <1>3, <2>1
         DEF TryLockBegin, IncrementRetry, IncrementFails, CheckBroken,
             contVars, Registered
  <1>4. ASSUME NEW p \in Promises,
               FinishLock(p) \/ FinishSwap(p) \/ FinishNotify(p) \/
               FinishReturn(p)
        PROVE  UNCHANGED Abstract!vars
    <2>1. Live' = Live  BY <1>4, LiveSame DEF Finish
    <2>. QED
      BY <1>1, <1>4, <2>1
         DEF FinishLock, FinishSwap, FinishNotify, FinishReturn, contVars,
             Registered
  <1>5. ASSUME NEW p \in Promises, NEW v \in {"value", "exception"},
               SetResult(p, v)
        PROVE  UNCHANGED Abstract!vars
    BY <1>1, <1>5, LiveSame DEF SetResult, contVars, Registered
  <1>6. ASSUME NEW q \in Promises, IncrementDone(q)
        PROVE  Abstract!Share(q)
    <2>1. Live' = Live \cup {q} /\ q \notin Live  BY <1>6, LiveIncrement
    <2>2. Live # {}  BY <1>6, LiveFinite DEF CountInv, IncrementDone
    <2>3. r' = r /\ posts' = posts /\ Registered' = Registered
      BY <1>6 DEF IncrementDone, contVars, Registered
    <2>. QED  BY <2>1, <2>2, <2>3 DEF Abstract!Share, Registered
  <1>7. ASSUME NEW p \in Promises, Decrement(p)
        PROVE  Abstract!Disown(p)
    <2>1. Live' = Live \ {p} /\ p \in Live  BY <1>7, LiveDecrement
    <2>2. r' = r /\ posts' = posts /\ Registered' = Registered
      BY <1>7 DEF Decrement, contVars, Registered
    <2>. QED  BY <2>1, <2>2 DEF Abstract!Disown, Registered
  <1>8. ASSUME NEW p \in Promises, FinishSetVal(p)
        PROVE  Abstract!Next
    <2>1. Live' = Live  BY <1>8, LiveSame DEF Finish
    <2>2. posts' = posts /\ Registered' = Registered
      BY <1>8 DEF FinishSetVal, contVars, Registered
    <2>3. r = "none" /\ r' = outcome[p] /\ outcome[p] # "none"
      BY <1>8 DEF FinishSetVal, ResultInv, Finishing
    <2>4. CASE outcome[p] = "broken"
      <3>1. Live = {}
        BY <1>8, <2>4 DEF FinishSetVal, FinisherInv, Busy, Finishing, Owns
      <3>2. Abstract!Abandon
        BY <2>1, <2>2, <2>3, <2>4, <3>1 DEF Abstract!Abandon, Registered
      <3>. QED  BY <3>2 DEF Abstract!Next
    <2>5. CASE outcome[p] # "broken"
      <3>1. p \in Live  BY <1>8, <2>5 DEF FinishSetVal, Live, Owns, Finishing
      <3>2. outcome[p] \in {"value", "exception"}
        BY <2>3, <2>5 DEF TypeOK, Results
      <3>3. Abstract!Fulfil(outcome[p])
        BY <2>1, <2>2, <2>3, <3>1 DEF Abstract!Fulfil, Registered
      <3>. QED  BY <3>2, <3>3 DEF Abstract!Next
    <2>. QED  BY <2>4, <2>5
  <1>9. ASSUME NEW p \in Promises, FinishPost(p)
        PROVE  \E c \in Conts : Abstract!Deliver(c)
    <2>1. Live' = Live  BY <1>9, LiveSame DEF Finish
    <2>2. r # "none" /\ r' = r /\ Registered' = Registered
      BY <1>9 DEF FinishPost, ResultInv, Finishing, Registered
    <2>3. PICK c \in batch[p] : posts' = [posts EXCEPT ![c] = @ + 1]
      BY <1>9 DEF FinishPost
    <2>4. c \in Conts /\ posts[c] = 0 /\ c \in Registered
      BY <2>3 DEF QueueInv, TypeOK, Registered
    <2>5. posts' = [posts EXCEPT ![c] = 1]  BY <2>3, <2>4 DEF TypeOK
    <2>6. Abstract!Deliver(c)
      BY <2>1, <2>2, <2>4, <2>5 DEF Abstract!Deliver, Registered
    <2>. QED  BY <2>4, <2>6
  <1>10. ASSUME NEW c \in Conts, Then(c)
         PROVE  Abstract!Register(c)
    <2>1. Live' = Live  BY <1>10, LiveSame DEF Then
    <2>2. c \notin Registered /\ Registered' = Registered \cup {c}
      BY <1>10 DEF Then, Registered, TypeOK
    <2>3. r' = r /\ posts' = posts  BY <1>10 DEF Then
    <2>. QED  BY <2>1, <2>2, <2>3 DEF Abstract!Register, Registered
  <1>11. ASSUME NEW c \in Conts, ThenPost(c)
         PROVE  Abstract!Deliver(c)
    <2>1. Live' = Live  BY <1>11, LiveSame DEF ThenPost
    <2>2. c \in Registered /\ Registered' = Registered
      BY <1>11 DEF ThenPost, Registered, TypeOK
    <2>3. r # "none" /\ r' = r /\ posts[c] = 0
      BY <1>11 DEF ThenPost, QueueInv, TypeOK
    <2>4. posts' = [posts EXCEPT ![c] = 1]  BY <1>11, <2>3 DEF ThenPost, TypeOK
    <2>. QED  BY <2>1, <2>2, <2>3, <2>4 DEF Abstract!Deliver, Registered
  <1>12. ASSUME NEW w \in Waiters,
                WaitTest(w) \/ SpuriousWakeup(w) \/ WaitTimeout(w)
         PROVE  UNCHANGED Abstract!vars
    <2>1. Live' = Live
      BY <1>12, LiveSame DEF WaitTest, SpuriousWakeup, WaitTimeout
    <2>. QED
      BY <1>1, <1>12, <2>1
         DEF WaitTest, SpuriousWakeup, WaitTimeout, contVars, Registered
  <1>13. ASSUME UNCHANGED vars
         PROVE  UNCHANGED Abstract!vars
    <2>1. Live' = Live  BY <1>13, LiveSame DEF vars
    <2>. QED
      BY <1>1, <1>13, <2>1 DEF vars, contVars, Registered
  <1>. QED
    BY StateSteps, <1>2, <1>3, <1>4, <1>5, <1>6, <1>7, <1>8, <1>9, <1>10, <1>11,
       <1>12, <1>13
       DEF FutureStep, Abstract!Next

\* The safety half of OneShot: every step of every thread is a step of the
\* one-shot result, or invisible.
THEOREM Refinement == SafeSpec => Abstract!SafeSpec
  <1>. QED
    BY StateInvariance, RefineInit, RefineStep, PTL DEF SafeSpec, Abstract!SafeSpec

--------------------------------------------------------------------------------
(* The lazy senders, for a chain of any length and any number of threads: the inductive invariant *)

Answering == {"won", "checked", "reset"}

TypeInv == /\ kind \in [Stages -> {"async", "wait"}]
           /\ submit \in [Stages -> {"none", "begun", "set", "armed", "over"}]
           /\ handler \in [Stages -> {"none", "armed", "over", "called"} \cup Answering]
           /\ fired \subseteq Stages
           /\ copied \in Stages \cup {0} /\ slot \in Stages \cup {0}
           /\ canceler = "calling" => copied \in Stages
           /\ result \in {"none", "value", "error", "done"}

\* The handler of a stage exists once submit() gave it to the executor, and who goes
\* on in it has exchanged "fired".
HandlerInv ==
  \A i \in Stages :
    /\ submit[i] \in {"none", "begun", "set"} => handler[i] = "none"
    /\ handler[i] \in Answering \cup {"over", "called"} => i \in fired
    /\ submit[i] = "none" => i \notin fired /\ slot # i /\ copied # i

\* Stages are submitted in turn, each by the function of the one before.
ChainInv ==
  /\ \A i, j \in Stages : i < j /\ submit[j] # "none" => handler[i] = "called"
  /\ \A i \in Stages : handler[i] = "called" => i < Last /\ submit[i + 1] # "none"

\* Whoever exchanged "fired" of the last stage submitted owes the result.
Owing(i) == \/ i \notin fired
            \/ handler[i] \in Answering
LazyResultInv ==
  \A i \in Stages :
    submit[i] # "none" /\ handler[i] # "called" => (result = "none" <=> Owing(i))

BornInv == /\ born # {} => canceled
           /\ \A i \in born : /\ i \in Stages /\ submit[i] # "none"
                              /\ handler[i] \notin {"checked", "reset", "called"}
                              /\ i \notin called
           /\ \A i \in called : i \in Stages /\ handler[i] \in {"over", "called"}

LazyIndInv == TypeInv /\ HandlerInv /\ ChainInv /\ LazyResultInv /\ BornInv

--------------------------------------------------------------------------------
(* Every step preserves it *)

LEMMA StageNumbers ==
  /\ Last \in Int /\ 0 \notin Stages
  /\ \A i \in Stages : i \in Int /\ 1 <= i /\ i <= Last /\ (i < Last => i + 1 \in Stages)
  BY LazyAssumption DEF Stages

LEMMA InitHolds == LazyInit => LazyIndInv
<1> SUFFICES ASSUME LazyInit PROVE LazyIndInv
    OBVIOUS
<1>1. /\ handler = [i \in Stages |-> "none"] /\ fired = {} /\ called = {} /\ born = {}
      /\ slot = 0 /\ copied = 0 /\ canceler = "idle" /\ result = "none"
      /\ kind \in [Stages -> {"async", "wait"}]
      /\ submit = [i \in Stages |-> IF i = 1 THEN "begun" ELSE "none"]
    BY DEF LazyInit
<1>2. TypeInv
    BY <1>1 DEF TypeInv
<1>3. HandlerInv
    BY <1>1, StageNumbers DEF HandlerInv, Answering
<1>4. \A i, j \in Stages : ~(i < j /\ submit[j] # "none")
    BY <1>1, StageNumbers
<1>5. ChainInv
    BY <1>1, <1>4 DEF ChainInv
<1>6. LazyResultInv
    BY <1>1 DEF LazyResultInv, Owing
<1>7. BornInv
    BY <1>1 DEF BornInv
<1> QED BY <1>2, <1>3, <1>5, <1>6, <1>7 DEF LazyIndInv

\* Only the last stage submitted may owe the result.
LEMMA OneOwes ==
  ASSUME LazyIndInv, NEW i \in Stages, submit[i] # "none", i \notin fired \/ handler[i] \in Answering
  PROVE  /\ result = "none" /\ handler[i] # "called"
         /\ \A j \in Stages : submit[j] # "none" /\ handler[j] # "called" => j = i
<1> USE StageNumbers DEF LazyIndInv, Answering
<1>1. handler[i] # "called"
    BY DEF HandlerInv
<1>2. result = "none"
    BY <1>1 DEF LazyResultInv, Owing
<1>3. ASSUME NEW j \in Stages, submit[j] # "none", handler[j] # "called"
      PROVE  j = i
    <2>1. ~(i < j) /\ ~(j < i)
        BY <1>1, <1>3 DEF ChainInv
    <2>2. i \in Int /\ j \in Int
        BY StageNumbers
    <2> QED BY <2>1, <2>2
<1> QED BY <1>1, <1>2, <1>3

LEMMA ArmHolds ==
  ASSUME LazyIndInv, NEW i \in Stages, Arm(i)
  PROVE  LazyIndInv'
<1> USE StageNumbers DEF LazyIndInv, TypeInv, Answering
<1>1. /\ submit[i] \in {"set", "begun"} /\ handler' = [handler EXCEPT ![i] = "armed"]
      /\ submit' = [submit EXCEPT ![i] = "over"] \/ submit' = [submit EXCEPT ![i] = "armed"]
      /\ UNCHANGED <<kind, fired, called, slot, canceled, born, canceler, copied, result>>
    BY DEF Arm, Handle, Submit, tokenVars, endVars
<1>2. TypeInv'
    BY <1>1
<1>3. HandlerInv'
    BY <1>1 DEF HandlerInv, ChainInv
<1>4. ChainInv'
    BY <1>1 DEF HandlerInv, ChainInv
<1>5. LazyResultInv'
    BY <1>1 DEF HandlerInv, ChainInv, LazyResultInv, Owing
<1>6. BornInv'
    BY <1>1 DEF HandlerInv, ChainInv, BornInv
<1> QED BY <1>2, <1>3, <1>4, <1>5, <1>6

LEMMA SetCancelerHolds ==
  ASSUME LazyIndInv, NEW i \in Stages, SetCanceler(i)
  PROVE  LazyIndInv'
<1> USE StageNumbers DEF LazyIndInv, TypeInv, Answering
<1>1. CASE /\ \/ submit[i] = "begun" /\ submit' = [submit EXCEPT ![i] = "set"]
              \/ submit[i] = "armed" /\ submit' = [submit EXCEPT ![i] = "over"]
           /\ UNCHANGED <<kind, handler, fired, called, slot, canceled, born, canceler, copied, result>>
  <2>types. TypeInv'
    BY <1>1
  <2>handlers. HandlerInv'
    BY <1>1 DEF HandlerInv, ChainInv
  <2>chain. ChainInv'
    BY <1>1 DEF HandlerInv, ChainInv
  <2>result. LazyResultInv'
    BY <1>1 DEF HandlerInv, ChainInv, LazyResultInv, Owing
  <2>born. BornInv'
    BY <1>1 DEF HandlerInv, ChainInv, BornInv
  <2> QED BY <2>types, <2>handlers, <2>chain, <2>result, <2>born
<1>2. CASE /\ \/ submit[i] = "begun" /\ submit' = [submit EXCEPT ![i] = "set"]
              \/ submit[i] = "armed" /\ submit' = [submit EXCEPT ![i] = "over"]
           /\ i \notin fired /\ fired' = fired \cup {i} /\ slot' = 0 /\ result' = "done"
           /\ UNCHANGED <<kind, handler, called, canceled, born, canceler, copied>>
  <2>types. TypeInv'
    BY <1>2
  <2>handlers. HandlerInv'
    BY <1>2 DEF HandlerInv, ChainInv
  <2>chain. ChainInv'
    BY <1>2 DEF HandlerInv, ChainInv
  <2>result. LazyResultInv'
    BY <1>2, OneOwes DEF HandlerInv, ChainInv, LazyResultInv, Owing
  <2>born. BornInv'
    BY <1>2 DEF HandlerInv, ChainInv, BornInv
  <2> QED BY <2>types, <2>handlers, <2>chain, <2>result, <2>born
<1>3. CASE /\ \/ submit[i] = "begun" /\ submit' = [submit EXCEPT ![i] = "set"]
              \/ submit[i] = "armed" /\ submit' = [submit EXCEPT ![i] = "over"]
           /\ slot' = i
           /\ UNCHANGED <<kind, handler, fired, called, canceled, born, canceler, copied, result>>
  <2>types. TypeInv'
    BY <1>3
  <2>handlers. HandlerInv'
    BY <1>3 DEF HandlerInv, ChainInv
  <2>chain. ChainInv'
    BY <1>3 DEF HandlerInv, ChainInv
  <2>result. LazyResultInv'
    BY <1>3 DEF HandlerInv, ChainInv, LazyResultInv, Owing
  <2>born. BornInv'
    BY <1>3 DEF HandlerInv, ChainInv, BornInv
  <2> QED BY <2>types, <2>handlers, <2>chain, <2>result, <2>born
<1> QED BY <1>1, <1>2, <1>3 DEF SetCanceler, Sets, Complete, Submit, endVars

LEMMA FireHolds ==
  ASSUME LazyIndInv, NEW i \in Stages, Fire(i)
  PROVE  LazyIndInv'
<1> USE StageNumbers DEF LazyIndInv, TypeInv, Answering
<1>1. /\ handler[i] = "armed" /\ fired' = fired \cup {i}
      /\ handler' = [handler EXCEPT ![i] = IF i \in fired THEN "over" ELSE "won"]
      /\ UNCHANGED <<kind, submit, called, slot, canceled, born, canceler, copied, result>>
    BY DEF Fire, Handle, tokenVars, endVars
<1>2. TypeInv'
    BY <1>1
<1>3. HandlerInv'
    BY <1>1 DEF HandlerInv, ChainInv
<1>4. ChainInv'
    BY <1>1 DEF HandlerInv, ChainInv
<1>5. LazyResultInv'
    BY <1>1 DEF HandlerInv, ChainInv, LazyResultInv, Owing
<1>6. BornInv'
    BY <1>1 DEF HandlerInv, ChainInv, BornInv
<1> QED BY <1>2, <1>3, <1>4, <1>5, <1>6

LEMMA CheckHolds ==
  ASSUME LazyIndInv, NEW i \in Stages, Check(i)
  PROVE  LazyIndInv'
<1> USE StageNumbers DEF LazyIndInv, TypeInv, Answering
<1>1. CASE /\ handler[i] = "won" /\ handler' = [handler EXCEPT ![i] = "over"]
           /\ slot' = 0 /\ result' = "done"
           /\ UNCHANGED <<kind, submit, fired, called, canceled, born, canceler, copied>>
  <2>types. TypeInv'
    BY <1>1
  <2>handlers. HandlerInv'
    BY <1>1 DEF HandlerInv, ChainInv
  <2>chain. ChainInv'
    BY <1>1 DEF HandlerInv, ChainInv
  <2>result. LazyResultInv'
    BY <1>1, OneOwes DEF HandlerInv, ChainInv, LazyResultInv, Owing
  <2>born. BornInv'
    BY <1>1 DEF HandlerInv, ChainInv, BornInv
  <2> QED BY <2>types, <2>handlers, <2>chain, <2>result, <2>born
<1>2. CASE /\ handler[i] = "won" /\ handler' = [handler EXCEPT ![i] = "checked"]
           /\ ~canceled
           /\ UNCHANGED <<kind, submit, fired, called, slot, canceled, born, canceler, copied, result>>
  <2>types. TypeInv'
    BY <1>2
  <2>handlers. HandlerInv'
    BY <1>2 DEF HandlerInv, ChainInv
  <2>chain. ChainInv'
    BY <1>2 DEF HandlerInv, ChainInv
  <2>result. LazyResultInv'
    BY <1>2 DEF HandlerInv, ChainInv, LazyResultInv, Owing
  <2>born. BornInv'
    BY <1>2 DEF HandlerInv, ChainInv, BornInv
  <2> QED BY <2>types, <2>handlers, <2>chain, <2>result, <2>born
<1> QED BY <1>1, <1>2 DEF Check, Handle, Complete, endVars

LEMMA ResetHolds ==
  ASSUME LazyIndInv, NEW i \in Stages, Reset(i)
  PROVE  LazyIndInv'
<1> USE StageNumbers DEF LazyIndInv, TypeInv, Answering
<1>1. /\ handler[i] = "checked" /\ handler' = [handler EXCEPT ![i] = "reset"]
      /\ slot' = 0
      /\ UNCHANGED <<kind, submit, fired, called, canceled, born, canceler, copied, result>>
    BY DEF Reset, Handle, endVars
<1>2. TypeInv'
    BY <1>1
<1>3. HandlerInv'
    BY <1>1 DEF HandlerInv, ChainInv
<1>4. ChainInv'
    BY <1>1 DEF HandlerInv, ChainInv
<1>5. LazyResultInv'
    BY <1>1 DEF HandlerInv, ChainInv, LazyResultInv, Owing
<1>6. BornInv'
    BY <1>1 DEF HandlerInv, ChainInv, BornInv
<1> QED BY <1>2, <1>3, <1>4, <1>5, <1>6

LEMMA CallHolds ==
  ASSUME LazyIndInv, NEW i \in Stages, Call(i)
  PROVE  LazyIndInv'
<1> USE StageNumbers DEF LazyIndInv, TypeInv, Answering
<1>1. CASE /\ handler[i] = "reset" /\ handler' = [handler EXCEPT ![i] = "over"]
           /\ called' = called \cup {i}
           /\ slot' = 0 /\ result' \in {"error", "value"}
           /\ UNCHANGED <<kind, submit, fired, canceled, born, canceler, copied>>
  <2>types. TypeInv'
    BY <1>1
  <2>handlers. HandlerInv'
    BY <1>1 DEF HandlerInv, ChainInv
  <2>chain. ChainInv'
    BY <1>1 DEF HandlerInv, ChainInv
  <2>result. LazyResultInv'
    BY <1>1, OneOwes DEF HandlerInv, ChainInv, LazyResultInv, Owing
  <2>born. BornInv'
    BY <1>1 DEF HandlerInv, ChainInv, BornInv
  <2> QED BY <2>types, <2>handlers, <2>chain, <2>result, <2>born
<1>2. CASE /\ handler[i] = "reset" /\ handler' = [handler EXCEPT ![i] = "called"]
           /\ called' = called \cup {i} /\ i < Last
           /\ submit' = [submit EXCEPT ![i + 1] = "begun"]
           /\ born' = IF canceled THEN born \cup {i + 1} ELSE born
           /\ UNCHANGED <<kind, fired, slot, canceled, canceler, copied, result>>
  <2>types. TypeInv'
    BY <1>2
  <2>handlers. HandlerInv'
    BY <1>2 DEF HandlerInv, ChainInv
  <2>chain. ChainInv'
    <3>1. submit[i] # "none" /\ i + 1 \in Stages
      BY <1>2 DEF HandlerInv
    <3>2. ASSUME NEW j \in Stages, NEW k \in Stages, j < k, submit'[k] # "none"
          PROVE  handler'[j] = "called"
      <4>1. \A l \in Stages : l < i => handler[l] = "called"
        BY <3>1 DEF ChainInv
      <4>2. k # i + 1 => handler[j] = "called"
        BY <1>2, <3>1, <3>2 DEF ChainInv
      <4>3. k = i + 1 => j = i \/ j < i
        BY <3>2
      <4> QED BY <1>2, <4>1, <4>2, <4>3
    <3>3. \A j \in Stages : handler'[j] = "called" => j < Last /\ submit'[j + 1] # "none"
      BY <1>2, <3>1 DEF ChainInv
    <3> QED BY <3>2, <3>3 DEF ChainInv
  <2>result. LazyResultInv'
    BY <1>2 DEF HandlerInv, ChainInv, LazyResultInv, Owing
  <2>born. BornInv'
    BY <1>2 DEF HandlerInv, ChainInv, BornInv
  <2> QED BY <2>types, <2>handlers, <2>chain, <2>result, <2>born
<1> QED BY <1>1, <1>2 DEF Call, Handle, Submit, Complete, endVars

LEMMA RequestCancelHolds ==
  ASSUME LazyIndInv, RequestCancel
  PROVE  LazyIndInv'
<1> USE StageNumbers DEF LazyIndInv, TypeInv, Answering
<1>1. /\ canceled' = TRUE /\ copied' = slot
      /\ canceler' = IF slot = 0 THEN "returned" ELSE "calling"
      /\ UNCHANGED <<kind, submit, handler, fired, called, slot, born, result>>
    BY DEF RequestCancel, chainVars, endVars
<1>2. TypeInv'
    BY <1>1
<1>3. HandlerInv'
    BY <1>1 DEF HandlerInv, ChainInv
<1>4. ChainInv'
    BY <1>1 DEF HandlerInv, ChainInv
<1>5. LazyResultInv'
    BY <1>1 DEF HandlerInv, ChainInv, LazyResultInv, Owing
<1>6. BornInv'
    BY <1>1 DEF HandlerInv, ChainInv, BornInv
<1> QED BY <1>2, <1>3, <1>4, <1>5, <1>6

LEMMA CancelCallHolds ==
  ASSUME LazyIndInv, CancelCall
  PROVE  LazyIndInv'
<1> USE StageNumbers DEF LazyIndInv, TypeInv, Answering
<1>1. CASE /\ canceler' = "returned"
           /\ UNCHANGED <<kind, submit, handler, fired, called, slot, canceled, born, copied, result>>
  <2>types. TypeInv'
    BY <1>1
  <2>handlers. HandlerInv'
    BY <1>1 DEF HandlerInv, ChainInv
  <2>chain. ChainInv'
    BY <1>1 DEF HandlerInv, ChainInv
  <2>result. LazyResultInv'
    BY <1>1 DEF HandlerInv, ChainInv, LazyResultInv, Owing
  <2>born. BornInv'
    BY <1>1 DEF HandlerInv, ChainInv, BornInv
  <2> QED BY <2>types, <2>handlers, <2>chain, <2>result, <2>born
<1>2. CASE /\ canceler = "calling" /\ canceler' = "returned"
           /\ copied \notin fired /\ fired' = fired \cup {copied}
           /\ slot' = 0 /\ result' = "done"
           /\ UNCHANGED <<kind, submit, handler, called, canceled, born, copied>>
  <2>types. TypeInv'
    BY <1>2
  <2>handlers. HandlerInv'
    BY <1>2 DEF HandlerInv, ChainInv
  <2>chain. ChainInv'
    BY <1>2 DEF HandlerInv, ChainInv
  <2>result. LazyResultInv'
    BY <1>2, OneOwes DEF HandlerInv, ChainInv, LazyResultInv, Owing
  <2>born. BornInv'
    BY <1>2 DEF HandlerInv, ChainInv, BornInv
  <2> QED BY <2>types, <2>handlers, <2>chain, <2>result, <2>born
<1> QED BY <1>1, <1>2 DEF CancelCall, Complete, endVars

LEMMA NotifyOrReturnHolds ==
  ASSUME LazyIndInv, Notify \/ Return \/ UNCHANGED lazyVars
  PROVE  LazyIndInv'
<1>1. UNCHANGED <<kind, submit, handler, fired, called, slot, canceled, born, canceler, copied, result>>
    BY DEF Notify, Return, lazyVars, chainVars, tokenVars, endVars
<1> QED BY <1>1 DEF LazyIndInv, TypeInv, HandlerInv, ChainInv, LazyResultInv, Owing, BornInv

--------------------------------------------------------------------------------
(* The theorems *)

\* The invariant holds in every state, for a chain of any length and any number of threads.
THEOREM LazyInvariance == LazySafeSpec => []LazyIndInv
<1>1. ASSUME LazyIndInv, [LazyNext]_lazyVars
      PROVE  LazyIndInv'
    BY <1>1, ArmHolds, SetCancelerHolds, FireHolds, CheckHolds, ResetHolds, CallHolds,
       RequestCancelHolds, CancelCallHolds, NotifyOrReturnHolds DEF LazyNext, Steps
<1> QED BY InitHolds, <1>1, PTL DEF LazySafeSpec

\* A stage submitted after the cancelation (set_canceler() of lazy/cancelation_token.hpp)
\* does not run its function.
THEOREM SkipSafe == LazySafeSpec => []CanceledStageIsSkipped
<1>1. LazyIndInv => CanceledStageIsSkipped
    BY DEF LazyIndInv, BornInv, CanceledStageIsSkipped
<1> QED BY LazyInvariance, <1>1, PTL

LEMMA StepIsFinal ==
  ASSUME LazyIndInv, LazyNext, result # "none"
  PROVE  UNCHANGED called /\ aborted' # "result"
<1>1. ASSUME NEW i \in Stages, SetCanceler(i)
      PROVE  UNCHANGED called /\ aborted' # "result"
    <2>1. i \in fired
        <3>1. submit[i] # "none"
            BY <1>1 DEF SetCanceler, Sets
        <3> QED BY <3>1, OneOwes
    <2> QED BY <1>1, <2>1 DEF SetCanceler, Sets, Lockable, Up, endVars
<1>2. ASSUME NEW i \in Stages, handler[i] \in Answering
      PROVE  FALSE
    BY <1>2, OneOwes DEF LazyIndInv, HandlerInv, Answering
<1>3. ASSUME CancelCall
      PROVE  UNCHANGED called /\ aborted' # "result"
    <2>1. (copied \in Stages /\ submit[copied] # "none") \/ copied \in fired
        BY <1>3 DEF CancelCall, LazyIndInv, TypeInv, HandlerInv
    <2>2. copied \in fired
        BY <2>1, OneOwes
    <2> QED BY <1>3, <2>2 DEF CancelCall, Up, endVars
<1>4. ASSUME NEW i \in Stages, Arm(i) \/ Fire(i)
      PROVE  UNCHANGED called /\ aborted' # "result"
    BY <1>4 DEF Arm, Fire, Up, endVars
<1>5. ASSUME RequestCancel \/ Notify \/ Return
      PROVE  UNCHANGED called /\ aborted' # "result"
    BY <1>5 DEF RequestCancel, Notify, Return, Up, chainVars, endVars
<1>6. ASSUME NEW i \in Stages, Check(i) \/ Reset(i) \/ Call(i)
      PROVE  FALSE
    BY <1>2, <1>6 DEF Check, Reset, Call, Answering
<1> QED BY <1>1, <1>3, <1>4, <1>5, <1>6 DEF LazyNext, Steps

\* Once the chain has a result, no function of it is called and no receiver gets
\* another (the exchanges of "fired" in lazy/async.hpp and lazy/async_wait.hpp).
THEOREM Finality == LazySafeSpec => ResultIsFinal
<1>1. LazyIndInv /\ [LazyNext]_lazyVars
        => [result # "none" => UNCHANGED called /\ aborted' # "result"]_lazyVars
    BY StepIsFinal DEF lazyVars
<1> QED BY LazyInvariance, <1>1, PTL DEF LazySafeSpec, ResultIsFinal

================================================================================
