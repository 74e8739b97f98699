---------------------------- MODULE Monitors_proofs ----------------------------
(* Proofs about three components whose state a mutex of their own protects: the cancelation token,
the semaphore over its concurrent queue, and the periodic task.  Each has a section of its own. *)
EXTENDS CancelationToken, Semaphore, PeriodicTask, FiniteSetTheorems, SequenceTheorems, TLAPS

--------------------------------------------------------------------------------
(* The cancelation token: for any number of scopes and of cancelers. *)

\* What the operations of TokenOps return: a token, whose top is the callback
\* just pushed, and the callback to run is always the top.
LEMMA TokenFacts ==
  ASSUME NEW S, NEW t \in Token(S)
  PROVE  /\ Depth(t) \in Nat
         /\ Depth(t) > 0 => Top(t) \in S
         /\ Depth(t) = 0 => Top(t) = NoCallback
         /\ \A s \in S : /\ PushCallback(t, s) \in Token(S)
                         /\ Top(PushCallback(t, s)) = s
                         /\ PushCallback(t, s).requested = t.requested
         /\ Depth(t) > 0 => /\ PopCallback(t) \in Token(S)
                            /\ PopCallback(t).requested = t.requested
         /\ /\ RequestCancel(t) \in Token(S)
            /\ RequestCancel(t).requested
            /\ Top(RequestCancel(t)) = Top(t)
            /\ Depth(RequestCancel(t)) = Depth(t)
         /\ ToCall(t) \in S \cup {NoCallback}
         /\ t.requested => ToCall(t) = Top(t)
  <1>. USE DEF Token
  <1>1. t.callbacks \in Seq(S) /\ t.requested \in BOOLEAN /\ Depth(t) \in Nat
    BY DEF Depth
  <1>2. Depth(t) > 0 => Top(t) \in S  BY <1>1 DEF Depth, Top
  <1>3. Depth(t) = 0 => Top(t) = NoCallback  BY DEF Top
  <1>4. ASSUME NEW s \in S
        PROVE  /\ PushCallback(t, s) \in Token(S)
               /\ Top(PushCallback(t, s)) = s
               /\ PushCallback(t, s).requested = t.requested
    <2>1. /\ PushCallback(t, s).callbacks = Append(t.callbacks, s)
          /\ PushCallback(t, s).requested = t.requested
          /\ PushCallback(t, s) \in Token(S)
      BY <1>1 DEF PushCallback
    <2>2. Len(Append(t.callbacks, s)) = Len(t.callbacks) + 1
      BY <1>1
    <2>3. Append(t.callbacks, s)[Len(t.callbacks) + 1] = s
      BY <1>1
    <2>. QED  BY <1>1, <2>1, <2>2, <2>3 DEF Top, Depth
  <1>5. ASSUME Depth(t) > 0
        PROVE  /\ PopCallback(t) \in Token(S)
               /\ PopCallback(t).requested = t.requested
    <2>1. SubSeq(t.callbacks, 1, Len(t.callbacks) - 1) \in Seq(S)
      BY <1>1, <1>5 DEF Depth
    <2>. QED  BY <1>1, <2>1 DEF PopCallback
  <1>6. /\ RequestCancel(t) \in Token(S)
        /\ RequestCancel(t).requested
        /\ RequestCancel(t).callbacks = t.callbacks
    BY <1>1 DEF RequestCancel
  <1>7. Depth(RequestCancel(t)) = Depth(t) /\ Top(RequestCancel(t)) = Top(t)
    BY <1>6 DEF Depth, Top
  <1>8. ToCall(t) \in S \cup {NoCallback} /\ (t.requested => ToCall(t) = Top(t))
    BY <1>1, <1>2, <1>3 DEF ToCall
  <1>. QED  BY <1>1, <1>2, <1>3, <1>4, <1>5, <1>6, <1>7, <1>8

TokenIndInv == TypeOK /\ InnermostIsCanceled

\* Every step keeps the types.
LEMMA TypeStep ==
  ASSUME TypeOK, [TokenNext]_tokenVars
  PROVE  TypeOK'
  <1>. USE TokenFacts DEF TypeOK
  <1>1. ASSUME NEW s \in Scopes, PushScope(s)
        PROVE  TypeOK'
    <2>1. token' \in Token(Scopes)  BY <1>1 DEF PushScope
    <2>2. running' \in Scopes \cup {NoCallback}  BY <1>1, <2>1 DEF PushScope
    <2>. QED  BY <1>1, <2>1, <2>2 DEF PushScope
  <1>2. CASE PopScope
    <2>1. token' \in Token(Scopes)  BY <1>2 DEF PopScope
    <2>2. running' \in Scopes \cup {NoCallback}  BY <1>2, <2>1 DEF PopScope
    <2>. QED  BY <1>2, <2>1, <2>2 DEF PopScope
  <1>3. CASE RunCallback
    BY <1>3 DEF RunCallback
  <1>4. ASSUME NEW c \in Cancelers, Request(c)
        PROVE  TypeOK'
    <2>1. token' \in Token(Scopes)  BY <1>4 DEF Request
    <2>2. ToCall(token') \in Scopes \cup {NoCallback}  BY <2>1
    <2>. QED  BY <1>4, <2>1, <2>2 DEF Request
  <1>5. ASSUME NEW c \in Cancelers, CallCopied(c)
        PROVE  TypeOK'
    BY <1>5 DEF CallCopied
  <1>6. CASE UNCHANGED tokenVars
    BY <1>6 DEF tokenVars
  <1>. QED  BY <1>1, <1>2, <1>3, <1>4, <1>5, <1>6 DEF TokenNext

\* Every step keeps the innermost scope's callback called or about to be.
LEMMA InnermostStep ==
  ASSUME TokenIndInv, [TokenNext]_tokenVars
  PROVE  InnermostIsCanceled'
  <1>. USE DEF TokenIndInv, InnermostIsCanceled
  <1>1. TypeOK'  BY TypeStep
  <1>2. token \in Token(Scopes) /\ token' \in Token(Scopes)
    BY <1>1 DEF TypeOK
  <1>3. ASSUME running' = ToCall(token')
        PROVE  InnermostIsCanceled'
    BY <1>2, <1>3, TokenFacts DEF InFlight
  <1>4. ASSUME token' = token,
               \A s \in Scopes : s \in called \/ InFlight(s) =>
                                   (s \in called \/ InFlight(s))'
        PROVE  InnermostIsCanceled'
    BY <1>2, <1>4, TokenFacts
  <1>5. ASSUME NEW s \in Scopes, PushScope(s)
        PROVE  InnermostIsCanceled'
    BY <1>3, <1>5 DEF PushScope
  <1>6. CASE PopScope
    BY <1>3, <1>6 DEF PopScope
  <1>7. CASE RunCallback
    BY <1>4, <1>7 DEF RunCallback, InFlight
  <1>8. ASSUME NEW c \in Cancelers, Request(c)
        PROVE  InnermostIsCanceled'
    <2>1. copied'[c] = ToCall(token') /\ pc'[c] = "call"
      BY <1>8 DEF Request, TypeOK
    <2>2. token'.requested => ToCall(token') = Top(token')
      BY <1>2, TokenFacts
    <2>. QED  BY <2>1, <2>2 DEF InFlight
  <1>9. ASSUME NEW c \in Cancelers, CallCopied(c)
        PROVE  InnermostIsCanceled'
    BY <1>4, <1>9, ScopesAssumption DEF CallCopied, InFlight, TypeOK
  <1>10. CASE UNCHANGED tokenVars
    BY <1>4, <1>10 DEF tokenVars, InFlight
  <1>. QED  BY <1>5, <1>6, <1>7, <1>8, <1>9, <1>10 DEF TokenNext

\* The first state.
LEMMA InitInv == TokenInit => TokenIndInv
  <1>1. TokenInit => TypeOK  BY DEF TokenInit, TypeOK, NewToken, Token
  <1>2. TokenInit => InnermostIsCanceled
    BY DEF TokenInit, InnermostIsCanceled, NewToken
  <1>. QED  BY <1>1, <1>2 DEF TokenIndInv

\* The variables keep their types.
THEOREM TypeCorrect == TokenSafeSpec => []TypeOK
  <1>1. TokenInit => TypeOK  BY InitInv DEF TokenIndInv
  <1>. QED  BY <1>1, TypeStep, PTL DEF TokenSafeSpec

\* No interleaving of push_cancelation_callback(), pop_cancelation_callback()
\* and request_cancel() loses a cancelation of the innermost scope.
THEOREM InnermostSafe == TokenSafeSpec => []InnermostIsCanceled
  <1>1. TokenIndInv /\ [TokenNext]_tokenVars => TokenIndInv'
    BY TypeStep, InnermostStep DEF TokenIndInv
  <1>2. TokenIndInv => InnermostIsCanceled  BY DEF TokenIndInv
  <1>. QED  BY InitInv, <1>1, <1>2, PTL DEF TokenSafeSpec

--------------------------------------------------------------------------------
(* The semaphore, for any number of calls and of permits: the inductive invariant *)

SemaphorePhases == {"idle", "popped", "waiting", "held", "canceled", "released", "broken"}

SemaphoreTypeInv == /\ queue \in Nat /\ extra \in Nat
                    /\ arrived \in Seq(Calls) /\ waiters \in Seq(Calls)
                    /\ progress \in [Calls -> SemaphorePhases]
                    /\ given \subseteq Calls /\ IsFiniteSet(given)

\* What the progress of a call says of it.
PhaseInv ==
  /\ \A c \in Calls : /\ progress[c] = "idle" => c \notin given
                      /\ progress[c] \in {"held", "canceled", "released"} => c \in given
  /\ \A i \in 1..Len(arrived) : progress[arrived[i]] # "idle"
  /\ \A i, j \in 1..Len(arrived) : arrived[i] = arrived[j] => i = j
  /\ alive => \A i \in 1..Len(waiters) : progress[waiters[i]] \in {"popped", "waiting"}

\* How many of the calls that arrived were given a permit.
Served == Len(arrived) - Len(waiters)

\* The promises of _waiters are those of the last calls that arrived, and all the
\* others were given a permit.
QueueInv ==
  alive => /\ queue = 0 \/ waiters = <<>>
           /\ Len(waiters) <= Len(arrived)
           /\ \A i \in 1..Len(waiters) : waiters[i] = arrived[Served + i]
           /\ \A i \in 1..Len(arrived) : arrived[i] \in given <=> i <= Served

InOrder ==
  \A i, j \in 1..Len(arrived) : i < j /\ arrived[j] \in given => arrived[i] \in given

\* The calls that keep their permit out of the queue, in the phases f.
Keeping(f) == {c \in given : f[c] \in {"popped", "held", "canceled"}}

Balance == alive => queue + Cardinality(Keeping(progress)) = Permits + extra

SemaphoreIndInv == SemaphoreTypeInv /\ PhaseInv /\ QueueInv /\ InOrder /\ Balance

--------------------------------------------------------------------------------
(* Every step preserves it *)

LEMMA InitHolds == Init => SemaphoreIndInv
<1> SUFFICES ASSUME Init PROVE SemaphoreIndInv
    OBVIOUS
<1> USE DEF Init
<1>1. SemaphoreTypeInv
    BY PermitsAssumption, FS_EmptySet DEF SemaphoreTypeInv, SemaphorePhases
<1>2. PhaseInv /\ QueueInv /\ InOrder
    BY DEF PhaseInv, QueueInv, InOrder, Served
<1>3. Keeping(progress) = {}
    BY DEF Keeping
<1>4. Balance
    BY <1>3, FS_EmptySet, PermitsAssumption DEF Balance
<1> QED BY <1>1, <1>2, <1>4 DEF SemaphoreIndInv

\* pop() that finds a permit.
LEMMA PopReadyHolds ==
  ASSUME SemaphoreIndInv, NEW c \in Calls, PopReady(c)
  PROVE  SemaphoreIndInv'
<1> USE DEF SemaphoreIndInv, SemaphoreTypeInv, SemaphorePhases
<1>1. /\ alive /\ alive' /\ progress[c] = "idle" /\ waiters = <<>> /\ waiters' = <<>>
      /\ queue > 0 /\ queue' = queue - 1 /\ given' = given \cup {c}
      /\ arrived' = Append(arrived, c) /\ progress' = [progress EXCEPT ![c] = "popped"]
      /\ extra' = extra
    BY DEF PopReady, Lockable, QueueInv
<1>2. /\ Len(arrived') = Len(arrived) + 1 /\ arrived'[Len(arrived) + 1] = c
      /\ \A i \in 1..Len(arrived) : arrived'[i] = arrived[i] /\ arrived[i] # c
    BY <1>1 DEF PhaseInv
<1>3. c \notin given
    BY <1>1 DEF PhaseInv
<1>4. SemaphoreTypeInv'
    BY <1>1, FS_AddElement
<1>5. PhaseInv'
    BY <1>1, <1>2 DEF PhaseInv
<1>6. \A i \in 1..Len(arrived) : arrived[i] \in given
    BY <1>1 DEF QueueInv, Served
<1>7. QueueInv' /\ InOrder'
    BY <1>1, <1>2, <1>6 DEF QueueInv, InOrder, Served
<1>8. Keeping(progress)' = Keeping(progress) \cup {c} /\ c \notin Keeping(progress)
    BY <1>1, <1>3 DEF Keeping
<1>9. IsFiniteSet(Keeping(progress))
    BY FS_Subset DEF Keeping
<1>10. /\ Cardinality(Keeping(progress)') = Cardinality(Keeping(progress)) + 1
       /\ Cardinality(Keeping(progress)) \in Nat
    BY <1>8, <1>9, FS_AddElement, FS_CardinalityType
<1>11. Balance'
    <2>1. queue + Cardinality(Keeping(progress)) = Permits + extra /\ queue \in Nat
        BY <1>1 DEF Balance
    <2>2. queue' + Cardinality(Keeping(progress)') = Permits + extra'
        BY <1>1, <1>10, <2>1
    <2> QED BY <2>2 DEF Balance
<1> QED BY <1>4, <1>5, <1>7, <1>11

\* pop() that leaves a promise.
LEMMA PopWaitsHolds ==
  ASSUME SemaphoreIndInv, NEW c \in Calls, PopWaits(c)
  PROVE  SemaphoreIndInv'
<1> USE DEF SemaphoreIndInv, SemaphoreTypeInv, SemaphorePhases
<1>1. /\ alive /\ alive' /\ progress[c] = "idle" /\ waiters' = Append(waiters, c)
      /\ queue = 0 /\ queue' = 0 /\ given' = given
      /\ arrived' = Append(arrived, c) /\ progress' = [progress EXCEPT ![c] = "popped"]
      /\ extra' = extra
    BY DEF PopWaits, Lockable
<1>2. /\ Len(arrived') = Len(arrived) + 1 /\ arrived'[Len(arrived) + 1] = c
      /\ \A i \in 1..Len(arrived) : arrived'[i] = arrived[i] /\ arrived[i] # c
    BY <1>1 DEF PhaseInv
<1>3. /\ Len(waiters') = Len(waiters) + 1 /\ waiters'[Len(waiters) + 1] = c
      /\ \A i \in 1..Len(waiters) : waiters'[i] = waiters[i]
    BY <1>1
<1>4. c \notin given
    BY <1>1 DEF PhaseInv
<1>5. SemaphoreTypeInv'
    BY <1>1
<1>6. PhaseInv'
    BY <1>1, <1>2, <1>3 DEF PhaseInv
<1>7. QueueInv'
    <2>1. /\ Served' = Served /\ Len(waiters) <= Len(arrived)
          /\ Len(waiters) \in Nat /\ Len(arrived) \in Nat
        BY <1>1, <1>2, <1>3 DEF QueueInv, Served
    <2>2. \A i \in 1..Len(waiters') : waiters'[i] = arrived'[Served + i]
        <3>1. ASSUME NEW i \in 1..Len(waiters)
              PROVE  waiters'[i] = arrived'[Served + i]
            BY <1>1, <1>2, <1>3, <2>1 DEF QueueInv, Served
        <3>2. waiters'[Len(waiters) + 1] = arrived'[Served + (Len(waiters) + 1)]
            BY <1>2, <1>3, <2>1 DEF Served
        <3> QED BY <1>3, <2>1, <3>1, <3>2
    <2>3. \A i \in 1..Len(arrived') : arrived'[i] \in given' <=> i <= Served
        BY <1>1, <1>2, <1>4, <2>1 DEF QueueInv, Served
    <2>4. queue' = 0 /\ Len(waiters') <= Len(arrived')
        BY <1>1, <1>2, <1>3, <2>1
    <2> HIDE DEF SemaphoreIndInv, SemaphoreTypeInv
    <2> QED BY <2>1, <2>2, <2>3, <2>4 DEF QueueInv
<1>8. InOrder'
    <2>1. c \notin given' /\ given' = given /\ Len(arrived) \in Nat
        BY <1>1, <1>4
    <2>2. \A j \in 1..Len(arrived') : arrived'[j] \in given => j \in 1..Len(arrived)
        BY <1>2, <1>4, <2>1
    <2>3. ASSUME NEW i \in 1..Len(arrived'), NEW j \in 1..Len(arrived'), i < j, arrived'[j] \in given
          PROVE  arrived'[i] \in given
        <3>1. i \in 1..Len(arrived) /\ j \in 1..Len(arrived)
            BY <1>2, <2>1, <2>2, <2>3
        <3> QED BY <1>2, <2>3, <3>1 DEF InOrder
    <2> HIDE DEF SemaphoreIndInv, SemaphoreTypeInv
    <2> QED BY <2>1, <2>3 DEF InOrder
<1>9. Keeping(progress)' = Keeping(progress)
    BY <1>1, <1>4 DEF Keeping
<1>10. Balance'
    BY <1>1, <1>9 DEF Balance
<1> QED BY <1>5, <1>6, <1>7, <1>8, <1>10

\* A step of one call out of the lock: a permit that was given stays with it.
LEMMA CallStepHolds ==
  ASSUME SemaphoreIndInv, NEW c \in Calls, AndThen(c) \/ LetGo(c) \/ Cancel(c)
  PROVE  SemaphoreIndInv'
<1> USE DEF SemaphoreIndInv, SemaphoreTypeInv, SemaphorePhases
<1>1. UNCHANGED <<queue, waiters, given, arrived, extra, alive>>
    BY DEF AndThen, LetGo, Cancel
<1>2. \/ progress' = progress
      \/ /\ progress[c] = "popped"
         /\ progress' = [progress EXCEPT ![c] = IF c \in given THEN "held" ELSE "waiting"]
    BY DEF AndThen, LetGo, Cancel
<1>3. alive => \A i \in 1..Len(waiters) : waiters[i] \in Calls \ given
    BY DEF QueueInv, Served
<1>4. SemaphoreTypeInv'
    BY <1>1, <1>2
<1>5. PhaseInv'
    BY <1>1, <1>2, <1>3 DEF PhaseInv
<1>6. QueueInv' /\ InOrder'
    BY <1>1 DEF QueueInv, InOrder, Served
<1>7. Keeping(progress)' = Keeping(progress)
    BY <1>1, <1>2 DEF Keeping
<1>8. Balance'
    BY <1>1, <1>7 DEF Balance
<1> QED BY <1>4, <1>5, <1>6, <1>8

\* A push hands one permit over or puts it in the queue: the order stays, and there
\* is one permit more.
LEMMA PushHolds ==
  ASSUME SemaphoreIndInv, alive, alive', arrived' = arrived, extra' \in Nat,
         NEW before \in [Calls -> SemaphorePhases], Push(before),
         \A c \in Calls : before[c] = progress[c] \/ (progress[c] = "held" /\ before[c] = "released")
  PROVE  /\ SemaphoreTypeInv' /\ PhaseInv' /\ QueueInv' /\ InOrder'
         /\ queue' + Cardinality(Keeping(progress)') = queue + Cardinality(Keeping(before)) + 1
<1> USE DEF SemaphoreIndInv, SemaphoreTypeInv, SemaphorePhases
<1>1. IsFiniteSet(Keeping(before)) /\ Cardinality(Keeping(before)) \in Nat
    BY FS_Subset, FS_CardinalityType DEF Keeping
<1>2. CASE /\ waiters = <<>> /\ waiters' = waiters /\ given' = given
           /\ queue' = queue + 1 /\ progress' = before
    <2>1. SemaphoreTypeInv' /\ PhaseInv' /\ QueueInv' /\ InOrder'
        BY <1>2 DEF PhaseInv, QueueInv, InOrder, Served
    <2>2. Keeping(progress)' = Keeping(before)
        BY <1>2 DEF Keeping
    <2> QED BY <1>1, <1>2, <2>1, <2>2
<1>3. ASSUME waiters # <<>>, NEW w, w = Head(waiters), NEW p \in {"canceled", "held"},
             given' = given \cup {w}, waiters' = Tail(waiters), queue' = queue,
             progress' = IF before[w] = "waiting" THEN [before EXCEPT ![w] = p] ELSE before
      PROVE  /\ SemaphoreTypeInv' /\ PhaseInv' /\ QueueInv' /\ InOrder'
             /\ queue' + Cardinality(Keeping(progress)') = queue + Cardinality(Keeping(before)) + 1
    <2>1. /\ Len(waiters) \in Nat /\ Len(waiters) >= 1 /\ w = waiters[1] /\ w \in Calls
          /\ waiters' \in Seq(Calls) /\ Len(waiters') = Len(waiters) - 1
          /\ \A i \in 1..Len(waiters') : i + 1 \in 1..Len(waiters) /\ waiters'[i] = waiters[i + 1]
        BY <1>3
    <2>2. /\ Len(arrived) \in Nat /\ Len(waiters) <= Len(arrived)
          /\ w = arrived[Served + 1] /\ Served + 1 \in 1..Len(arrived)
          /\ Served' = Served + 1
        BY <2>1 DEF QueueInv, Served
    <2>3. w \notin given
        BY <2>2 DEF QueueInv, Served
    <2>4. before[w] = progress[w] /\ progress[w] \in {"popped", "waiting"}
        BY <2>1 DEF PhaseInv
    <2>5. SemaphoreTypeInv'
        BY <1>3, <2>1, FS_AddElement
    <2>6. \A i \in 1..Len(waiters') : waiters'[i] # w
        <3>1. SUFFICES ASSUME NEW i \in 1..Len(waiters') PROVE waiters'[i] # w
            OBVIOUS
        <3>2. waiters'[i] = arrived[Served + (i + 1)]
            BY <2>1 DEF QueueInv
        <3>3. Served + (i + 1) \in 1..Len(arrived) /\ Served + (i + 1) # Served + 1
            BY <2>1, <2>2 DEF Served
        <3> QED BY <2>2, <3>2, <3>3 DEF PhaseInv
    <2>7. PhaseInv'
        <3>1. ASSUME NEW i \in 1..Len(waiters')
              PROVE  before[waiters'[i]] \in {"popped", "waiting"}
            <4>1. waiters'[i] \in Calls /\ progress[waiters'[i]] \in {"popped", "waiting"}
                BY <2>1 DEF PhaseInv
            <4> QED BY <4>1
        <3>2. \A i \in 1..Len(waiters') : progress'[waiters'[i]] \in {"popped", "waiting"}
            BY <1>3, <2>1, <2>6, <3>1
        <3>3. \A c \in Calls : /\ progress'[c] = "idle" => c \notin given'
                               /\ progress'[c] \in {"held", "canceled", "released"} => c \in given'
            BY <1>3, <2>1, <2>4 DEF PhaseInv
        <3>4. \A i \in 1..Len(arrived) : progress'[arrived[i]] # "idle"
            BY <1>3, <2>1, <2>4 DEF PhaseInv
        <3> QED BY <3>2, <3>3, <3>4 DEF PhaseInv
    <2>8. ASSUME NEW i \in 1..Len(arrived)
          PROVE  arrived[i] \in given' <=> i <= Served + 1
        <3>1. arrived[i] \in given <=> i <= Served
            BY DEF QueueInv
        <3>2. arrived[i] = w <=> i = Served + 1
            BY <2>2 DEF PhaseInv
        <3>3. Served \in Int
            BY <2>1, <2>2 DEF Served
        <3> QED BY <1>3, <3>1, <3>2, <3>3
    <2>9. QueueInv'
        <3>1. queue' = 0
            BY <1>3 DEF QueueInv
        <3>2. ASSUME NEW i \in 1..Len(waiters')
              PROVE  waiters'[i] = arrived[Served' + i]
            <4>1. waiters'[i] = arrived[Served + (i + 1)]
                BY <2>1 DEF QueueInv
            <4>2. Served + (i + 1) = Served' + i
                BY <2>1, <2>2 DEF Served
            <4> QED BY <4>1, <4>2
        <3>3. Len(waiters') <= Len(arrived)
            BY <2>1, <2>2
        <3> HIDE DEF SemaphoreIndInv, SemaphoreTypeInv
        <3> QED BY <2>2, <2>8, <3>1, <3>2, <3>3 DEF QueueInv
    <2>10. InOrder'
        BY <2>2, <2>8 DEF InOrder, Served
    <2>11. Keeping(progress)' = Keeping(before) \cup {w} /\ w \notin Keeping(before)
        BY <1>3, <2>1, <2>3, <2>4 DEF Keeping
    <2>12. Cardinality(Keeping(progress)') = Cardinality(Keeping(before)) + 1
        BY <1>1, <2>11, FS_AddElement
    <2>13. queue' + Cardinality(Keeping(progress)') = queue + Cardinality(Keeping(before)) + 1
        BY <1>1, <1>3, <2>12
    <2> HIDE DEF SemaphoreIndInv, SemaphoreTypeInv
    <2> QED BY <2>5, <2>7, <2>9, <2>10, <2>13
<1>4. CASE waiters # <<>>
    BY <1>3, <1>4 DEF Push
<1> QED BY <1>2, <1>4 DEF Push

\* A permit that a call gives back.
LEMMA ReleaseHolds ==
  ASSUME SemaphoreIndInv, NEW c \in Calls, Release(c)
  PROVE  SemaphoreIndInv'
<1> DEFINE before == [progress EXCEPT ![c] = "released"]
<1>1. /\ alive /\ alive' /\ progress[c] = "held" /\ Push(before)
      /\ arrived' = arrived /\ extra' = extra
    BY DEF Release, Lockable
<1>2. /\ progress \in [Calls -> SemaphorePhases] /\ before \in [Calls -> SemaphorePhases]
      /\ extra' \in Nat /\ queue \in Nat
    BY <1>1 DEF SemaphoreIndInv, SemaphoreTypeInv, SemaphorePhases
<1>3. ASSUME NEW d \in Calls
      PROVE  before[d] = progress[d] \/ (progress[d] = "held" /\ before[d] = "released")
    BY <1>1, <1>2
<1>4. c \in Keeping(progress) /\ Keeping(before) = Keeping(progress) \ {c}
    BY <1>1 DEF Keeping, SemaphoreIndInv, SemaphoreTypeInv, PhaseInv
<1>5. IsFiniteSet(Keeping(progress))
    BY FS_Subset DEF Keeping, SemaphoreIndInv, SemaphoreTypeInv
<1> HIDE DEF before
<1>6. /\ Cardinality(Keeping(before)) = Cardinality(Keeping(progress)) - 1
      /\ Cardinality(Keeping(progress)) \in Nat
    BY <1>4, <1>5, FS_RemoveElement, FS_CardinalityType
<1>7. /\ SemaphoreTypeInv' /\ PhaseInv' /\ QueueInv' /\ InOrder'
      /\ queue' + Cardinality(Keeping(progress)') = queue + Cardinality(Keeping(before)) + 1
    BY <1>1, <1>2, <1>3, PushHolds
<1>8. queue' + Cardinality(Keeping(progress)') = queue + Cardinality(Keeping(progress))
    BY <1>2, <1>6, <1>7
<1>9. Balance'
    BY <1>1, <1>8 DEF SemaphoreIndInv, Balance
<1> QED BY <1>7, <1>9 DEF SemaphoreIndInv

\* A release by who acquired nothing.
LEMMA ReleaseExtraHolds ==
  ASSUME SemaphoreIndInv, ReleaseExtra
  PROVE  SemaphoreIndInv'
<1> DEFINE before == progress
<1>1. /\ alive /\ alive' /\ arrived' = arrived /\ extra' = extra + 1 /\ Push(before)
      /\ extra' \in Nat /\ extra \in Nat /\ queue \in Nat
      /\ before \in [Calls -> SemaphorePhases] /\ \A d \in Calls : before[d] = progress[d]
    BY DEF ReleaseExtra, Lockable, SemaphoreIndInv, SemaphoreTypeInv
<1>2. /\ Keeping(before) = Keeping(progress)
      /\ Cardinality(Keeping(progress)) \in Nat
    BY FS_Subset, FS_CardinalityType DEF Keeping, SemaphoreIndInv, SemaphoreTypeInv
<1> HIDE DEF before
<1>3. /\ SemaphoreTypeInv' /\ PhaseInv' /\ QueueInv' /\ InOrder'
      /\ queue' + Cardinality(Keeping(progress)') = queue + Cardinality(Keeping(before)) + 1
    BY <1>1, PushHolds
<1>4. Balance'
    BY <1>1, <1>2, <1>3, PermitsAssumption DEF SemaphoreIndInv, Balance
<1> QED BY <1>3, <1>4 DEF SemaphoreIndInv

LEMMA DestroyHolds ==
  ASSUME SemaphoreIndInv, Destroy
  PROVE  SemaphoreIndInv'
<1> USE DEF SemaphoreIndInv, SemaphoreTypeInv, SemaphorePhases
<1>1. /\ ~alive' /\ queue' = 0 /\ waiters' = <<>> /\ UNCHANGED <<given, arrived, extra>>
      /\ progress' = [c \in Calls |-> IF progress[c] = "waiting" THEN "broken" ELSE progress[c]]
    BY DEF Destroy
<1>2. SemaphoreTypeInv'
    BY <1>1
<1>3. PhaseInv'
    BY <1>1 DEF PhaseInv
<1>4. QueueInv' /\ InOrder' /\ Balance'
    BY <1>1 DEF QueueInv, InOrder, Balance
<1> QED BY <1>2, <1>3, <1>4

--------------------------------------------------------------------------------
(* The theorems *)

\* The invariant holds in every state, for any calls and any number of permits.
THEOREM SemaphoreInvariance == SafeSpec => []SemaphoreIndInv
<1>1. ASSUME SemaphoreIndInv, UNCHANGED vars PROVE SemaphoreIndInv'
    <2> USE <1>1 DEF vars
    <2>1. SemaphoreTypeInv'
        BY DEF SemaphoreIndInv, SemaphoreTypeInv
    <2>2. PhaseInv'
        BY DEF SemaphoreIndInv, PhaseInv
    <2>3. Served' = Served
        BY DEF Served
    <2>4. QueueInv'
        BY <2>3 DEF SemaphoreIndInv, QueueInv
    <2>5. InOrder'
        BY DEF SemaphoreIndInv, InOrder
    <2>6. Keeping(progress)' = Keeping(progress)
        BY DEF Keeping
    <2>7. Balance'
        BY <2>6 DEF SemaphoreIndInv, Balance
    <2> QED BY <2>1, <2>2, <2>4, <2>5, <2>7 DEF SemaphoreIndInv
<1>2. SemaphoreIndInv /\ [Next]_vars => SemaphoreIndInv'
    BY <1>1, PopReadyHolds, PopWaitsHolds, CallStepHolds, ReleaseHolds, ReleaseExtraHolds,
       DestroyHolds DEF Next
<1> QED BY InitHolds, <1>2, PTL DEF SafeSpec

\* The permits go out in the order of pop(), and none stays in the queue while a
\* promise waits: the two assertions of concurrent_queue.hpp.
THEOREM OrderSafe == SafeSpec => []ServedInOrder
<1>1. SemaphoreIndInv => ServedInOrder
    BY DEF SemaphoreIndInv, QueueInv, InOrder, ServedInOrder
<1> QED BY SemaphoreInvariance, <1>1, PTL

\* No push() or pop() duplicates a permit of semaphore.hpp, and none is lost but to a
\* canceled call.
THEOREM ConservationSafe == SafeSpec => []PermitsAreConserved
<1>1. ASSUME SemaphoreIndInv, alive
      PROVE  queue + Cardinality({c \in given : progress[c] \in {"popped", "held"}})
                   + Cardinality(Lost) = Permits + extra
    <2> DEFINE kept == {c \in given : progress[c] \in {"popped", "held"}}
    <2>1. /\ IsFiniteSet(kept) /\ IsFiniteSet(Lost)
          /\ Cardinality(kept) \in Nat /\ Cardinality(Lost) \in Nat
        BY <1>1, FS_Subset, FS_CardinalityType DEF Lost, SemaphoreIndInv, SemaphoreTypeInv
    <2>2. Keeping(progress) = kept \cup Lost /\ kept \cap Lost = {}
        BY DEF Keeping, Lost
    <2> HIDE DEF kept
    <2>3. Cardinality(Keeping(progress)) = Cardinality(kept) + Cardinality(Lost)
        <3>1. /\ Cardinality(kept \cup Lost)
                   = Cardinality(kept) + Cardinality(Lost) - Cardinality(kept \cap Lost)
              /\ Cardinality(kept \cap Lost) = 0
            BY <2>1, <2>2, FS_Union, FS_EmptySet
        <3> QED BY <2>1, <2>2, <3>1
    <2>4. queue \in Nat /\ queue + Cardinality(Keeping(progress)) = Permits + extra
        BY <1>1 DEF SemaphoreIndInv, SemaphoreTypeInv, Balance
    <2>5. queue + Cardinality(kept) + Cardinality(Lost) = Permits + extra
        BY <2>1, <2>3, <2>4
    <2> QED BY <2>5 DEF kept
<1>2. SemaphoreIndInv => PermitsAreConserved
    BY <1>1 DEF PermitsAreConserved
<1> QED BY SemaphoreInvariance, <1>2, PTL

--------------------------------------------------------------------------------
(* The periodic task: for any number of runs and of calls of stop(), when nobody starts the task
again before the stop() that waited for it ends, and until something is done inside reschedule(). *)

\* The first state.
LEMMA TaskInitInv == TaskInit => IndInv
  <1>. SUFFICES ASSUME TaskInit PROVE IndInv
    OBVIOUS
  <1>1. conts \in [Chains -> Seq(Conts)] /\ \A c \in Chains : DOMAIN conts[c] = {}
    BY DEF TaskInit
  <1>2. stack = <<>> /\ stack \in Seq(Chains) /\ Len(stack) = 0
    BY DEF TaskInit
  <1>3. TypeInv
    BY <1>1, <1>2 DEF TaskInit, TypeInv, Phases, Over
  <1>4. StopInv /\ LockInv
    BY <1>1, <1>2 DEF TaskInit, StopInv, LockInv
  <1>. QED  BY <1>3, <1>4 DEF TaskInit, IndInv, QuietInv, ActiveInv, Over

\* Whatever thread is inside reschedule() is there for the latest chain.
LEMMA StackFacts ==
  ASSUME TypeInv
  PROVE  /\ Free <=> Len(stack) = 0
         /\ ~Free => /\ Head(stack) \in Chains /\ Tail(stack) \in Seq(Chains)
                     /\ Len(stack) <= 1 => Tail(stack) = <<>>
         /\ \A d \in Chains : <<d>> \o stack \in Seq(Chains)
         /\ Free => \A d \in Chains : /\ Len(<<d>> \o stack) = 1
                                      /\ Head(<<d>> \o stack) = d
                                      /\ <<d>> \o stack # <<>>
         /\ Latest = IF Free THEN current ELSE Head(stack)
  <1>1. stack \in Seq(Chains)
    BY DEF TypeInv
  <1>2. Free <=> Len(stack) = 0
    BY <1>1 DEF Free
  <1>3. ~Free => /\ Head(stack) \in Chains /\ Tail(stack) \in Seq(Chains)
                 /\ Len(stack) <= 1 => Tail(stack) = <<>>
    BY <1>1, <1>2
  <1>4. \A d \in Chains : <<d>> \o stack \in Seq(Chains)
    BY <1>1
  <1>5. Free => \A d \in Chains : <<d>> \o stack = <<d>>
    BY <1>1 DEF Free
  <1>. QED  BY <1>2, <1>3, <1>4, <1>5 DEF Latest

\* A step of one chain that leaves the rest of the task alone.
LEMMA MoveStep ==
  ASSUME IndInv, NEW c \in Chains, NEW p \in Phases, Move(c, p),
         phase[c] \notin Over \/ p \in Over,
         state' = state \/ (state' = "Stopped" /\ phase[c] \notin Over /\ p \in Over)
  PROVE  IndInv'
  <1>1. /\ phase' = [phase EXCEPT ![c] = p]
        /\ UNCHANGED <<current, stack, nested, conts, aborted>>
    BY DEF Move, Goto, lockVars
  <1>2. TypeInv'
    BY <1>1 DEF IndInv, TypeInv
  <1>3. ASSUME QuietInv PROVE QuietInv'
    <2>. USE <1>3 DEF QuietInv
    <2>1. Free' = Free /\ Latest' = Latest
      BY <1>1 DEF Free, Latest
    <2>2. LockInv'
      BY <1>1, <2>1 DEF LockInv
    <2>3. ActiveInv'
      BY <1>1, <2>1 DEF ActiveInv, IndInv, TypeInv
    <2>4. StopInv'
      BY <1>1, <2>1 DEF StopInv
    <2>. QED  BY <1>1, <2>2, <2>3, <2>4
  <1>. QED  BY <1>1, <1>2, <1>3 DEF IndInv

\* A new chain becomes the latest, when the others are all over: its timer is armed
\* inside reschedule(), or it is posted.
LEMMA NewChainStep ==
  ASSUME IndInv, NEW c \in Chains, NEW p \in {"timer", "posted"},
         NEW old \in [Chains -> Phases],
         phase' = [old EXCEPT ![c] = p], nested' = (nested \/ ~Free),
         \/ stack' = <<c>> \o stack /\ UNCHANGED current
         \/ UNCHANGED stack /\ current' = c,
         state' = "Running", UNCHANGED <<conts, aborted>>,
         QuietInv /\ Free => /\ \A d \in Chains : old[d] \in Over
                             /\ \A d \in Chains : \A i \in DOMAIN conts[d] : ~conts[d][i].ends
  PROVE  IndInv'
  <1>1. p \in Phases
    BY DEF Phases, Scheduled
  <1>2. TypeInv'
    BY <1>1, StackFacts DEF IndInv, TypeInv
  <1>3. ASSUME QuietInv, Free PROVE QuietInv'
    <2>1. Latest' = c
      BY <1>3, StackFacts DEF IndInv, Latest, Free
    <2>2. LockInv'
      <3>1. Len(stack') <= 1
        <4>1. Len(<<c>> \o stack) = 1 /\ Len(stack) = 0
          BY <1>3, StackFacts DEF IndInv
        <4>. QED  BY <4>1
      <3>2. Free' => current' = c
        BY <1>3, StackFacts DEF IndInv, Free
      <3>. QED  BY <3>1, <3>2, ChainsAssumption DEF LockInv, NoChain
    <2>3. ActiveInv'
      BY <1>3, <2>1 DEF ActiveInv
    <2>4. StopInv'
      BY <1>3 DEF StopInv
    <2>. QED  BY <1>3, <2>2, <2>3, <2>4 DEF QuietInv
  <1>. QED  BY <1>2, <1>3 DEF IndInv

\* start().
LEMMA StartStep ==
  ASSUME IndInv, Patient, Start
  PROVE  IndInv'
  <1>1. QuietInv => \A c \in Chains : phase[c] \in Over
    BY DEF Start, QuietInv, ActiveInv
  <1>2. \A c \in Chains : \A i \in DOMAIN conts[c] : ~conts[c][i].ends
    <2>. SUFFICES ASSUME NEW c \in Chains, NEW i \in DOMAIN conts[c], conts[c][i].ends
                  PROVE  FALSE
      OBVIOUS
    <2>1. conts[c][i] \in Conts
      BY DEF IndInv, TypeInv
    <2>2. conts[c][i] = Cont(conts[c][i].call, TRUE) /\ conts[c][i].call \in Stops
      BY <2>1 DEF Conts, Cont
    <2>. QED  BY <2>2 DEF Start, StopPending
  <1>3. phase \in [Chains -> Phases]
    BY DEF IndInv, TypeInv
  <1>4. PICK c \in Chains : Arm(c, phase, fut) \/ Post(c)
    BY DEF Start
  <1>5. CASE Arm(c, phase, fut)
    BY <1>1, <1>2, <1>3, <1>5, NewChainStep DEF Start, Arm
  <1>6. CASE Post(c)
    BY <1>1, <1>2, <1>3, <1>6, NewChainStep DEF Start, Post, Called, Goto
  <1>. QED  BY <1>4, <1>5, <1>6

\* The steps of a chain up to the end of its callback, and its resolution.
LEMMA RunStep ==
  ASSUME IndInv, NEW c \in Chains,
         \/ Fire(c) \/ SetEarly(c) \/ Check(c) \/ RunPosted(c) \/ DoCall(c)
         \/ CallbackEnds(c) \/ StopOnThrow(c) \/ AwaitFuture(c) \/ Resolve(c)
  PROVE  IndInv'
  <1>1. PICK p \in Phases :
          /\ Move(c, p)
          /\ phase[c] \notin Over \/ p \in Over
          /\ state' = state \/ (state' = "Stopped" /\ phase[c] \notin Over /\ p \in Over)
    <2>. USE DEF Phases, Running, Scheduled, Over
    <2>fire. CASE Fire(c)
      BY <2>fire DEF Fire
    <2>early. CASE SetEarly(c)
      BY <2>early DEF SetEarly
    <2>check. CASE Check(c)
      BY <2>check DEF Check
    <2>posted. CASE RunPosted(c)
      BY <2>posted DEF RunPosted
    <2>calls. CASE DoCall(c)
      BY <2>calls DEF DoCall
    <2>ends. CASE CallbackEnds(c)
      BY <2>ends DEF CallbackEnds
    <2>throws. CASE StopOnThrow(c)
      BY <2>throws DEF StopOnThrow
    <2>awaits. CASE AwaitFuture(c)
      BY <2>awaits DEF AwaitFuture
    <2>resolves. CASE Resolve(c)
      BY <2>resolves DEF Resolve
    <2>. QED  BY <2>fire, <2>early, <2>check, <2>posted, <2>calls, <2>ends, <2>throws,
                 <2>awaits, <2>resolves
  <1>. QED  BY <1>1, MoveStep

\* The end of reschedule(): the chain it armed is the one _future ends.
LEMMA AssignStep ==
  ASSUME IndInv, NEW c \in Chains, Assign(c)
  PROVE  IndInv'
  <1>1. /\ ~Free /\ c = Head(stack)
        /\ current' = c /\ stack' = Tail(stack)
        /\ UNCHANGED <<state, nested, conts, aborted>>
    BY DEF Assign, Inside
  <1>2. /\ phase' \in [Chains -> Phases]
        /\ \A d \in Chains : phase'[d] = phase[d] \/ phase'[d] \in Over
    BY DEF Assign, IndInv, TypeInv, Phases, Over
  <1>3. TypeInv'
    BY <1>1, <1>2, StackFacts DEF IndInv, TypeInv
  <1>4. ASSUME QuietInv PROVE QuietInv'
    <2>. USE <1>4 DEF QuietInv
    <2>1. stack' = <<>> /\ Len(stack') = 0
      BY <1>1, StackFacts DEF IndInv, LockInv
    <2>2. Free' /\ Latest' = c /\ Latest = c
      BY <1>1, <2>1 DEF Free, Latest
    <2>3. LockInv'
      BY <1>1, <2>1, ChainsAssumption DEF LockInv, NoChain
    <2>4. ActiveInv'
      BY <1>1, <1>2, <2>2 DEF ActiveInv
    <2>5. StopInv'
      BY <1>1 DEF StopInv
    <2>. QED  BY <1>1, <2>3, <2>4, <2>5
  <1>. QED  BY <1>1, <1>3, <1>4 DEF IndInv

\* The continuation on the callback's future: the latest chain ends, and perhaps
\* another one begins.
LEMMA FutureStep ==
  ASSUME IndInv, NEW c \in Chains, NEW v, FutureReady(c, v)
  PROVE  IndInv'
  <1>1. phase[c] \notin Over /\ (QuietInv => c = Latest /\ state # "Stopped")
    BY DEF FutureReady, QuietInv, ActiveInv, Over
  <1>2. /\ "ending" \in Phases /\ "ending" \in Over
        /\ "again" \in Phases /\ "again" \in Over
    BY DEF Phases, Over
  <1>3. CASE v # "value"
    <2>1. Move(c, "ending") /\ (state' = state \/ state' = "Stopped")
      BY <1>3 DEF FutureReady
    <2>. QED  BY <1>1, <1>2, <2>1, MoveStep
  <1>4. CASE v = "value" /\ state = "Stopping"
    <2>1. Move(c, "ending") /\ UNCHANGED state
      BY <1>4 DEF FutureReady, Reschedule
    <2>. QED  BY <1>1, <1>2, <2>1, MoveStep
  <1>5. CASE v = "value" /\ state = "Running"
    <2>. DEFINE old == [phase EXCEPT ![c] = "again"]
    <2>. DEFINE freed == [fut EXCEPT ![c] = "none"]
    <2>1. PICK d \in Chains : Arm(d, old, freed)
      BY <1>5 DEF FutureReady, Reschedule
    <2>2. state' = "Running" /\ UNCHANGED aborted
      BY <1>5 DEF FutureReady, Reschedule
    <2>3. old \in [Chains -> Phases]
      BY <1>2 DEF IndInv, TypeInv
    <2>4. QuietInv => \A e \in Chains : old[e] \in Over
      BY <1>1, <1>2 DEF IndInv, TypeInv, QuietInv, ActiveInv
    <2>5. QuietInv => \A e \in Chains : \A i \in DOMAIN conts[e] : ~conts[e][i].ends
      BY <1>5 DEF QuietInv, StopInv
    <2>6. /\ stack' = <<d>> \o stack /\ nested' = (nested \/ ~Free)
          /\ phase' = [old EXCEPT ![d] = "timer"]
          /\ UNCHANGED <<current, conts>>
      BY <2>1 DEF Arm
    <2>. HIDE DEF old, freed
    <2>. QED  BY <2>2, <2>3, <2>4, <2>5, <2>6, NewChainStep
  <1>6. CASE v = "value" /\ state = "Stopped"
    <2>1. ~QuietInv /\ UNCHANGED <<state, current, stack, nested, phase, conts>>
      BY <1>1, <1>6 DEF FutureReady, Reschedule, lockVars, chainVars
    <2>. QED  BY <2>1 DEF IndInv, TypeInv
  <1>. QED  BY <1>3, <1>4, <1>5, <1>6 DEF IndInv, TypeInv

\* A continuation of stop(): it finds the task stopping and its chain over.
LEMMA ContinuationStep ==
  ASSUME IndInv, NEW c \in Chains, RunContinuation(c)
  PROVE  IndInv'
  <1>. DEFINE k == Head(conts[c])
  <1>1. /\ phase[c] = "done" /\ conts[c] \in Seq(Conts) /\ conts[c] # <<>>
        /\ k.ends => Free
        /\ conts' = [conts EXCEPT ![c] = Tail(conts[c])]
        /\ Continue(k, waiting)
        /\ UNCHANGED <<current, stack, nested, phase>>
    BY DEF RunContinuation, IndInv, TypeInv, lockVars
  <1>2. /\ 1 \in DOMAIN conts[c] /\ k = conts[c][1]
        /\ Tail(conts[c]) \in Seq(Conts)
        /\ \A i \in DOMAIN Tail(conts[c]) :
             i + 1 \in DOMAIN conts[c] /\ Tail(conts[c])[i] = conts[c][i + 1]
    BY <1>1
  <1>3. state' = state \/ state' = "Stopped"
    BY <1>1 DEF Continue
  <1>4. TypeInv'
    BY <1>1, <1>2, <1>3 DEF IndInv, TypeInv
  <1>5. ASSUME QuietInv PROVE QuietInv'
    <2>. USE <1>5 DEF QuietInv
    <2>1. k.ends => c = current /\ state # "Running" /\ Free
      BY <1>2 DEF StopInv
    <2>2. /\ UNCHANGED aborted
          /\ state' = IF k.ends THEN "Stopped" ELSE state
      BY <1>1, <2>1 DEF Continue
    <2>3. Free' = Free /\ Latest' = Latest
      BY <1>1 DEF Free, Latest
    <2>4. LockInv'
      BY <1>1, <2>2, <2>3 DEF LockInv
    <2>5. ActiveInv'
      BY <1>1, <2>1, <2>2, <2>3 DEF ActiveInv, Over, Latest
    <2>6. StopInv'
      <3>. SUFFICES ASSUME NEW d \in Chains, NEW i \in DOMAIN conts'[d], conts'[d][i].ends
                    PROVE  d = current /\ state' # "Running" /\ Free
        BY <1>1, <2>3 DEF StopInv
      <3>1. \E j \in DOMAIN conts[d] : conts'[d][i] = conts[d][j]
        BY <1>1, <1>2 DEF IndInv, TypeInv
      <3>. QED  BY <2>2, <3>1 DEF StopInv
    <2>. QED  BY <2>2, <2>4, <2>5, <2>6
  <1>. QED  BY <1>1, <1>4, <1>5 DEF IndInv

\* stop(): the timer is canceled, or a continuation is attached to the latest chain.
LEMMA StopStep ==
  ASSUME IndInv, NEW u \in Stops, Stop(u)
  PROVE  IndInv'
  <1>1. UNCHANGED stack /\ nested' = (nested \/ ~Free)
    BY DEF Stop, Called
  <1>2. CASE StopTimer
    <2>1. /\ current \in Chains /\ state' = "Stopped"
          /\ phase' = [phase EXCEPT ![current] = "done"]
          /\ UNCHANGED <<current, conts, aborted>>
      BY <1>2 DEF StopTimer, IndInv, TypeInv, Goto
    <2>2. TypeInv'
      BY <1>1, <2>1 DEF IndInv, TypeInv, Phases, Over
    <2>3. ASSUME QuietInv, Free PROVE QuietInv'
      BY <1>1, <2>1, <2>3 DEF QuietInv, LockInv, ActiveInv, StopInv, Free, Latest, IndInv,
         TypeInv, Over
    <2>. QED  BY <1>1, <2>2, <2>3 DEF IndInv
  <1>3. CASE StopRun(u) /\ phase[current] = "done"
    <2>1. /\ state = "Running" /\ state' = "Stopped"
          /\ UNCHANGED <<current, phase, conts, aborted>>
      BY <1>3 DEF StopRun
    <2>2. TypeInv'
      BY <1>1, <2>1 DEF IndInv, TypeInv
    <2>3. ASSUME QuietInv, Free PROVE QuietInv'
      <3>1. \A c \in Chains : phase[c] \in Over
        BY <1>3, <2>3 DEF QuietInv, ActiveInv, Latest, Over
      <3>. QED  BY <1>1, <2>1, <2>3, <3>1 DEF QuietInv, LockInv, ActiveInv, StopInv, Free
    <2>. QED  BY <1>1, <2>2, <2>3 DEF IndInv
  <1>4. ASSUME NEW e \in BOOLEAN,
               conts' = [conts EXCEPT ![current] = Append(conts[current], Cont(u, e))],
               state # "Stopped", state' = "Stopping",
               UNCHANGED <<current, phase, aborted>>
        PROVE  IndInv'
    <2>1. /\ Cont(u, e) \in Conts
          /\ current \in Chains => conts[current] \in Seq(Conts)
      BY <1>4 DEF IndInv, TypeInv, Cont, Conts
    <2>2. current \in Chains => Append(conts[current], Cont(u, e)) \in Seq(Conts)
      BY <2>1
    <2>3. TypeInv'
      BY <1>1, <1>4, <2>1, <2>2 DEF IndInv, TypeInv
    <2>4. ASSUME QuietInv, Free PROVE QuietInv'
      <3>. USE <2>4 DEF QuietInv
      <3>1. Free' /\ Latest' = Latest
        BY <1>1, <1>4 DEF Free, Latest
      <3>2. LockInv' /\ ActiveInv'
        BY <1>1, <1>4, <3>1 DEF LockInv, ActiveInv
      <3>3. StopInv'
        <4>. SUFFICES ASSUME NEW d \in Chains, d # current, NEW i \in DOMAIN conts'[d]
                      PROVE  conts'[d][i].ends => FALSE
          BY <1>4, <3>1 DEF StopInv
        <4>1. conts'[d] = conts[d]
          BY <1>4 DEF IndInv, TypeInv
        <4>. QED  BY <4>1 DEF StopInv
      <3>. QED  BY <1>4, <3>2, <3>3
    <2>. QED  BY <1>1, <2>3, <2>4 DEF IndInv
  <1>5. CASE StopRun(u) /\ phase[current] # "done"
    BY <1>4, <1>5 DEF StopRun, IndInv, TypeInv
  <1>6. CASE StopAgain(u)
    BY <1>4, <1>6 DEF StopAgain, IndInv, TypeInv
  <1>7. CASE StopInvalid
    <2>1. ~(QuietInv /\ Free)
      BY <1>7 DEF StopInvalid, QuietInv, LockInv
    <2>. QED  BY <1>1, <1>7, <2>1 DEF StopInvalid, chainVars, IndInv, TypeInv
  <1>. QED  BY <1>2, <1>3, <1>5, <1>6, <1>7 DEF Stop

\* The inductive invariant holds throughout.
THEOREM TaskInvariance == ASSUME Patient PROVE TaskSafeSpec => []IndInv
  <1>1. IndInv /\ [TaskNext]_taskVars => IndInv'
    <2>. SUFFICES ASSUME IndInv, [TaskNext]_taskVars PROVE IndInv'
      OBVIOUS
    <2>1. CASE Start
      BY <2>1, StartStep
    <2>2. CASE \E u \in Stops : Stop(u)
      BY <2>2, StopStep
    <2>3. CASE \E c \in Chains : ChainStep(c)
      BY <2>3, RunStep, AssignStep, FutureStep, ContinuationStep DEF ChainStep
    <2>4. CASE UNCHANGED taskVars
      BY <2>4 DEF taskVars, chainVars, lockVars, IndInv, TypeInv, QuietInv, LockInv, ActiveInv,
         StopInv, Free, Latest
    <2>. QED  BY <2>1, <2>2, <2>3, <2>4 DEF TaskNext, Rest
  <1>. QED  BY TaskInitInv, <1>1, PTL DEF TaskSafeSpec

\* Whatever start() and stop() do, the callback never overlaps itself, a stopped task
\* has nothing scheduled and nothing running, and no assert fails, as long as nobody
\* starts the task before the continuation of stop() ran and nothing is done inside
\* reschedule(): what goes wrong has no other cause, for any number of runs and stops.
THEOREM OneRun == ASSUME Patient PROVE TaskSafeSpec => []OneRunAtATime
  <1>1. ASSUME TypeInv, QuietInv PROVE NoOverlap /\ StoppedIsQuiet /\ AssertsHold
    <2>1. NoOverlap
      BY <1>1 DEF QuietInv, ActiveInv, NoOverlap, Running, Over
    <2>2. StoppedIsQuiet /\ AssertsHold
      BY <1>1 DEF QuietInv, ActiveInv, StoppedIsQuiet, AssertsHold
    <2>. QED  BY <2>1, <2>2
  <1>2. IndInv => OneRunAtATime
    BY <1>1 DEF IndInv, OneRunAtATime
  <1>. QED  BY TaskInvariance, <1>2, PTL

================================================================================
