---------------------------- MODULE TaskGroup_proofs ----------------------------
(* Proofs about When and TaskGroup, for any finite set of futures and any set of calls. *)
EXTENDS TaskGroup, FiniteSetTheorems, TLAPS

Waits == {"idle", "telling", "looping", "reading", "returned"}
Marks == {"none", "attached", "due", "stored", "won", "over"}

GroupTypeOK ==
  /\ state \in [Futures -> {"none", "pending", "ended"}] /\ told \in SUBSET Futures
  /\ kind \in [Whens -> {"all", "any", "auto"}] /\ pc \in [Whens -> Waits]
  /\ list \in [Whens -> Seq(Futures)] /\ at \in [Whens -> Nat \ {0}]
  /\ cb \in [Whens -> [Futures -> Marks]]
  /\ stored \in [Whens -> SUBSET Futures] /\ count \in [Whens -> Nat]
  /\ result \in [Whens -> Futures \cup {"none", "all"}]
  /\ asked \in SUBSET Users /\ asking \in [Whens -> Nat]
  /\ lock \in Terminators \cup {None} /\ joining \in [Futures -> {"idle", "returned", "refused"}]
  /\ members \in SUBSET Futures
  /\ before \in [Terminators -> SUBSET Futures]

\* The future has ended, or was asked to.
Hit(f) == state[f] = "ended" \/ f \in told

\* A call that has not begun has no futures and no result; a call has each of its
\* futures once, and they were started.
ListInv ==
  \A w \in Whens :
    /\ pc[w] = "idle" => list[w] = <<>> /\ w \notin asked /\ at[w] = 1
    /\ pc[w] \in {"idle", "telling"} => /\ \A f \in Futures : cb[w][f] = "none"
                                        /\ result[w] = "none" /\ w \notin triggered /\ count[w] = 0
                                        /\ stored[w] = {}
    /\ \A i, j \in 1..Len(list[w]) : list[w][i] = list[w][j] => i = j
    /\ \A i \in 1..Len(list[w]) : state[list[w][i]] # "none"
    /\ pc[w] = "reading" => IsAny(w) /\ at[w] <= Len(list[w])
    /\ pc[w] = "telling" => w \in Terminators
    /\ w \in Terminators => kind[w] = "all"

\* Callbacks are attached in the order of the loop.  One that has to run, or has run,
\* is that of a future that has ended.  Each kind of call has its steps.
Placed(w, f) ==
  cb[w][f] # "none" => \E i \in 1..Len(list[w]) : i < at[w] /\ list[w][i] = f
Caused(w, f) ==
  cb[w][f] \in {"due", "stored", "won", "over"} => state[f] = "ended"
Fits(w, f) ==
  /\ cb[w][f] = "won" => IsAny(w)
  /\ cb[w][f] = "stored" => ~IsAny(w)
  /\ cb[w][f] \in {"stored", "over"} /\ ~IsAny(w) => f \in stored[w]
CallbackOK(w, f) == Placed(w, f) /\ Caused(w, f) /\ Fits(w, f)
CallbackInv == \A w \in Whens, f \in Futures : CallbackOK(w, f)

\* when_all() counts the callbacks that are over, and has its result when those of all
\* its futures are.
Over(w) == {f \in Futures : cb[w][f] = "over"}
AllInv ==
  \A w \in Whens :
    /\ count[w] = IF IsAny(w) THEN 0 ELSE Cardinality(Over(w))
    /\ result[w] = "all" => /\ ~IsAny(w)
                            /\ \A i \in 1..Len(list[w]) : cb[w][list[w][i]] = "over"

\* when_any() has one winner: a callback that is to set the result, or the result.
AnyInv ==
  \A w \in Whens :
    /\ result[w] \in Futures => state[result[w]] = "ended"
    /\ \A f \in Futures : cb[w][f] = "won" => w \in triggered /\ result[w] = "none"
    /\ \A f, g \in Futures : cb[w][f] = "won" /\ cb[w][g] = "won" => f = g
    /\ result[w] \in Futures => w \in triggered

\* The walk of request_cancel() leaves no future behind.
AskInv ==
  \A w \in Users :
    /\ asking[w] # 0 => w \in asked
    /\ asking[w] <= Len(list[w])
    /\ w \in asked => pc[w] = "returned"
    /\ pc[w] # "idle" => list[w] # <<>>
    /\ w \in asked => \A i \in 1..Len(list[w]) : asking[w] = 0 \/ i < asking[w] => Hit(list[w][i])

\* A task that joined the group is a member until it ends or is told to, and
\* terminate() holds the members while it tells them, one after the other.
MemberInv ==
  /\ \A f \in members : joining[f] = "returned"
  /\ \A f \in Futures : state[f] = "none" <=> Canceler /\ joining[f] # "returned"
  /\ \A f \in Futures : joining[f] = "returned" => f \in members \/ Hit(f)
  /\ \A k \in Terminators :
       /\ asking[k] = 0
       /\ lock = k <=> pc[k] \in {"telling", "looping"}
       /\ lock = k => members = Range(list[k])
       /\ pc[k] = "telling" => \A i \in 1..Len(list[k]) : i < at[k] => Hit(list[k][i])
       /\ pc[k] = "looping" => \A i \in 1..Len(list[k]) : Hit(list[k][i])
       /\ lock = k => \A f \in before[k] : f \in members \/ Hit(f)
       /\ pc[k] = "returned" => \A f \in before[k] : Hit(f)

GroupInv == /\ GroupTypeOK /\ ListInv /\ CallbackInv /\ AllInv /\ AnyInv
            /\ AskInv /\ MemberInv

--------------------------------------------------------------------------------
(* Sequences of futures *)

\* What SetToSeqs gives: each element, once.
LEMMA Orders ==
  ASSUME NEW S \in SUBSET Futures, NEW s \in SetToSeqs(S)
  PROVE  /\ s \in Seq(Futures)
         /\ \A i, j \in 1..Len(s) : s[i] = s[j] => i = j
         /\ \A i \in 1..Len(s) : s[i] \in S
         /\ Range(s) = S
         /\ S # {} => s # <<>>
  <1>. DEFINE n == Cardinality(S)
  <1>1. IsFiniteSet(S) /\ n \in Nat
    BY WhenAssumption, FS_Subset, FS_CardinalityType
  <1>2. s \in [1..n -> S] /\ \A i, j \in 1..n : i # j => s[i] # s[j]
    BY DEF SetToSeqs
  <1>3. s \in Seq(Futures) /\ Len(s) = n
    BY <1>1, <1>2
  <1>4. s \in Injection(1..n, S)
    BY <1>2 DEF Injection, IsInjective
  <1>5. Cardinality(1..n) = n
    BY <1>1, FS_Interval
  <1>6. s \in Surjection(1..n, S)
    BY <1>1, <1>4, <1>5, FS_Injection
  <1>7. Range(s) = S
    BY <1>2, <1>6 DEF Range, Surjection
  <1>8. S # {} => n # 0
    BY <1>1, FS_EmptySet
  <1>. QED  BY <1>1, <1>2, <1>3, <1>7, <1>8

\* The elements of a sequence.
LEMMA Elements ==
  ASSUME NEW s \in Seq(Futures)
  PROVE  /\ Len(s) \in Nat
         /\ \A i \in 1..Len(s) : s[i] \in Futures /\ s[i] \in Range(s)
         /\ \A f \in Range(s) : f \in Futures /\ \E i \in 1..Len(s) : s[i] = f
  BY DEF Range

\* Sets of futures that are all in a sequence: they are no more than its length, and
\* all of it if they are as many.
LEMMA Counting ==
  ASSUME NEW s \in Seq(Futures), NEW T \in SUBSET Range(s)
  PROVE  /\ IsFiniteSet(T) /\ Cardinality(T) \in Nat
         /\ Cardinality(T) <= Len(s)
         /\ Cardinality(T) = Len(s) => T = Range(s)
  <1>1. Len(s) \in Nat /\ s \in [1..Len(s) -> Range(s)]
    BY DEF Range
  <1>2. s \in Surjection(1..Len(s), Range(s))
    BY <1>1 DEF Surjection, Range
  <1>3. IsFiniteSet(1..Len(s)) /\ Cardinality(1..Len(s)) = Len(s)
    BY <1>1, FS_Interval
  <1>4. IsFiniteSet(Range(s)) /\ Cardinality(Range(s)) <= Len(s)
    BY <1>2, <1>3, FS_Surjection
  <1>5. IsFiniteSet(T) /\ Cardinality(T) <= Cardinality(Range(s))
        /\ (Cardinality(Range(s)) = Cardinality(T) => Range(s) = T)
    BY <1>4, FS_Subset
  <1>6. Cardinality(T) \in Nat /\ Cardinality(Range(s)) \in Nat
    BY <1>4, <1>5, FS_CardinalityType
  <1>. QED  BY <1>1, <1>4, <1>5, <1>6

--------------------------------------------------------------------------------
(* The steps *)

\* Where a walk over the futures of a call is, there is a future.
LEMMA Walks ==
  ASSUME GroupTypeOK, ListInv, AskInv, MemberInv, NEW w \in Whens
  PROVE  /\ Len(list[w]) \in Nat
         /\ at[w] <= Len(list[w]) => at[w] \in 1..Len(list[w]) /\ list[w][at[w]] \in Futures
         /\ pc[w] = "reading" => at[w] <= Len(list[w])
         /\ asking[w] > 0 => /\ w \in Users /\ asking[w] \in 1..Len(list[w])
                             /\ list[w][asking[w]] \in Futures
  <1>. USE DEF GroupTypeOK
  <1>1. list[w] \in Seq(Futures) /\ Len(list[w]) \in Nat /\ at[w] \in Nat \ {0}
        /\ asking[w] \in Nat
    BY Elements
  <1>2. pc[w] = "reading" => at[w] <= Len(list[w])
    BY DEF ListInv
  <1>3. asking[w] > 0 => w \in Users /\ asking[w] <= Len(list[w])
    BY <1>1 DEF AskInv, MemberInv, Users
  <1>. QED  BY <1>1, <1>2, <1>3, Elements

\* The types of the futures and of the group.
LEMMA GroupTypeStep ==
  ASSUME GroupTypeOK, ListInv, AskInv, MemberInv, [Next]_vars
  PROVE  GroupTypeOK'
  <1>. USE DEF GroupTypeOK, Waits, Marks, Users
  <1>1. ASSUME NEW f \in Futures, Refuse(f)
        PROVE  GroupTypeOK'
    BY <1>1 DEF Refuse, whenVars, futureVars, loopVars, callbackVars, askVars
  <1>2. ASSUME NEW f \in Futures, Join(f)
        PROVE  GroupTypeOK'
    <2>1. PICK s \in Started(f) : state' = [state EXCEPT ![f] = s]
      BY <1>2 DEF Join
    <2>2. s \in {"none", "pending", "ended"}
      BY <2>1 DEF Started
    <2>3. members' \in SUBSET Futures
      BY <1>2 DEF Join, Collect
    <2>. QED  BY <1>2, <2>1, <2>2, <2>3 DEF Join, loopVars, callbackVars, askVars
  <1>3. ASSUME NEW f \in Futures, End(f), UNCHANGED groupVars
        PROVE  GroupTypeOK'
    <2>1. state' \in [Futures -> {"none", "pending", "ended"}]
      BY <1>3 DEF End
    <2>2. cb' \in [Whens -> [Futures -> Marks]]
      BY <1>3 DEF End
    <2>. QED  BY <1>3, <2>1, <2>2 DEF End, loopVars, askVars, groupVars
  <1>4. ASSUME NEW k \in Terminators, Terminate(k)
        PROVE  GroupTypeOK'
    <2>. k \in Whens
      BY GroupAssumption
    <2>1. PICK fs \in SetToSeqs(members) : list' = [list EXCEPT ![k] = fs]
      BY <1>4 DEF Terminate
    <2>2. list' \in [Whens -> Seq(Futures)]
      BY <2>1, Orders
    <2>3. pc' \in [Whens -> Waits] /\ before' \in [Terminators -> SUBSET Futures]
          /\ lock' \in Terminators \cup {None}
      BY <1>4 DEF Terminate
    <2>. QED  BY <1>4, <2>2, <2>3 DEF Terminate, futureVars, callbackVars, askVars
  <1>5. ASSUME NEW w \in Users, When(w)
        PROVE  GroupTypeOK'
    <2>1. PICK s \in SetToSeqs({f \in Futures : joining[f] = "returned"}) :
            list' = [list EXCEPT ![w] = s]
      BY <1>5 DEF When
    <2>2. list' \in [Whens -> Seq(Futures)]
      BY <2>1, Orders
    <2>3. pc' \in [Whens -> Waits] /\ kind' \in [Whens -> {"all", "any", "auto"}]
      BY <1>5, GroupAssumption DEF When
    <2>. QED  BY <1>5, <2>2, <2>3 DEF When, futureVars, callbackVars, askVars, groupVars
  <1>6. ASSUME NEW w \in Whens, Tell(w)
        PROVE  GroupTypeOK'
    <2>1. told' \in SUBSET Futures
      BY <1>6, Walks DEF Tell, Pending
    <2>2. at' \in [Whens -> Nat \ {0}]
      BY <1>6 DEF Tell
    <2>. QED  BY <1>6, <2>1, <2>2 DEF Tell, callbackVars, askVars
  <1>7. ASSUME NEW w \in Whens, WaitForAll(w)
        PROVE  GroupTypeOK'
    BY <1>7 DEF WaitForAll, futureVars, askVars, groupVars
  <1>8. ASSUME NEW w \in Whens, Terminated(w) \/ Returns(w)
        PROVE  GroupTypeOK'
    BY <1>8 DEF Terminated, Returns, futureVars, callbackVars, askVars, groupVars
  <1>9. ASSUME NEW w \in Whens, Check(w) \/ Attach(w) \/ UseMoved(w), UNCHANGED groupVars
        PROVE  GroupTypeOK'
    <2>1. CASE Attach(w)
      <3>1. list[w][at[w]] \in Futures
        BY <2>1, Walks DEF Attach
      <3>2. cb' \in [Whens -> [Futures -> Marks]]
        BY <2>1, <3>1 DEF Attach
      <3>3. at' \in [Whens -> Nat \ {0}]
        BY <2>1 DEF Attach
      <3>. QED  BY <1>9, <2>1, <3>2, <3>3 DEF Attach, futureVars, askVars, groupVars
    <2>2. CASE Check(w) \/ UseMoved(w)
      BY <1>9, <2>2 DEF Check, UseMoved, futureVars, loopVars, callbackVars, askVars, groupVars
    <2>. QED  BY <1>9, <2>1, <2>2
  <1>10. ASSUME NEW w \in Whens, NEW f \in Futures, UNCHANGED groupVars,
                Store(w, f) \/ Count(w, f) \/ Trigger(w, f) \/ Win(w, f)
         PROVE  GroupTypeOK'
    <2>1. CASE Store(w, f)
      BY <1>10, <2>1 DEF Store, futureVars, loopVars, askVars, groupVars
    <2>2. CASE Count(w, f)
      BY <1>10, <2>2 DEF Count, futureVars, loopVars, askVars, groupVars
    <2>3. CASE Trigger(w, f)
      <3>1. told' \in SUBSET Futures
        BY <2>3, Elements DEF Trigger, Pending
      <3>. QED  BY <1>10, <2>3, <3>1 DEF Trigger, loopVars, askVars, groupVars
    <2>4. CASE Win(w, f)
      BY <1>10, <2>4 DEF Win, futureVars, loopVars, askVars, groupVars
    <2>. QED  BY <1>10, <2>1, <2>2, <2>3, <2>4
  <1>11. ASSUME NEW w \in Whens, AskNext(w), UNCHANGED groupVars
         PROVE  GroupTypeOK'
    <2>1. told' \in SUBSET Futures
      BY <1>11, Walks DEF AskNext, Pending
    <2>2. asking' \in [Whens -> Nat]
      BY <1>11 DEF AskNext
    <2>. QED  BY <1>11, <2>1, <2>2 DEF AskNext, loopVars, callbackVars, groupVars
  <1>12. ASSUME NEW w \in Users, Ask(w), UNCHANGED groupVars
         PROVE  GroupTypeOK'
    BY <1>12 DEF Ask, futureVars, loopVars, callbackVars, groupVars
  <1>13. CASE UNCHANGED vars
    BY <1>13 DEF vars, whenVars, groupVars, futureVars, loopVars, callbackVars, askVars
  <1>. QED  BY <1>1, <1>2, <1>3, <1>4, <1>5, <1>6, <1>7, <1>8, <1>9, <1>10, <1>11, <1>12, <1>13
            DEF Next, CallStep, WhenStep

\* A future that was started, has ended or was told to end stays so.
LEMMA Forward ==
  ASSUME GroupTypeOK, MemberInv, [Next]_vars, NEW f \in Futures
  PROVE  /\ state[f] # "none" => state'[f] # "none"
         /\ state[f] = "ended" => state'[f] = "ended"
         /\ f \in told => f \in told'
         /\ Hit(f) => Hit(f)'
  <1>. USE DEF GroupTypeOK
  <1>. DEFINE
    Kept ==
      /\ state[f] # "none" => state'[f] # "none"
      /\ state[f] = "ended" => state'[f] = "ended"
      /\ f \in told => f \in told'
  <1>1. ASSUME NEW g \in Futures, Join(g)
        PROVE  Kept
    <2>1. PICK s \in Started(g) : state' = [state EXCEPT ![g] = s]
      BY <1>1 DEF Join
    <2>2. told' = told /\ (Canceler => state[g] = "none")
      BY <1>1 DEF Join, MemberInv
    <2>. QED  BY <2>1, <2>2 DEF Started
  <1>2. ASSUME NEW g \in Futures, End(g)
        PROVE  Kept
    BY <1>2 DEF End
  <1>3. ASSUME NEW w \in Whens,
               Tell(w) \/ AskNext(w) \/ \E g \in Futures : Trigger(w, g)
        PROVE  Kept
    BY <1>3 DEF Tell, AskNext, Trigger
  <1>4. ASSUME UNCHANGED futureVars
        PROVE  Kept
    BY <1>4 DEF futureVars
  <1>5. ASSUME NEW g \in Futures, Refuse(g)
        PROVE  Kept
    BY <1>4, <1>5 DEF Refuse, whenVars
  <1>6. ASSUME NEW w \in Whens, \/ Terminate(w) \/ When(w) \/ WaitForAll(w) \/ Terminated(w)
                                \/ Returns(w) \/ Ask(w) \/ Check(w) \/ Attach(w) \/ UseMoved(w)
        PROVE  Kept
    BY <1>4, <1>6 DEF Terminate, When, WaitForAll, Terminated, Returns, Ask, Check, Attach,
                      UseMoved
  <1>7. ASSUME NEW w \in Whens, NEW g \in Futures, Store(w, g) \/ Count(w, g) \/ Win(w, g)
        PROVE  Kept
    BY <1>4, <1>7 DEF Store, Count, Win
  <1>8. ASSUME UNCHANGED vars
        PROVE  Kept
    BY <1>4, <1>8 DEF vars, whenVars
  <1>9. Kept
    BY <1>1, <1>2, <1>3, <1>5, <1>6, <1>7, <1>8, GroupAssumption
       DEF Next, CallStep, WhenStep, Users
  <1>10. Hit(f)' <=> state'[f] = "ended" \/ f \in told'
    BY DEF Hit
  <1>. QED  BY <1>9, <1>10 DEF Hit

\* A call keeps its futures, and what it was told to do.
LEMMA ListStep ==
  ASSUME GroupTypeOK, ListInv, CallbackInv, AskInv, MemberInv, [Next]_vars
  PROVE  ListInv'
  <1>. USE DEF GroupTypeOK
  <1>. DEFINE
    Idle(w) ==
      /\ pc[w] = "idle" => list[w] = <<>> /\ w \notin asked /\ at[w] = 1
      /\ pc[w] \in {"idle", "telling"} => /\ \A f \in Futures : cb[w][f] = "none"
                                          /\ result[w] = "none" /\ w \notin triggered /\ count[w] = 0
                                          /\ stored[w] = {}
    Once(w) == \A i, j \in 1..Len(list[w]) : list[w][i] = list[w][j] => i = j
    Begun(w) == \A i \in 1..Len(list[w]) : state[list[w][i]] # "none"
    Going(w) ==
      /\ pc[w] = "reading" => IsAny(w) /\ at[w] <= Len(list[w])
      /\ pc[w] = "telling" => w \in Terminators
      /\ w \in Terminators => kind[w] = "all"
  <1>1. ListInv <=> \A w \in Whens : Idle(w) /\ Once(w) /\ Begun(w) /\ Going(w)
    BY DEF ListInv
  <1>2. ListInv' <=> \A w \in Whens : Idle(w)' /\ Once(w)' /\ Begun(w)' /\ Going(w)'
    BY DEF ListInv
  <1>3. \A w \in Whens : list'[w] = list[w] => Once(w)' /\ Begun(w)'
    BY <1>1, Forward, Elements
  <1>4. ASSUME UNCHANGED <<loopVars, cb, result, triggered, count, stored, asked>>
        PROVE  ListInv'
    BY <1>1, <1>2, <1>3, <1>4 DEF loopVars, IsAny
  <1>5. ASSUME NEW f \in Futures, Refuse(f) \/ Join(f)
        PROVE  ListInv'
    BY <1>4, <1>5 DEF Refuse, Join, whenVars, loopVars, callbackVars, askVars
  <1>6. ASSUME NEW f \in Futures, End(f)
        PROVE  ListInv'
    <2>1. \A w \in Whens : cb[w][f] = "none" => cb'[w] = cb[w]
      BY <1>6 DEF End
    <2>. QED  BY <1>1, <1>2, <1>3, <1>6, <2>1 DEF End, loopVars, IsAny, askVars
  <1>7. ASSUME NEW k \in Terminators, Terminate(k)
        PROVE  ListInv'
    <2>. k \in Whens
      BY GroupAssumption
    <2>1. PICK fs \in SetToSeqs(members) : list' = [list EXCEPT ![k] = fs]
      BY <1>7 DEF Terminate
    <2>2. pc' = [pc EXCEPT ![k] = "telling"] /\ pc[k] = "idle"
      BY <1>7 DEF Terminate
    <2>3. UNCHANGED <<kind, at, callbackVars, state, asked>>
      BY <1>7 DEF Terminate, futureVars, askVars
    <2>4. \A w \in Whens : Once(w)' /\ Begun(w)'
      <3>1. list'[k] = fs /\ \A f \in members : state[f] # "none"
        BY <2>1 DEF MemberInv
      <3>2. /\ \A i, j \in 1..Len(fs) : fs[i] = fs[j] => i = j
            /\ \A i \in 1..Len(fs) : fs[i] \in members
        BY <2>1, Orders
      <3>3. Once(k)' /\ Begun(k)'
        BY <2>3, <3>1, <3>2
      <3>. QED  BY <1>3, <2>1, <3>3
    <2>5. \A w \in Whens : Idle(w)'
      BY <1>1, <2>1, <2>2, <2>3 DEF callbackVars
    <2>6. \A w \in Whens : Going(w)'
      BY <1>1, <2>1, <2>2, <2>3 DEF IsAny
    <2>. QED  BY <1>2, <2>4, <2>5, <2>6
  <1>8. ASSUME NEW x \in Users, When(x)
        PROVE  ListInv'
    <2>. DEFINE fs == {f \in Futures : joining[f] = "returned"}
    <2>. x \in Whens /\ x \notin Terminators
      BY DEF Users
    <2>1. PICK s \in SetToSeqs(fs) : list' = [list EXCEPT ![x] = s]
      BY <1>8 DEF When
    <2>2. pc' = [pc EXCEPT ![x] = "looping"] /\ \E c \in Kinds : kind' = [kind EXCEPT ![x] = c]
      BY <1>8 DEF When
    <2>3. UNCHANGED <<at, callbackVars, state, asked>>
      BY <1>8 DEF When, futureVars, askVars
    <2>4. \A w \in Whens : Once(w)' /\ Begun(w)'
      <3>1. list'[x] = s /\ \A f \in fs : state[f] # "none"
        BY <2>1 DEF MemberInv
      <3>2. /\ \A i, j \in 1..Len(s) : s[i] = s[j] => i = j
            /\ \A i \in 1..Len(s) : s[i] \in fs
        BY <2>1, Orders
      <3>3. Once(x)' /\ Begun(x)'
        BY <2>3, <3>1, <3>2
      <3>. QED  BY <1>3, <2>1, <3>3
    <2>5. \A w \in Whens : Idle(w)'
      BY <1>1, <2>1, <2>2, <2>3 DEF callbackVars
    <2>6. \A w \in Whens : Going(w)'
      BY <1>1, <2>1, <2>2, <2>3 DEF IsAny
    <2>. QED  BY <1>2, <2>4, <2>5, <2>6
  <1>9. ASSUME NEW x \in Whens, Tell(x)
        PROVE  ListInv'
    BY <1>1, <1>2, <1>3, <1>9 DEF Tell, callbackVars, askVars, IsAny
  <1>10. ASSUME NEW x \in Whens, WaitForAll(x)
         PROVE  ListInv'
    BY <1>1, <1>2, <1>3, <1>10 DEF WaitForAll, askVars, IsAny
  <1>11. ASSUME NEW x \in Whens, Terminated(x) \/ Returns(x)
         PROVE  ListInv'
    BY <1>1, <1>2, <1>3, <1>11 DEF Terminated, Returns, callbackVars, askVars, IsAny
  <1>12. ASSUME NEW x \in Whens, Check(x)
         PROVE  ListInv'
    BY <1>1, <1>2, <1>3, <1>12 DEF Check, callbackVars, askVars, IsAny
  <1>13. ASSUME NEW x \in Whens, Attach(x)
         PROVE  ListInv'
    <2>1. pc[x] \in {"reading", "looping"} /\ pc' = [pc EXCEPT ![x] = "looping"]
      BY <1>13 DEF Attach
    <2>2. \A w \in Whens \ {x} : cb'[w] = cb[w] /\ at'[w] = at[w]
      BY <1>13 DEF Attach
    <2>3. UNCHANGED <<kind, list, stored, count, triggered, result, asked>>
      BY <1>13 DEF Attach, askVars
    <2>4. \A w \in Whens : Idle(w)'
      BY <1>1, <2>1, <2>2, <2>3
    <2>5. \A w \in Whens : Going(w)'
      BY <1>1, <2>1, <2>2, <2>3 DEF IsAny
    <2>. QED  BY <1>2, <1>3, <2>3, <2>4, <2>5
  <1>14. ASSUME NEW x \in Whens, UseMoved(x) \/ AskNext(x)
         PROVE  ListInv'
    BY <1>4, <1>14 DEF UseMoved, AskNext, callbackVars, askVars
  <1>15. ASSUME NEW x \in Whens, NEW f \in Futures,
                Store(x, f) \/ Count(x, f) \/ Trigger(x, f) \/ Win(x, f)
         PROVE  ListInv'
    <2>1. cb[x][f] # "none" /\ pc[x] \notin {"idle", "telling"}
      BY <1>1, <1>15 DEF Store, Count, Trigger, Win
    <2>2. UNCHANGED <<loopVars, asked>>
      BY <1>15 DEF Store, Count, Trigger, Win, askVars
    <2>3. \A w \in Whens \ {x} : /\ cb'[w] = cb[w] /\ result'[w] = result[w] /\ count'[w] = count[w]
                                 /\ stored'[w] = stored[w] /\ (w \in triggered' <=> w \in triggered)
      BY <1>15 DEF Store, Count, Trigger, Win
    <2>4. \A w \in Whens : Idle(w)'
      BY <1>1, <2>1, <2>2, <2>3 DEF loopVars
    <2>. QED  BY <1>1, <1>2, <1>3, <2>2, <2>4 DEF loopVars, IsAny
  <1>16. ASSUME NEW x \in Users, Ask(x)
         PROVE  ListInv'
    <2>. x \in Whens
      BY DEF Users
    <2>. QED  BY <1>1, <1>2, <1>3, <1>16 DEF Ask, loopVars, callbackVars, IsAny
  <1>17. CASE UNCHANGED vars
    BY <1>4, <1>17 DEF vars, whenVars, callbackVars, askVars
  <1>. QED  BY <1>5, <1>6, <1>7, <1>8, <1>9, <1>10, <1>11, <1>12, <1>13, <1>14, <1>15, <1>16, <1>17
            DEF Next, CallStep, WhenStep

\* Only the callback on one future of one call moves at a time.
LEMMA CallbackStep ==
  ASSUME GroupTypeOK, ListInv, CallbackInv, AskInv, MemberInv, [Next]_vars
  PROVE  CallbackInv'
  <1>. USE DEF GroupTypeOK
  <1>1. \A w \in Whens, f \in Futures : Placed(w, f) /\ Caused(w, f) /\ Fits(w, f)
    BY DEF CallbackInv, CallbackOK
  <1>2. (\A w \in Whens, f \in Futures : CallbackOK(w, f)') => CallbackInv'
    BY DEF CallbackInv
  <1>3. ASSUME NEW w \in Whens, NEW f \in Futures, cb'[w][f] = cb[w][f],
               list'[w] = list[w], at'[w] = at[w] \/ at'[w] = at[w] + 1, kind'[w] = kind[w],
               stored[w] \subseteq stored'[w]
        PROVE  CallbackOK(w, f)'
    <2>1. Placed(w, f)'
      BY <1>1, <1>3 DEF Placed
    <2>2. Caused(w, f)'
      BY <1>1, <1>3, Forward DEF Caused
    <2>3. Fits(w, f)'
      BY <1>1, <1>3 DEF Fits, IsAny
    <2>. QED  BY <2>1, <2>2, <2>3 DEF CallbackOK
  <1>4. ASSUME NEW w \in Whens, NEW f \in Futures, cb'[w][f] = "none"
        PROVE  CallbackOK(w, f)'
    BY <1>4 DEF CallbackOK, Placed, Caused, Fits
  <1>5. ASSUME UNCHANGED <<cb, list, kind, stored>>,
               \A w \in Whens : at'[w] = at[w] \/ at'[w] = at[w] + 1
        PROVE  CallbackInv'
    BY <1>2, <1>3, <1>5
  <1>6. ASSUME NEW f \in Futures, Refuse(f) \/ Join(f)
        PROVE  CallbackInv'
    BY <1>5, <1>6 DEF Refuse, Join, whenVars, loopVars, callbackVars
  <1>7. ASSUME NEW f \in Futures, End(f)
        PROVE  CallbackInv'
    <2>1. /\ state'[f] = "ended" /\ UNCHANGED <<list, kind, stored, at>>
          /\ \A w \in Whens, g \in Futures \ {f} : cb'[w][g] = cb[w][g]
          /\ \A w \in Whens : \/ cb'[w][f] = cb[w][f]
                              \/ cb'[w][f] = "due" /\ cb[w][f] = "attached"
      <3>1. UNCHANGED <<list, kind, stored, at>> /\ state' = [state EXCEPT ![f] = "ended"]
            /\ cb' = [w \in Whens |-> IF cb[w][f] = "attached" THEN [cb[w] EXCEPT ![f] = "due"]
                                                             ELSE cb[w]]
        BY <1>7 DEF End, loopVars
      <3>2. ASSUME NEW w \in Whens
            PROVE  /\ \A g \in Futures \ {f} : cb'[w][g] = cb[w][g]
                   /\ cb'[w][f] = cb[w][f] \/ (cb'[w][f] = "due" /\ cb[w][f] = "attached")
        <4>1. cb[w] \in [Futures -> Marks]
          OBVIOUS
        <4>2. CASE cb[w][f] = "attached"
          <5>1. cb'[w] = [cb[w] EXCEPT ![f] = "due"]
            BY <3>1, <4>2
          <5>. QED  BY <4>1, <4>2, <5>1
        <4>3. CASE cb[w][f] # "attached"
          BY <3>1, <4>3
        <4>. QED  BY <4>2, <4>3
      <3>. QED  BY <3>1, <3>2
    <2>2. ASSUME NEW w \in Whens, cb'[w][f] = "due", cb[w][f] = "attached"
          PROVE  CallbackOK(w, f)'
      <3>1. Placed(w, f)'
        <4>1. Placed(w, f) /\ cb[w][f] # "none"
          BY <1>1, <2>2
        <4>2. UNCHANGED <<list, at>>
          BY <2>1
        <4>. QED  BY <4>1, <4>2 DEF Placed
      <3>. QED  BY <2>1, <2>2, <3>1 DEF CallbackOK, Caused, Fits
    <2>3. ASSUME NEW w \in Whens, NEW g \in Futures
          PROVE  CallbackOK(w, g)'
      <3>1. CASE cb'[w][g] = cb[w][g]
        BY <1>3, <2>1, <3>1
      <3>2. CASE cb'[w][g] # cb[w][g]
        BY <2>1, <2>2, <3>2
      <3>. QED  BY <3>1, <3>2
    <2>. QED  BY <1>2, <2>3
  <1>8. ASSUME NEW x \in Whens, Terminate(x) \/ When(x)
        PROVE  CallbackInv'
    <2>1. pc[x] = "idle" /\ UNCHANGED <<cb, stored, at>>
          /\ \A w \in Whens \ {x} : list'[w] = list[w] /\ kind'[w] = kind[w]
      BY <1>8 DEF Terminate, When, callbackVars
    <2>2. \A f \in Futures : cb'[x][f] = "none"
      BY <2>1 DEF ListInv
    <2>3. ASSUME NEW w \in Whens, NEW f \in Futures
          PROVE  CallbackOK(w, f)'
      <3>1. CASE w = x
        BY <1>4, <2>2, <3>1
      <3>2. CASE w # x
        BY <1>3, <2>1, <3>2
      <3>. QED  BY <3>1, <3>2
    <2>. QED  BY <1>2, <2>3
  <1>9. ASSUME NEW x \in Whens, Tell(x)
        PROVE  CallbackInv'
    BY <1>5, <1>9 DEF Tell, callbackVars
  <1>10. ASSUME NEW x \in Whens, WaitForAll(x)
         PROVE  CallbackInv'
    <2>1. pc[x] = "telling" /\ UNCHANGED <<cb, stored, list, kind>>
          /\ \A w \in Whens \ {x} : at'[w] = at[w]
      BY <1>10 DEF WaitForAll
    <2>2. \A f \in Futures : cb'[x][f] = "none"
      BY <2>1 DEF ListInv
    <2>3. ASSUME NEW w \in Whens, NEW f \in Futures
          PROVE  CallbackOK(w, f)'
      <3>1. CASE w = x
        BY <1>4, <2>2, <3>1
      <3>2. CASE w # x
        BY <1>3, <2>1, <3>2
      <3>. QED  BY <3>1, <3>2
    <2>. QED  BY <1>2, <2>3
  <1>11. ASSUME NEW x \in Whens, \/ Terminated(x) \/ Returns(x) \/ Check(x) \/ UseMoved(x)
                                 \/ AskNext(x) \/ Ask(x)
         PROVE  CallbackInv'
    BY <1>5, <1>11 DEF Terminated, Returns, Check, UseMoved, AskNext, Ask, loopVars, callbackVars
  <1>12. ASSUME NEW x \in Whens, Attach(x)
         PROVE  CallbackInv'
    <2>1. PICK g \in Futures : g = list[x][at[x]] /\ at[x] \in 1..Len(list[x])
      BY <1>12, Walks DEF Attach
    <2>2. cb' = [cb EXCEPT ![x][g] = IF state[g] = "ended" THEN "due" ELSE "attached"]
          /\ at' = [at EXCEPT ![x] = @ + 1] /\ UNCHANGED <<kind, list, stored, state>>
      BY <1>12, <2>1 DEF Attach, futureVars
    <2>3. Placed(x, g)'
      <3>1. at'[x] = at[x] + 1 /\ list'[x] = list[x] /\ at[x] < at[x] + 1
        BY <2>1, <2>2
      <3>. QED  BY <2>1, <3>1 DEF Placed
    <2>4. Caused(x, g)' /\ Fits(x, g)'
      BY <2>1, <2>2 DEF Caused, Fits
    <2>5. \A w \in Whens, f \in Futures : ~(w = x /\ f = g) => cb'[w][f] = cb[w][f]
      BY <2>1, <2>2
    <2>6. \A w \in Whens : at'[w] = at[w] \/ at'[w] = at[w] + 1
      BY <2>2
    <2>7. ASSUME NEW w \in Whens, NEW f \in Futures
          PROVE  CallbackOK(w, f)'
      <3>1. CASE w = x /\ f = g
        BY <2>3, <2>4, <3>1 DEF CallbackOK
      <3>2. CASE ~(w = x /\ f = g)
        BY <1>3, <2>2, <2>5, <2>6, <3>2
      <3>. QED  BY <3>1, <3>2
    <2>. QED  BY <1>2, <2>7
  <1>13. ASSUME NEW x \in Whens, NEW g \in Futures,
                Store(x, g) \/ Count(x, g) \/ Trigger(x, g) \/ Win(x, g)
         PROVE  CallbackInv'
    <2>1. UNCHANGED <<kind, list, at, state>> /\ cb[x][g] # "none"
      BY <1>13 DEF Store, Count, Trigger, Win, loopVars, futureVars
    <2>8. \A w \in Whens, f \in Futures : ~(w = x /\ f = g) => cb'[w][f] = cb[w][f]
      <3>1. \E m \in Marks : cb' = [cb EXCEPT ![x][g] = m]
        BY <1>13 DEF Store, Count, Trigger, Win, Marks
      <3>. QED  BY <3>1
    <2>2. \A w \in Whens : stored[w] \subseteq stored'[w]
      <3>1. Store(x, g) => stored' = [stored EXCEPT ![x] = @ \cup {g}]
        BY DEF Store
      <3>2. ~Store(x, g) => stored' = stored
        BY <1>13 DEF Count, Trigger, Win
      <3>. QED  BY <3>1, <3>2
    <2>3. Placed(x, g)'
      BY <1>1, <2>1 DEF Placed
    <2>4. cb[x][g] \in {"due", "stored", "won"}
      BY <1>13 DEF Store, Count, Trigger, Win
    <2>5. Caused(x, g)'
      BY <1>1, <2>1, <2>4 DEF Caused
    <2>6. Fits(x, g)'
      <3>1. CASE Store(x, g)
        BY <2>1, <3>1 DEF Store, Fits, IsAny
      <3>2. CASE Count(x, g)
        BY <1>1, <2>1, <2>2, <3>2 DEF Count, Fits, IsAny
      <3>3. CASE Trigger(x, g)
        BY <2>1, <3>3 DEF Trigger, Fits, IsAny
      <3>4. CASE Win(x, g)
        BY <1>1, <2>1, <2>2, <3>4 DEF Win, Fits, IsAny
      <3>. QED  BY <1>13, <3>1, <3>2, <3>3, <3>4
    <2>7. ASSUME NEW w \in Whens, NEW f \in Futures
          PROVE  CallbackOK(w, f)'
      <3>1. CASE w = x /\ f = g
        BY <2>3, <2>5, <2>6, <3>1 DEF CallbackOK
      <3>2. CASE ~(w = x /\ f = g)
        BY <1>3, <2>1, <2>2, <2>8, <3>2
      <3>. QED  BY <3>1, <3>2
    <2>. QED  BY <1>2, <2>7
  <1>14. CASE UNCHANGED vars
    BY <1>5, <1>14 DEF vars, whenVars, loopVars, callbackVars
  <1>. QED  BY <1>6, <1>7, <1>8, <1>9, <1>10, <1>11, <1>12, <1>13, <1>14, GroupAssumption
            DEF Next, CallStep, WhenStep, Users

\* The callback that the loop is to attach was not attached before.
LEMMA AttachesOnce ==
  ASSUME GroupTypeOK, ListInv, CallbackInv, AskInv, MemberInv, NEW w \in Whens, Attach(w)
  PROVE  \E g \in Futures :
           /\ g = list[w][at[w]] /\ at[w] \in 1..Len(list[w]) /\ cb[w][g] = "none"
           /\ \E m \in {"due", "attached"} : cb' = [cb EXCEPT ![w][g] = m]
  <1>1. at[w] \in 1..Len(list[w]) /\ list[w][at[w]] \in Futures
    BY Walks DEF Attach
  <1>2. ASSUME cb[w][list[w][at[w]]] # "none"
        PROVE  FALSE
    <2>1. PICK i \in 1..Len(list[w]) : i < at[w] /\ list[w][i] = list[w][at[w]]
      BY <1>1, <1>2 DEF CallbackInv, CallbackOK, Placed
    <2>2. i = at[w]
      BY <1>1, <2>1 DEF ListInv
    <2>. QED  BY <1>1, <2>1, <2>2
  <1>. QED  BY <1>1, <1>2 DEF Attach

\* What a step of a callback, or of the loop, does to the callbacks.
LEMMA AllStep ==
  ASSUME GroupTypeOK, ListInv, CallbackInv, AllInv, AskInv, MemberInv, [Next]_vars
  PROVE  AllInv'
  <1>. USE DEF GroupTypeOK
  <1>. DEFINE
    Counted(w) == count[w] = IF IsAny(w) THEN 0 ELSE Cardinality(Over(w))
    Full(w) == result[w] = "all" => /\ ~IsAny(w)
                                    /\ \A i \in 1..Len(list[w]) : cb[w][list[w][i]] = "over"
  <1>1. \A w \in Whens : Counted(w) /\ Full(w)
    BY DEF AllInv
  <1>2. (\A w \in Whens : Counted(w)' /\ Full(w)') => AllInv'
    BY DEF AllInv
  <1>3. ASSUME NEW w \in Whens, UNCHANGED <<count[w], kind[w], list[w]>>, result'[w] \in {result[w], "none"},
               \A f \in Futures : cb'[w][f] = "over" <=> cb[w][f] = "over"
        PROVE  Counted(w)' /\ Full(w)'
    <2>1. Over(w)' = Over(w)
      BY <1>3 DEF Over
    <2>2. Counted(w)'
      BY <1>1, <1>3, <2>1 DEF IsAny
    <2>3. Full(w)'
      BY <1>1, <1>3, Elements DEF IsAny
    <2>. QED  BY <2>2, <2>3
  <1>4. ASSUME NEW w \in Whens, \A f \in Futures : cb'[w][f] = "none", count'[w] = 0,
               result'[w] = "none"
        PROVE  Counted(w)' /\ Full(w)'
    <2>1. Over(w)' = {}
      BY <1>4 DEF Over
    <2>. QED  BY <1>4, <2>1, FS_EmptySet
  <1>5. ASSUME UNCHANGED <<cb, count, kind, list, result>>
        PROVE  AllInv'
    BY <1>2, <1>3, <1>5
  <1>6. ASSUME NEW f \in Futures, Refuse(f) \/ Join(f)
        PROVE  AllInv'
    BY <1>5, <1>6 DEF Refuse, Join, whenVars, loopVars, callbackVars
  <1>7. ASSUME NEW f \in Futures, End(f)
        PROVE  AllInv'
    <2>1. UNCHANGED <<count, kind, list, result>>
          /\ cb' = [w \in Whens |-> IF cb[w][f] = "attached" THEN [cb[w] EXCEPT ![f] = "due"]
                                                           ELSE cb[w]]
      BY <1>7 DEF End, loopVars
    <2>2. ASSUME NEW w \in Whens, NEW g \in Futures
          PROVE  cb'[w][g] = "over" <=> cb[w][g] = "over"
      <3>1. cb[w] \in [Futures -> Marks]
        OBVIOUS
      <3>. QED  BY <2>1, <3>1
    <2>. QED  BY <1>2, <1>3, <2>1, <2>2
  <1>8. ASSUME NEW x \in Whens, Terminate(x) \/ When(x)
        PROVE  AllInv'
    <2>1. /\ pc[x] = "idle" /\ UNCHANGED <<cb, count, result>>
          /\ \A w \in Whens \ {x} : list'[w] = list[w] /\ kind'[w] = kind[w]
      BY <1>8 DEF Terminate, When, callbackVars
    <2>2. Counted(x)' /\ Full(x)'
      BY <1>4, <2>1 DEF ListInv
    <2>3. ASSUME NEW w \in Whens
          PROVE  Counted(w)' /\ Full(w)'
      <3>1. CASE w = x
        BY <2>2, <3>1
      <3>2. CASE w # x
        BY <1>3, <2>1, <3>2
      <3>. QED  BY <3>1, <3>2
    <2>. QED  BY <1>2, <2>3
  <1>9. ASSUME NEW x \in Whens, Tell(x)
        PROVE  AllInv'
    BY <1>5, <1>9 DEF Tell, callbackVars
  <1>10. ASSUME NEW x \in Whens, WaitForAll(x)
         PROVE  AllInv'
    <2>1. /\ pc[x] = "telling" /\ UNCHANGED <<cb, count, list, kind>>
          /\ result' = [result EXCEPT ![x] = IF list[x] = <<>> THEN "all" ELSE @]
      BY <1>10 DEF WaitForAll
    <2>2. Counted(x)'
      <3>1. \A f \in Futures : cb'[x][f] = "over" <=> cb[x][f] = "over"
        BY <2>1
      <3>2. Over(x)' = Over(x)
        BY <3>1 DEF Over
      <3>. QED  BY <1>1, <2>1, <3>2 DEF IsAny
    <2>3. ~IsAny(x)' /\ result[x] = "none"
      BY <2>1 DEF ListInv, IsAny
    <2>4. list[x] = <<>> => Len(list'[x]) = 0
      BY <2>1
    <2>5. Full(x)'
      BY <2>1, <2>3, <2>4
    <2>6. ASSUME NEW w \in Whens
          PROVE  Counted(w)' /\ Full(w)'
      <3>1. CASE w = x
        BY <2>2, <2>5, <3>1
      <3>2. CASE w # x
        BY <1>3, <2>1, <3>2
      <3>. QED  BY <3>1, <3>2
    <2>. QED  BY <1>2, <2>6
  <1>11. ASSUME NEW x \in Whens, \/ Terminated(x) \/ Returns(x) \/ Check(x) \/ UseMoved(x)
                                 \/ AskNext(x) \/ Ask(x)
         PROVE  AllInv'
    BY <1>5, <1>11 DEF Terminated, Returns, Check, UseMoved, AskNext, Ask, loopVars, callbackVars
  <1>12. ASSUME NEW x \in Whens, Attach(x)
         PROVE  AllInv'
    <2>1. PICK g \in Futures :
            /\ cb[x][g] = "none"
            /\ \E m \in {"due", "attached"} : cb' = [cb EXCEPT ![x][g] = m]
      BY <1>12, AttachesOnce
    <2>2. UNCHANGED <<count, kind, list, result>>
      BY <1>12 DEF Attach
    <2>3. \A w \in Whens, f \in Futures : cb'[w][f] = "over" <=> cb[w][f] = "over"
      BY <2>1
    <2>. QED  BY <1>2, <1>3, <2>2, <2>3
  <1>13. ASSUME NEW x \in Whens, NEW g \in Futures, Store(x, g)
         PROVE  AllInv'
    <2>1. cb[x][g] = "due" /\ cb' = [cb EXCEPT ![x][g] = "stored"]
          /\ UNCHANGED <<count, kind, list, result>>
      BY <1>13 DEF Store, loopVars
    <2>2. \A w \in Whens, f \in Futures : cb'[w][f] = "over" <=> cb[w][f] = "over"
      BY <2>1
    <2>. QED  BY <1>2, <1>3, <2>1, <2>2
  <1>14. ASSUME NEW x \in Whens, NEW g \in Futures, Count(x, g)
         PROVE  AllInv'
    <2>1. /\ cb[x][g] = "stored" /\ cb' = [cb EXCEPT ![x][g] = "over"]
          /\ count' = [count EXCEPT ![x] = @ + 1] /\ UNCHANGED <<kind, list>>
          /\ result' = [result EXCEPT ![x] = IF count[x] + 1 = Len(list[x]) THEN "all" ELSE @]
      BY <1>14 DEF Count, loopVars
    <2>2. ~IsAny(x) /\ g \notin Over(x) /\ ~IsAny(x)'
      BY <2>1 DEF CallbackInv, CallbackOK, Fits, Over, IsAny
    <2>3. \A w \in Whens, f \in Futures : cb'[w][f] = IF w = x /\ f = g THEN "over" ELSE cb[w][f]
      BY <2>1
    <2>4. Over(x)' = Over(x) \cup {g}
      BY <2>3 DEF Over
    <2>5. list[x] \in Seq(Futures) /\ Over(x)' \subseteq Range(list[x])
      <3>1. \A f \in Over(x)' : f \in Futures /\ cb[x][f] # "none"
        BY <2>1, <2>4 DEF Over
      <3>2. \A f \in Over(x)' : \E i \in 1..Len(list[x]) : list[x][i] = f
        BY <3>1 DEF CallbackInv, CallbackOK, Placed
      <3>3. \A i \in 1..Len(list[x]) : list[x][i] \in Range(list[x])
        BY Elements
      <3>. QED  BY <3>2, <3>3
    <2>6. IsFiniteSet(Over(x))
      BY WhenAssumption, FS_Subset DEF Over
    <2>7. Counted(x)'
      <3>1. Cardinality(Over(x)') = Cardinality(Over(x)) + 1
        <4>1. Cardinality(Over(x) \cup {g}) = Cardinality(Over(x)) + 1
          BY <2>2, <2>6, FS_AddElement
        <4>. QED  BY <2>4, <4>1
      <3>2. count[x] = Cardinality(Over(x)) /\ count'[x] = count[x] + 1
        BY <1>1, <2>1, <2>2
      <3>. QED  BY <2>2, <3>1, <3>2
    <2>8. Full(x)'
      <3>1. CASE count[x] + 1 = Len(list[x])
        <4>1. Cardinality(Over(x)') = Len(list[x])
          BY <2>1, <2>2, <2>7, <3>1
        <4>2. Over(x)' = Range(list[x])
          BY <2>5, <4>1, Counting
        <4>3. \A i \in 1..Len(list[x]) : list[x][i] \in Over(x)'
          BY <2>5, <4>2, Elements
        <4>. QED  BY <2>1, <2>2, <4>3 DEF Over
      <3>2. CASE count[x] + 1 # Len(list[x])
        <4>1. result'[x] = result[x] /\ list'[x] = list[x]
          BY <2>1, <3>2
        <4>2. \A i \in 1..Len(list[x]) : list[x][i] \in Futures
          BY Elements
        <4>3. result[x] = "all" => \A i \in 1..Len(list[x]) : cb'[x][list[x][i]] = "over"
          BY <1>1, <2>3, <4>2
        <4>. QED  BY <2>2, <4>1, <4>3
      <3>. QED  BY <3>1, <3>2
    <2>9. ASSUME NEW w \in Whens
          PROVE  Counted(w)' /\ Full(w)'
      <3>1. CASE w = x
        BY <2>7, <2>8, <3>1
      <3>2. CASE w # x
        <4>1. UNCHANGED <<count[w], kind[w], list[w]>> /\ result'[w] = result[w]
          BY <2>1, <3>2
        <4>2. \A f \in Futures : cb'[w][f] = "over" <=> cb[w][f] = "over"
          BY <2>3, <3>2
        <4>. QED  BY <1>3, <4>1, <4>2
      <3>. QED  BY <3>1, <3>2
    <2>. QED  BY <1>2, <2>9
  <1>15. ASSUME NEW x \in Whens, NEW g \in Futures, Trigger(x, g) \/ Win(x, g)
         PROVE  AllInv'
    <2>1. UNCHANGED <<count, kind, list>> /\ \E m \in Marks : cb' = [cb EXCEPT ![x][g] = m]
      BY <1>15 DEF Trigger, Win, loopVars, Marks
    <2>2. IsAny(x) /\ IsAny(x)'
      BY <1>15 DEF Trigger, Win, loopVars, CallbackInv, CallbackOK, Fits, IsAny
    <2>3. result'[x] # "all" /\ \A w \in Whens \ {x} : result'[w] = result[w]
      BY <1>1, <1>15, <2>2, WhenAssumption DEF Trigger, Win
    <2>4. Counted(x)' /\ Full(x)'
      BY <1>1, <2>1, <2>2, <2>3
    <2>5. ASSUME NEW w \in Whens
          PROVE  Counted(w)' /\ Full(w)'
      <3>1. CASE w = x
        BY <2>4, <3>1
      <3>2. CASE w # x
        <4>1. UNCHANGED <<count[w], kind[w], list[w]>> /\ result'[w] = result[w]
          BY <2>1, <2>3, <3>2
        <4>2. \A f \in Futures : cb'[w][f] = cb[w][f]
          BY <2>1, <3>2
        <4>. QED  BY <1>3, <4>1, <4>2
      <3>. QED  BY <3>1, <3>2
    <2>. QED  BY <1>2, <2>5
  <1>16. CASE UNCHANGED vars
    BY <1>5, <1>16 DEF vars, whenVars, loopVars, callbackVars
  <1>. QED  BY <1>6, <1>7, <1>8, <1>9, <1>10, <1>11, <1>12, <1>13, <1>14, <1>15, <1>16,
               GroupAssumption DEF Next, CallStep, WhenStep, Users

\* A winner is elected once.
LEMMA AnyStep ==
  ASSUME GroupTypeOK, ListInv, CallbackInv, AllInv, AnyInv, AskInv, MemberInv, [Next]_vars
  PROVE  AnyInv'
  <1>. USE DEF GroupTypeOK
  <1>. DEFINE
    Known(w) == /\ result[w] \in Futures => state[result[w]] = "ended"
                /\ result[w] \in Futures => w \in triggered
    Alone(w) == /\ \A f \in Futures : cb[w][f] = "won" => w \in triggered /\ result[w] = "none"
                /\ \A f, g \in Futures : cb[w][f] = "won" /\ cb[w][g] = "won" => f = g
  <1>1. \A w \in Whens : Known(w) /\ Alone(w)
    BY DEF AnyInv
  <1>2. (\A w \in Whens : Known(w)' /\ Alone(w)') => AnyInv'
    BY DEF AnyInv
  <1>3. ASSUME NEW w \in Whens, UNCHANGED result[w], w \in triggered <=> w \in triggered',
               \A f \in Futures : cb'[w][f] = "won" => cb[w][f] = "won"
        PROVE  Known(w)' /\ Alone(w)'
    <2>1. Known(w)'
      BY <1>1, <1>3, Forward
    <2>2. Alone(w)'
      BY <1>1, <1>3
    <2>. QED  BY <2>1, <2>2
  <1>4. ASSUME NEW w \in Whens, \A f \in Futures : cb'[w][f] # "won", result'[w] \notin Futures
        PROVE  Known(w)' /\ Alone(w)'
    BY <1>4
  <1>5. ASSUME UNCHANGED <<cb, result, triggered>>
        PROVE  AnyInv'
    BY <1>2, <1>3, <1>5
  <1>6. ASSUME NEW f \in Futures, Refuse(f) \/ Join(f)
        PROVE  AnyInv'
    BY <1>5, <1>6 DEF Refuse, Join, whenVars, callbackVars
  <1>7. ASSUME NEW f \in Futures, End(f)
        PROVE  AnyInv'
    <2>1. UNCHANGED <<result, triggered>>
          /\ cb' = [w \in Whens |-> IF cb[w][f] = "attached" THEN [cb[w] EXCEPT ![f] = "due"]
                                                           ELSE cb[w]]
      BY <1>7 DEF End
    <2>2. ASSUME NEW w \in Whens, NEW g \in Futures
          PROVE  cb'[w][g] = "won" => cb[w][g] = "won"
      <3>1. cb[w] \in [Futures -> Marks]
        OBVIOUS
      <3>. QED  BY <2>1, <3>1
    <2>. QED  BY <1>2, <1>3, <2>1, <2>2
  <1>8. ASSUME NEW x \in Whens, \/ Terminate(x) \/ When(x) \/ Tell(x) \/ Terminated(x)
                                \/ Returns(x) \/ Check(x) \/ UseMoved(x) \/ AskNext(x) \/ Ask(x)
        PROVE  AnyInv'
    BY <1>5, <1>8 DEF Terminate, When, Tell, Terminated, Returns, Check, UseMoved, AskNext, Ask,
                      callbackVars
  <1>9. ASSUME NEW x \in Whens, WaitForAll(x)
        PROVE  AnyInv'
    <2>1. /\ pc[x] = "telling" /\ UNCHANGED <<cb, triggered>>
          /\ result' = [result EXCEPT ![x] = IF list[x] = <<>> THEN "all" ELSE @]
      BY <1>9 DEF WaitForAll
    <2>2. (\A f \in Futures : cb'[x][f] # "won") /\ result'[x] \notin Futures
      BY <2>1, WhenAssumption DEF ListInv
    <2>3. ASSUME NEW w \in Whens
          PROVE  Known(w)' /\ Alone(w)'
      <3>1. CASE w = x
        BY <1>4, <2>2, <3>1
      <3>2. CASE w # x
        BY <1>3, <2>1, <3>2
      <3>. QED  BY <3>1, <3>2
    <2>. QED  BY <1>2, <2>3
  <1>10. ASSUME NEW x \in Whens, NEW g \in Futures, NEW m \in Marks \ {"won"},
                cb' = [cb EXCEPT ![x][g] = m], UNCHANGED <<result, triggered>>
         PROVE  AnyInv'
    <2>1. \A w \in Whens, f \in Futures : cb'[w][f] = "won" => cb[w][f] = "won"
      BY <1>10
    <2>2. \A w \in Whens : result'[w] = result[w] /\ (w \in triggered <=> w \in triggered')
      BY <1>10
    <2>. QED  BY <1>2, <1>3, <2>1, <2>2
  <1>11. ASSUME NEW x \in Whens, Attach(x)
         PROVE  AnyInv'
    <2>1. PICK g \in Futures : \E m \in {"due", "attached"} : cb' = [cb EXCEPT ![x][g] = m]
      BY <1>11, AttachesOnce
    <2>. QED  BY <1>10, <1>11, <2>1 DEF Attach, Marks
  <1>12. ASSUME NEW x \in Whens, NEW g \in Futures, Store(x, g)
         PROVE  AnyInv'
    BY <1>10, <1>12 DEF Store, Marks
  <1>13. ASSUME NEW x \in Whens, NEW g \in Futures, Count(x, g)
         PROVE  AnyInv'
    <2>1. /\ cb[x][g] = "stored" /\ cb' = [cb EXCEPT ![x][g] = "over"] /\ UNCHANGED triggered
          /\ result' = [result EXCEPT ![x] = IF count[x] + 1 = Len(list[x]) THEN "all" ELSE @]
      BY <1>13 DEF Count
    <2>2. \A f \in Futures : cb[x][f] # "won"
      BY <2>1 DEF CallbackInv, CallbackOK, Fits
    <2>3. \A w \in Whens, f \in Futures : cb'[w][f] = "won" => cb[w][f] = "won"
      BY <2>1
    <2>4. ASSUME NEW w \in Whens
          PROVE  Known(w)' /\ Alone(w)'
      <3>1. CASE result'[w] = result[w]
        BY <1>3, <2>1, <2>3, <3>1
      <3>2. CASE result'[w] # result[w]
        <4>1. w = x /\ result'[w] = "all"
          BY <2>1, <3>2
        <4>. QED  BY <1>4, <2>2, <2>3, <4>1, WhenAssumption
      <3>. QED  BY <3>1, <3>2
    <2>. QED  BY <1>2, <2>4
  <1>14. ASSUME NEW x \in Whens, NEW g \in Futures, Trigger(x, g)
         PROVE  AnyInv'
    <2>1. /\ cb' = [cb EXCEPT ![x][g] = IF x \in triggered THEN "over" ELSE "won"]
          /\ triggered' = triggered \cup {x} /\ UNCHANGED result /\ IsAny(x)
      BY <1>14 DEF Trigger
    <2>2. \A w \in Whens, f \in Futures :
            cb'[w][f] = IF w = x /\ f = g THEN IF x \in triggered THEN "over" ELSE "won"
                                          ELSE cb[w][f]
      BY <2>1
    <2>3. ASSUME x \notin triggered
          PROVE  Known(x)' /\ Alone(x)'
      <3>1. result[x] = "none" /\ \A f \in Futures : cb[x][f] # "won"
        BY <1>1, <2>1, <2>3 DEF AllInv
      <3>. QED  BY <2>1, <2>2, <2>3, <3>1, WhenAssumption
    <2>4. ASSUME NEW w \in Whens, w # x \/ x \in triggered
          PROVE  Known(w)' /\ Alone(w)'
      <3>1. \A f \in Futures : cb'[w][f] = "won" => cb[w][f] = "won"
        BY <2>2, <2>4
      <3>. QED  BY <1>3, <2>1, <2>4, <3>1
    <2>. QED  BY <1>2, <2>3, <2>4
  <1>15. ASSUME NEW x \in Whens, NEW g \in Futures, Win(x, g)
         PROVE  AnyInv'
    <2>1. /\ cb[x][g] = "won" /\ cb' = [cb EXCEPT ![x][g] = "over"]
          /\ result' = [result EXCEPT ![x] = g] /\ UNCHANGED <<triggered, state>>
      BY <1>15 DEF Win, futureVars
    <2>2. x \in triggered /\ state[g] = "ended" /\ \A f \in Futures : cb[x][f] = "won" => f = g
      BY <1>1, <2>1 DEF CallbackInv, CallbackOK, Caused
    <2>3. Known(x)' /\ Alone(x)'
      <3>1. \A f \in Futures : cb'[x][f] # "won"
        BY <2>1, <2>2
      <3>. QED  BY <2>1, <2>2, <3>1
    <2>4. ASSUME NEW w \in Whens \ {x}
          PROVE  Known(w)' /\ Alone(w)'
      BY <1>3, <2>1
    <2>. QED  BY <1>2, <2>3, <2>4
  <1>16. CASE UNCHANGED vars
    BY <1>5, <1>16 DEF vars, whenVars, callbackVars
  <1>. QED  BY <1>6, <1>7, <1>8, <1>9, <1>11, <1>12, <1>13, <1>14, <1>15, <1>16,
               GroupAssumption DEF Next, CallStep, WhenStep, Users

\* request_cancel() goes on until the last future.
LEMMA AskStep ==
  ASSUME GroupTypeOK, ListInv, AskInv, MemberInv, [Next]_vars
  PROVE  AskInv'
  <1>. USE DEF GroupTypeOK
  <1>. DEFINE
    Going(w) ==
      /\ asking[w] # 0 => w \in asked
      /\ asking[w] <= Len(list[w])
      /\ w \in asked => pc[w] = "returned"
      /\ pc[w] # "idle" => list[w] # <<>>
    Past(w) ==
      w \in asked =>
        \A i \in 1..Len(list[w]) : asking[w] = 0 \/ i < asking[w] => Hit(list[w][i])
  <1>1. \A w \in Users : w \in Whens /\ Going(w) /\ Past(w)
    BY DEF AskInv, Users
  <1>2. (\A w \in Users : Going(w)' /\ Past(w)') => AskInv'
    BY DEF AskInv
  <1>3. \A w \in Whens : \A i \in 1..Len(list[w]) :
          /\ Hit(list[w][i]) => state'[list[w][i]] = "ended" \/ list[w][i] \in told'
          /\ state[list[w][i]] # "none"
    BY Elements, Forward DEF ListInv, Hit
  <1>4. ASSUME NEW w \in Users, UNCHANGED <<list[w], asking[w]>>, w \in asked' <=> w \in asked,
               pc[w] = "returned" => pc'[w] = "returned", pc[w] = "idle" => pc'[w] = "idle"
        PROVE  Going(w)' /\ Past(w)'
    <2>1. Going(w)'
      BY <1>1, <1>4
    <2>2. Past(w)'
      BY <1>1, <1>3, <1>4 DEF Hit
    <2>. QED  BY <2>1, <2>2
  <1>5. ASSUME UNCHANGED <<list, pc, askVars>>
        PROVE  AskInv'
    BY <1>2, <1>4, <1>5 DEF askVars
  <1>6. ASSUME NEW f \in Futures, Refuse(f) \/ Join(f) \/ End(f)
        PROVE  AskInv'
    BY <1>5, <1>6 DEF Refuse, Join, End, whenVars, loopVars
  <1>7. ASSUME NEW x \in Whens, NEW f \in Futures,
               Store(x, f) \/ Count(x, f) \/ Trigger(x, f) \/ Win(x, f)
        PROVE  AskInv'
    BY <1>5, <1>7 DEF Store, Count, Trigger, Win, loopVars
  <1>8. ASSUME NEW x \in Whens, Tell(x) \/ UseMoved(x)
        PROVE  AskInv'
    BY <1>5, <1>8 DEF Tell, UseMoved, loopVars
  <1>9. ASSUME NEW k \in Terminators, Terminate(k)
        PROVE  AskInv'
    <2>1. \A w \in Users : list'[w] = list[w] /\ pc'[w] = pc[w]
      BY <1>1, <1>9 DEF Terminate, Users
    <2>. QED  BY <1>2, <1>4, <1>9, <2>1 DEF Terminate, askVars
  <1>10. ASSUME NEW x \in Whens,
                WaitForAll(x) \/ Terminated(x) \/ Returns(x) \/ Check(x) \/ Attach(x)
         PROVE  AskInv'
    <2>1. UNCHANGED <<list, asked, asking>>
      BY <1>10 DEF WaitForAll, Terminated, Returns, Check, Attach, askVars
    <2>2. pc[x] \in {"telling", "looping", "reading"}
      BY <1>10 DEF WaitForAll, Terminated, Returns, Check, Attach, LoopIsOver
    <2>3. \E p \in Waits : pc' = [pc EXCEPT ![x] = p]
      BY <1>10 DEF WaitForAll, Terminated, Returns, Check, Attach, Waits
    <2>4. \A w \in Users : /\ pc[w] = "returned" => pc'[w] = "returned"
                           /\ pc[w] = "idle" => pc'[w] = "idle"
      BY <1>1, <2>2, <2>3
    <2>. QED  BY <1>2, <1>4, <2>1, <2>4
  <1>11. ASSUME NEW x \in Users, When(x)
         PROVE  AskInv'
    <2>1. PICK fs \in SUBSET Futures :
            fs # {} /\ \E s \in SetToSeqs(fs) : list' = [list EXCEPT ![x] = s]
      BY <1>11 DEF When
    <2>2. PICK s \in Seq(Futures) : s # <<>> /\ list' = [list EXCEPT ![x] = s]
      BY <2>1, Orders
    <2>3. pc[x] = "idle" /\ UNCHANGED <<asked, asking>> /\ \A w \in Users \ {x} : pc'[w] = pc[w]
      BY <1>11 DEF When, askVars
    <2>4. x \notin asked /\ asking[x] = 0 /\ list'[x] = s
      BY <1>1, <2>2, <2>3
    <2>5. Going(x)' /\ Past(x)'
      BY <2>2, <2>3, <2>4, Elements
    <2>6. ASSUME NEW w \in Users \ {x}
          PROVE  Going(w)' /\ Past(w)'
      BY <1>1, <1>4, <2>2, <2>3
    <2>. QED  BY <1>2, <2>5, <2>6
  <1>12. ASSUME NEW x \in Users, Ask(x)
         PROVE  AskInv'
    <2>1. /\ pc[x] = "returned" /\ asked' = asked \cup {x}
          /\ asking' = [asking EXCEPT ![x] = 1] /\ UNCHANGED <<list, pc>>
      BY <1>12 DEF Ask, loopVars
    <2>2. Len(list[x]) >= 1
      BY <1>1, <2>1, Elements
    <2>3. Going(x)' /\ Past(x)'
      BY <1>1, <2>1, <2>2
    <2>4. ASSUME NEW w \in Users \ {x}
          PROVE  Going(w)' /\ Past(w)'
      BY <1>1, <1>4, <2>1
    <2>. QED  BY <1>2, <2>3, <2>4
  <1>13. ASSUME NEW x \in Whens, AskNext(x)
         PROVE  AskInv'
    <2>1. PICK f \in Futures : f = list[x][asking[x]] /\ asking[x] \in 1..Len(list[x]) /\ x \in Users
      BY <1>13, Walks DEF AskNext
    <2>2. /\ told' = told \cup Pending({f}) /\ UNCHANGED <<state, list, pc, asked>>
          /\ asking' = [asking EXCEPT ![x] = IF @ < Len(list[x]) THEN @ + 1 ELSE 0]
      BY <1>13, <2>1 DEF AskNext, loopVars
    <2>3. state'[f] = "ended" \/ f \in told'
      BY <1>3, <2>1, <2>2 DEF Pending
    <2>4. Going(x)'
      BY <1>1, <2>1, <2>2
    <2>5. Past(x)'
      <3>1. ASSUME NEW i \in 1..Len(list[x]), asking'[x] = 0 \/ i < asking'[x]
            PROVE  state'[list[x][i]] = "ended" \/ list[x][i] \in told'
        <4>1. i = asking[x] \/ i < asking[x]
          BY <2>1, <2>2, <3>1
        <4>2. CASE i = asking[x]
          BY <2>1, <2>3, <4>2
        <4>3. CASE i < asking[x]
          <5>1. x \in asked
            BY <1>1, <2>1
          <5>2. Hit(list[x][i])
            BY <1>1, <2>1, <4>3, <5>1
          <5>. QED  BY <1>1, <1>3, <5>2
        <4>. QED  BY <4>1, <4>2, <4>3
      <3>. QED  BY <2>2, <3>1 DEF Hit
    <2>6. ASSUME NEW w \in Users \ {x}
          PROVE  Going(w)' /\ Past(w)'
      BY <1>1, <1>4, <2>2
    <2>. QED  BY <1>2, <2>4, <2>5, <2>6
  <1>14. CASE UNCHANGED vars
    BY <1>5, <1>14 DEF vars, whenVars, loopVars
  <1>. QED  BY <1>6, <1>7, <1>8, <1>9, <1>10, <1>11, <1>12, <1>13, <1>14
            DEF Next, CallStep, WhenStep

\* The members of the group are those that have not ended and were not told to.
LEMMA MemberStep ==
  ASSUME GroupTypeOK, ListInv, AskInv, MemberInv, [Next]_vars
  PROVE  MemberInv'
  <1>. USE DEF GroupTypeOK
  <1>. DEFINE
    Joined ==
      /\ \A f \in members : joining[f] = "returned"
      /\ \A f \in Futures : state[f] = "none" <=> Canceler /\ joining[f] # "returned"
      /\ \A f \in Futures : joining[f] = "returned" => f \in members \/ Hit(f)
    Holds(k) ==
      /\ asking[k] = 0
      /\ lock = k <=> pc[k] \in {"telling", "looping"}
      /\ lock = k => members = Range(list[k])
    Tells(k) ==
      /\ pc[k] = "telling" => \A i \in 1..Len(list[k]) : i < at[k] => Hit(list[k][i])
      /\ pc[k] = "looping" => \A i \in 1..Len(list[k]) : Hit(list[k][i])
    Knows(k) ==
      /\ lock = k => \A f \in before[k] : f \in members \/ Hit(f)
      /\ pc[k] = "returned" => \A f \in before[k] : Hit(f)
  <1>1. Joined /\ \A k \in Terminators : k \in Whens /\ k # None /\ Holds(k) /\ Tells(k) /\ Knows(k)
    BY GroupAssumption DEF MemberInv
  <1>2. (Joined' /\ \A k \in Terminators : Holds(k)' /\ Tells(k)' /\ Knows(k)') => MemberInv'
    BY DEF MemberInv
  <1>3. \A f \in Futures : /\ state[f] # "none" => state'[f] # "none"
                           /\ Hit(f) => Hit(f)'
    BY Forward
  <1>4. ASSUME UNCHANGED <<class, lock, joining, members, before>>,
               \A f \in Futures : state[f] = "none" => state'[f] = "none",
               \A k \in Terminators : /\ UNCHANGED <<list[k], asking[k], pc[k]>>
                                      /\ at'[k] = at[k] \/ pc[k] # "telling"
        PROVE  MemberInv'
    <2>1. Joined'
      BY <1>1, <1>3, <1>4 DEF Canceler
    <2>2. ASSUME NEW k \in Terminators
          PROVE  Holds(k)' /\ Tells(k)' /\ Knows(k)'
      <3>1. Holds(k)'
        BY <1>1, <1>4
      <3>2. Tells(k)'
        BY <1>1, <1>3, <1>4, Elements DEF Hit
      <3>3. Knows(k)'
        BY <1>1, <1>3, <1>4
      <3>. QED  BY <3>1, <3>2, <3>3
    <2>. QED  BY <1>2, <2>1, <2>2
  <1>5. ASSUME UNCHANGED <<state, loopVars, asking, groupVars>>
        PROVE  MemberInv'
    BY <1>4, <1>5 DEF loopVars, groupVars
  <1>6. ASSUME NEW f \in Futures, Refuse(f)
        PROVE  MemberInv'
    <2>1. /\ joining[f] = "idle" /\ joining' = [joining EXCEPT ![f] = "refused"]
          /\ UNCHANGED <<state, told, list, asking, pc, at, class, lock, members, before>>
      BY <1>6 DEF Refuse, whenVars, futureVars, loopVars, askVars
    <2>2. Joined'
      BY <1>1, <2>1 DEF Hit, Canceler
    <2>3. \A k \in Terminators : Holds(k)' /\ Tells(k)' /\ Knows(k)'
      BY <1>1, <2>1 DEF Hit
    <2>. QED  BY <1>2, <2>2, <2>3
  <1>7. ASSUME NEW f \in Futures, Join(f)
        PROVE  MemberInv'
    <2>1. PICK s \in Started(f) : state' = [state EXCEPT ![f] = s]
      BY <1>7 DEF Join
    <2>2. /\ joining[f] = "idle" /\ joining' = [joining EXCEPT ![f] = "returned"]
          /\ UNCHANGED <<told, list, asking, pc, at, class, lock, before>> /\ lock = None
      BY <1>7 DEF Join, loopVars, askVars, Free
    <2>3. members' = IF state'[f] = "ended" THEN members ELSE Collect(members) \cup {f}
      BY <1>7 DEF Join
    <2>4. Joined'
      <3>1. (\A g \in members : joining[g] = "returned")'
        BY <1>1, <2>2, <2>3 DEF Collect
      <3>2. s # "none"
        BY <1>1, <2>1, <2>2 DEF Started
      <3>3. (\A g \in Futures : state[g] = "none" <=> Canceler /\ joining[g] # "returned")'
        BY <1>1, <2>1, <2>2, <3>2 DEF Canceler
      <3>4. ASSUME NEW g \in Futures, joining'[g] = "returned"
            PROVE  g \in members' \/ state'[g] = "ended" \/ g \in told'
        <4>1. CASE g = f
          BY <2>1, <2>3, <4>1
        <4>2. CASE g # f
          BY <1>1, <2>1, <2>2, <2>3, <3>4, <4>2 DEF Collect, Hit
        <4>. QED  BY <4>1, <4>2
      <3>. QED  BY <3>1, <3>3, <3>4 DEF Hit
    <2>5. ASSUME NEW k \in Terminators
          PROVE  Holds(k)' /\ Tells(k)' /\ Knows(k)'
      BY <1>1, <1>3, <2>2
    <2>. QED  BY <1>2, <2>4, <2>5
  <1>8. ASSUME NEW k \in Terminators, Terminate(k)
        PROVE  MemberInv'
    <2>1. PICK fs \in SetToSeqs(members) : list' = [list EXCEPT ![k] = fs]
      BY <1>8 DEF Terminate
    <2>2. /\ pc[k] = "idle" /\ lock = None /\ lock' = k
          /\ before' = [before EXCEPT ![k] = {f \in Futures : joining[f] = "returned"}]
          /\ pc' = [pc EXCEPT ![k] = "telling"]
          /\ UNCHANGED <<state, told, at, asking, class, joining, members>>
      BY <1>8 DEF Terminate, Free, futureVars, askVars
    <2>3. Range(fs) = members
      BY <2>1, Orders
    <2>4. at[k] = 1
      BY <1>1, <2>2 DEF ListInv
    <2>5. Joined'
      BY <1>1, <2>2 DEF Hit, Canceler
    <2>6. Holds(k)' /\ Tells(k)' /\ Knows(k)'
      <3>1. Holds(k)'
        BY <1>1, <2>1, <2>2, <2>3
      <3>2. Tells(k)'
        BY <1>1, <2>2, <2>4
      <3>3. Knows(k)'
        BY <1>1, <2>2 DEF Hit
      <3>. QED  BY <3>1, <3>2, <3>3
    <2>7. ASSUME NEW j \in Terminators \ {k}
          PROVE  Holds(j)' /\ Tells(j)' /\ Knows(j)'
      <3>1. /\ list'[j] = list[j] /\ pc'[j] = pc[j] /\ before'[j] = before[j]
            /\ lock # j /\ lock' # j
        BY <1>1, <2>1, <2>2
      <3>. QED  BY <1>1, <1>3, <2>2, <3>1 DEF Hit
    <2>. QED  BY <1>2, <2>5, <2>6, <2>7
  <1>9. ASSUME NEW k \in Whens, Tell(k)
        PROVE  MemberInv'
    <2>1. k \in Terminators /\ lock = k /\ pc[k] = "telling"
      BY <1>1, <1>9 DEF Tell, ListInv
    <2>2. PICK f \in Futures : f = list[k][at[k]] /\ at[k] \in 1..Len(list[k])
      BY <1>9, Walks DEF Tell
    <2>3. /\ told' = told \cup Pending({f}) /\ at' = [at EXCEPT ![k] = @ + 1]
          /\ UNCHANGED <<state, list, pc, asking, class, lock, joining, members, before>>
      BY <1>9, <2>2 DEF Tell, askVars
    <2>4. state'[f] = "ended" \/ f \in told'
      <3>1. state[f] # "none"
        BY <2>2 DEF ListInv
      <3>. QED  BY <2>3, <3>1 DEF Pending
    <2>5. Joined'
      BY <1>1, <2>3 DEF Hit, Canceler
    <2>6. Holds(k)' /\ Knows(k)'
      BY <1>1, <1>3, <2>1, <2>3
    <2>7. Tells(k)'
      <3>1. ASSUME NEW i \in 1..Len(list[k]), i < at[k] + 1
            PROVE  state'[list[k][i]] = "ended" \/ list[k][i] \in told'
        <4>1. CASE i = at[k]
          BY <2>2, <2>4, <4>1
        <4>2. CASE i < at[k]
          BY <1>1, <2>1, <2>3, <4>2 DEF Hit
        <4>. QED  BY <2>2, <3>1, <4>1, <4>2
      <3>. QED  BY <2>1, <2>3, <3>1 DEF Hit
    <2>8. ASSUME NEW j \in Terminators \ {k}
          PROVE  Holds(j)' /\ Tells(j)' /\ Knows(j)'
      BY <1>1, <1>3, <2>1, <2>3 DEF Hit
    <2>. QED  BY <1>2, <2>1, <2>5, <2>6, <2>7, <2>8
  <1>10. ASSUME NEW k \in Whens, WaitForAll(k)
         PROVE  MemberInv'
    <2>1. k \in Terminators /\ pc[k] = "telling" /\ at[k] > Len(list[k])
      BY <1>10 DEF WaitForAll, ListInv
    <2>2. /\ pc' = [pc EXCEPT ![k] = "looping"] /\ at' = [at EXCEPT ![k] = 1]
          /\ UNCHANGED <<state, told, list, asking, class, lock, joining, members, before>>
      BY <1>10 DEF WaitForAll, futureVars, askVars, groupVars
    <2>3. Joined'
      BY <1>1, <2>2 DEF Hit, Canceler
    <2>4. Holds(k)' /\ Knows(k)'
      BY <1>1, <2>1, <2>2 DEF Hit
    <2>5. Tells(k)'
      <3>1. \A i \in 1..Len(list[k]) : i < at[k]
        BY <1>1, <2>1, Elements
      <3>. QED  BY <1>1, <2>1, <2>2, <3>1 DEF Hit
    <2>6. ASSUME NEW j \in Terminators \ {k}
          PROVE  Holds(j)' /\ Tells(j)' /\ Knows(j)'
      <3>1. UNCHANGED <<state, told, list, asking, lock, members, before, pc[j], at[j]>>
        BY <1>1, <2>2
      <3>2. Holds(j)' /\ Knows(j)'
        BY <1>1, <3>1 DEF Hit
      <3>3. Tells(j)'
        BY <1>1, <3>1 DEF Hit
      <3>. QED  BY <3>2, <3>3
    <2>. QED  BY <1>2, <2>1, <2>3, <2>4, <2>5, <2>6
  <1>11. ASSUME NEW k \in Whens, Terminated(k)
         PROVE  MemberInv'
    <2>1. k \in Terminators /\ pc[k] = "looping" /\ lock = k
      BY <1>1, <1>11 DEF Terminated, LoopIsOver
    <2>2. /\ pc' = [pc EXCEPT ![k] = "returned"] /\ lock' = None /\ members' = {}
          /\ UNCHANGED <<state, told, list, at, asking, class, joining, before>>
      BY <1>11 DEF Terminated, futureVars, askVars
    <2>3. \A f \in members : Hit(f)
      <3>1. members = Range(list[k]) /\ list[k] \in Seq(Futures) /\ Tells(k)
        BY <1>1, <2>1
      <3>2. \A f \in members : \E i \in 1..Len(list[k]) : list[k][i] = f
        BY <3>1, Elements
      <3>. QED  BY <2>1, <3>1, <3>2
    <2>a. UNCHANGED <<state, told, list, at, asking, class, joining, before>>
      BY <2>2
    <2>b. \A f \in Futures : Hit(f)' <=> Hit(f)
      BY <2>a DEF Hit
    <2>c. pc'[k] = "returned" /\ lock' # k /\ (\A j \in Terminators \ {k} : pc'[j] = pc[j])
      BY <1>1, <2>1, <2>2
    <2>4. Joined'
      BY <1>1, <2>2, <2>3, <2>a, <2>b DEF Canceler
    <2>5. Holds(k)' /\ Tells(k)' /\ Knows(k)'
      <3>1. Holds(k) /\ Knows(k) /\ before[k] \subseteq Futures
        BY <1>1, <2>1
      <3>a. Holds(k)'
        BY <2>a, <2>c, <3>1
      <3>b. Tells(k)'
        BY <2>c
      <3>2. \A f \in before[k] : Hit(f)
        BY <2>1, <2>3, <3>1
      <3>3. Knows(k)'
        BY <2>a, <2>b, <2>c, <3>1, <3>2
      <3>. QED  BY <3>3, <3>a, <3>b
    <2>6. ASSUME NEW j \in Terminators \ {k}
          PROVE  Holds(j)' /\ Tells(j)' /\ Knows(j)'
      <3>1. lock # j /\ lock' # j /\ pc'[j] = pc[j]
        BY <1>1, <2>1, <2>2, <2>c
      <3>2. Holds(j)'
        BY <1>1, <2>a, <3>1
      <3>3. Tells(j)'
        BY <1>1, <2>a, <3>1 DEF Hit
      <3>4. Knows(j)'
        BY <1>1, <2>a, <3>1 DEF Hit
      <3>. QED  BY <3>2, <3>3, <3>4
    <2>. QED  BY <1>2, <2>1, <2>4, <2>5, <2>6
  <1>12. ASSUME NEW w \in Users, When(w) \/ Returns(w) \/ Ask(w), UNCHANGED groupVars
         PROVE  MemberInv'
    <2>1. UNCHANGED <<state, at>>
      BY <1>12 DEF When, Returns, Ask, futureVars, loopVars
    <2>2. \A k \in Terminators : UNCHANGED <<list[k], asking[k], pc[k]>>
      <3>0. \A k \in Terminators : k # w
        BY DEF Users
      <3>1. CASE When(w)
        <4>1. /\ UNCHANGED asking
              /\ \E s : list' = [list EXCEPT ![w] = s]
              /\ pc' = [pc EXCEPT ![w] = "looping"]
          BY <3>1 DEF When, askVars
        <4>. QED  BY <1>1, <3>0, <4>1
      <3>2. CASE Returns(w)
        <4>1. UNCHANGED <<list, asking>> /\ pc' = [pc EXCEPT ![w] = "returned"]
          BY <3>2 DEF Returns, askVars
        <4>. QED  BY <1>1, <3>0, <4>1
      <3>3. CASE Ask(w)
        BY <1>1, <3>0, <3>3 DEF Ask, loopVars
      <3>. QED  BY <1>12, <3>1, <3>2, <3>3
    <2>. QED  BY <1>4, <1>12, <2>1, <2>2 DEF groupVars
  <1>13. ASSUME NEW f \in Futures, End(f), UNCHANGED groupVars
         PROVE  MemberInv'
    <2>1. \A g \in Futures : state[g] = "none" => state'[g] = "none"
      BY <1>13 DEF End
    <2>. QED  BY <1>4, <1>13, <2>1 DEF End, loopVars, askVars, groupVars
  <1>14. ASSUME NEW w \in Whens, UNCHANGED groupVars,
                UseMoved(w) \/ \E f \in Futures : Store(w, f) \/ Count(w, f) \/ Trigger(w, f) \/ Win(w, f)
         PROVE  MemberInv'
    BY <1>5, <1>14 DEF UseMoved, Store, Count, Trigger, Win, futureVars, askVars
  <1>15. ASSUME NEW w \in Whens, UNCHANGED groupVars, Check(w) \/ Attach(w)
         PROVE  MemberInv'
    <2>1. UNCHANGED <<state, list, asking>>
      BY <1>15 DEF Check, Attach, futureVars, askVars
    <2>2. \A k \in Terminators : pc'[k] = pc[k]
      BY <1>1, <1>15 DEF Check, Attach, ListInv, IsAny
    <2>3. \A k \in Terminators : at'[k] = at[k] \/ pc[k] # "telling"
      BY <1>1, <1>15 DEF Check, Attach
    <2>. QED  BY <1>4, <1>15, <2>1, <2>2, <2>3 DEF groupVars
  <1>16. ASSUME NEW w \in Whens, AskNext(w), UNCHANGED groupVars
         PROVE  MemberInv'
    <2>1. w \in Users
      BY <1>16, Walks DEF AskNext
    <2>2. UNCHANGED <<state, loopVars>> /\ \A k \in Terminators : asking'[k] = asking[k]
      BY <1>16, <2>1 DEF AskNext, Users
    <2>. QED  BY <1>4, <1>16, <2>2 DEF loopVars, groupVars
  <1>17. CASE UNCHANGED vars
    BY <1>5, <1>17 DEF vars, whenVars, futureVars, askVars
  <1>18. ASSUME NEW w \in Users, When(w) \/ Returns(w)
         PROVE  UNCHANGED groupVars
    BY <1>18 DEF When, Returns
  <1>19. \A w \in Whens : Returns(w) => w \in Users
    BY DEF Returns
  <1>. QED  BY <1>6, <1>7, <1>8, <1>9, <1>10, <1>11, <1>12, <1>13, <1>14, <1>15, <1>16, <1>17,
               <1>18, <1>19 DEF Next, CallStep, WhenStep

LEMMA GroupInit == Init => GroupInv
  <1>. SUFFICES ASSUME Init PROVE GroupInv
    OBVIOUS
  <1>1. /\ \A w \in Whens : /\ pc[w] = "idle" /\ list[w] = <<>> /\ at[w] = 1 /\ kind[w] = "all"
                            /\ count[w] = 0 /\ stored[w] = {} /\ result[w] = "none"
                            /\ asking[w] = 0
        /\ \A w \in Whens, f \in Futures : cb[w][f] = "none"
        /\ asked = {} /\ triggered = {} /\ members = {} /\ lock = None
        /\ \A f \in Futures : joining[f] = "idle"
    BY DEF Init, WhenInit
  <1>2. \A w \in Whens : Len(list[w]) = 0
    BY <1>1
  <1>3. \A f \in Futures : state[f] = IF Canceler THEN "none" ELSE "pending"
    BY DEF Init, WhenInit
  <1>4. GroupTypeOK
    <2>1. state \in [Futures -> {"none", "pending", "ended"}] /\ told \in SUBSET Futures
      BY DEF Init, WhenInit
    <2>2. /\ kind \in [Whens -> {"all", "any", "auto"}] /\ pc \in [Whens -> Waits]
          /\ at \in [Whens -> Nat \ {0}]
      BY DEF Init, WhenInit, Waits
    <2>3. <<>> \in Seq(Futures)
      OBVIOUS
    <2>4. list \in [Whens -> Seq(Futures)]
      BY <2>3 DEF Init, WhenInit
    <2>5. /\ cb \in [Whens -> [Futures -> Marks]] /\ stored \in [Whens -> SUBSET Futures]
          /\ count \in [Whens -> Nat] /\ result \in [Whens -> Futures \cup {"none", "all"}]
          /\ asking \in [Whens -> Nat]
      BY DEF Init, WhenInit, Marks
    <2>6. /\ joining \in [Futures -> {"idle", "returned", "refused"}]
          /\ before \in [Terminators -> SUBSET Futures]
      BY DEF Init
    <2>. QED  BY <1>1, <2>1, <2>2, <2>4, <2>5, <2>6 DEF GroupTypeOK
  <1>5. ListInv
    BY <1>1, <1>2 DEF ListInv
  <1>6. CallbackInv
    BY <1>1 DEF CallbackInv, CallbackOK, Placed, Caused, Fits
  <1>7. AllInv
    <2>1. \A w \in Whens : Over(w) = {}
      BY <1>1 DEF Over
    <2>2. \A w \in Whens : Cardinality(Over(w)) = 0
      BY <2>1, FS_EmptySet
    <2>. QED  BY <1>1, <2>2 DEF AllInv
  <1>8. AnyInv
    BY <1>1, WhenAssumption DEF AnyInv
  <1>9. AskInv
    BY <1>1, <1>2 DEF AskInv, Users
  <1>10. MemberInv
    BY <1>1, <1>2, <1>3, GroupAssumption DEF MemberInv
  <1>. QED  BY <1>4, <1>5, <1>6, <1>7, <1>8, <1>9, <1>10 DEF GroupInv

\* The inductive invariant.
THEOREM GroupInvariant == SafeSpec => []GroupInv
  <1>1. GroupInv /\ [Next]_vars => GroupInv'
    BY GroupTypeStep, ListStep, CallbackStep, AllStep, AnyStep, AskStep, MemberStep DEF GroupInv
  <1>. QED  BY GroupInit, <1>1, PTL DEF SafeSpec

\* Whatever ends, joins or is collected meanwhile, terminate() forgets no task.
THEOREM NobodyForgotten == SafeSpec => []NoneIsForgotten
  <1>1. GroupInv => NoneIsForgotten
    BY DEF GroupInv, MemberInv, Hit, NoneIsForgotten
  <1>. QED  BY <1>1, GroupInvariant, PTL

\* In any order of the callbacks, a result of when_all() is complete, and that of
\* when_any() is set once.
THEOREM CompleteResults == SafeSpec => []ResultsAreComplete
  <1>1. ASSUME GroupInv, NEW w \in Whens
        PROVE  /\ count[w] <= Len(list[w])
               /\ result[w] = "all" => \A f \in Range(list[w]) : state[f] = "ended" /\ f \in stored[w]
               /\ result[w] \in Futures => /\ state[result[w]] = "ended"
                                           /\ \A f \in Futures : cb[w][f] # "won"
    <2>. USE <1>1 DEF GroupInv
    <2>1. list[w] \in Seq(Futures) /\ Len(list[w]) \in Nat
      BY Elements DEF GroupTypeOK
    <2>2. Over(w) \subseteq Range(list[w])
      <3>1. ASSUME NEW f \in Over(w)
            PROVE  f \in Range(list[w])
        <4>1. f \in Futures /\ cb[w][f] # "none"
          BY <3>1 DEF Over
        <4>2. PICK i \in 1..Len(list[w]) : list[w][i] = f
          BY <4>1 DEF CallbackInv, CallbackOK, Placed
        <4>. QED  BY <2>1, <4>2, Elements
      <3>. QED  BY <3>1
    <2>3. count[w] <= Len(list[w])
      BY <2>1, <2>2, Counting DEF AllInv
    <2>4. ASSUME result[w] = "all", NEW f \in Range(list[w])
          PROVE  state[f] = "ended" /\ f \in stored[w]
      <3>1. f \in Futures /\ cb[w][f] = "over" /\ ~IsAny(w)
        BY <2>1, <2>4, Elements DEF AllInv
      <3>. QED  BY <3>1 DEF CallbackInv, CallbackOK, Caused, Fits
    <2>5. ASSUME result[w] \in Futures
          PROVE  state[result[w]] = "ended" /\ \A f \in Futures : cb[w][f] # "won"
      BY <2>5, WhenAssumption DEF AnyInv
    <2>. QED  BY <2>3, <2>4, <2>5
  <1>2. GroupInv => ResultsAreComplete
    BY <1>1 DEF ResultsAreComplete
  <1>. QED  BY <1>2, GroupInvariant, PTL

\* The cancelation of a call reaches each of its futures, whichever end meanwhile.
THEOREM EveryoneIsAsked == SafeSpec => []CancelReachesAll
  <1>1. ASSUME GroupInv, NEW w \in asked, asking[w] = 0, NEW f \in Range(list[w])
        PROVE  state[f] = "ended" \/ f \in told
    <2>1. w \in Users /\ list[w] \in Seq(Futures)
      BY <1>1 DEF GroupInv, GroupTypeOK, Users
    <2>2. PICK i \in 1..Len(list[w]) : list[w][i] = f
      BY <2>1, Elements
    <2>. QED  BY <1>1, <2>1, <2>2 DEF GroupInv, AskInv, Hit
  <1>2. GroupInv => CancelReachesAll
    BY <1>1 DEF CancelReachesAll
  <1>. QED  BY <1>2, GroupInvariant, PTL
================================================================================
