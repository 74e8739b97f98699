--------------------------- MODULE Coroutine_proofs ---------------------------
(* Proofs about Coroutine, for both headers, any finite set of coroutines, and code of any length. *)
EXTENDS Coroutine, FiniteSetTheorems, TLAPS

--------------------------------------------------------------------------------
(* The inductive invariant *)

States == {"none", "queued", "running", "waiting", "dead"}
Frames == [frame : {"run", "work", "cancel", "abort", "unwind", "submit", "destroy", "done"},
           of : Coroutines]
Tasks == [task : {"start", "resume"}, of : Coroutines, no : Nat]
Awaits == Coroutines \X Nat

CoTypeOK ==
  /\ co \in [Coroutines -> States] /\ no \in [Coroutines -> Nat]
  /\ on \in [Coroutines -> Coroutines \cup {"promise", "sender", "ready"}]
  /\ result \in [Coroutines -> {"none", "value", "error", "canceled"}]
  /\ slot \in [Coroutines -> {"none", "start", "await", "run"}]
  /\ canceled \in [Coroutines -> BOOLEAN]
  /\ stack \in Seq(Frames) /\ queue \in Seq(Tasks)
  /\ promises \in SUBSET Awaits /\ senders \in SUBSET Awaits /\ firing \in SUBSET Awaits
  /\ giving \in SUBSET Awaits /\ gone \in SUBSET Awaits
  /\ ptr \in Coroutines \cup {Null} /\ previous \in [Coroutines -> Coroutines \cup {Null}]
  /\ NeverTouchedDead

\* What will answer an await: the task that resumes, a promise, a sender.
Awaited(t) == <<t.of, t.no>>
Resuming(t) == t.task = "resume" /\ Awaited(t) \notin gone
Current(a) == co[a[1]] = "waiting" /\ no[a[1]] = a[2]

\* Unless its awaiter is gone, an answer is for what its coroutine awaits now, and
\* there is one at most.
AwaitInv ==
  /\ \A i \in 1..Len(queue) : Resuming(queue[i]) =>
       /\ Current(Awaited(queue[i]))
       /\ Awaited(queue[i]) \notin promises \cup senders \cup firing \cup giving
       /\ on[queue[i].of] \in Coroutines => co[on[queue[i].of]] = "dead"
       /\ \A j \in 1..Len(queue) : queue[j] = queue[i] => i = j
  /\ \A a \in promises \ gone : Current(a) /\ on[a[1]] = "promise"
  /\ \A a \in (senders \cup firing \cup giving) \ gone : Current(a) /\ on[a[1]] = "sender"
  /\ \A a \in senders \ gone : a \notin firing \cup giving
  /\ \A a \in firing \ gone : a \notin giving

\* A coroutine has its result when it is dead, one that was not started is not canceled,
\* for it would be dead, and none awaits one that was not spawned.
LifeInv ==
  \A c \in Coroutines : /\ result[c] # "none" <=> co[c] = "dead"
                        /\ co[c] \in {"none", "queued"} => ~canceled[c]
                        /\ slot[c] = "start" <=> co[c] = "queued"
                        /\ co[c] = "none" => slot[c] = "none"
                        /\ on[c] \in Coroutines => co[on[c]] # "none"

--------------------------------------------------------------------------------
(* Sequences *)

LEMMA PopFacts ==
  ASSUME NEW S, NEW s \in Seq(S), s # <<>>
  PROVE  /\ Len(s) \in Nat /\ Len(s) > 0 /\ Head(s) = s[1] /\ s[1] \in S
         /\ Tail(s) \in Seq(S) /\ Len(Tail(s)) = Len(s) - 1
         /\ \A i \in 1..Len(s) - 1 : Tail(s)[i] = s[i + 1]
  OBVIOUS

LEMMA PushFacts ==
  ASSUME NEW S, NEW s \in Seq(S), NEW x \in S
  PROVE  /\ <<x>> \o s \in Seq(S) /\ <<x>> \o s # <<>>
         /\ Len(s) \in Nat /\ Len(<<x>> \o s) = Len(s) + 1
         /\ (<<x>> \o s)[1] = x /\ Head(<<x>> \o s) = x
         /\ \A i \in 1..Len(s) : (<<x>> \o s)[i + 1] = s[i]
  OBVIOUS

LEMMA AppendFacts ==
  ASSUME NEW S, NEW s \in Seq(S), NEW x \in S
  PROVE  /\ Append(s, x) \in Seq(S) /\ Len(s) \in Nat /\ Len(Append(s, x)) = Len(s) + 1
         /\ Append(s, x)[Len(s) + 1] = x
         /\ \A i \in 1..Len(s) : Append(s, x)[i] = s[i]
  OBVIOUS

LEMMA ConcatFacts ==
  ASSUME NEW S, NEW s \in Seq(S), NEW t \in Seq(S)
  PROVE  /\ s \o t \in Seq(S) /\ Len(s) \in Nat /\ Len(t) \in Nat
         /\ Len(s \o t) = Len(s) + Len(t)
         /\ \A i \in 1..Len(s) : (s \o t)[i] = s[i]
         /\ \A i \in 1..Len(t) : (s \o t)[Len(s) + i] = t[i]
  OBVIOUS

\* Both modules count alike.
LEMMA SameCardinality ==
  \A S : Stackful!Cardinality(S) = Cardinality(S) /\ Stackless!Cardinality(S) = Cardinality(S)
  <1>1. \A S : Stackful!IsFiniteSet(S) <=> IsFiniteSet(S)
    BY Zenon DEF Stackful!IsFiniteSet, IsFiniteSet
  <1>2. \A S : Stackless!IsFiniteSet(S) <=> IsFiniteSet(S)
    BY Zenon DEF Stackless!IsFiniteSet, IsFiniteSet
  <1>3. \A S : Stackful!Cardinality(S) = Cardinality(S)
    BY <1>1 DEF Stackful!Cardinality, Cardinality
  <1>4. \A S : Stackless!Cardinality(S) = Cardinality(S)
    BY <1>2 DEF Stackless!Cardinality, Cardinality
  <1>. QED  BY <1>3, <1>4

\* A set of tasks, in some order, once each.
LEMMA TasksOnce ==
  ASSUME NEW R \in SUBSET Tasks, IsFiniteSet(R),
         NEW s, s = Stackful!SetToSeq(R) \/ s = Stackless!SetToSeq(R)
  PROVE  /\ s \in Seq(Tasks)
         /\ \A i \in 1..Len(s) : s[i] \in R
         /\ \A i, j \in 1..Len(s) : s[i] = s[j] => i = j
  <1>. DEFINE n == Cardinality(R)
  <1>1. n \in Nat /\ ExistsBijection(1..n, R)
    BY FS_CardinalityType
  <1>2. PICK f \in [1..n -> R] : \A i, j \in 1..n : f[i] = f[j] => i = j
    BY <1>1 DEF ExistsBijection, Bijection, Injection, IsInjective
  <1>3. Stackful!IsInjective(f) /\ Stackless!IsInjective(f)
    BY <1>2 DEF Stackful!IsInjective, Stackless!IsInjective
  <1>5. s \in [1..n -> R] /\ \A i, j \in 1..n : s[i] = s[j] => i = j
    <2>1. CASE s = Stackful!SetToSeq(R)
      <3>1. s = CHOOSE g \in [1..n -> R] : Stackful!IsInjective(g)
        BY <2>1, SameCardinality DEF Stackful!SetToSeq
      <3>2. s \in [1..n -> R] /\ Stackful!IsInjective(s)
        BY <1>3, <3>1, Zenon
      <3>. QED  BY <3>2 DEF Stackful!IsInjective
    <2>2. CASE s = Stackless!SetToSeq(R)
      <3>1. s = CHOOSE g \in [1..n -> R] : Stackless!IsInjective(g)
        BY <2>2, SameCardinality DEF Stackless!SetToSeq
      <3>2. s \in [1..n -> R] /\ Stackless!IsInjective(s)
        BY <1>3, <3>1, Zenon
      <3>. QED  BY <3>2 DEF Stackless!IsInjective
    <2>. QED  BY <2>1, <2>2
  <1>4. s \in Seq(Tasks) /\ Len(s) = n
    BY <1>1, <1>5
  <1>. QED  BY <1>4, <1>5

--------------------------------------------------------------------------------
(* What answers an await, whichever the header *)

\* An await is a pair, and what a task resumes is one.
LEMMA Pairs ==
  /\ \A a \in Awaits : a[1] \in Coroutines /\ a[2] \in Nat /\ a = <<a[1], a[2]>>
  /\ \A c \in Coroutines, n \in Nat : <<c, n>> \in Awaits /\ <<c, n>>[1] = c /\ <<c, n>>[2] = n
  /\ \A t \in Tasks : t.of \in Coroutines /\ t.no \in Nat /\ Awaited(t) \in Awaits
  BY DEF Awaits, Tasks, Awaited

\* The await of a coroutine that does not leave it, unless its awaiter goes.
Keeps == \A c \in Coroutines : co[c] = "waiting" => co'[c] = "waiting" \/ <<c, no[c]>> \in gone'
Buries == \A c \in Coroutines : co[c] = "dead" => co'[c] = "dead"
Shrinks == /\ gone \subseteq gone' /\ promises' \subseteq promises
           /\ senders' \subseteq senders /\ firing' \subseteq firing /\ giving' \subseteq giving

LEMMA StaysCurrent ==
  ASSUME CoTypeOK, Keeps, no' = no, gone \subseteq gone',
         NEW a \in Awaits, Current(a), a \notin gone'
  PROVE  Current(a)'
  <1>1. PICK c \in Coroutines : c = a[1] /\ a = <<c, no[c]>>
    BY Pairs DEF Current
  <1>2. co'[c] = "waiting"
    BY <1>1 DEF Keeps, Current
  <1>. QED  BY <1>1, <1>2 DEF Current

\* Answers that are lost or ignored do no harm: the queue loses its first task, or none.
LEMMA KeepAwaits ==
  ASSUME CoTypeOK, AwaitInv, Keeps, Buries, Shrinks, UNCHANGED <<no, on>>,
         queue' \in Seq(Tasks), NEW k \in {0, 1},
         \A i \in 1..Len(queue') : queue'[i].task = "resume" =>
           i + k \in 1..Len(queue) /\ queue'[i] = queue[i + k]
  PROVE  AwaitInv'
  <1>1. ASSUME NEW a \in promises', a \notin gone'
        PROVE  Current(a)' /\ on'[a[1]] = "promise"
    <2>1. a \in Awaits /\ Current(a) /\ on[a[1]] = "promise"
      BY <1>1 DEF AwaitInv, Shrinks, CoTypeOK
    <2>. QED  BY <1>1, <2>1, StaysCurrent DEF Shrinks
  <1>2. ASSUME NEW a \in senders' \cup firing' \cup giving', a \notin gone'
        PROVE  Current(a)' /\ on'[a[1]] = "sender"
    <2>1. a \in Awaits /\ Current(a) /\ on[a[1]] = "sender"
      BY <1>2 DEF AwaitInv, Shrinks, CoTypeOK
    <2>. QED  BY <1>2, <2>1, StaysCurrent DEF Shrinks
  <1>3. /\ \A a \in senders' \ gone' : a \notin firing' \cup giving'
        /\ \A a \in firing' \ gone' : a \notin giving'
    BY DEF AwaitInv, Shrinks
  <1>4. ASSUME NEW i \in 1..Len(queue'), Resuming(queue[i])'
        PROVE  /\ Current(Awaited(queue[i]))'
               /\ Awaited(queue[i])' \notin promises' \cup senders' \cup firing' \cup giving'
               /\ on'[queue'[i].of] \in Coroutines => co'[on'[queue'[i].of]] = "dead"
               /\ \A j \in 1..Len(queue') : queue'[j] = queue'[i] => i = j
    <2>1. PICK t \in Tasks : /\ i + k \in 1..Len(queue) /\ queue'[i] = t /\ queue[i + k] = t
                             /\ Awaited(t) \notin gone' /\ t.task = "resume"
      <3>1. queue'[i] \in Tasks /\ queue'[i].task = "resume"
        BY <1>4 DEF Resuming
      <3>2. Awaited(queue[i])' \notin gone'
        BY <1>4 DEF Resuming
      <3>. QED  BY <3>1, <3>2 DEF Awaited
    <2>2. Resuming(t)
      BY <2>1 DEF Resuming, Shrinks
    <2>3. Current(Awaited(t))'
      BY <2>1, <2>2, StaysCurrent, Pairs DEF AwaitInv, Shrinks
    <2>4. Awaited(t) \notin promises' \cup senders' \cup firing' \cup giving'
      BY <2>1, <2>2 DEF AwaitInv, Shrinks
    <2>5. on'[t.of] \in Coroutines => co'[on'[t.of]] = "dead"
      BY <2>1, <2>2 DEF AwaitInv, Buries
    <2>6. ASSUME NEW j \in 1..Len(queue'), queue'[j] = t
          PROVE  i = j
      <3>1. j + k \in 1..Len(queue) /\ queue[j + k] = t
        BY <2>1, <2>6
      <3>2. i + k = j + k
        BY <2>1, <2>2, <3>1 DEF AwaitInv
      <3>. QED  BY <3>2
    <2>. QED  BY <2>1, <2>3, <2>4, <2>5, <2>6 DEF Awaited
  <1>. QED  BY <1>1, <1>2, <1>3, <1>4 DEF AwaitInv

LEMMA IdleAwaits ==
  ASSUME CoTypeOK, AwaitInv, Keeps, Buries, Shrinks, UNCHANGED <<no, on, queue>>
  PROVE  AwaitInv'
  <1>1. queue \in Seq(Tasks)
    BY DEF CoTypeOK
  <1>2. queue' \in Seq(Tasks)
    BY <1>1
  <1>3. \A i \in 1..Len(queue') : i + 0 \in 1..Len(queue) /\ queue'[i] = queue[i + 0]
    BY <1>1
  <1>. QED  BY <1>2, <1>3, KeepAwaits

\* An answer comes: the await has its task instead.
LEMMA PostAwaits ==
  ASSUME CoTypeOK, AwaitInv, UNCHANGED <<co, no, on, gone>>, Shrinks,
         NEW t \in Tasks, t.task = "resume", queue' = Append(queue, t),
         Awaited(t) \in promises \cup senders \cup firing \cup giving,
         Awaited(t) \in gone \/ Awaited(t) \notin promises' \cup senders' \cup firing' \cup giving'
  PROVE  AwaitInv'
  <1>1. /\ Len(queue) \in Nat /\ Len(queue') = Len(queue) + 1 /\ queue'[Len(queue) + 1] = t
        /\ \A i \in 1..Len(queue) : queue'[i] = queue[i]
    <2>1. queue \in Seq(Tasks)
      BY DEF CoTypeOK
    <2>. QED  BY <2>1, AppendFacts
  <1>2. Awaited(t) \notin gone =>
          /\ Current(Awaited(t)) /\ on[t.of] \notin Coroutines
          /\ \A i \in 1..Len(queue) : queue[i] # t
    <2>1. SUFFICES ASSUME Awaited(t) \notin gone
                   PROVE  /\ Current(Awaited(t)) /\ on[t.of] \notin Coroutines
                          /\ \A i \in 1..Len(queue) : queue[i] # t
      OBVIOUS
    <2>2. Current(Awaited(t)) /\ on[Awaited(t)[1]] \in {"promise", "sender"}
      BY <2>1 DEF AwaitInv
    <2>3. ASSUME NEW i \in 1..Len(queue), queue[i] = t
          PROVE  FALSE
      BY <2>1, <2>3 DEF AwaitInv, Resuming
    <2>. QED  BY <2>2, <2>3, CoroutineAssumption DEF Awaited
  <1>3. ASSUME NEW i \in 1..Len(queue'), Resuming(queue[i])'
        PROVE  /\ Current(Awaited(queue[i]))'
               /\ Awaited(queue[i])' \notin promises' \cup senders' \cup firing' \cup giving'
               /\ on'[queue'[i].of] \in Coroutines => co'[on'[queue'[i].of]] = "dead"
               /\ \A j \in 1..Len(queue') : queue'[j] = queue'[i] => i = j
    <2>1. CASE i = Len(queue) + 1
      <3>1. queue'[i] = t /\ Awaited(t) \notin gone
        BY <1>1, <1>3, <2>1 DEF Resuming, Awaited
      <3>2. \A j \in 1..Len(queue') : queue'[j] = t => i = j
        BY <1>1, <1>2, <2>1, <3>1
      <3>. QED  BY <1>2, <3>1, <3>2 DEF Awaited, Current
    <2>2. CASE i \in 1..Len(queue)
      <3>1. queue'[i] = queue[i] /\ Resuming(queue[i])
        BY <1>1, <1>3, <2>2 DEF Resuming, Awaited
      <3>2. queue[i] # t
        BY <1>2, <2>2, <3>1 DEF Resuming
      <3>3. \A j \in 1..Len(queue') : queue'[j] = queue[i] => i = j
        BY <1>1, <2>2, <3>1, <3>2 DEF AwaitInv
      <3>4. /\ Current(Awaited(queue[i]))
            /\ Awaited(queue[i]) \notin promises \cup senders \cup firing \cup giving
            /\ on[queue[i].of] \in Coroutines => co[on[queue[i].of]] = "dead"
        BY <2>2, <3>1 DEF AwaitInv
      <3>. QED  BY <3>1, <3>3, <3>4 DEF Awaited, Current, Shrinks
    <2>. QED  BY <1>1, <2>1, <2>2
  <1>4. /\ \A a \in promises' \ gone' : Current(a)' /\ on'[a[1]] = "promise"
        /\ \A a \in (senders' \cup firing' \cup giving') \ gone' : Current(a)' /\ on'[a[1]] = "sender"
        /\ \A a \in senders' \ gone' : a \notin firing' \cup giving'
        /\ \A a \in firing' \ gone' : a \notin giving'
    BY DEF AwaitInv, Shrinks, Current
  <1>. QED  BY <1>3, <1>4 DEF AwaitInv

\* A sender fires, or its receiver looks at the awaiter: somebody else answers.
LEMMA MoveAwaits ==
  ASSUME AwaitInv, UNCHANGED <<co, no, on, gone, queue, promises>>, NEW a,
         \/ /\ a \in senders /\ senders' = senders \ {a}
            /\ firing' = firing \cup {a} /\ giving' = giving
         \/ /\ a \in firing /\ firing' = firing \ {a}
            /\ giving' \in {giving, giving \cup {a}} /\ senders' = senders
  PROVE  AwaitInv'
  BY DEF AwaitInv, Resuming, Awaited, Current

\* The task resumes the coroutine, and there is no other.
LEMMA ResumeAwaits ==
  ASSUME CoTypeOK, AwaitInv, queue # <<>>, Resuming(Head(queue)), queue' = Tail(queue),
         co' = [co EXCEPT ![Head(queue).of] = "running"],
         UNCHANGED <<no, on, gone, promises, senders, firing, giving>>
  PROVE  AwaitInv'
  <1>1. PICK t \in Tasks : t = Head(queue)
    BY PopFacts DEF CoTypeOK
  <1>2. /\ Len(queue) \in Nat /\ Len(queue) > 0 /\ queue[1] = t
        /\ queue' \in Seq(Tasks) /\ Len(queue') = Len(queue) - 1
        /\ \A i \in 1..Len(queue') : queue'[i] = queue[i + 1]
    BY <1>1, PopFacts DEF CoTypeOK
  <1>3. /\ Current(Awaited(t)) /\ Awaited(t) \notin promises \cup senders \cup firing \cup giving
        /\ \A j \in 1..Len(queue) : queue[j] = t => j = 1
    BY <1>1, <1>2 DEF AwaitInv
  <1>4. /\ t.of \in Coroutines /\ co[t.of] = "waiting" /\ no[t.of] = t.no
        /\ \A c \in Coroutines : c # t.of => co'[c] = co[c]
    <2>1. Awaited(t)[1] = t.of /\ Awaited(t)[2] = t.no /\ t.of \in Coroutines
      BY Pairs DEF Awaited
    <2>2. co[t.of] = "waiting" /\ no[t.of] = t.no
      BY <1>3, <2>1 DEF Current
    <2>3. co \in [Coroutines -> States] /\ co' = [co EXCEPT ![t.of] = "running"]
      BY <1>1 DEF CoTypeOK
    <2>. QED  BY <2>1, <2>2, <2>3
  <1>5. ASSUME NEW a \in Awaits, Current(a), a # Awaited(t)
        PROVE  Current(a)'
    <2>1. a[1] \in Coroutines /\ a = <<a[1], a[2]>>
      BY Pairs
    <2>2. a[1] # t.of
      BY <1>4, <1>5, <2>1 DEF Current, Awaited
    <2>. QED  BY <1>4, <1>5, <2>1, <2>2 DEF Current
  <1>6. ASSUME NEW i \in 1..Len(queue'), Resuming(queue[i])'
        PROVE  /\ Current(Awaited(queue[i]))'
               /\ Awaited(queue[i])' \notin promises' \cup senders' \cup firing' \cup giving'
               /\ on'[queue'[i].of] \in Coroutines => co'[on'[queue'[i].of]] = "dead"
               /\ \A j \in 1..Len(queue') : queue'[j] = queue'[i] => i = j
    <2>1. PICK u \in Tasks : i + 1 \in 1..Len(queue) /\ queue[i + 1] = u /\ queue'[i] = u
      <3>1. queue'[i] \in Tasks
        BY <1>2
      <3>2. i + 1 \in 1..Len(queue) /\ queue'[i] = queue[i + 1]
        BY <1>2
      <3>. QED  BY <3>1, <3>2
    <2>2. Resuming(u) /\ Awaited(queue[i])' = Awaited(u)
      BY <1>6, <2>1 DEF Resuming, Awaited
    <2>3. u # t
      BY <1>2, <1>3, <2>1
    <2>4. Awaited(u) # Awaited(t)
      <3>1. t = [task |-> "resume", of |-> t.of, no |-> t.no]
        BY <1>1 DEF Resuming, Tasks
      <3>2. u = [task |-> "resume", of |-> u.of, no |-> u.no]
        BY <2>2 DEF Resuming, Tasks
      <3>. QED  BY <2>3, <3>1, <3>2 DEF Awaited
    <2>5. Current(Awaited(queue[i]))'
      <3>1. Current(Awaited(u)) /\ Awaited(u) \in Awaits
        BY <2>1, <2>2, Pairs DEF AwaitInv
      <3>2. Current(Awaited(u))'
        BY <1>5, <2>4, <3>1
      <3>. QED  BY <2>1, <3>2 DEF Awaited, Current
    <2>6. Awaited(u) \notin promises \cup senders \cup firing \cup giving
      BY <2>1, <2>2 DEF AwaitInv
    <2>7. on[u.of] \in Coroutines => co'[on[u.of]] = "dead"
      BY <1>4, <2>1, <2>2 DEF AwaitInv
    <2>8. ASSUME NEW j \in 1..Len(queue'), queue'[j] = u
          PROVE  i = j
      <3>1. j + 1 \in 1..Len(queue) /\ queue[j + 1] = u
        BY <1>2, <2>8
      <3>2. i + 1 = j + 1
        BY <2>1, <2>2, <3>1 DEF AwaitInv
      <3>. QED  BY <3>2
    <2>. QED  BY <2>1, <2>2, <2>5, <2>6, <2>7, <2>8
  <1>7. ASSUME NEW a \in (promises \cup senders \cup firing \cup giving) \ gone
        PROVE  Current(a)'
    <2>1. a \in Awaits /\ Current(a) /\ a # Awaited(t)
      BY <1>3, <1>7 DEF AwaitInv, CoTypeOK
    <2>. QED  BY <1>5, <2>1
  <1>8. /\ \A a \in promises' \ gone' : Current(a)' /\ on'[a[1]] = "promise"
        /\ \A a \in (senders' \cup firing' \cup giving') \ gone' : Current(a)' /\ on'[a[1]] = "sender"
        /\ \A a \in senders' \ gone' : a \notin firing' \cup giving'
        /\ \A a \in firing' \ gone' : a \notin giving'
    BY <1>7 DEF AwaitInv
  <1>. QED  BY <1>6, <1>8 DEF AwaitInv

\* A coroutine that runs awaits something: nothing answers what it awaited before.
LEMMA SuspendAwaits ==
  ASSUME CoTypeOK, AwaitInv, NEW c \in Coroutines, co[c] = "running",
         NEW w \in Coroutines \cup {"promise", "sender", "ready"},
         co' = [co EXCEPT ![c] = "waiting"], no' = [no EXCEPT ![c] = @ + 1],
         on' = [on EXCEPT ![c] = w],
         promises' = IF w = "promise" THEN promises \cup {<<c, no[c] + 1>>} ELSE promises,
         senders' = IF w = "sender" THEN senders \cup {<<c, no[c] + 1>>} ELSE senders,
         queue' = IF w = "ready"
                  THEN Append(queue, [task |-> "resume", of |-> c, no |-> no[c] + 1]) ELSE queue,
         UNCHANGED <<firing, giving, gone>>
  PROVE  AwaitInv'
  <1>0. no \in [Coroutines -> Nat]
    BY DEF CoTypeOK
  <1>a. PICK n \in Nat : n = no[c] + 1
    BY <1>0
  <1>b. PICK new \in Awaits : new = <<c, n>>
    BY Pairs
  <1>c. PICK t \in Tasks : t = [task |-> "resume", of |-> c, no |-> n]
    BY DEF Tasks
  <1>1. /\ Awaited(t) = new /\ new[1] = c /\ new[2] = n /\ t.of = c /\ no[c] # n
        /\ co'[c] = "waiting" /\ no'[c] = n /\ on'[c] = w
        /\ \A d \in Coroutines : d # c => co'[d] = co[d] /\ no'[d] = no[d] /\ on'[d] = on[d]
    <2>1. Awaited(t) = new /\ new[1] = c /\ new[2] = n /\ t.of = c
      BY <1>b, <1>c DEF Awaited
    <2>2. co'[c] = "waiting" /\ \A d \in Coroutines : d # c => co'[d] = co[d]
      BY DEF CoTypeOK
    <2>3. no[c] # n /\ no'[c] = n /\ \A d \in Coroutines : d # c => no'[d] = no[d]
      BY <1>0, <1>a
    <2>4. on'[c] = w /\ \A d \in Coroutines : d # c => on'[d] = on[d]
      BY DEF CoTypeOK
    <2>. QED  BY <2>1, <2>2, <2>3, <2>4
  <1>2. ASSUME NEW a \in Awaits, Current(a)
        PROVE  a[1] # c /\ a # new /\ Current(a)' /\ on'[a[1]] = on[a[1]]
    <2>1. a[1] \in Coroutines /\ a[1] # c
      BY <1>2, Pairs DEF Current
    <2>. QED  BY <1>1, <1>2, <2>1 DEF Current
  <1>3. Current(new)'
    BY <1>1 DEF Current
  <1>4. \A a \in (promises \cup senders \cup firing \cup giving) \ gone : a \in Awaits /\ Current(a)
    BY DEF AwaitInv, CoTypeOK
  <1>5. \A a \in promises' \ gone' : Current(a)' /\ on'[a[1]] = "promise"
    <2>1. SUFFICES ASSUME NEW a \in promises', a \notin gone
                   PROVE  Current(a)' /\ on'[a[1]] = "promise"
      OBVIOUS
    <2>2. CASE a \in promises
      BY <1>2, <1>4, <2>1, <2>2 DEF AwaitInv
    <2>3. CASE a = new /\ w = "promise"
      BY <1>1, <1>3, <2>3
    <2>. QED  BY <1>a, <1>b, <2>1, <2>2, <2>3
  <1>6. \A a \in (senders' \cup firing' \cup giving') \ gone' : Current(a)' /\ on'[a[1]] = "sender"
    <2>1. SUFFICES ASSUME NEW a \in senders' \cup firing' \cup giving', a \notin gone
                   PROVE  Current(a)' /\ on'[a[1]] = "sender"
      OBVIOUS
    <2>2. CASE a \in senders \cup firing \cup giving
      BY <1>2, <1>4, <2>1, <2>2 DEF AwaitInv
    <2>3. CASE a = new /\ w = "sender"
      BY <1>1, <1>3, <2>3
    <2>. QED  BY <1>a, <1>b, <2>1, <2>2, <2>3
  <1>7. /\ \A a \in senders' \ gone' : a \notin firing' \cup giving'
        /\ \A a \in firing' \ gone' : a \notin giving'
    BY <1>2, <1>4, <1>a, <1>b DEF AwaitInv
  <1>8. ASSUME NEW i \in 1..Len(queue), Resuming(queue[i])
        PROVE  /\ Awaited(queue[i]) # new /\ queue[i] # t
               /\ \A u : u = queue[i] => Current(Awaited(u))'
               /\ Awaited(queue[i]) \notin promises' \cup senders' \cup firing' \cup giving'
               /\ on'[queue[i].of] \in Coroutines => co'[on'[queue[i].of]] = "dead"
    <2>1. PICK u \in Tasks : queue[i] = u
      <3>1. queue \in Seq(Tasks)
        BY DEF CoTypeOK
      <3>. QED  BY <3>1
    <2>2. Awaited(u) \in Awaits /\ Awaited(u)[1] = u.of
      BY Pairs DEF Awaited
    <2>3. Current(Awaited(u))
      BY <1>8, <2>1 DEF AwaitInv
    <2>4. u.of # c /\ Awaited(u) # new /\ Current(Awaited(u))' /\ on'[u.of] = on[u.of]
      BY <1>2, <2>2, <2>3
    <2>5. Awaited(u) \notin promises' \cup senders' \cup firing' \cup giving'
      <3>1. Awaited(u) \notin promises \cup senders \cup firing \cup giving
        BY <1>8, <2>1 DEF AwaitInv
      <3>. QED  BY <1>a, <1>b, <2>4, <3>1
    <2>6. on[u.of] \in Coroutines => co[on[u.of]] = "dead"
      BY <1>8, <2>1 DEF AwaitInv
    <2>7. on[u.of] \in Coroutines => co'[on[u.of]] = "dead"
      BY <1>1, <2>6
    <2>8. u # t
      BY <1>1, <2>4
    <2>. QED  BY <2>1, <2>4, <2>5, <2>7, <2>8 DEF Awaited, Current
  <1>9. ASSUME NEW i \in 1..Len(queue'), Resuming(queue[i])'
        PROVE  /\ Current(Awaited(queue[i]))'
               /\ Awaited(queue[i])' \notin promises' \cup senders' \cup firing' \cup giving'
               /\ on'[queue'[i].of] \in Coroutines => co'[on'[queue'[i].of]] = "dead"
               /\ \A j \in 1..Len(queue') : queue'[j] = queue'[i] => i = j
    <2>1. queue \in Seq(Tasks) /\ Len(queue) \in Nat
      <3>1. queue \in Seq(Tasks)
        BY DEF CoTypeOK
      <3>. QED  BY <3>1
    <2>2. CASE w # "ready"
      <3>1. queue' = queue /\ Resuming(queue[i]) /\ i \in 1..Len(queue)
        BY <1>9, <2>2 DEF Resuming, Awaited
      <3>2. \A j \in 1..Len(queue) : queue[j] = queue[i] => i = j
        BY <3>1 DEF AwaitInv
      <3>. QED  BY <1>8, <3>1, <3>2 DEF Awaited, Current
    <2>3. CASE w = "ready"
      <3>1. /\ queue' = Append(queue, t) /\ Len(queue') = Len(queue) + 1
            /\ queue'[Len(queue) + 1] = t /\ \A j \in 1..Len(queue) : queue'[j] = queue[j]
        BY <1>a, <1>c, <2>1, <2>3, AppendFacts
      <3>2. CASE i = Len(queue) + 1
        <4>1. queue'[i] = t /\ queue'[i].of = c /\ new \notin gone
          BY <1>1, <1>9, <3>1, <3>2 DEF Resuming, Awaited
        <4>2. ASSUME NEW j \in 1..Len(queue), queue[j] = t
              PROVE  FALSE
          <5>1. Resuming(t)
            BY <1>1, <1>c, <4>1 DEF Resuming
          <5>. QED  BY <1>8, <4>2, <5>1
        <4>3. new \notin promises' \cup senders' \cup firing' \cup giving'
          BY <1>2, <1>4, <1>b, <2>3, <4>1
        <4>4. on'[c] \notin Coroutines
          BY <1>1, <2>3, CoroutineAssumption
        <4>5. \A j \in 1..Len(queue') : queue'[j] = t => i = j
          BY <2>1, <3>1, <3>2, <4>2
        <4>. QED  BY <1>1, <1>3, <4>1, <4>3, <4>4, <4>5 DEF Awaited, Current
      <3>3. CASE i \in 1..Len(queue)
        <4>1. queue'[i] = queue[i] /\ Resuming(queue[i])
          BY <1>9, <3>1, <3>3 DEF Resuming, Awaited
        <4>2. \A j \in 1..Len(queue') : queue'[j] = queue[i] => i = j
          <5>1. \A j \in 1..Len(queue) : queue[j] = queue[i] => i = j
            BY <3>3, <4>1 DEF AwaitInv
          <5>2. queue[i] # t
            BY <1>8, <3>3, <4>1
          <5>. QED  BY <2>1, <3>1, <5>1, <5>2
        <4>. QED  BY <1>8, <3>3, <4>1, <4>2 DEF Awaited, Current
      <3>. QED  BY <2>1, <3>1, <3>2, <3>3
    <2>. QED  BY <2>2, <2>3
  <1>. QED  BY <1>5, <1>6, <1>7, <1>9 DEF AwaitInv

\* A coroutine ends, and those that await it have their tasks.
LEMMA CompleteAwaits ==
  ASSUME CoTypeOK, AwaitInv, Shrinks, UNCHANGED <<no, on>>, NEW d \in Coroutines,
         co[d] # "dead", co[d] = "waiting" => <<d, no[d]>> \in gone',
         co' = [co EXCEPT ![d] = "dead"],
         NEW s \in Seq(Tasks), queue' = queue \o s,
         \A i \in 1..Len(s) : \E w \in Coroutines :
           /\ co[w] = "waiting" /\ on[w] = d
           /\ s[i] = [task |-> "resume", of |-> w, no |-> no[w]],
         \A i, j \in 1..Len(s) : s[i] = s[j] => i = j
  PROVE  AwaitInv'
  <1>1. co'[d] = "dead" /\ \A c \in Coroutines : c # d => co'[c] = co[c]
    BY DEF CoTypeOK
  <1>2. Keeps /\ Buries
    BY <1>1 DEF Keeps, Buries
  <1>3. ASSUME NEW a \in Awaits, Current(a), a \notin gone'
        PROVE  Current(a)'
    BY <1>2, <1>3, StaysCurrent DEF Shrinks
  <1>4. ASSUME NEW a \in promises', a \notin gone'
        PROVE  Current(a)' /\ on'[a[1]] = "promise"
    <2>1. a \in Awaits /\ Current(a) /\ on[a[1]] = "promise"
      BY <1>4 DEF AwaitInv, Shrinks, CoTypeOK
    <2>. QED  BY <1>3, <1>4, <2>1
  <1>5. ASSUME NEW a \in senders' \cup firing' \cup giving', a \notin gone'
        PROVE  Current(a)' /\ on'[a[1]] = "sender"
    <2>1. a \in Awaits /\ Current(a) /\ on[a[1]] = "sender"
      BY <1>5 DEF AwaitInv, Shrinks, CoTypeOK
    <2>. QED  BY <1>3, <1>5, <2>1
  <1>6. /\ \A a \in senders' \ gone' : a \notin firing' \cup giving'
        /\ \A a \in firing' \ gone' : a \notin giving'
    BY DEF AwaitInv, Shrinks
  <1>7. /\ queue \in Seq(Tasks) /\ Len(queue) \in Nat /\ Len(s) \in Nat
        /\ Len(queue') = Len(queue) + Len(s)
        /\ \A i \in 1..Len(queue) : queue'[i] = queue[i]
        /\ \A i \in 1..Len(s) : queue'[Len(queue) + i] = s[i]
    <2>1. queue \in Seq(Tasks)
      BY DEF CoTypeOK
    <2>. QED  BY <2>1, ConcatFacts
  \* A task that was there is for one that awaits something else.
  <1>8. ASSUME NEW i \in 1..Len(queue), NEW j \in 1..Len(s), queue[i] = s[j], Resuming(queue[i])
        PROVE  FALSE
    <2>1. PICK w \in Coroutines : on[w] = d /\ queue[i].of = w
      <3>1. PICK w \in Coroutines : on[w] = d /\ s[j] = [task |-> "resume", of |-> w, no |-> no[w]]
        OBVIOUS
      <3>. QED  BY <1>8, <3>1
    <2>2. on[queue[i].of] \in Coroutines => co[on[queue[i].of]] = "dead"
      BY <1>8 DEF AwaitInv
    <2>. QED  BY <2>1, <2>2
  <1>9. ASSUME NEW i \in 1..Len(queue'), Resuming(queue[i])'
        PROVE  /\ Current(Awaited(queue[i]))'
               /\ Awaited(queue[i])' \notin promises' \cup senders' \cup firing' \cup giving'
               /\ on'[queue'[i].of] \in Coroutines => co'[on'[queue'[i].of]] = "dead"
               /\ \A j \in 1..Len(queue') : queue'[j] = queue'[i] => i = j
    <2>1. CASE i \in 1..Len(queue)
      <3>1. PICK u \in Tasks : queue[i] = u /\ queue'[i] = u
        BY <1>7, <2>1
      <3>2. Awaited(u) \notin gone' /\ Resuming(u) /\ Awaited(u) \in Awaits /\ u.of \in Coroutines
        BY <1>9, <3>1, Pairs DEF Resuming, Awaited, Shrinks
      <3>3. /\ Current(Awaited(u)) /\ Awaited(u) \notin promises \cup senders \cup firing \cup giving
            /\ on[u.of] \in Coroutines => co[on[u.of]] = "dead"
            /\ \A j \in 1..Len(queue) : queue[j] = u => i = j
        BY <2>1, <3>1, <3>2 DEF AwaitInv
      <3>4. Current(Awaited(u))'
        BY <1>3, <3>2, <3>3
      <3>5. on[u.of] \in Coroutines => co'[on[u.of]] = "dead"
        BY <1>1, <3>3
      <3>6. ASSUME NEW j \in 1..Len(queue'), queue'[j] = u
            PROVE  i = j
        <4>1. CASE j \in 1..Len(queue)
          BY <1>7, <3>3, <3>6, <4>1
        <4>2. CASE j \notin 1..Len(queue)
          <5>1. PICK k \in 1..Len(s) : j = Len(queue) + k
            <6>1. j - Len(queue) \in 1..Len(s) /\ j = Len(queue) + (j - Len(queue))
              BY <1>7, <4>2
            <6>. QED  BY <6>1
          <5>2. s[k] = u
            BY <1>7, <3>6, <5>1
          <5>. QED  BY <1>8, <2>1, <3>1, <3>2, <5>2
        <4>. QED  BY <4>1, <4>2
      <3>7. Awaited(u) \notin promises' \cup senders' \cup firing' \cup giving'
        BY <3>3 DEF Shrinks
      <3>. QED  BY <3>1, <3>4, <3>5, <3>6, <3>7 DEF Awaited, Current
    <2>2. CASE i \notin 1..Len(queue)
      <3>1. PICK k \in 1..Len(s) : i = Len(queue) + k
        <4>1. i - Len(queue) \in 1..Len(s) /\ i = Len(queue) + (i - Len(queue))
          BY <1>7, <2>2
        <4>. QED  BY <4>1
      <3>2. PICK w \in Coroutines : /\ co[w] = "waiting" /\ on[w] = d
                                    /\ s[k] = [task |-> "resume", of |-> w, no |-> no[w]]
        OBVIOUS
      <3>3. PICK u \in Tasks : queue'[i] = u /\ s[k] = u
        <4>1. s[k] \in Tasks
          OBVIOUS
        <4>. QED  BY <1>7, <3>1, <4>1
      <3>4. /\ u.of = w /\ u.task = "resume" /\ Awaited(u) = <<w, no[w]>> /\ Awaited(u) \in Awaits
            /\ Awaited(u) \notin gone'
        BY <1>9, <3>2, <3>3, Pairs DEF Resuming, Awaited
      <3>5. Current(Awaited(u))
        BY <3>2, <3>4 DEF Current
      <3>6. Current(Awaited(u))'
        BY <1>3, <3>4, <3>5
      <3>7. Awaited(u) \notin promises' \cup senders' \cup firing' \cup giving'
        <4>1. on[w] \notin {"promise", "sender"} /\ Awaited(u)[1] = w
          BY <3>2, <3>4, CoroutineAssumption
        <4>. QED  BY <1>4, <1>5, <3>4, <4>1
      <3>8. ASSUME NEW j \in 1..Len(queue'), queue'[j] = u
            PROVE  i = j
        <4>1. CASE j \in 1..Len(queue)
          <5>1. queue[j] = u /\ Resuming(queue[j])
            BY <1>7, <3>4, <3>8, <4>1 DEF Resuming, Shrinks
          <5>. QED  BY <1>8, <3>3, <4>1, <5>1
        <4>2. CASE j \notin 1..Len(queue)
          <5>1. PICK m \in 1..Len(s) : j = Len(queue) + m
            <6>1. j - Len(queue) \in 1..Len(s) /\ j = Len(queue) + (j - Len(queue))
              BY <1>7, <4>2
            <6>. QED  BY <6>1
          <5>2. s[m] = s[k]
            BY <1>7, <3>3, <3>8, <5>1
          <5>. QED  BY <3>1, <5>1, <5>2
        <4>. QED  BY <4>1, <4>2
      <3>9. on[w] \in Coroutines => co'[on[w]] = "dead"
        BY <1>1, <3>2
      <3>. QED  BY <3>3, <3>4, <3>6, <3>7, <3>8, <3>9 DEF Awaited, Current
    <2>. QED  BY <2>1, <2>2
  <1>. QED  BY <1>4, <1>5, <1>6, <1>9 DEF AwaitInv

--------------------------------------------------------------------------------
(* What the two headers share *)

Common == CoTypeOK /\ AwaitInv /\ LifeInv

\* The functions and the sequences of the state.
LEMMA Types ==
  ASSUME CoTypeOK
  PROVE  /\ co \in [Coroutines -> States] /\ no \in [Coroutines -> Nat]
         /\ on \in [Coroutines -> Coroutines \cup {"promise", "sender", "ready"}]
         /\ result \in [Coroutines -> {"none", "value", "error", "canceled"}]
         /\ slot \in [Coroutines -> {"none", "start", "await", "run"}]
         /\ canceled \in [Coroutines -> BOOLEAN]
         /\ stack \in Seq(Frames) /\ queue \in Seq(Tasks)
         /\ ptr \in Coroutines \cup {Null} /\ previous \in [Coroutines -> Coroutines \cup {Null}]
  BY DEF CoTypeOK

\* The coroutine d ends, and the tasks s of those that await it are posted.
Ends(d, r, s) ==
  /\ co' = [co EXCEPT ![d] = "dead"] /\ slot' = [slot EXCEPT ![d] = "none"]
  /\ result' = [result EXCEPT ![d] = r]
  /\ s \in Seq(Tasks) /\ queue' = queue \o s
  /\ \A i \in 1..Len(s) : \E w \in Coroutines :
       /\ co[w] = "waiting" /\ on[w] = d
       /\ s[i] = [task |-> "resume", of |-> w, no |-> no[w]]
  /\ \A i, j \in 1..Len(s) : s[i] = s[j] => i = j
  /\ result[d] = "none" => NeverTouchedDead'

LEMMA StackfulEnds ==
  ASSUME CoTypeOK, NEW d, NEW r, Stackful!Complete(d, r)
  PROVE  \E s : Ends(d, r, s)
  <1>. DEFINE W == {w \in Coroutines : co[w] = "waiting" /\ on[w] = d}
              R == {Stackful!Task("resume", w) : w \in W}
              s == Stackful!Resumes(d)
  <1>1. R \in SUBSET Tasks
    BY Types DEF Tasks, Stackful!Task
  <1>2. IsFiniteSet(R)
    <2>1. IsFiniteSet(W)
      BY CoroutineAssumption, FS_Subset
    <2>. DEFINE f == [w \in W |-> Stackful!Task("resume", w)]
    <2>2. f \in Surjection(W, R)
      BY DEF Surjection
    <2>. QED  BY <2>1, <2>2, FS_Surjection DEF ExistsSurjection
  <1>3. s = Stackful!SetToSeq(R)
    BY DEF Stackful!Resumes
  <1>4. /\ s \in Seq(Tasks) /\ \A i \in 1..Len(s) : s[i] \in R
        /\ \A i, j \in 1..Len(s) : s[i] = s[j] => i = j
    BY <1>1, <1>2, <1>3, TasksOnce
  <1>5. \A i \in 1..Len(s) : \E w \in Coroutines :
          /\ co[w] = "waiting" /\ on[w] = d
          /\ s[i] = [task |-> "resume", of |-> w, no |-> no[w]]
    BY <1>4 DEF Stackful!Task
  <1>6. Ends(d, r, s)
    <2>1. result[d] = "none" => NeverTouchedDead'
      BY Zenon DEF Stackful!Complete, NeverTouchedDead
    <2>. QED  BY <1>4, <1>5, <2>1 DEF Ends, Stackful!Complete
  <1>. QED  BY <1>6

LEMMA StacklessEnds ==
  ASSUME CoTypeOK, NEW d, NEW r, Stackless!Complete(d, r)
  PROVE  \E s : Ends(d, r, s)
  <1>. DEFINE W == {w \in Coroutines : co[w] = "waiting" /\ on[w] = d}
              R == {Stackless!ResumeTask(Stackless!Await(w)) : w \in W}
              s == Stackless!SetToSeq(R)
  <1>1. \A w : Stackless!ResumeTask(Stackless!Await(w)) = [task |-> "resume", of |-> w, no |-> no[w]]
    BY DEF Stackless!ResumeTask, Stackless!Await
  <1>2. R \in SUBSET Tasks
    BY <1>1, Types DEF Tasks
  <1>3. IsFiniteSet(R)
    <2>1. IsFiniteSet(W)
      BY CoroutineAssumption, FS_Subset
    <2>. DEFINE f == [w \in W |-> Stackless!ResumeTask(Stackless!Await(w))]
    <2>2. f \in Surjection(W, R)
      BY DEF Surjection
    <2>. QED  BY <2>1, <2>2, FS_Surjection DEF ExistsSurjection
  <1>4. /\ s \in Seq(Tasks) /\ \A i \in 1..Len(s) : s[i] \in R
        /\ \A i, j \in 1..Len(s) : s[i] = s[j] => i = j
    BY <1>2, <1>3, TasksOnce
  <1>5. \A i \in 1..Len(s) : \E w \in Coroutines :
          /\ co[w] = "waiting" /\ on[w] = d
          /\ s[i] = [task |-> "resume", of |-> w, no |-> no[w]]
    BY <1>1, <1>4
  <1>6. Ends(d, r, s)
    <2>1. result[d] = "none" => NeverTouchedDead'
      BY Zenon DEF Stackless!Complete, NeverTouchedDead
    <2>. QED  BY <1>4, <1>5, <2>1 DEF Ends, Stackless!Complete
  <1>. QED  BY <1>6

\* It ends once, and the rest of the state is as it was.
LEMMA EndsOnce ==
  ASSUME Common, Shrinks, UNCHANGED <<no, on>>, NEW d \in Coroutines,
         NEW r \in {"value", "error", "canceled"}, NEW s, Ends(d, r, s),
         co[d] # "dead", co[d] = "waiting" => <<d, no[d]>> \in gone',
         canceled' \in [Coroutines -> BOOLEAN],
         \A c \in Coroutines : c # d => canceled'[c] = canceled[c],
         stack' \in Seq(Frames), ptr' \in Coroutines \cup {Null},
         previous' \in [Coroutines -> Coroutines \cup {Null}], gone' \in SUBSET Awaits
  PROVE  /\ Common'
         /\ co'[d] = "dead" /\ slot'[d] = "none"
         /\ \A c \in Coroutines : c # d => co'[c] = co[c] /\ slot'[c] = slot[c]
  <1>1. co \in [Coroutines -> States] /\ slot \in [Coroutines -> {"none", "start", "await", "run"}]
        /\ result \in [Coroutines -> {"none", "value", "error", "canceled"}] /\ queue \in Seq(Tasks)
    BY Types DEF Common
  <1>2. /\ co' \in [Coroutines -> States] /\ slot' \in [Coroutines -> {"none", "start", "await", "run"}]
        /\ result' \in [Coroutines -> {"none", "value", "error", "canceled"}]
        /\ co'[d] = "dead" /\ slot'[d] = "none" /\ result'[d] = r
        /\ \A c \in Coroutines : c # d => co'[c] = co[c] /\ slot'[c] = slot[c] /\ result'[c] = result[c]
    BY <1>1 DEF Ends, States
  <1>3. result[d] = "none"
    BY DEF Common, LifeInv
  <1>4. NeverTouchedDead'
    BY <1>3 DEF Ends
  <1>5. queue' \in Seq(Tasks)
    BY <1>1, ConcatFacts DEF Ends
  <1>6. CoTypeOK'
    <2>1. /\ promises \in SUBSET Awaits /\ senders \in SUBSET Awaits /\ firing \in SUBSET Awaits
          /\ giving \in SUBSET Awaits /\ no \in [Coroutines -> Nat]
          /\ on \in [Coroutines -> Coroutines \cup {"promise", "sender", "ready"}]
      BY DEF Common, CoTypeOK
    <2>. QED  BY <1>2, <1>4, <1>5, <2>1 DEF CoTypeOK, Shrinks
  <1>7. AwaitInv'
    BY CompleteAwaits DEF Ends, Common
  <1>8. LifeInv'
    <2>1. on \in [Coroutines -> Coroutines \cup {"promise", "sender", "ready"}]
      BY DEF Common, CoTypeOK
    <2>. QED  BY <1>2, <2>1 DEF LifeInv, Common
  <1>. QED  BY <1>2, <1>4, <1>6, <1>7, <1>8 DEF Common

\* Nothing failed, unless something does.
LEMMA NothingFails ==
  ASSUME CoTypeOK, UNCHANGED failed
  PROVE  NeverTouchedDead'
  BY DEF CoTypeOK, NeverTouchedDead

\* A coroutine is spawned.
LEMMA Spawned ==
  ASSUME Common, NEW d \in Coroutines, co[d] = "none", NEW t \in Tasks, t.task = "start",
         co' = [co EXCEPT ![d] = "queued"], slot' = [slot EXCEPT ![d] = "start"],
         queue' = Append(queue, t),
         UNCHANGED <<no, on, result, canceled, stack, ptr, previous,
                     promises, senders, firing, giving, gone, failed>>
  PROVE  /\ Common' /\ co'[d] = "queued" /\ slot'[d] = "start"
         /\ \A c \in Coroutines : c # d => co'[c] = co[c] /\ slot'[c] = slot[c]
  <1>1. /\ co' \in [Coroutines -> States] /\ slot' \in [Coroutines -> {"none", "start", "await", "run"}]
        /\ co'[d] = "queued" /\ slot'[d] = "start"
        /\ \A c \in Coroutines : c # d => co'[c] = co[c] /\ slot'[c] = slot[c]
    BY Types DEF Common, States
  <1>2. Keeps /\ Buries /\ Shrinks
    BY <1>1 DEF Keeps, Buries, Shrinks
  <1>3. /\ queue' \in Seq(Tasks) /\ Len(queue) \in Nat /\ Len(queue') = Len(queue) + 1
        /\ queue'[Len(queue) + 1] = t /\ \A i \in 1..Len(queue) : queue'[i] = queue[i]
    BY Types, AppendFacts DEF Common
  <1>4. AwaitInv'
    <2>1. ASSUME NEW i \in 1..Len(queue'), queue'[i].task = "resume"
          PROVE  i + 0 \in 1..Len(queue) /\ queue'[i] = queue[i + 0]
      BY <1>3, <2>1
    <2>. QED  BY <1>2, <1>3, <2>1, KeepAwaits DEF Common
  <1>5. LifeInv'
    BY <1>1, Types DEF Common, LifeInv
  <1>6. CoTypeOK'
    <2>1. NeverTouchedDead'
      BY NothingFails DEF Common
    <2>. QED  BY <1>1, <1>3, <2>1 DEF Common, CoTypeOK
  <1>. QED  BY <1>1, <1>4, <1>5, <1>6 DEF Common

\* Only one thing answers an await.
LEMMA Sole ==
  ASSUME AwaitInv, NEW a, a \notin gone
  PROVE  /\ a \in promises => a \notin senders \cup firing \cup giving
         /\ a \in senders => a \notin promises \cup firing \cup giving
         /\ a \in firing => a \notin promises \cup senders \cup giving
         /\ a \in giving => a \notin promises \cup senders \cup firing
  BY DEF AwaitInv

\* An answer is posted.
LEMMA Posted ==
  ASSUME Common, NEW a \in Awaits, a \in promises \cup senders \cup firing \cup giving, Shrinks,
         queue' = Append(queue, [task |-> "resume", of |-> a[1], no |-> a[2]]),
         a \in gone \/ a \notin promises' \cup senders' \cup firing' \cup giving',
         UNCHANGED <<co, no, on, result, slot, canceled, gone>>,
         stack' \in Seq(Frames), ptr' \in Coroutines \cup {Null},
         previous' \in [Coroutines -> Coroutines \cup {Null}], NeverTouchedDead'
  PROVE  Common'
  <1>1. PICK t \in Tasks : t = [task |-> "resume", of |-> a[1], no |-> a[2]]
    BY Pairs DEF Tasks
  <1>2. Awaited(t) = a /\ t.task = "resume"
    BY <1>1, Pairs DEF Awaited
  <1>3. AwaitInv'
    BY <1>1, <1>2, PostAwaits DEF Common
  <1>4. queue' \in Seq(Tasks)
    BY <1>1, Types, AppendFacts DEF Common
  <1>5. CoTypeOK'
    BY <1>4 DEF Common, CoTypeOK, Shrinks
  <1>6. LifeInv'
    BY DEF Common, LifeInv
  <1>. QED  BY <1>3, <1>5, <1>6 DEF Common

\* Only the stack moves, or a sender.
LEMMA Moved ==
  ASSUME Common, UNCHANGED <<co, no, on, result, slot, canceled, queue, promises, gone>>,
         stack' \in Seq(Frames), ptr' \in Coroutines \cup {Null},
         previous' \in [Coroutines -> Coroutines \cup {Null}], NeverTouchedDead',
         \/ Shrinks
         \/ \E a \in Awaits :
              \/ a \in senders /\ senders' = senders \ {a} /\ firing' = firing \cup {a} /\ giving' = giving
              \/ /\ a \in firing /\ firing' = firing \ {a} /\ senders' = senders
                 /\ giving' \in {giving, giving \cup {a}}
  PROVE  Common'
  <1>1. AwaitInv'
    <2>1. CASE Shrinks
      <3>1. Keeps /\ Buries
        BY DEF Keeps, Buries
      <3>. QED  BY <2>1, <3>1, IdleAwaits DEF Common
    <2>2. CASE ~Shrinks
      BY <2>2, MoveAwaits DEF Common
    <2>. QED  BY <2>1, <2>2
  <1>2. CoTypeOK'
    <2>1. senders' \in SUBSET Awaits /\ firing' \in SUBSET Awaits /\ giving' \in SUBSET Awaits
      BY DEF Common, CoTypeOK, Shrinks
    <2>. QED  BY <2>1 DEF Common, CoTypeOK
  <1>3. LifeInv'
    BY DEF Common, LifeInv
  <1>. QED  BY <1>1, <1>2, <1>3 DEF Common

--------------------------------------------------------------------------------
(* The stack of the thread *)

OnStack(s, f, c) == \E i \in 1..Len(s) : s[i] = [frame |-> f, of |-> c]

\* The current coroutine below what cancels: that of the code at the bottom of the
\* stack, unless it runs work.
Base(s) == IF \E i \in 1..Len(s) : s[i].frame = "work" THEN Null
           ELSE IF Len(s) > 0 /\ s[Len(s)].frame = "run" THEN s[Len(s)].of ELSE Null

LEMMA NotEmpty ==
  ASSUME NEW S, NEW s \in Seq(S), NEW i \in 1..Len(s)
  PROVE  s # <<>> /\ s[i] \in S
  OBVIOUS

\* A frame x on top of the frames u.
LEMMA Stacked ==
  ASSUME NEW x \in Frames, NEW u \in Seq(Frames), NEW t, t = <<x>> \o u
  PROVE  /\ t \in Seq(Frames) /\ Len(u) \in Nat /\ Len(t) = Len(u) + 1 /\ t[1] = x
         /\ \A i \in 1..Len(u) : t[i + 1] = u[i]
         /\ \A i \in 1..Len(t) : i = 1 \/ (i - 1 \in 1..Len(u) /\ t[i] = u[i - 1])
         /\ \A f, c : OnStack(t, f, c) <=> (x.frame = f /\ x.of = c) \/ OnStack(u, f, c)
  <1>1. /\ t \in Seq(Frames) /\ Len(u) \in Nat /\ Len(t) = Len(u) + 1 /\ t[1] = x
        /\ \A i \in 1..Len(u) : t[i + 1] = u[i]
    BY PushFacts
  <1>2. \A i \in 1..Len(t) : i = 1 \/ (i - 1 \in 1..Len(u) /\ t[i] = u[i - 1])
    <2>1. SUFFICES ASSUME NEW i \in 1..Len(t), i # 1
                   PROVE  i - 1 \in 1..Len(u) /\ t[i] = u[i - 1]
      OBVIOUS
    <2>2. i - 1 \in 1..Len(u) /\ (i - 1) + 1 = i
      BY <1>1, <2>1
    <2>. QED  BY <1>1, <2>2
  <1>3. ASSUME NEW f, NEW c
        PROVE  OnStack(t, f, c) <=> (x.frame = f /\ x.of = c) \/ OnStack(u, f, c)
    <2>1. ASSUME NEW i \in 1..Len(u)  PROVE  i + 1 \in 1..Len(t) /\ t[i + 1] = u[i]
      BY <1>1
    <2>2. 1 \in 1..Len(t)
      BY <1>1
    <2>3. x = [frame |-> f, of |-> c] <=> x.frame = f /\ x.of = c
      BY DEF Frames
    <2>. QED  BY <1>1, <1>2, <2>1, <2>2, <2>3 DEF OnStack
  <1>. QED  BY <1>1, <1>2, <1>3

LEMMA SameBase ==
  ASSUME NEW x \in Frames, NEW u \in Seq(Frames), NEW t, t = <<x>> \o u,
         x.frame \notin {"run", "work"}
  PROVE  Base(t) = Base(u)
  <1>1. /\ Len(t) = Len(u) + 1 /\ t[1] = x /\ Len(u) \in Nat
        /\ \A i \in 1..Len(u) : t[i + 1] = u[i]
        /\ \A i \in 1..Len(t) : i = 1 \/ (i - 1 \in 1..Len(u) /\ t[i] = u[i - 1])
    BY Stacked
  <1>2. (\E i \in 1..Len(t) : t[i].frame = "work") <=> (\E i \in 1..Len(u) : u[i].frame = "work")
    <2>1. ASSUME NEW i \in 1..Len(u)  PROVE  i + 1 \in 1..Len(t) /\ t[i + 1] = u[i]
      BY <1>1
    <2>. QED  BY <1>1, <2>1
  <1>3. CASE Len(u) = 0
    <2>1. Len(t) = 1 /\ t[Len(t)].frame \notin {"run", "work"}
      BY <1>1, <1>3
    <2>. QED  BY <1>2, <1>3, <2>1 DEF Base
  <1>4. CASE Len(u) > 0
    <2>1. Len(u) \in 1..Len(u) /\ t[Len(t)] = u[Len(u)] /\ Len(t) > 0
      BY <1>1, <1>4
    <2>. QED  BY <1>2, <1>4, <2>1 DEF Base
  <1>. QED  BY <1>1, <1>3, <1>4

\* The top of a stack and the rest.
LEMMA Unstacked ==
  ASSUME NEW s \in Seq(Frames), s # <<>>
  PROVE  /\ Head(s) \in Frames /\ Tail(s) \in Seq(Frames) /\ s = <<Head(s)>> \o Tail(s)
  OBVIOUS

--------------------------------------------------------------------------------
(* The stack of stackful coroutines *)

FSlot == \A c \in Coroutines : (slot[c] = "await" <=> co[c] = "waiting") /\ slot[c] # "run"

\* Code that runs is at the bottom, work over its own code; what cancels is on top of
\* them, and only the top may be yet to cancel something, or may unwind.
FShape(s) ==
  \A i \in 1..Len(s) :
    /\ s[i].frame \in {"run", "work", "cancel", "abort", "unwind"}
    /\ s[i].frame = "run" => i = Len(s) /\ previous[s[i].of] = Null
    /\ s[i].frame = "work" => /\ i = Len(s) - 1
                              /\ s[Len(s)] = [frame |-> "run", of |-> s[i].of]
    /\ s[i].frame \in {"cancel", "unwind"} => i = 1
    /\ s[i].frame \in {"run", "unwind"} => co[s[i].of] = "running"
    /\ s[i].frame \in {"cancel", "abort"} => co[s[i].of] = "waiting" /\ canceled[s[i].of]

\* A coroutine is in one frame, its work aside.
FOnce(s) ==
  \A i, j \in 1..Len(s) :
    s[i].of = s[j].of /\ s[i].frame # "work" /\ s[j].frame # "work" => i = j

\* One that runs is on the stack, and so is one that waits although it is canceled.
FRun(s) ==
  \A c \in Coroutines :
    /\ co[c] = "running" => OnStack(s, "run", c) \/ OnStack(s, "unwind", c)
    /\ co[c] = "waiting" /\ canceled[c] => OnStack(s, "cancel", c) \/ OnStack(s, "abort", c)

\* One that unwinds is the current one, until it gives way to the one before.
FPtr(s) == IF Len(s) > 0 /\ s[1].frame = "unwind"
           THEN ptr = s[1].of /\ previous[ptr] = Base(s)
           ELSE ptr = Base(s)

FStack(s) == FShape(s) /\ FOnce(s) /\ FRun(s) /\ FPtr(s)

\* What is on top of a stack that is more than what follows it.
LEMMA FTop ==
  ASSUME NEW x \in Frames, NEW u \in Seq(Frames), NEW t, t = <<x>> \o u, FStack(t)
  PROVE  /\ x.frame \in {"run", "work", "cancel", "abort", "unwind"}
         /\ x.frame = "run" => u = <<>> /\ previous[x.of] = Null
         /\ x.frame = "work" => u = <<[frame |-> "run", of |-> x.of]>>
         /\ x.frame \in {"run", "unwind"} => co[x.of] = "running"
         /\ x.frame \in {"cancel", "abort"} => co[x.of] = "waiting" /\ canceled[x.of]
         /\ \A i \in 1..Len(u) : /\ u[i].frame \notin {"cancel", "unwind"}
                                 /\ x.frame # "work" /\ u[i].frame # "work" => u[i].of # x.of
         /\ FShape(u) /\ FOnce(u)
  <1>1. /\ Len(t) = Len(u) + 1 /\ t[1] = x /\ Len(u) \in Nat
        /\ \A i \in 1..Len(u) : t[i + 1] = u[i]
    BY Stacked
  <1>2. 1 \in 1..Len(t)
    BY <1>1
  <1>3. /\ x.frame \in {"run", "work", "cancel", "abort", "unwind"}
        /\ x.frame = "run" => 1 = Len(t) /\ previous[x.of] = Null
        /\ x.frame = "work" => 1 = Len(t) - 1 /\ t[Len(t)] = [frame |-> "run", of |-> x.of]
        /\ x.frame \in {"run", "unwind"} => co[x.of] = "running"
        /\ x.frame \in {"cancel", "abort"} => co[x.of] = "waiting" /\ canceled[x.of]
    BY <1>1, <1>2 DEF FStack, FShape
  <1>4. x.frame = "run" => u = <<>>
    BY <1>1, <1>3
  <1>5. ASSUME x.frame = "work"  PROVE  u = <<[frame |-> "run", of |-> x.of]>>
    <2>1. Len(u) = 1 /\ u[1] = [frame |-> "run", of |-> x.of]
      BY <1>1, <1>3, <1>5
    <2>. QED  BY <2>1
  <1>6. ASSUME NEW i \in 1..Len(u)
        PROVE  /\ u[i].frame \notin {"cancel", "unwind"}
               /\ x.frame # "work" /\ u[i].frame # "work" => u[i].of # x.of
    <2>1. i + 1 \in 1..Len(t) /\ t[i + 1] = u[i] /\ i + 1 # 1
      BY <1>1
    <2>2. u[i].frame \notin {"cancel", "unwind"}
      BY <2>1 DEF FStack, FShape
    <2>3. x.frame # "work" /\ u[i].frame # "work" => u[i].of # x.of
      BY <1>1, <1>2, <2>1 DEF FStack, FOnce
    <2>. QED  BY <2>2, <2>3
  <1>7. FShape(u)
    <2>1. SUFFICES ASSUME NEW i \in 1..Len(u)
                   PROVE  /\ u[i].frame \in {"run", "work", "cancel", "abort", "unwind"}
                          /\ u[i].frame = "run" => i = Len(u) /\ previous[u[i].of] = Null
                          /\ u[i].frame = "work" =>
                               /\ i = Len(u) - 1
                               /\ u[Len(u)] = [frame |-> "run", of |-> u[i].of]
                          /\ u[i].frame \in {"run", "unwind"} => co[u[i].of] = "running"
                          /\ u[i].frame \in {"cancel", "abort"} =>
                               co[u[i].of] = "waiting" /\ canceled[u[i].of]
      BY <1>6 DEF FShape
    <2>2. /\ i + 1 \in 1..Len(t) /\ t[i + 1] = u[i] /\ t[Len(t)] = u[Len(u)]
          /\ (i + 1 = Len(t) <=> i = Len(u)) /\ (i + 1 = Len(t) - 1 <=> i = Len(u) - 1)
      BY <1>1, <2>1
    <2>. QED  BY <2>2 DEF FStack, FShape
  <1>8. FOnce(u)
    <2>1. SUFFICES ASSUME NEW i \in 1..Len(u), NEW j \in 1..Len(u), u[i].of = u[j].of,
                          u[i].frame # "work", u[j].frame # "work"
                   PROVE  i = j
      BY DEF FOnce
    <2>2. i + 1 \in 1..Len(t) /\ j + 1 \in 1..Len(t) /\ t[i + 1] = u[i] /\ t[j + 1] = u[j]
      BY <1>1
    <2>3. i + 1 = j + 1
      BY <2>1, <2>2 DEF FStack, FOnce
    <2>. QED  BY <2>3
  <1>. QED  BY <1>3, <1>4, <1>5, <1>6, <1>7, <1>8

\* A frame that cancels comes on top of a stack u, where its coroutine is not.
LEMMA FPush ==
  ASSUME NEW x \in Frames, NEW u \in Seq(Frames), NEW t, t = <<x>> \o u,
         FShape(u)', FOnce(u),
         \A i \in 1..Len(u) : /\ u[i].frame \notin {"cancel", "unwind"}
                              /\ u[i].frame # "work" => u[i].of # x.of,
         \/ x.frame \in {"cancel", "abort"} /\ co'[x.of] = "waiting" /\ canceled'[x.of]
         \/ x.frame = "unwind" /\ co'[x.of] = "running"
  PROVE  FShape(t)' /\ FOnce(t)
  <1>1. /\ Len(t) = Len(u) + 1 /\ t[1] = x /\ Len(u) \in Nat
        /\ \A i \in 1..Len(t) : i = 1 \/ (i - 1 \in 1..Len(u) /\ t[i] = u[i - 1])
    BY Stacked
  <1>2. ASSUME NEW i \in 1..Len(t)
        PROVE  /\ t[i].frame \in {"run", "work", "cancel", "abort", "unwind"}
               /\ t[i].frame = "run" => i = Len(t) /\ previous'[t[i].of] = Null
               /\ t[i].frame = "work" => /\ i = Len(t) - 1
                                         /\ t[Len(t)] = [frame |-> "run", of |-> t[i].of]
               /\ t[i].frame \in {"cancel", "unwind"} => i = 1
               /\ t[i].frame \in {"run", "unwind"} => co'[t[i].of] = "running"
               /\ t[i].frame \in {"cancel", "abort"} => co'[t[i].of] = "waiting" /\ canceled'[t[i].of]
    <2>1. CASE i = 1
      BY <1>1, <2>1
    <2>2. CASE i # 1
      <3>1. PICK j \in 1..Len(u) : i = j + 1 /\ t[i] = u[j]
        BY <1>1, <2>2
      <3>2. t[Len(t)] = u[Len(u)]
        BY <1>1, <3>1
      <3>3. /\ t[i].frame \in {"run", "work", "abort"}
            /\ t[i].frame = "run" => j = Len(u) /\ previous'[t[i].of] = Null
            /\ t[i].frame = "work" => /\ j = Len(u) - 1
                                      /\ u[Len(u)] = [frame |-> "run", of |-> t[i].of]
            /\ t[i].frame \in {"run", "unwind"} => co'[t[i].of] = "running"
            /\ t[i].frame \in {"cancel", "abort"} => co'[t[i].of] = "waiting" /\ canceled'[t[i].of]
        BY <3>1 DEF FShape
      <3>. QED  BY <1>1, <3>1, <3>2, <3>3
    <2>. QED  BY <2>1, <2>2
  <1>3. ASSUME NEW i \in 1..Len(t), NEW j \in 1..Len(t), t[i].of = t[j].of,
               t[i].frame # "work", t[j].frame # "work"
        PROVE  i = j
    <2>1. CASE i # 1 /\ j # 1
      <3>1. i - 1 \in 1..Len(u) /\ j - 1 \in 1..Len(u) /\ t[i] = u[i - 1] /\ t[j] = u[j - 1]
        BY <1>1, <2>1
      <3>2. i - 1 = j - 1
        BY <1>3, <3>1 DEF FOnce
      <3>. QED  BY <3>2
    <2>2. CASE i = 1 \/ j = 1
      BY <1>1, <1>3, <2>2
    <2>. QED  BY <2>1, <2>2
  <1>. QED  BY <1>2, <1>3 DEF FShape, FOnce

\* A stack keeps its shape when its coroutines stay as they are.
LEMMA FStays ==
  ASSUME NEW u, FShape(u),
         \A i \in 1..Len(u) : u[i].frame # "work" =>
           /\ co'[u[i].of] = co[u[i].of] /\ previous'[u[i].of] = previous[u[i].of]
           /\ canceled[u[i].of] => canceled'[u[i].of]
  PROVE  FShape(u)'
  BY DEF FShape

\* A canceler that told what its coroutine awaits is yet to run it one last time.
LEMMA FTold ==
  ASSUME NEW c \in Coroutines, NEW u \in Seq(Frames), NEW t, NEW v,
         t = <<[frame |-> "cancel", of |-> c]>> \o u,
         v = <<[frame |-> "abort", of |-> c]>> \o u, FStack(t)
  PROVE  v \in Seq(Frames) /\ FStack(v)
  <1>1. PICK x \in Frames : x = [frame |-> "cancel", of |-> c]
    BY DEF Frames
  <1>2. PICK y \in Frames : y = [frame |-> "abort", of |-> c]
    BY DEF Frames
  <1>3. /\ t \in Seq(Frames) /\ Len(t) = Len(u) + 1 /\ t[1] = x /\ Len(u) \in Nat
        /\ \A i \in 1..Len(t) : i = 1 \/ (i - 1 \in 1..Len(u) /\ t[i] = u[i - 1])
        /\ \A f, d : OnStack(t, f, d) <=> (x.frame = f /\ x.of = d) \/ OnStack(u, f, d)
        /\ Base(t) = Base(u)
    <2>1. t = <<x>> \o u /\ x.frame \notin {"run", "work"}
      BY <1>1
    <2>2. Base(t) = Base(u)
      BY <2>1, SameBase
    <2>3. \A f, d : OnStack(t, f, d) <=> (x.frame = f /\ x.of = d) \/ OnStack(u, f, d)
      BY <2>1, Stacked
    <2>4. /\ t \in Seq(Frames) /\ Len(t) = Len(u) + 1 /\ t[1] = x /\ Len(u) \in Nat
          /\ \A i \in 1..Len(t) : i = 1 \/ (i - 1 \in 1..Len(u) /\ t[i] = u[i - 1])
      BY <2>1, Stacked
    <2>. QED  BY <2>2, <2>3, <2>4
  <1>4. /\ v \in Seq(Frames) /\ Len(v) = Len(u) + 1 /\ v[1] = y
        /\ \A i \in 1..Len(v) : i = 1 \/ (i - 1 \in 1..Len(u) /\ v[i] = u[i - 1])
        /\ \A f, d : OnStack(v, f, d) <=> (y.frame = f /\ y.of = d) \/ OnStack(u, f, d)
        /\ Base(v) = Base(u)
    <2>1. v = <<y>> \o u /\ y.frame \notin {"run", "work"}
      BY <1>2
    <2>2. Base(v) = Base(u)
      BY <2>1, SameBase
    <2>3. \A f, d : OnStack(v, f, d) <=> (y.frame = f /\ y.of = d) \/ OnStack(u, f, d)
      BY <2>1, Stacked
    <2>4. /\ v \in Seq(Frames) /\ Len(v) = Len(u) + 1 /\ v[1] = y /\ Len(u) \in Nat
          /\ \A i \in 1..Len(v) : i = 1 \/ (i - 1 \in 1..Len(u) /\ v[i] = u[i - 1])
      BY <2>1, Stacked
    <2>. QED  BY <2>2, <2>3, <2>4
  <1>5. /\ x.frame = "cancel" /\ x.of = c /\ y.frame = "abort" /\ y.of = c
        /\ Len(v) = Len(t) /\ Len(t) > 0 /\ Base(v) = Base(t)
        /\ \A i \in 1..Len(t) : i = 1 \/ v[i] = t[i]
    BY <1>1, <1>2, <1>3, <1>4
  <1>6. /\ FShape(t) /\ FOnce(t) /\ FRun(t) /\ FPtr(t) /\ 1 \in 1..Len(t)
        /\ co[c] = "waiting" /\ canceled[c]
    <2>1. FShape(t) /\ FOnce(t) /\ FRun(t) /\ FPtr(t)
      BY DEF FStack
    <2>2. 1 \in 1..Len(t)
      BY <1>3
    <2>3. t[1].frame = "cancel" /\ t[1].of = c
      BY <1>3, <1>5
    <2>4. t[1].frame = "cancel" => co[t[1].of] = "waiting" /\ canceled[t[1].of]
      BY <2>1, <2>2 DEF FShape
    <2>. QED  BY <2>1, <2>2, <2>3, <2>4
  <1>7. FShape(v)
    <2>1. ASSUME NEW i \in 1..Len(v)
          PROVE  /\ v[i].frame \in {"run", "work", "cancel", "abort", "unwind"}
                 /\ v[i].frame = "run" => i = Len(v) /\ previous[v[i].of] = Null
                 /\ v[i].frame = "work" => /\ i = Len(v) - 1
                                           /\ v[Len(v)] = [frame |-> "run", of |-> v[i].of]
                 /\ v[i].frame \in {"cancel", "unwind"} => i = 1
                 /\ v[i].frame \in {"run", "unwind"} => co[v[i].of] = "running"
                 /\ v[i].frame \in {"cancel", "abort"} => co[v[i].of] = "waiting" /\ canceled[v[i].of]
      <3>1. CASE i = 1
        BY <1>4, <1>5, <1>6, <3>1
      <3>2. CASE i # 1
        <4>1. i \in 1..Len(t) /\ v[i] = t[i] /\ v[Len(v)] = t[Len(t)]
          BY <1>3, <1>5, <3>2
        <4>. QED  BY <1>5, <1>6, <3>2, <4>1 DEF FShape
      <3>. QED  BY <3>1, <3>2
    <2>. QED  BY <2>1 DEF FShape
  <1>8. FOnce(v)
    <2>1. \A i \in 1..Len(v) : v[i].of = t[i].of /\ (v[i].frame = "work" <=> t[i].frame = "work")
      BY <1>3, <1>4, <1>5
    <2>. QED  BY <1>5, <1>6, <2>1 DEF FOnce
  <1>9. FRun(v)
    <2>1. ASSUME NEW d \in Coroutines, co[d] = "running"
          PROVE  OnStack(v, "run", d) \/ OnStack(v, "unwind", d)
      <3>1. OnStack(t, "run", d) \/ OnStack(t, "unwind", d)
        BY <1>6, <2>1 DEF FRun
      <3>. QED  BY <1>3, <1>4, <1>5, <3>1
    <2>2. ASSUME NEW d \in Coroutines, co[d] = "waiting", canceled[d]
          PROVE  OnStack(v, "cancel", d) \/ OnStack(v, "abort", d)
      <3>1. OnStack(t, "cancel", d) \/ OnStack(t, "abort", d)
        BY <1>6, <2>2 DEF FRun
      <3>. QED  BY <1>3, <1>4, <1>5, <3>1
    <2>. QED  BY <2>1, <2>2 DEF FRun
  <1>10. FPtr(v)
    BY <1>3, <1>4, <1>5, <1>6 DEF FPtr
  <1>. QED  BY <1>4, <1>7, <1>8, <1>9, <1>10 DEF FStack

\* request_cancel(), whatever called it: not a canceler that has not told yet.
LEMMA FRequest ==
  ASSUME Common, FSlot, NEW s \in Seq(Frames), FStack(s),
         Len(s) = 0 \/ s[1].frame \notin {"cancel", "unwind"},
         NEW d \in Coroutines, co[d] # "none", Stackful!RequestCancel(d, s),
         Shrinks, UNCHANGED <<no, on, ptr, previous>>, gone' \in SUBSET Awaits
  PROVE  Common' /\ FSlot' /\ FStack(stack)'
  <1>1. canceled \in [Coroutines -> BOOLEAN] /\ canceled' = [canceled EXCEPT ![d] = TRUE]
    BY Types DEF Common, Stackful!RequestCancel
  <1>2. /\ canceled' \in [Coroutines -> BOOLEAN] /\ canceled'[d]
        /\ \A c \in Coroutines : c # d => canceled'[c] = canceled[c]
    BY <1>1
  <1>3. PICK x \in Frames : x = [frame |-> "cancel", of |-> d]
    BY DEF Frames
  <1>4. /\ previous' \in [Coroutines -> Coroutines \cup {Null}] /\ ptr' \in Coroutines \cup {Null}
        /\ FShape(s) /\ FOnce(s) /\ FRun(s) /\ FPtr(s)
    BY Types DEF Common, FStack
  <1>5. \A i \in 1..Len(s) : s[i] \in Frames /\ s[i].of \in Coroutines /\ s # <<>>
    <2>1. ASSUME NEW i \in 1..Len(s)
          PROVE  s[i] \in Frames /\ s # <<>>
      BY <2>1, NotEmpty
    <2>2. \A f \in Frames : f.of \in Coroutines
      BY DEF Frames
    <2>. QED  BY <2>1, <2>2
  <1>6. CASE ~canceled[d] /\ slot[d] = "start"
    <2>1. stack' = s /\ Stackful!Complete(d, "canceled")
      BY <1>6 DEF Stackful!RequestCancel
    <2>2. PICK q : Ends(d, "canceled", q)
      BY <2>1, StackfulEnds DEF Common
    <2>3. co[d] = "queued"
      BY <1>6 DEF Common, LifeInv
    <2>4. /\ Common' /\ co'[d] = "dead" /\ slot'[d] = "none"
          /\ \A c \in Coroutines : c # d => co'[c] = co[c] /\ slot'[c] = slot[c]
      BY <1>2, <1>4, <2>1, <2>2, <2>3, EndsOnce
    <2>5. FSlot'
      BY <2>4 DEF FSlot
    <2>6. FShape(s)'
      <3>1. \A i \in 1..Len(s) : s[i].frame # "work" => s[i].of # d
        BY <2>3 DEF FStack, FShape
      <3>2. FShape(s)
        BY DEF FStack
      <3>. QED  BY <1>2, <1>5, <2>4, <3>1, <3>2, FStays
    <2>7. FOnce(s) /\ FRun(s)' /\ FPtr(s)'
      BY <1>2, <2>4 DEF FStack, FRun, FPtr
    <2>. QED  BY <2>1, <2>4, <2>5, <2>6, <2>7 DEF FStack, FOnce
  <1>7. CASE canceled[d] \/ slot[d] # "start"
    <2>1. UNCHANGED <<co, slot, result, queue>> /\ NeverTouchedDead'
      <3>1. UNCHANGED <<co, slot, result, queue, failed>>
        BY <1>7 DEF Stackful!RequestCancel
      <3>2. NeverTouchedDead
        BY Zenon DEF Common, CoTypeOK
      <3>. QED  BY <3>1, <3>2 DEF NeverTouchedDead
    <2>2. CASE ~canceled[d] /\ slot[d] = "await"
      <3>1. PICK t : t = <<x>> \o s /\ stack' = t /\ t \in Seq(Frames)
        <4>1. stack' = <<x>> \o s
          BY <1>3, <2>2 DEF Stackful!RequestCancel, Stackful!Frame
        <4>2. PICK t : t = <<x>> \o s
          OBVIOUS
        <4>3. t \in Seq(Frames)
          BY <1>3, <4>2, Stacked
        <4>. QED  BY <4>1, <4>2, <4>3
      <3>2. co[d] = "waiting"
        BY <2>2 DEF FSlot
      <3>3. FShape(s)'
        BY <1>2, <1>5, <2>1, FStays DEF FStack
      <3>4. \A i \in 1..Len(s) : /\ s[i].frame \notin {"cancel", "unwind"}
                                 /\ s[i].frame # "work" => s[i].of # d
        <4>1. SUFFICES ASSUME NEW i \in 1..Len(s)
                       PROVE  /\ s[i].frame \notin {"cancel", "unwind"}
                              /\ s[i].frame # "work" => s[i].of # d
          OBVIOUS
        <4>2. Len(s) # 0
          OBVIOUS
        <4>3. s[i].frame \notin {"cancel", "unwind"}
          BY <1>4, <4>2 DEF FShape
        <4>4. s[i].frame # "work" => s[i].of # d
          BY <1>4, <2>2, <3>2, <4>3 DEF FShape
        <4>. QED  BY <4>3, <4>4
      <3>5. FShape(t)' /\ FOnce(t)
        <4>1. x.frame = "cancel" /\ x.of = d /\ FOnce(s)
          BY <1>3 DEF FStack
        <4>. QED  BY <1>2, <1>3, <2>1, <3>1, <3>2, <3>3, <3>4, <4>1, FPush
      <3>6. /\ \A f, c : OnStack(t, f, c) <=> (f = "cancel" /\ c = d) \/ OnStack(s, f, c)
            /\ Len(t) > 0 /\ t[1].frame = "cancel" /\ Base(t) = Base(s)
        <4>1. x.frame = "cancel" /\ x.of = d /\ t = <<x>> \o s
          BY <1>3, <3>1
        <4>2. \A f, c : OnStack(t, f, c) <=> (x.frame = f /\ x.of = c) \/ OnStack(s, f, c)
          BY <4>1, Stacked
        <4>3. Len(t) = Len(s) + 1 /\ Len(s) \in Nat /\ t[1] = x
          BY <4>1, Stacked
        <4>4. Base(t) = Base(s)
          BY <4>1, SameBase
        <4>. QED  BY <4>1, <4>2, <4>3, <4>4
      <3>7. FRun(t)'
        <4>1. ASSUME NEW c \in Coroutines, co[c] = "running"
              PROVE  OnStack(t, "run", c) \/ OnStack(t, "unwind", c)
          BY <3>6, <4>1 DEF FStack, FRun
        <4>2. ASSUME NEW c \in Coroutines, co[c] = "waiting", canceled'[c]
              PROVE  OnStack(t, "cancel", c) \/ OnStack(t, "abort", c)
          BY <1>2, <3>6, <4>2 DEF FStack, FRun
        <4>. QED  BY <2>1, <4>1, <4>2 DEF FRun
      <3>8. FPtr(t)'
        <4>1. Len(s) = 0 \/ s[1].frame # "unwind"
          OBVIOUS
        <4>2. ptr = Base(s)
          BY <1>4, <4>1 DEF FPtr
        <4>3. ptr' = Base(t)
          BY <3>6, <4>2
        <4>. QED  BY <3>6, <4>3 DEF FPtr
      <3>9. Common' /\ FSlot'
        <4>1. CoTypeOK'
          BY <1>2, <1>4, <2>1, <3>1 DEF Common, CoTypeOK, Shrinks
        <4>2. AwaitInv'
          <5>1. Keeps /\ Buries
            BY <2>1 DEF Keeps, Buries
          <5>. QED  BY <2>1, <5>1, IdleAwaits DEF Common
        <4>3. LifeInv'
          BY <1>2, <2>1, <3>2 DEF Common, LifeInv
        <4>. QED  BY <2>1, <4>1, <4>2, <4>3 DEF Common, FSlot
      <3>. QED  BY <3>1, <3>5, <3>7, <3>8, <3>9 DEF FStack, FOnce
    <2>3. CASE canceled[d] \/ slot[d] # "await"
      <3>1. stack' = s
        BY <2>3 DEF Stackful!RequestCancel
      <3>2. ~canceled[d] => co[d] \notin {"waiting", "none", "queued"}
        BY <1>7, <2>3 DEF FSlot, Common, LifeInv
      <3>3. FShape(s)'
        BY <1>2, <1>5, <2>1, FStays DEF FStack
      <3>4. FRun(s)' /\ FPtr(s)' /\ FOnce(s)
        BY <1>2, <2>1, <3>2 DEF FStack, FRun, FPtr
      <3>5. Common' /\ FSlot'
        <4>1. CoTypeOK'
          BY <1>2, <1>4, <2>1, <3>1 DEF Common, CoTypeOK, Shrinks
        <4>2. AwaitInv'
          <5>1. Keeps /\ Buries
            BY <2>1 DEF Keeps, Buries
          <5>. QED  BY <2>1, <5>1, IdleAwaits DEF Common
        <4>3. LifeInv'
          BY <1>2, <2>1, <3>2 DEF Common, LifeInv
        <4>. QED  BY <2>1, <4>1, <4>2, <4>3 DEF Common, FSlot
      <3>. QED  BY <3>1, <3>3, <3>4, <3>5 DEF FStack, FOnce
    <2>. QED  BY <2>2, <2>3
  <1>. QED  BY <1>6, <1>7

--------------------------------------------------------------------------------
(* The stackful coroutines *)

FSafe == Common /\ FSlot /\ FStack(stack)

\* A coroutine that need not be on the stack.
Quiet(d) == co[d] # "running" /\ ~(co[d] = "waiting" /\ canceled[d])

\* The stacks without cancelers: empty, ...
LEMMA FNone ==
  /\ FStack(<<>>) <=> ptr = Null /\ \A d \in Coroutines : Quiet(d)
  /\ FStack(<<>>)' <=> ptr' = Null /\ \A d \in Coroutines : Quiet(d)'
  <1>1. Len(<<>>) = 0 /\ Base(<<>>) = Null /\ \A f, d : ~OnStack(<<>>, f, d)
    BY DEF Base, OnStack
  <1>2. FShape(<<>>) /\ FOnce(<<>>) /\ FShape(<<>>)'
    BY <1>1 DEF FShape, FOnce
  <1>3. FPtr(<<>>) <=> ptr = Null
    BY <1>1 DEF FPtr
  <1>4. FPtr(<<>>)' <=> ptr' = Null
    BY <1>1 DEF FPtr
  <1>5. FRun(<<>>) <=> \A d \in Coroutines : Quiet(d)
    BY <1>1 DEF FRun, Quiet
  <1>6. FRun(<<>>)' <=> \A d \in Coroutines : Quiet(d)'
    BY <1>1 DEF FRun, Quiet
  <1>. QED  BY <1>2, <1>3, <1>4, <1>5, <1>6 DEF FStack, FOnce

\* ... with code, ...
LEMMA FCode ==
  ASSUME NEW c \in Coroutines, NEW t \in Seq(Frames),
         Len(t) = 1, t[1] = [frame |-> "run", of |-> c]
  PROVE  /\ FStack(t) <=> /\ co[c] = "running" /\ previous[c] = Null /\ ptr = c
                          /\ \A d \in Coroutines \ {c} : Quiet(d)
         /\ FStack(t)' <=> /\ co'[c] = "running" /\ previous'[c] = Null /\ ptr' = c
                           /\ \A d \in Coroutines \ {c} : Quiet(d)'
  <1>1. PICK x \in Frames : x = [frame |-> "run", of |-> c]
    BY DEF Frames
  <1>2. t \in Seq(Frames) /\ Len(t) = 1 /\ t[1] = x /\ x.frame = "run" /\ x.of = c
    BY <1>1
  <1>3. Base(t) = c
    BY <1>2 DEF Base
  <1>4. \A f, d : OnStack(t, f, d) <=> f = "run" /\ d = c
    BY <1>1, <1>2 DEF OnStack
  <1>5. FOnce(t)
    BY <1>2 DEF FOnce
  <1>6. FShape(t) <=> co[c] = "running" /\ previous[c] = Null
    BY <1>2 DEF FShape
  <1>7. FShape(t)' <=> co'[c] = "running" /\ previous'[c] = Null
    BY <1>2 DEF FShape
  <1>8. FPtr(t) <=> ptr = c
    BY <1>2, <1>3 DEF FPtr
  <1>9. FPtr(t)' <=> ptr' = c
    BY <1>2, <1>3 DEF FPtr
  <1>10. ASSUME co[c] = "running"
         PROVE  FRun(t) <=> \A d \in Coroutines \ {c} : Quiet(d)
    BY <1>4, <1>10 DEF FRun, Quiet
  <1>11. ASSUME co'[c] = "running"
         PROVE  FRun(t)' <=> \A d \in Coroutines \ {c} : Quiet(d)'
    BY <1>4, <1>11 DEF FRun, Quiet
  <1>. QED  BY <1>2, <1>5, <1>6, <1>7, <1>8, <1>9, <1>10, <1>11 DEF FStack, FOnce

\* ... and with its work.
LEMMA FWork ==
  ASSUME NEW c \in Coroutines, NEW t \in Seq(Frames), Len(t) = 2,
         t[1] = [frame |-> "work", of |-> c], t[2] = [frame |-> "run", of |-> c]
  PROVE  /\ FStack(t) <=> /\ co[c] = "running" /\ previous[c] = Null /\ ptr = Null
                          /\ \A d \in Coroutines \ {c} : Quiet(d)
         /\ FStack(t)' <=> /\ co'[c] = "running" /\ previous'[c] = Null /\ ptr' = Null
                           /\ \A d \in Coroutines \ {c} : Quiet(d)'
  <1>1. PICK x \in Frames : x = [frame |-> "run", of |-> c]
    BY DEF Frames
  <1>a. PICK y \in Frames : y = [frame |-> "work", of |-> c]
    BY DEF Frames
  <1>2. /\ t \in Seq(Frames) /\ Len(t) = 2 /\ t[1] = y /\ t[2] = x
        /\ x.frame = "run" /\ x.of = c /\ y.frame = "work" /\ y.of = c
    BY <1>1, <1>a
  <1>3. Base(t) = Null
    BY <1>2 DEF Base
  <1>4. \A f, d : OnStack(t, f, d) <=> f \in {"run", "work"} /\ d = c
    BY <1>1, <1>a, <1>2 DEF OnStack
  <1>5. FOnce(t)
    BY <1>2 DEF FOnce
  <1>6. FShape(t) <=> co[c] = "running" /\ previous[c] = Null
    BY <1>1, <1>2 DEF FShape
  <1>7. FShape(t)' <=> co'[c] = "running" /\ previous'[c] = Null
    BY <1>1, <1>2 DEF FShape
  <1>8. FPtr(t) <=> ptr = Null
    BY <1>2, <1>3 DEF FPtr
  <1>9. FPtr(t)' <=> ptr' = Null
    BY <1>2, <1>3 DEF FPtr
  <1>10. ASSUME co[c] = "running"
         PROVE  FRun(t) <=> \A d \in Coroutines \ {c} : Quiet(d)
    BY <1>4, <1>10 DEF FRun, Quiet
  <1>11. ASSUME co'[c] = "running"
         PROVE  FRun(t)' <=> \A d \in Coroutines \ {c} : Quiet(d)'
    BY <1>4, <1>11 DEF FRun, Quiet
  <1>. QED  BY <1>2, <1>5, <1>6, <1>7, <1>8, <1>9, <1>10, <1>11 DEF FStack, FOnce

\* The code of c runs: it is all there is, or its work is on top of it.
LEMMA FRunning ==
  ASSUME FSafe, NEW c \in Coroutines, Stackful!Top("run", c)
  PROVE  /\ Len(stack) = 1 /\ stack[1] = [frame |-> "run", of |-> c] /\ Tail(stack) = <<>>
         /\ co[c] = "running" /\ previous[c] = Null /\ ptr = c
         /\ \A d \in Coroutines \ {c} : Quiet(d)
  <1>1. stack \in Seq(Frames) /\ stack # <<>> /\ Head(stack) = [frame |-> "run", of |-> c]
    BY Types DEF FSafe, Common, Stackful!Top, Stackful!Frame
  <1>2. PICK x \in Frames, u \in Seq(Frames) :
          x = [frame |-> "run", of |-> c] /\ u = Tail(stack) /\ stack = <<x>> \o u
    BY <1>1, Unstacked
  <1>3. FStack(stack) /\ x.frame = "run" /\ x.of = c
    BY <1>2 DEF FSafe
  <1>4. u = <<>> /\ Len(u) = 0
    <2>1. u = <<>>
      BY <1>2, <1>3, FTop
    <2>. QED  BY <2>1
  <1>5. Len(stack) = 1 /\ stack[1] = x
    BY <1>2, <1>4, Stacked
  <1>. QED  BY <1>1, <1>2, <1>3, <1>4, <1>5, FCode

LEMMA FWorking ==
  ASSUME FSafe, NEW c \in Coroutines, Stackful!Top("work", c)
  PROVE  /\ Len(stack) = 2 /\ stack[1] = [frame |-> "work", of |-> c]
         /\ Tail(stack) \in Seq(Frames) /\ Len(Tail(stack)) = 1
         /\ Tail(stack)[1] = [frame |-> "run", of |-> c]
         /\ co[c] = "running" /\ previous[c] = Null /\ ptr = Null
         /\ \A d \in Coroutines \ {c} : Quiet(d)
  <1>1. stack \in Seq(Frames) /\ stack # <<>> /\ Head(stack) = [frame |-> "work", of |-> c]
    BY Types DEF FSafe, Common, Stackful!Top, Stackful!Frame
  <1>2. PICK x \in Frames, u \in Seq(Frames) :
          x = [frame |-> "work", of |-> c] /\ u = Tail(stack) /\ stack = <<x>> \o u
    BY <1>1, Unstacked
  <1>3. FStack(stack) /\ x.frame = "work" /\ x.of = c
    BY <1>2 DEF FSafe
  <1>4. u = <<[frame |-> "run", of |-> c]>>
    BY <1>2, <1>3, FTop
  <1>5. Len(u) = 1 /\ u[1] = [frame |-> "run", of |-> c]
    BY <1>4
  <1>6. Len(stack) = 2 /\ stack[1] = x /\ stack[2] = u[1]
    <2>1. /\ Len(stack) = Len(u) + 1 /\ stack[1] = x
          /\ \A i \in 1..Len(u) : stack[i + 1] = u[i]
      BY <1>2, Stacked
    <2>2. 1 \in 1..Len(u) /\ 1 + 1 = 2
      BY <1>5
    <2>. QED  BY <1>5, <2>1, <2>2
  <1>. QED  BY <1>1, <1>2, <1>3, <1>5, <1>6, FWork

\* The code of c is over.
LEMMA FEnd ==
  ASSUME FSafe, NEW c \in Coroutines, Stackful!Top("run", c), UNCHANGED giving,
         NEW r \in {"value", "error", "canceled"}, Stackful!End(c, r)
  PROVE  FSafe'
  <1>1. /\ stack' = <<>> /\ ptr' = Null /\ co[c] = "running"
        /\ \A d \in Coroutines \ {c} : Quiet(d)
    BY FRunning DEF Stackful!End, Stackful!Leave
  <1>2. Stackful!Complete(c, r) /\ UNCHANGED <<no, on, canceled, promises, senders, firing, gone>>
    BY DEF Stackful!End, Stackful!awaitVars
  <1>3. PICK q : Ends(c, r, q)
    BY <1>2, StackfulEnds DEF FSafe, Common
  <1>4. /\ canceled' \in [Coroutines -> BOOLEAN] /\ gone' \in SUBSET Awaits
        /\ previous' \in [Coroutines -> Coroutines \cup {Null}]
        /\ stack' \in Seq(Frames) /\ ptr' \in Coroutines \cup {Null}
    <2>1. canceled \in [Coroutines -> BOOLEAN] /\ gone \in SUBSET Awaits
      BY DEF FSafe, Common, CoTypeOK
    <2>2. previous \in [Coroutines -> Coroutines \cup {Null}] /\ previous' = [previous EXCEPT ![c] = Null]
      BY Types DEF FSafe, Common, Stackful!End, Stackful!Leave
    <2>. QED  BY <1>1, <1>2, <2>1, <2>2
  <1>5. Shrinks
    BY <1>2 DEF Shrinks
  <1>6. /\ Common' /\ co'[c] = "dead" /\ slot'[c] = "none"
        /\ \A d \in Coroutines : d # c => co'[d] = co[d] /\ slot'[d] = slot[d]
    BY <1>1, <1>2, <1>3, <1>4, <1>5, EndsOnce DEF FSafe
  <1>7. FSlot'
    BY <1>6 DEF FSafe, FSlot
  <1>8. \A d \in Coroutines : Quiet(d)'
    BY <1>1, <1>2, <1>6 DEF Quiet
  <1>. QED  BY <1>1, <1>6, <1>7, <1>8, FNone DEF FSafe

\* It awaits w.
LEMMA FSuspend ==
  ASSUME FSafe, NEW c \in Coroutines, Stackful!Top("run", c), ~canceled[c],
         NEW w \in Coroutines \cup {"promise", "sender", "ready"}, w \in Coroutines => co[w] # "none",
         Stackful!Suspend(c, w), UNCHANGED <<result, canceled, firing, gone, giving>>
  PROVE  FSafe'
  <1>1. /\ stack' = <<>> /\ ptr' = Null /\ co[c] = "running"
        /\ \A d \in Coroutines \ {c} : Quiet(d)
    BY FRunning DEF Stackful!Suspend, Stackful!Leave
  <1>2. /\ co' = [co EXCEPT ![c] = "waiting"] /\ no' = [no EXCEPT ![c] = @ + 1]
        /\ on' = [on EXCEPT ![c] = w] /\ slot' = [slot EXCEPT ![c] = "await"]
        /\ previous' = [previous EXCEPT ![c] = Null]
        /\ promises' = IF w = "promise" THEN promises \cup {<<c, no[c] + 1>>} ELSE promises
        /\ senders' = IF w = "sender" THEN senders \cup {<<c, no[c] + 1>>} ELSE senders
        /\ queue' = IF w = "ready"
                    THEN Append(queue, [task |-> "resume", of |-> c, no |-> no[c] + 1]) ELSE queue
    BY DEF Stackful!Suspend, Stackful!Leave
  <1>3. AwaitInv'
    BY <1>1, <1>2, SuspendAwaits DEF FSafe, Common
  <1>4. /\ co' \in [Coroutines -> States] /\ no' \in [Coroutines -> Nat]
        /\ on' \in [Coroutines -> Coroutines \cup {"promise", "sender", "ready"}]
        /\ slot' \in [Coroutines -> {"none", "start", "await", "run"}]
        /\ previous' \in [Coroutines -> Coroutines \cup {Null}]
    BY <1>2, Types DEF FSafe, Common, States
  <1>5. co'[c] = "waiting" /\ on'[c] = w /\ slot'[c] = "await" /\ no[c] + 1 \in Nat
    BY <1>2, Types DEF FSafe, Common, States
  <1>6. \A d \in Coroutines : d # c => co'[d] = co[d] /\ on'[d] = on[d] /\ slot'[d] = slot[d]
    BY <1>2, Types DEF FSafe, Common
  <1>7. promises' \in SUBSET Awaits /\ senders' \in SUBSET Awaits
    <2>1. promises \in SUBSET Awaits /\ senders \in SUBSET Awaits
      BY DEF FSafe, Common, CoTypeOK
    <2>2. <<c, no[c] + 1>> \in Awaits
      BY <1>5, Pairs
    <2>. QED  BY <1>2, <2>1, <2>2
  <1>8. queue' \in Seq(Tasks)
    <2>1. queue \in Seq(Tasks)
      BY Types DEF FSafe, Common
    <2>2. [task |-> "resume", of |-> c, no |-> no[c] + 1] \in Tasks
      BY <1>5 DEF Tasks
    <2>3. Append(queue, [task |-> "resume", of |-> c, no |-> no[c] + 1]) \in Seq(Tasks)
      BY <2>1, <2>2, AppendFacts
    <2>. QED  BY <1>2, <2>1, <2>3
  <1>9. CoTypeOK'
    <2>1. NeverTouchedDead'
      BY NothingFails DEF FSafe, Common, Stackful!Suspend
    <2>2. stack' \in Seq(Frames)
      BY <1>1
    <2>. QED  BY <1>1, <1>4, <1>7, <1>8, <2>1, <2>2 DEF FSafe, Common, CoTypeOK
  <1>10. LifeInv'
    BY <1>1, <1>5, <1>6 DEF FSafe, Common, LifeInv
  <1>11. FSlot'
    BY <1>5, <1>6 DEF FSafe, FSlot
  <1>12. \A d \in Coroutines : Quiet(d)'
    BY <1>1, <1>5, <1>6 DEF Quiet
  <1>. QED  BY <1>1, <1>3, <1>9, <1>10, <1>11, <1>12, FNone DEF FSafe, Common

\* The thread that has nothing to do enters c.
LEMMA FEnter ==
  ASSUME FSafe, NEW c \in Coroutines, stack = <<>>, queue # <<>>, queue' = Tail(queue),
         Stackful!Enter(c, "run", stack), AwaitInv',
         UNCHANGED <<no, on, result, canceled, promises, senders, firing, gone, giving, failed>>,
         co[c] \in {"queued", "waiting"}
  PROVE  FSafe'
  <1>1. ptr = Null /\ \A d \in Coroutines : Quiet(d)
    BY FNone DEF FSafe
  <1>2. /\ co' = [co EXCEPT ![c] = "running"] /\ slot' = [slot EXCEPT ![c] = "none"]
        /\ stack' = <<[frame |-> "run", of |-> c]>> \o <<>> /\ ptr' = c
        /\ previous' = [previous EXCEPT ![c] = Null]
    BY <1>1 DEF Stackful!Enter, Stackful!Frame
  <1>3. stack' \in Seq(Frames) /\ Len(stack') = 1 /\ stack'[1] = [frame |-> "run", of |-> c]
    <2>1. PICK x \in Frames : x = [frame |-> "run", of |-> c]
      BY DEF Frames
    <2>2. <<>> \in Seq(Frames) /\ Len(<<>>) = 0 /\ stack' = <<x>> \o <<>>
      BY <1>2, <2>1
    <2>. QED  BY <2>1, <2>2, Stacked
  <1>4. /\ co' \in [Coroutines -> States] /\ slot' \in [Coroutines -> {"none", "start", "await", "run"}]
        /\ previous' \in [Coroutines -> Coroutines \cup {Null}]
        /\ co'[c] = "running" /\ slot'[c] = "none" /\ previous'[c] = Null
    BY <1>2, Types DEF FSafe, Common, States
  <1>5. \A d \in Coroutines : d # c => co'[d] = co[d] /\ slot'[d] = slot[d]
    BY <1>2, Types DEF FSafe, Common
  <1>6. CoTypeOK'
    <2>1. NeverTouchedDead'
      BY NothingFails DEF FSafe, Common
    <2>2. queue' \in Seq(Tasks)
      BY Types, PopFacts DEF FSafe, Common
    <2>. QED  BY <1>2, <1>3, <1>4, <2>1, <2>2 DEF FSafe, Common, CoTypeOK
  <1>7. LifeInv'
    BY <1>4, <1>5 DEF FSafe, Common, LifeInv
  <1>8. FSlot'
    BY <1>4, <1>5 DEF FSafe, FSlot
  <1>9. \A d \in Coroutines \ {c} : Quiet(d)'
    BY <1>1, <1>5 DEF Quiet
  <1>10. FStack(stack)'
    BY <1>2, <1>3, <1>4, <1>9, FCode
  <1>. QED  BY <1>6, <1>7, <1>8, <1>10 DEF FSafe, Common

\* The steps of a stackful coroutine, one by one.
LEMMA FStart ==
  ASSUME FSafe, NEW c \in Coroutines, Stackful!Start(c), UNCHANGED giving
  PROVE  FSafe'
  <1>1. /\ stack = <<>> /\ queue # <<>> /\ Head(queue).task = "start" /\ queue' = Tail(queue)
        /\ UNCHANGED <<no, on, result, canceled, promises, senders, firing, gone, giving, failed>>
    BY DEF Stackful!Start, Stackful!awaitVars
  <1>2. queue \in Seq(Tasks) /\ queue' \in Seq(Tasks) /\ Len(queue') = Len(queue) - 1
        /\ Len(queue) \in Nat /\ \A i \in 1..Len(queue') : queue'[i] = queue[i + 1]
    BY <1>1, Types, PopFacts DEF FSafe, Common
  <1>3. \A i \in 1..Len(queue') : i + 1 \in 1..Len(queue) /\ queue'[i] = queue[i + 1]
    BY <1>2
  <1>4. Shrinks
    BY <1>1 DEF Shrinks
  <1>5. CASE co[c] = "queued"
    <2>1. Stackful!Enter(c, "run", stack)
      BY <1>5 DEF Stackful!Start
    <2>2. co' = [co EXCEPT ![c] = "running"]
      BY <2>1 DEF Stackful!Enter
    <2>3. Keeps /\ Buries
      BY <1>5, <2>2, Types DEF FSafe, Common, Keeps, Buries
    <2>4. AwaitInv'
      BY <1>1, <1>2, <1>3, <1>4, <2>3, KeepAwaits DEF FSafe, Common
    <2>. QED  BY <1>1, <1>5, <2>1, <2>4, FEnter
  <1>6. CASE co[c] # "queued"
    <2>1. UNCHANGED <<co, slot, stack, ptr, previous>>
      BY <1>6 DEF Stackful!Start
    <2>2. Keeps /\ Buries
      BY <2>1 DEF Keeps, Buries
    <2>3. AwaitInv'
      BY <1>1, <1>2, <1>3, <1>4, <2>2, KeepAwaits DEF FSafe, Common
    <2>4. CoTypeOK'
      <3>1. NeverTouchedDead'
        BY <1>1, NothingFails DEF FSafe, Common
      <3>. QED  BY <1>1, <1>2, <2>1, <3>1 DEF FSafe, Common, CoTypeOK
    <2>5. LifeInv' /\ FSlot'
      BY <1>1, <2>1 DEF FSafe, Common, LifeInv, FSlot
    <2>6. FStack(stack)'
      BY <1>1, <2>1, FNone DEF FSafe, Quiet
    <2>. QED  BY <2>3, <2>4, <2>5, <2>6 DEF FSafe, Common
  <1>. QED  BY <1>5, <1>6

LEMMA FResume ==
  ASSUME FSafe, NEW c \in Coroutines, Stackful!Resume(c), UNCHANGED giving
  PROVE  FSafe'
  <1>1. /\ stack = <<>> /\ queue # <<>> /\ Head(queue).task = "resume" /\ Head(queue).of = c
        /\ queue' = Tail(queue)
        /\ UNCHANGED <<no, on, result, canceled, promises, senders, firing, gone, giving>>
    BY DEF Stackful!Resume, Stackful!awaitVars
  <1>2. queue \in Seq(Tasks) /\ queue' \in Seq(Tasks) /\ Len(queue') = Len(queue) - 1
        /\ Len(queue) \in Nat /\ \A i \in 1..Len(queue') : queue'[i] = queue[i + 1]
        /\ Len(queue) > 0 /\ Head(queue) = queue[1]
    BY <1>1, Types, PopFacts DEF FSafe, Common
  <1>3. \A i \in 1..Len(queue') : i + 1 \in 1..Len(queue) /\ queue'[i] = queue[i + 1]
    BY <1>2
  <1>4. CASE <<c, Head(queue).no>> \in gone
    <2>1. UNCHANGED <<co, slot, stack, ptr, previous, failed>>
      BY <1>4 DEF Stackful!Resume
    <2>2. Keeps /\ Buries /\ Shrinks
      BY <1>1, <2>1 DEF Keeps, Buries, Shrinks
    <2>3. AwaitInv'
      BY <1>1, <1>2, <1>3, <2>2, KeepAwaits DEF FSafe, Common
    <2>4. CoTypeOK'
      <3>1. NeverTouchedDead'
        BY <2>1, NothingFails DEF FSafe, Common
      <3>. QED  BY <1>1, <1>2, <2>1, <3>1 DEF FSafe, Common, CoTypeOK
    <2>5. LifeInv' /\ FSlot'
      BY <1>1, <2>1 DEF FSafe, Common, LifeInv, FSlot
    <2>6. FStack(stack)'
      BY <1>1, <2>1, FNone DEF FSafe, Quiet
    <2>. QED  BY <2>3, <2>4, <2>5, <2>6 DEF FSafe, Common
  <1>5. CASE <<c, Head(queue).no>> \notin gone
    <2>1. Resuming(Head(queue)) /\ Awaited(Head(queue)) = <<c, Head(queue).no>>
      BY <1>1, <1>5 DEF Resuming, Awaited
    <2>2. Current(Awaited(Head(queue)))
      BY <1>2, <2>1 DEF FSafe, Common, AwaitInv
    <2>3. co[c] = "waiting" /\ no[c] = Head(queue).no
      BY <2>1, <2>2 DEF Current
    <2>4. Stackful!Enter(c, "run", stack) /\ UNCHANGED failed
      BY <1>5, <2>3 DEF Stackful!Resume
    <2>5. co' = [co EXCEPT ![Head(queue).of] = "running"]
      BY <1>1, <2>4 DEF Stackful!Enter
    <2>6. AwaitInv'
      BY <1>1, <2>1, <2>5, ResumeAwaits DEF FSafe, Common
    <2>. QED  BY <1>1, <2>3, <2>4, <2>6, FEnter
  <1>. QED  BY <1>4, <1>5


LEMMA FSame ==
  ASSUME FSafe, UNCHANGED <<co, slot, canceled, stack, ptr, previous>>
  PROVE  FSlot' /\ FStack(stack)'
  BY DEF FSafe, FSlot, FStack, FShape, FOnce, FRun, FPtr

LEMMA FSpawn ==
  ASSUME FSafe, NEW c \in Coroutines, NEW d \in Coroutines, Stackful!Spawn(c, d), UNCHANGED giving
  PROVE  FSafe'
  <1>1. /\ Stackful!Top("run", c)
        /\ co[d] = "none" /\ co' = [co EXCEPT ![d] = "queued"] /\ slot' = [slot EXCEPT ![d] = "start"]
        /\ queue' = Append(queue, [task |-> "start", of |-> d, no |-> no[d]])
        /\ UNCHANGED <<no, on, result, canceled, stack, ptr, previous,
                       promises, senders, firing, giving, gone, failed>>
    BY DEF Stackful!Spawn, Stackful!Task, Stackful!awaitVars
  <1>2. PICK t \in Tasks : t = [task |-> "start", of |-> d, no |-> no[d]]
    BY Types DEF FSafe, Common, Tasks
  <1>3. /\ Common' /\ co'[d] = "queued" /\ slot'[d] = "start"
        /\ \A e \in Coroutines : e # d => co'[e] = co[e] /\ slot'[e] = slot[e]
    BY <1>1, <1>2, Spawned DEF FSafe
  <1>4. FSlot'
    BY <1>1, <1>3 DEF FSafe, FSlot
  <1>5. /\ Len(stack) = 1 /\ stack[1] = [frame |-> "run", of |-> c]
        /\ co[c] = "running" /\ previous[c] = Null /\ ptr = c
        /\ \A e \in Coroutines \ {c} : Quiet(e)
    BY <1>1, FRunning
  <1>6. co'[c] = "running" /\ \A e \in Coroutines \ {c} : Quiet(e)'
    BY <1>1, <1>3, <1>5 DEF Quiet
  <1>7. FStack(stack)'
    <2>1. stack' \in Seq(Frames)
      BY <1>3 DEF Common, CoTypeOK
    <2>. QED  BY <1>1, <1>5, <1>6, <2>1, FCode
  <1>. QED  BY <1>3, <1>4, <1>7 DEF FSafe

LEMMA FAwaitPending ==
  ASSUME FSafe, NEW c \in Coroutines, NEW w \in Coroutines \cup {"promise", "sender"},
         Stackful!AwaitPending(c, w), UNCHANGED giving
  PROVE  FSafe'
  <1>1. /\ Stackful!Top("run", c) /\ UNCHANGED <<result, canceled, firing, gone, giving>>
        /\ w \in Coroutines => co[w] # "none"
    BY DEF Stackful!AwaitPending
  <1>2. CASE canceled[c]
    <2>1. UNCHANGED <<co, no, on, slot, stack, ptr, previous, queue, promises, senders>>
      BY <1>2 DEF Stackful!AwaitPending, Stackful!threadVars
    <2>2. NeverTouchedDead'
      BY <1>2 DEF Stackful!AwaitPending, NeverTouchedDead
    <2>3. Common'
      <3>1. Shrinks
        BY <1>1, <2>1 DEF Shrinks
      <3>. QED  BY <1>1, <2>1, <2>2, <3>1, Moved, Types DEF FSafe, Common
    <2>. QED  BY <1>1, <2>1, <2>3, FSame DEF FSafe
  <1>3. CASE ~canceled[c]
    <2>1. Stackful!Suspend(c, w)
      BY <1>3 DEF Stackful!AwaitPending
    <2>. QED  BY <1>1, <1>3, <2>1, FSuspend
  <1>. QED  BY <1>2, <1>3

LEMMA FAwaitReady ==
  ASSUME FSafe, NEW c \in Coroutines, Stackful!AwaitReady(c), UNCHANGED giving
  PROVE  FSafe'
  <1>1. CASE canceled[c]
    BY <1>1, FEnd DEF Stackful!AwaitReady
  <1>2. CASE ~canceled[c]
    <2>1. UNCHANGED <<co, no, on, result, slot, canceled, stack, ptr, previous, queue,
                      promises, senders, firing, gone, giving, failed>>
      BY <1>2 DEF Stackful!AwaitReady, Stackful!tokenVars, Stackful!threadVars, Stackful!awaitVars
    <2>2. Common'
      <3>1. Shrinks /\ NeverTouchedDead'
        BY <2>1, NothingFails DEF Shrinks, FSafe, Common
      <3>. QED  BY <2>1, <3>1, Moved, Types DEF FSafe, Common
    <2>. QED  BY <2>1, <2>2, FSame DEF FSafe
  <1>. QED  BY <1>1, <1>2

LEMMA FYield ==
  ASSUME FSafe, NEW c \in Coroutines, Stackful!Yield(c), UNCHANGED giving
  PROVE  FSafe'
  <1>1. CASE canceled[c]
    BY <1>1, FEnd DEF Stackful!Yield
  <1>2. CASE ~canceled[c]
    <2>1. /\ Stackful!Top("run", c) /\ Stackful!Suspend(c, "ready")
          /\ UNCHANGED <<result, canceled, firing, gone, giving>>
      BY <1>2 DEF Stackful!Yield
    <2>2. "ready" \notin Coroutines
      BY CoroutineAssumption
    <2>. QED  BY <1>2, <2>1, <2>2, FSuspend
  <1>. QED  BY <1>1, <1>2

LEMMA FFinish ==
  ASSUME FSafe, NEW c \in Coroutines, Stackful!Finish(c), UNCHANGED giving
  PROVE  FSafe'
  BY FEnd DEF Stackful!Finish

LEMMA FDispatch ==
  ASSUME FSafe, NEW c \in Coroutines, Stackful!Dispatch(c), UNCHANGED giving
  PROVE  FSafe'
  <1>1. /\ Stackful!Top("run", c) /\ ptr' = Null
        /\ stack' = <<[frame |-> "work", of |-> c]>> \o stack
        /\ UNCHANGED <<co, no, on, result, slot, canceled, previous, queue,
                       promises, senders, firing, gone, giving, failed>>
    BY DEF Stackful!Dispatch, Stackful!Frame, Stackful!tokenVars, Stackful!awaitVars
  <1>2. /\ Len(stack) = 1 /\ stack[1] = [frame |-> "run", of |-> c]
        /\ co[c] = "running" /\ previous[c] = Null
        /\ \A d \in Coroutines \ {c} : Quiet(d)
    BY <1>1, FRunning
  <1>3. /\ stack' \in Seq(Frames) /\ Len(stack') = 2 /\ stack'[1] = [frame |-> "work", of |-> c]
        /\ stack'[2] = [frame |-> "run", of |-> c]
    <2>1. PICK x \in Frames : x = [frame |-> "work", of |-> c]
      BY DEF Frames
    <2>2. stack \in Seq(Frames) /\ stack' = <<x>> \o stack
      BY <1>1, <2>1, Types DEF FSafe, Common
    <2>3. /\ stack' \in Seq(Frames) /\ Len(stack') = Len(stack) + 1 /\ stack'[1] = x
          /\ \A i \in 1..Len(stack) : stack'[i + 1] = stack[i]
      BY <2>2, Stacked
    <2>4. 1 \in 1..Len(stack) /\ 1 + 1 = 2
      BY <1>2
    <2>. QED  BY <1>2, <2>1, <2>3, <2>4
  <1>4. Common'
    <2>1. Shrinks /\ NeverTouchedDead'
      BY <1>1, NothingFails DEF Shrinks, FSafe, Common
    <2>. QED  BY <1>1, <1>3, <2>1, Moved, Types DEF FSafe, Common
  <1>5. FStack(stack)'
    <2>1. \A d \in Coroutines \ {c} : Quiet(d)'
      BY <1>1, <1>2 DEF Quiet
    <2>. QED  BY <1>1, <1>2, <1>3, <2>1, FWork
  <1>6. FSlot'
    BY <1>1 DEF FSafe, FSlot
  <1>. QED  BY <1>4, <1>5, <1>6 DEF FSafe

LEMMA FWorkEnds ==
  ASSUME FSafe, NEW c \in Coroutines, Stackful!WorkEnds(c), UNCHANGED giving
  PROVE  FSafe'
  <1>1. /\ Stackful!Top("work", c) /\ ptr' = c /\ stack' = Tail(stack)
        /\ UNCHANGED <<co, no, on, result, slot, canceled, previous, queue,
                       promises, senders, firing, gone, giving, failed>>
    BY DEF Stackful!WorkEnds, Stackful!coVars, Stackful!tokenVars, Stackful!awaitVars
  <1>2. /\ stack' \in Seq(Frames) /\ Len(stack') = 1 /\ stack'[1] = [frame |-> "run", of |-> c]
        /\ co[c] = "running" /\ previous[c] = Null
        /\ \A d \in Coroutines \ {c} : Quiet(d)
    BY <1>1, FWorking
  <1>3. Common'
    <2>1. Shrinks /\ NeverTouchedDead'
      BY <1>1, NothingFails DEF Shrinks, FSafe, Common
    <2>. QED  BY <1>1, <1>2, <2>1, Moved, Types DEF FSafe, Common
  <1>4. FStack(stack)'
    <2>1. \A d \in Coroutines \ {c} : Quiet(d)'
      BY <1>1, <1>2 DEF Quiet
    <2>. QED  BY <1>1, <1>2, <2>1, FCode
  <1>5. FSlot'
    BY <1>1 DEF FSafe, FSlot
  <1>. QED  BY <1>3, <1>4, <1>5 DEF FSafe

LEMMA FCancel ==
  ASSUME FSafe, NEW c \in Coroutines, NEW d \in Coroutines, Stackful!Cancel(c, d), UNCHANGED giving
  PROVE  FSafe'
  <1>1. /\ Stackful!Top("run", c) \/ Stackful!Top("work", c)
        /\ co[d] # "none" /\ Stackful!RequestCancel(d, stack)
        /\ UNCHANGED <<no, on, ptr, previous, promises, senders, firing, gone, giving>>
    BY DEF Stackful!Cancel, Stackful!awaitVars
  <1>2. Len(stack) = 0 \/ stack[1].frame \notin {"cancel", "unwind"}
    <2>1. ASSUME Stackful!Top("run", c)
          PROVE  stack[1].frame = "run"
      <3>1. stack[1] = [frame |-> "run", of |-> c]
        BY <2>1, FRunning
      <3>. QED  BY <3>1
    <2>2. ASSUME Stackful!Top("work", c)
          PROVE  stack[1].frame = "work"
      <3>1. stack[1] = [frame |-> "work", of |-> c]
        BY <2>2, FWorking
      <3>. QED  BY <3>1
    <2>. QED  BY <1>1, <2>1, <2>2
  <1>3. Shrinks /\ gone' \in SUBSET Awaits
    BY <1>1 DEF Shrinks, FSafe, Common, CoTypeOK
  <1>. QED  BY <1>1, <1>2, <1>3, FRequest, Types DEF FSafe, Common

LEMMA FCancelByTask ==
  ASSUME FSafe, NEW d \in Coroutines, Stackful!CancelByTask(d), UNCHANGED giving
  PROVE  FSafe'
  <1>1. /\ stack = <<>> /\ co[d] # "none" /\ Stackful!RequestCancel(d, stack)
        /\ UNCHANGED <<no, on, ptr, previous, promises, senders, firing, gone, giving>>
    BY DEF Stackful!CancelByTask, Stackful!awaitVars
  <1>2. Len(stack) = 0 \/ stack[1].frame \notin {"cancel", "unwind"}
    BY <1>1
  <1>3. Shrinks /\ gone' \in SUBSET Awaits
    BY <1>1 DEF Shrinks, FSafe, Common, CoTypeOK
  <1>. QED  BY <1>1, <1>2, <1>3, FRequest, Types DEF FSafe, Common

LEMMA FTell ==
  ASSUME FSafe, NEW c \in Coroutines, Stackful!Tell(c), UNCHANGED giving
  PROVE  FSafe'
  <1>1. /\ Head(stack) = [frame |-> "cancel", of |-> c] /\ stack # <<>> /\ stack \in Seq(Frames)
        /\ UNCHANGED <<no, on, ptr, previous, promises, firing, gone, giving>>
    BY Types DEF Stackful!Tell, Stackful!Top, Stackful!Frame, FSafe, Common
  <1>2. PICK x \in Frames, u \in Seq(Frames) :
          x = [frame |-> "cancel", of |-> c] /\ u = Tail(stack) /\ stack = <<x>> \o u
    BY <1>1, Unstacked
  <1>3. PICK y \in Frames : y = [frame |-> "abort", of |-> c]
    BY DEF Frames
  <1>4. PICK v : v = <<y>> \o u
    OBVIOUS
  <1>5. v \in Seq(Frames) /\ FStack(v)
    BY <1>2, <1>3, <1>4, FTold DEF FSafe
  <1>6. v = <<Stackful!Frame("abort", c)>> \o Tail(stack)
    BY <1>2, <1>3, <1>4 DEF Stackful!Frame
  <1>7. v[1].frame = "abort" /\ gone' \in SUBSET Awaits
    BY <1>1, <1>3, <1>4, Stacked DEF FSafe, Common, CoTypeOK
  <1>8. CASE on[c] \in Coroutines
    <2>1. Stackful!RequestCancel(on[c], v) /\ UNCHANGED senders
      BY <1>6, <1>8 DEF Stackful!Tell
    <2>2. co[on[c]] # "none" /\ Shrinks
      BY <1>1, <1>8, <2>1 DEF FSafe, Common, LifeInv, Shrinks
    <2>. QED  BY <1>1, <1>5, <1>7, <1>8, <2>1, <2>2, FRequest DEF FSafe
  <1>9. CASE on[c] \notin Coroutines
    <2>1. /\ stack' = v /\ senders' = senders \ {<<c, no[c]>>}
          /\ queue' = IF <<c, no[c]>> \in senders
                      THEN Append(queue, [task |-> "resume", of |-> c, no |-> no[c]]) ELSE queue
          /\ UNCHANGED <<co, result, slot, canceled, failed>>
      BY <1>6, <1>9 DEF Stackful!Tell, Stackful!Await, Stackful!Task, Stackful!tokenVars
    <2>2. PICK a \in Awaits : a = <<c, no[c]>> /\ a[1] = c /\ a[2] = no[c]
      BY Pairs, Types DEF FSafe, Common
    <2>3. Shrinks /\ NeverTouchedDead'
      BY <1>1, <2>1, NothingFails DEF Shrinks, FSafe, Common
    <2>4. /\ stack' \in Seq(Frames) /\ ptr' \in Coroutines \cup {Null}
          /\ previous' \in [Coroutines -> Coroutines \cup {Null}]
      BY <1>1, <1>5, <2>1, Types DEF FSafe, Common
    <2>5. Common'
      <3>1. CASE a \in senders
        <4>1. a \in gone \/ a \notin promises' \cup senders' \cup firing' \cup giving'
          BY <1>1, <2>1, <2>2, <3>1, Sole DEF FSafe, Common
        <4>. QED  BY <1>1, <2>1, <2>2, <2>3, <2>4, <3>1, <4>1, Posted DEF FSafe
      <3>2. CASE a \notin senders
        BY <1>1, <2>1, <2>2, <2>3, <2>4, <3>2, Moved DEF FSafe
      <3>. QED  BY <3>1, <3>2
    <2>6. FSlot' /\ FStack(stack)'
      <3>1. FStack(v)'
        BY <1>1, <1>5, <2>1 DEF FStack, FShape, FOnce, FRun, FPtr
      <3>. QED  BY <1>1, <2>1, <3>1 DEF FSafe, FSlot
    <2>. QED  BY <2>5, <2>6 DEF FSafe
  <1>. QED  BY <1>8, <1>9

LEMMA FAbort ==
  ASSUME FSafe, NEW c \in Coroutines, Stackful!Abort(c), UNCHANGED giving
  PROVE  FSafe'
  <1>1. /\ Head(stack) = [frame |-> "abort", of |-> c] /\ stack # <<>> /\ stack \in Seq(Frames)
        /\ gone' = gone \cup {<<c, no[c]>>} /\ Stackful!Enter(c, "unwind", Tail(stack))
        /\ UNCHANGED <<no, on, result, canceled, queue, promises, senders, firing, giving, failed>>
    BY Types DEF Stackful!Abort, Stackful!Top, Stackful!Frame, Stackful!Await, FSafe, Common
  <1>2. PICK x \in Frames, u \in Seq(Frames) :
          /\ x = Head(stack) /\ u = Tail(stack) /\ stack = <<x>> \o u
          /\ x.frame = "abort" /\ x.of = c
    <2>1. PICK x \in Frames, u \in Seq(Frames) : x = Head(stack) /\ u = Tail(stack) /\ stack = <<x>> \o u
      BY <1>1, Unstacked
    <2>2. x.frame = "abort" /\ x.of = c
      BY <1>1, <2>1
    <2>. QED  BY <2>1, <2>2
  <1>3. PICK y \in Frames : y = [frame |-> "unwind", of |-> c] /\ y.frame = "unwind" /\ y.of = c
    <2>1. PICK y \in Frames : y = [frame |-> "unwind", of |-> c]
      BY DEF Frames
    <2>2. y.frame = "unwind" /\ y.of = c
      BY <2>1
    <2>. QED  BY <2>1, <2>2
  <1>4. PICK v : v = <<y>> \o u
    OBVIOUS
  <1>5. /\ co' = [co EXCEPT ![c] = "running"] /\ slot' = [slot EXCEPT ![c] = "none"]
        /\ stack' = v /\ ptr' = c /\ previous' = [previous EXCEPT ![c] = ptr]
    BY <1>1, <1>2, <1>3, <1>4 DEF Stackful!Enter, Stackful!Frame
  <1>6. /\ co[c] = "waiting" /\ FShape(u) /\ FOnce(u)
        /\ \A i \in 1..Len(u) : /\ u[i].frame \notin {"cancel", "unwind"}
                                /\ u[i].frame # "work" => u[i].of # c
    <2>1. /\ x.frame \in {"cancel", "abort"} => co[x.of] = "waiting"
          /\ FShape(u) /\ FOnce(u)
          /\ \A i \in 1..Len(u) : /\ u[i].frame \notin {"cancel", "unwind"}
                                  /\ x.frame # "work" /\ u[i].frame # "work" => u[i].of # x.of
      BY <1>2, FTop DEF FSafe
    <2>. QED  BY <1>2, <2>1
  <1>7. /\ \A f, d : OnStack(stack, f, d) <=> (x.frame = f /\ x.of = d) \/ OnStack(u, f, d)
        /\ Len(stack) > 0 /\ stack[1] = x
    <2>a. stack = <<x>> \o u
      BY <1>2
    <2>1. \A f, d : OnStack(stack, f, d) <=> (x.frame = f /\ x.of = d) \/ OnStack(u, f, d)
      BY <2>a, Stacked
    <2>2. Len(stack) > 0 /\ stack[1] = x
      BY <2>a, Stacked
    <2>. QED  BY <2>1, <2>2
  <1>8. /\ \A f, d : OnStack(v, f, d) <=> (y.frame = f /\ y.of = d) \/ OnStack(u, f, d)
        /\ Len(v) > 0 /\ v[1] = y /\ v \in Seq(Frames)
    <2>1. \A f, d : OnStack(v, f, d) <=> (y.frame = f /\ y.of = d) \/ OnStack(u, f, d)
      BY <1>4, Stacked
    <2>2. Len(v) > 0 /\ v[1] = y /\ v \in Seq(Frames)
      BY <1>4, Stacked
    <2>. QED  BY <2>1, <2>2
  <1>9. Base(stack) = Base(u) /\ Base(v) = Base(u)
    BY <1>2, <1>3, <1>4, SameBase
  <1>10. /\ co' \in [Coroutines -> States] /\ slot' \in [Coroutines -> {"none", "start", "await", "run"}]
         /\ previous' \in [Coroutines -> Coroutines \cup {Null}]
         /\ co'[c] = "running" /\ slot'[c] = "none" /\ previous'[c] = ptr
    BY <1>5, Types DEF FSafe, Common, States
  <1>11. \A d \in Coroutines : d # c =>
           co'[d] = co[d] /\ slot'[d] = slot[d] /\ previous'[d] = previous[d]
    BY <1>5, Types DEF FSafe, Common
  <1>12. CoTypeOK'
    <2>1. NeverTouchedDead'
      BY <1>1, NothingFails DEF FSafe, Common
    <2>2. gone' \in SUBSET Awaits
      BY <1>1, Types, Pairs DEF FSafe, Common, CoTypeOK
    <2>. QED  BY <1>1, <1>5, <1>8, <1>10, <2>1, <2>2 DEF FSafe, Common, CoTypeOK
  <1>13. AwaitInv'
    <2>1. Keeps /\ Buries /\ Shrinks
      BY <1>1, <1>6, <1>11 DEF Keeps, Buries, Shrinks
    <2>. QED  BY <1>1, <2>1, IdleAwaits DEF FSafe, Common
  <1>14. LifeInv'
    BY <1>1, <1>6, <1>10, <1>11 DEF FSafe, Common, LifeInv
  <1>15. FSlot'
    BY <1>10, <1>11 DEF FSafe, FSlot
  <1>16. FShape(v)' /\ FOnce(v)
    <2>1. ASSUME NEW i \in 1..Len(u), u[i].frame # "work"
          PROVE  /\ co'[u[i].of] = co[u[i].of] /\ previous'[u[i].of] = previous[u[i].of]
                 /\ canceled[u[i].of] => canceled'[u[i].of]
      <3>1. u[i] \in Frames /\ u[i].of # c
        BY <1>6, <2>1, NotEmpty
      <3>2. u[i].of \in Coroutines
        BY <3>1 DEF Frames
      <3>. QED  BY <1>1, <1>11, <3>1, <3>2
    <2>2. FShape(u)'
      BY <1>6, <2>1, FStays
    <2>. QED  BY <1>3, <1>4, <1>6, <1>10, <2>2, FPush
  <1>17. FRun(v)'
    <2>1. FRun(stack)
      BY DEF FSafe, FStack
    <2>2. ASSUME NEW d \in Coroutines, co'[d] = "running"
          PROVE  OnStack(v, "run", d) \/ OnStack(v, "unwind", d)
      <3>1. CASE d = c
        BY <1>3, <1>8, <3>1
      <3>2. CASE d # c
        <4>1. OnStack(stack, "run", d) \/ OnStack(stack, "unwind", d)
          BY <1>11, <2>1, <2>2, <3>2 DEF FRun
        <4>. QED  BY <1>2, <1>7, <1>8, <3>2, <4>1
      <3>. QED  BY <3>1, <3>2
    <2>3. ASSUME NEW d \in Coroutines, co'[d] = "waiting", canceled'[d]
          PROVE  OnStack(v, "cancel", d) \/ OnStack(v, "abort", d)
      <3>1. d # c
        BY <1>10, <2>3
      <3>2. OnStack(stack, "cancel", d) \/ OnStack(stack, "abort", d)
        BY <1>1, <1>11, <2>1, <2>3, <3>1 DEF FRun
      <3>. QED  BY <1>2, <1>7, <1>8, <3>1, <3>2
    <2>. QED  BY <2>2, <2>3 DEF FRun
  <1>18. FPtr(v)'
    <2>1. ptr = Base(stack)
      BY <1>2, <1>7 DEF FSafe, FStack, FPtr
    <2>2. ptr' = v[1].of /\ previous'[ptr'] = Base(v)
      BY <1>3, <1>5, <1>8, <1>9, <1>10, <2>1
    <2>. QED  BY <1>3, <1>8, <2>2 DEF FPtr
  <1>. QED  BY <1>5, <1>12, <1>13, <1>14, <1>15, <1>16, <1>17, <1>18 DEF FSafe, Common, FStack, FOnce

LEMMA FUnwound ==
  ASSUME FSafe, NEW c \in Coroutines, Stackful!Unwound(c), UNCHANGED giving
  PROVE  FSafe'
  <1>1. /\ Head(stack) = [frame |-> "unwind", of |-> c] /\ stack # <<>> /\ stack \in Seq(Frames)
        /\ Stackful!Complete(c, "canceled") /\ Stackful!Leave(c)
        /\ UNCHANGED <<no, on, canceled, promises, senders, firing, gone, giving>>
    BY Types DEF Stackful!Unwound, Stackful!Top, Stackful!Frame, Stackful!awaitVars, FSafe, Common
  <1>2. PICK x \in Frames, u \in Seq(Frames) :
          /\ x = Head(stack) /\ u = Tail(stack) /\ stack = <<x>> \o u
          /\ x.frame = "unwind" /\ x.of = c
    <2>1. PICK x \in Frames, u \in Seq(Frames) : x = Head(stack) /\ u = Tail(stack) /\ stack = <<x>> \o u
      BY <1>1, Unstacked
    <2>2. x.frame = "unwind" /\ x.of = c
      BY <1>1, <2>1
    <2>. QED  BY <2>1, <2>2
  <1>3. stack' = u /\ ptr' = previous[c] /\ previous' = [previous EXCEPT ![c] = Null]
    BY <1>1, <1>2 DEF Stackful!Leave
  <1>4. /\ co[c] = "running" /\ FShape(u) /\ FOnce(u)
        /\ \A i \in 1..Len(u) : /\ u[i].frame \notin {"cancel", "unwind"}
                                /\ u[i].frame # "work" => u[i].of # c
    <2>1. /\ x.frame \in {"run", "unwind"} => co[x.of] = "running"
          /\ FShape(u) /\ FOnce(u)
          /\ \A i \in 1..Len(u) : /\ u[i].frame \notin {"cancel", "unwind"}
                                  /\ x.frame # "work" /\ u[i].frame # "work" => u[i].of # x.of
      BY <1>2, FTop DEF FSafe
    <2>. QED  BY <1>2, <2>1
  <1>5. /\ \A f, d : OnStack(stack, f, d) <=> (x.frame = f /\ x.of = d) \/ OnStack(u, f, d)
        /\ Len(stack) > 0 /\ stack[1] = x /\ Len(u) \in Nat
    <2>a. stack = <<x>> \o u
      BY <1>2
    <2>1. \A f, d : OnStack(stack, f, d) <=> (x.frame = f /\ x.of = d) \/ OnStack(u, f, d)
      BY <2>a, Stacked
    <2>2. Len(stack) > 0 /\ stack[1] = x /\ Len(u) \in Nat
      BY <2>a, Stacked
    <2>. QED  BY <2>1, <2>2
  <1>6. Base(stack) = Base(u)
    BY <1>2, SameBase
  <1>7. /\ previous' \in [Coroutines -> Coroutines \cup {Null}] /\ ptr' \in Coroutines \cup {Null}
        /\ \A d \in Coroutines : d # c => previous'[d] = previous[d]
    BY <1>3, Types DEF FSafe, Common
  <1>8. PICK q : Ends(c, "canceled", q)
    BY <1>1, StackfulEnds DEF FSafe, Common
  <1>9. /\ Common' /\ co'[c] = "dead" /\ slot'[c] = "none"
        /\ \A d \in Coroutines : d # c => co'[d] = co[d] /\ slot'[d] = slot[d]
    <2>1. Shrinks /\ canceled' \in [Coroutines -> BOOLEAN] /\ gone' \in SUBSET Awaits
      BY <1>1 DEF Shrinks, FSafe, Common, CoTypeOK
    <2>2. stack' \in Seq(Frames)
      BY <1>3
    <2>. QED  BY <1>1, <1>4, <1>7, <1>8, <2>1, <2>2, EndsOnce DEF FSafe
  <1>10. FSlot'
    BY <1>9 DEF FSafe, FSlot
  <1>11. FShape(u)'
    <2>1. ASSUME NEW i \in 1..Len(u), u[i].frame # "work"
          PROVE  /\ co'[u[i].of] = co[u[i].of] /\ previous'[u[i].of] = previous[u[i].of]
                 /\ canceled[u[i].of] => canceled'[u[i].of]
      <3>1. u[i] \in Frames /\ u[i].of # c
        BY <1>4, <2>1, NotEmpty
      <3>2. u[i].of \in Coroutines
        BY <3>1 DEF Frames
      <3>. QED  BY <1>1, <1>7, <1>9, <3>1, <3>2
    <2>. QED  BY <1>4, <2>1, FStays
  <1>12. FRun(u)'
    <2>1. FRun(stack)
      BY DEF FSafe, FStack
    <2>2. ASSUME NEW d \in Coroutines, co'[d] = "running"
          PROVE  OnStack(u, "run", d) \/ OnStack(u, "unwind", d)
      <3>1. d # c
        BY <1>9, <2>2
      <3>2. OnStack(stack, "run", d) \/ OnStack(stack, "unwind", d)
        BY <1>9, <2>1, <2>2, <3>1 DEF FRun
      <3>. QED  BY <1>2, <1>5, <3>1, <3>2
    <2>3. ASSUME NEW d \in Coroutines, co'[d] = "waiting", canceled'[d]
          PROVE  OnStack(u, "cancel", d) \/ OnStack(u, "abort", d)
      <3>1. d # c
        BY <1>9, <2>3
      <3>2. OnStack(stack, "cancel", d) \/ OnStack(stack, "abort", d)
        BY <1>1, <1>9, <2>1, <2>3, <3>1 DEF FRun
      <3>. QED  BY <1>2, <1>5, <3>1, <3>2
    <2>. QED  BY <2>2, <2>3 DEF FRun
  <1>13. FPtr(u)'
    <2>1. ptr = c /\ previous[c] = Base(stack)
      BY <1>2, <1>5 DEF FSafe, FStack, FPtr
    <2>2. ptr' = Base(u)
      BY <1>3, <1>6, <2>1
    <2>3. Len(u) > 0 => u[1].frame # "unwind"
      BY <1>4, <1>5
    <2>. QED  BY <2>2, <2>3 DEF FPtr
  <1>. QED  BY <1>3, <1>4, <1>9, <1>10, <1>11, <1>12, <1>13 DEF FSafe, FStack, FOnce


\* What the other threads do.
LEMMA FAnswers ==
  ASSUME FSafe, NEW a, UNCHANGED giving,
         \/ a \in promises /\ Stackful!Resolve(a)
         \/ a \in senders /\ Stackful!Fire(a)
         \/ a \in firing /\ Stackful!Answer(a)
  PROVE  FSafe'
  <1>1. /\ a \in Awaits
        /\ UNCHANGED <<co, no, on, result, slot, canceled, stack, ptr, previous, gone, giving>>
    BY DEF FSafe, Common, CoTypeOK, Stackful!Resolve, Stackful!Fire, Stackful!Answer,
           Stackful!coVars, Stackful!tokenVars, Stackful!threadVars
  <1>2. FSlot' /\ FStack(stack)'
    BY <1>1, FSame
  <1>3. /\ stack' \in Seq(Frames) /\ ptr' \in Coroutines \cup {Null}
        /\ previous' \in [Coroutines -> Coroutines \cup {Null}]
    BY <1>1, Types DEF FSafe, Common
  <1>4. CASE a \in promises /\ Stackful!Resolve(a)
    <2>1. /\ promises' = promises \ {a}
          /\ queue' = Append(queue, [task |-> "resume", of |-> a[1], no |-> a[2]])
          /\ UNCHANGED <<senders, firing, failed>>
      BY <1>4 DEF Stackful!Resolve
    <2>2. Shrinks /\ NeverTouchedDead'
      BY <1>1, <2>1, NothingFails DEF Shrinks, FSafe, Common
    <2>3. a \in gone \/ a \notin promises' \cup senders' \cup firing' \cup giving'
      BY <1>1, <1>4, <2>1, Sole DEF FSafe, Common
    <2>4. Common'
      BY <1>1, <1>3, <1>4, <2>1, <2>2, <2>3, Posted DEF FSafe
    <2>. QED  BY <1>2, <2>4 DEF FSafe
  <1>5. CASE a \in senders /\ Stackful!Fire(a)
    <2>1. /\ senders' = senders \ {a} /\ firing' = firing \cup {a}
          /\ UNCHANGED <<queue, promises, failed>>
      BY <1>5 DEF Stackful!Fire, Stackful!threadVars
    <2>2. NeverTouchedDead'
      BY <2>1, NothingFails DEF FSafe, Common
    <2>3. Common'
      BY <1>1, <1>3, <1>5, <2>1, <2>2, Moved DEF FSafe
    <2>. QED  BY <1>2, <2>3 DEF FSafe
  <1>6. CASE a \in firing /\ Stackful!Answer(a)
    <2>1. firing' = firing \ {a} /\ UNCHANGED <<promises, senders>>
      BY <1>6 DEF Stackful!Answer
    <2>2. Shrinks
      BY <1>1, <2>1 DEF Shrinks
    <2>3. Common'
      <3>1. CASE a \in gone
        <4>1. UNCHANGED queue /\ NeverTouchedDead'
          BY <1>6, <3>1 DEF Stackful!Answer, NeverTouchedDead
        <4>. QED  BY <1>1, <1>3, <2>1, <2>2, <4>1, Moved DEF FSafe
      <3>2. CASE a \notin gone
        <4>1. /\ queue' = Append(queue, [task |-> "resume", of |-> a[1], no |-> a[2]])
              /\ UNCHANGED failed
          BY <1>6, <3>2 DEF Stackful!Answer
        <4>2. NeverTouchedDead'
          BY <4>1, NothingFails DEF FSafe, Common
        <4>3. a \notin promises' \cup senders' \cup firing' \cup giving'
          BY <1>1, <1>6, <2>1, <3>2, Sole DEF FSafe, Common
        <4>. QED  BY <1>1, <1>3, <1>6, <2>1, <2>2, <4>1, <4>2, <4>3, Posted DEF FSafe
      <3>. QED  BY <3>1, <3>2
    <2>. QED  BY <1>2, <2>3 DEF FSafe
  <1>. QED  BY <1>4, <1>5, <1>6

\* Any of them.
LEMMA FStep ==
  ASSUME FSafe, UNCHANGED giving, Stackful!Thread \/ Stackful!Sender \/ Stackful!Others
  PROVE  FSafe'
  <1>1. CASE Stackful!Thread
    <2>1. PICK c \in Coroutines :
            \/ Stackful!Start(c) \/ Stackful!Resume(c) \/ Stackful!Tell(c) \/ Stackful!Abort(c)
            \/ Stackful!Unwound(c) \/ Stackful!Code(c)
      BY <1>1 DEF Stackful!Thread
    <2>2. CASE Stackful!Code(c)
      <3>1. CASE Stackful!Finish(c)
        BY <3>1, FFinish
      <3>2. CASE Stackful!AwaitReady(c)
        BY <3>2, FAwaitReady
      <3>3. CASE Stackful!Yield(c)
        BY <3>3, FYield
      <3>4. CASE Stackful!Dispatch(c)
        BY <3>4, FDispatch
      <3>5. CASE Stackful!WorkEnds(c)
        BY <3>5, FWorkEnds
      <3>6. ASSUME NEW d \in Coroutines, Stackful!Spawn(c, d)
            PROVE  FSafe'
        BY <3>6, FSpawn
      <3>7. ASSUME NEW d \in Coroutines, Stackful!Cancel(c, d)
            PROVE  FSafe'
        BY <3>7, FCancel
      <3>8. ASSUME NEW w \in Coroutines \cup {"promise", "sender"}, Stackful!AwaitPending(c, w)
            PROVE  FSafe'
        BY <3>8, FAwaitPending
      <3>. QED  BY <2>2, <3>1, <3>2, <3>3, <3>4, <3>5, <3>6, <3>7, <3>8 DEF Stackful!Code
    <2>. QED  BY <2>1, <2>2, FStart, FResume, FTell, FAbort, FUnwound
  <1>2. CASE Stackful!Sender
    BY <1>2, FAnswers DEF Stackful!Sender
  <1>3. CASE Stackful!Others
    <2>1. ASSUME NEW d \in Coroutines, Stackful!CancelByTask(d)
          PROVE  FSafe'
      BY <2>1, FCancelByTask
    <2>2. ASSUME NEW a \in promises, Stackful!Resolve(a)
          PROVE  FSafe'
      BY <2>2, FAnswers
    <2>3. ASSUME NEW a \in senders, Stackful!Fire(a)
          PROVE  FSafe'
      BY <2>3, FAnswers
    <2>. QED  BY <1>3, <2>1, <2>2, <2>3 DEF Stackful!Others
  <1>. QED  BY <1>1, <1>2, <1>3

--------------------------------------------------------------------------------
(* The stack of stackless coroutines *)

LSlot ==
  \A c \in Coroutines : slot[c] # "await" /\ (slot[c] = "run" => co[c] \in {"waiting", "running"})

\* Code that runs is at the bottom, or what submitted it is; what destroys is on top,
\* and only the top may be yet to destroy something.
LFrame(s, i) ==
  /\ s[i].frame \in {"run", "submit", "destroy", "done"}
  /\ s[i].frame = "run" => /\ co[s[i].of] = "running"
                           /\ \/ i = Len(s)
                              \/ i = Len(s) - 1 /\ s[Len(s)] = [frame |-> "submit", of |-> s[i].of]
  /\ s[i].frame = "submit" => /\ i = Len(s) /\ slot[s[i].of] = "none"
                              /\ co[s[i].of] \in {"running", "waiting", "dead"}
                              /\ i > 1 => s[i - 1] = [frame |-> "run", of |-> s[i].of]
  /\ s[i].frame = "destroy" => i = 1
  /\ s[i].frame \in {"destroy", "done"} =>
       co[s[i].of] = "waiting" /\ canceled[s[i].of] /\ slot[s[i].of] = "run"
LShape(s) == \A i \in 1..Len(s) : LFrame(s, i)

\* A coroutine is in one frame, the call that submits it aside.
LOnce(s) ==
  \A i, j \in 1..Len(s) :
    s[i].of = s[j].of /\ s[i].frame # "submit" /\ s[j].frame # "submit" => i = j

\* One that runs is on the stack, and so is one that waits although it is canceled; the
\* canceler is set, or submit() is yet to set it.
LRun(s) ==
  \A c \in Coroutines :
    /\ co[c] = "running" => OnStack(s, "run", c)
    /\ co[c] = "running" /\ canceled[c] => OnStack(s, "submit", c)
    /\ co[c] = "waiting" /\ canceled[c] =>
         OnStack(s, "destroy", c) \/ OnStack(s, "done", c) \/ OnStack(s, "submit", c)
    /\ co[c] \in {"waiting", "running"} => slot[c] = "run" \/ OnStack(s, "submit", c)

LStack(s) == LShape(s) /\ LOnce(s) /\ LRun(s)

\* What one awaited whose receiver is yet to be called is among those that are gone.
LDone(s, g) == \A i \in 1..Len(s) : s[i].frame = "done" => <<s[i].of, no[s[i].of]>> \in g

\* What is on top of a stack that is more than what follows it.
LEMMA LTop ==
  ASSUME NEW x \in Frames, NEW u \in Seq(Frames), NEW t, t = <<x>> \o u, LShape(t), LOnce(t)
  PROVE  /\ x.frame \in {"run", "submit", "destroy", "done"}
         /\ x.frame = "run" =>
              /\ co[x.of] = "running"
              /\ u = <<>> \/ (Len(u) = 1 /\ u[1] = [frame |-> "submit", of |-> x.of])
         /\ x.frame = "submit" => u = <<>>
         /\ x.frame \in {"destroy", "done"} =>
              co[x.of] = "waiting" /\ canceled[x.of] /\ slot[x.of] = "run"
         /\ \A i \in 1..Len(u) : /\ u[i].frame # "destroy"
                                 /\ x.frame # "submit" /\ u[i].frame # "submit" => u[i].of # x.of
         /\ x.frame # "run" => Len(u) = 0 \/ u[1].frame # "submit"
         /\ LShape(u) /\ LOnce(u)
  <1>1. /\ Len(t) = Len(u) + 1 /\ t[1] = x /\ Len(u) \in Nat
        /\ \A i \in 1..Len(u) : t[i + 1] = u[i]
    BY Stacked
  <1>2. 1 \in 1..Len(t)
    BY <1>1
  <1>3. /\ x.frame \in {"run", "submit", "destroy", "done"}
        /\ x.frame = "run" =>
             /\ co[x.of] = "running"
             /\ 1 = Len(t) \/ (1 = Len(t) - 1 /\ t[Len(t)] = [frame |-> "submit", of |-> x.of])
        /\ x.frame = "submit" => 1 = Len(t)
        /\ x.frame \in {"destroy", "done"} =>
             co[x.of] = "waiting" /\ canceled[x.of] /\ slot[x.of] = "run"
    <2>1. PICK i \in 1..Len(t) : i = 1 /\ t[i] = x
      BY <1>1, <1>2
    <2>2. LFrame(t, i)
      BY DEF LShape
    <2>3. /\ x.frame \in {"run", "submit", "destroy", "done"}
          /\ x.frame = "submit" => i = Len(t)
      BY <2>1, <2>2 DEF LFrame
    <2>4. x.frame = "run" => co[x.of] = "running"
      BY <2>1, <2>2 DEF LFrame
    <2>5. x.frame = "run" =>
            i = Len(t) \/ (i = Len(t) - 1 /\ t[Len(t)] = [frame |-> "submit", of |-> x.of])
      <3>1. t[i].frame = "run" =>
              i = Len(t) \/ (i = Len(t) - 1 /\ t[Len(t)] = [frame |-> "submit", of |-> t[i].of])
        BY <2>2 DEF LFrame
      <3>. QED  BY <2>1, <3>1
    <2>6. x.frame \in {"destroy", "done"} =>
            co[x.of] = "waiting" /\ canceled[x.of] /\ slot[x.of] = "run"
      BY <2>1, <2>2 DEF LFrame
    <2>. QED  BY <2>1, <2>3, <2>4, <2>5, <2>6
  <1>4. /\ x.frame = "run" => u = <<>> \/ (Len(u) = 1 /\ u[1] = [frame |-> "submit", of |-> x.of])
        /\ x.frame = "submit" => u = <<>>
    <2>1. Len(u) = 0 => u = <<>>
      OBVIOUS
    <2>2. Len(u) = 1 => t[Len(t)] = u[1]
      BY <1>1
    <2>. QED  BY <1>1, <1>3, <2>1, <2>2
  <1>5. ASSUME NEW i \in 1..Len(u)
        PROVE  /\ u[i].frame # "destroy"
               /\ x.frame # "submit" /\ u[i].frame # "submit" => u[i].of # x.of
    <2>1. i + 1 \in 1..Len(t) /\ t[i + 1] = u[i] /\ i + 1 # 1
      BY <1>1
    <2>2. u[i].frame # "destroy"
      BY <2>1 DEF LShape, LFrame
    <2>3. x.frame # "submit" /\ u[i].frame # "submit" => u[i].of # x.of
      BY <1>1, <1>2, <2>1 DEF LOnce
    <2>. QED  BY <2>2, <2>3
  <1>6. ASSUME Len(u) > 0, u[1].frame = "submit"
        PROVE  x.frame = "run"
    <2>1. PICK i \in 1..Len(t) : i = 2 /\ t[i] = u[1]
      <3>1. 1 \in 1..Len(u) /\ 1 + 1 = 2 /\ 2 \in 1..Len(t)
        BY <1>1, <1>6
      <3>. QED  BY <1>1, <3>1
    <2>2. LFrame(t, i)
      BY DEF LShape
    <2>3. t[i - 1] = [frame |-> "run", of |-> t[i].of]
      BY <1>6, <2>1, <2>2 DEF LFrame
    <2>4. i - 1 = 1
      BY <2>1
    <2>. QED  BY <1>1, <2>3, <2>4
  <1>7. LShape(u)
    <2>1. SUFFICES ASSUME NEW i \in 1..Len(u)
                   PROVE  LFrame(u, i)
      BY DEF LShape
    <2>2. /\ i + 1 \in 1..Len(t) /\ t[i + 1] = u[i] /\ t[Len(t)] = u[Len(u)] /\ i + 1 > 1
          /\ (i + 1 = Len(t) <=> i = Len(u)) /\ (i + 1 = Len(t) - 1 <=> i = Len(u) - 1)
      BY <1>1, <2>1
    <2>3. i > 1 => t[(i + 1) - 1] = u[i - 1]
      <3>1. SUFFICES ASSUME i > 1  PROVE t[(i + 1) - 1] = u[i - 1]
        OBVIOUS
      <3>2. i - 1 \in 1..Len(u) /\ (i - 1) + 1 = (i + 1) - 1
        BY <1>1, <3>1
      <3>. QED  BY <1>1, <3>2
    <2>4. PICK k : k = i + 1
      OBVIOUS
    <2>5. LFrame(t, k) /\ t[k] = u[i]
      BY <2>2, <2>4 DEF LShape
    <2>6. u[i].frame # "destroy"
      BY <1>5
    <2>. QED  BY <2>2, <2>3, <2>4, <2>5, <2>6 DEF LFrame
  <1>8. LOnce(u)
    <2>1. SUFFICES ASSUME NEW i \in 1..Len(u), NEW j \in 1..Len(u), u[i].of = u[j].of,
                          u[i].frame # "submit", u[j].frame # "submit"
                   PROVE  i = j
      BY DEF LOnce
    <2>2. i + 1 \in 1..Len(t) /\ j + 1 \in 1..Len(t) /\ t[i + 1] = u[i] /\ t[j + 1] = u[j]
      BY <1>1
    <2>3. i + 1 = j + 1
      BY <2>1, <2>2 DEF LOnce
    <2>. QED  BY <2>3
  <1>. QED  BY <1>1, <1>3, <1>4, <1>5, <1>6, <1>7, <1>8

\* A frame that destroys comes on top of a stack u, where its coroutine is not.
LEMMA LPush ==
  ASSUME NEW x \in Frames, NEW u \in Seq(Frames), NEW t, t = <<x>> \o u,
         LShape(u)', LOnce(u), Len(u) = 0 \/ u[1].frame # "submit",
         \A i \in 1..Len(u) : /\ u[i].frame # "destroy"
                              /\ u[i].frame # "submit" => u[i].of # x.of,
         x.frame \in {"destroy", "done"}, co'[x.of] = "waiting", canceled'[x.of],
         slot'[x.of] = "run"
  PROVE  LShape(t)' /\ LOnce(t)
  <1>1. /\ Len(t) = Len(u) + 1 /\ t[1] = x /\ Len(u) \in Nat
        /\ \A i \in 1..Len(t) : i = 1 \/ (i - 1 \in 1..Len(u) /\ t[i] = u[i - 1])
    BY Stacked
  <1>a. Len(u) \in Nat /\ Len(t) = Len(u) + 1
    BY <1>1
  <1>2. ASSUME NEW i \in 1..Len(t)
        PROVE  LFrame(t, i)'
    <2>1. CASE i = 1
      BY <1>1, <2>1 DEF LFrame
    <2>2. CASE i # 1
      <3>1. PICK j \in 1..Len(u) : i = j + 1 /\ t[i] = u[j]
        <4>1. i - 1 \in 1..Len(u) /\ i = (i - 1) + 1 /\ t[i] = u[i - 1]
          BY <1>1, <2>2
        <4>. QED  BY <4>1
      <3>2. t[Len(t)] = u[Len(u)]
        BY <1>1, <3>1
      <3>0. LFrame(u, j)' /\ u[j].frame # "destroy"
        BY DEF LShape
      <3>3. /\ t[i].frame \in {"run", "submit", "done"}
            /\ t[i].frame = "run" =>
                 /\ co'[t[i].of] = "running"
                 /\ \/ j = Len(u)
                    \/ j = Len(u) - 1 /\ u[Len(u)] = [frame |-> "submit", of |-> t[i].of]
            /\ t[i].frame = "submit" =>
                 /\ j = Len(u) /\ slot'[t[i].of] = "none"
                 /\ co'[t[i].of] \in {"running", "waiting", "dead"}
                 /\ j > 1 => u[j - 1] = [frame |-> "run", of |-> t[i].of]
            /\ t[i].frame = "done" =>
                 co'[t[i].of] = "waiting" /\ canceled'[t[i].of] /\ slot'[t[i].of] = "run"
        BY <3>0, <3>1 DEF LFrame
      <3>4. t[i].frame = "submit" => j > 1
        <4>1. j = 1 => t[i].frame # "submit"
          BY <3>1
        <4>2. j = 1 \/ j > 1
          BY <1>a
        <4>. QED  BY <4>1, <4>2
      <3>5. j > 1 => t[i - 1] = u[j - 1]
        <4>1. SUFFICES ASSUME j > 1  PROVE t[i - 1] = u[j - 1]
          OBVIOUS
        <4>2. i - 1 \in 1..Len(t) /\ i - 1 # 1 /\ (i - 1) - 1 = j - 1
          BY <1>1, <3>1, <4>1
        <4>. QED  BY <1>1, <4>2
      <3>6. i = Len(t) <=> j = Len(u)
        BY <1>a, <3>1
      <3>7. i = Len(t) - 1 <=> j = Len(u) - 1
        BY <1>a, <3>1
      <3>. QED  BY <3>2, <3>3, <3>4, <3>5, <3>6, <3>7 DEF LFrame
    <2>. QED  BY <2>1, <2>2
  <1>3. ASSUME NEW i \in 1..Len(t), NEW j \in 1..Len(t), t[i].of = t[j].of,
               t[i].frame # "submit", t[j].frame # "submit"
        PROVE  i = j
    <2>1. CASE i # 1 /\ j # 1
      <3>1. i - 1 \in 1..Len(u) /\ j - 1 \in 1..Len(u) /\ t[i] = u[i - 1] /\ t[j] = u[j - 1]
        BY <1>1, <2>1
      <3>2. i - 1 = j - 1
        BY <1>3, <3>1 DEF LOnce
      <3>. QED  BY <3>2
    <2>2. CASE i = 1 /\ j # 1
      <3>1. PICK k \in 1..Len(u) : t[j] = u[k]
        BY <1>1, <2>2
      <3>2. t[j].of # x.of
        BY <1>3, <3>1
      <3>. QED  BY <1>1, <1>3, <2>2, <3>2
    <2>3. CASE i # 1 /\ j = 1
      <3>1. PICK k \in 1..Len(u) : t[i] = u[k]
        BY <1>1, <2>3
      <3>2. t[i].of # x.of
        BY <1>3, <3>1
      <3>. QED  BY <1>1, <1>3, <2>3, <3>2
    <2>. QED  BY <2>1, <2>2, <2>3
  <1>. QED  BY <1>2, <1>3 DEF LShape, LOnce

\* The same of a stack that is replaced at once.
LEMMA LPushed ==
  ASSUME NEW x \in Frames, NEW u \in Seq(Frames), NEW t, t = <<x>> \o u,
         LShape(u), LOnce(u), Len(u) = 0 \/ u[1].frame # "submit",
         \A i \in 1..Len(u) : /\ u[i].frame # "destroy"
                              /\ u[i].frame # "submit" => u[i].of # x.of,
         x.frame \in {"destroy", "done"}, co[x.of] = "waiting", canceled[x.of],
         slot[x.of] = "run"
  PROVE  LShape(t) /\ LOnce(t)
  <1>1. /\ Len(t) = Len(u) + 1 /\ t[1] = x /\ Len(u) \in Nat
        /\ \A i \in 1..Len(t) : i = 1 \/ (i - 1 \in 1..Len(u) /\ t[i] = u[i - 1])
    BY Stacked
  <1>a. Len(u) \in Nat /\ Len(t) = Len(u) + 1
    BY <1>1
  <1>2. ASSUME NEW i \in 1..Len(t)
        PROVE  LFrame(t, i)
    <2>1. CASE i = 1
      BY <1>1, <2>1 DEF LFrame
    <2>2. CASE i # 1
      <3>1. PICK j \in 1..Len(u) : i = j + 1 /\ t[i] = u[j]
        <4>1. i - 1 \in 1..Len(u) /\ i = (i - 1) + 1 /\ t[i] = u[i - 1]
          BY <1>1, <2>2
        <4>. QED  BY <4>1
      <3>2. t[Len(t)] = u[Len(u)]
        BY <1>1, <3>1
      <3>0. LFrame(u, j) /\ u[j].frame # "destroy"
        BY DEF LShape
      <3>3. /\ t[i].frame \in {"run", "submit", "done"}
            /\ t[i].frame = "run" =>
                 /\ co[t[i].of] = "running"
                 /\ \/ j = Len(u)
                    \/ j = Len(u) - 1 /\ u[Len(u)] = [frame |-> "submit", of |-> t[i].of]
            /\ t[i].frame = "submit" =>
                 /\ j = Len(u) /\ slot[t[i].of] = "none"
                 /\ co[t[i].of] \in {"running", "waiting", "dead"}
                 /\ j > 1 => u[j - 1] = [frame |-> "run", of |-> t[i].of]
            /\ t[i].frame = "done" =>
                 co[t[i].of] = "waiting" /\ canceled[t[i].of] /\ slot[t[i].of] = "run"
        BY <3>0, <3>1 DEF LFrame
      <3>4. t[i].frame = "submit" => j > 1
        <4>1. j = 1 => t[i].frame # "submit"
          BY <3>1
        <4>2. j = 1 \/ j > 1
          BY <1>a
        <4>. QED  BY <4>1, <4>2
      <3>5. j > 1 => t[i - 1] = u[j - 1]
        <4>1. SUFFICES ASSUME j > 1  PROVE t[i - 1] = u[j - 1]
          OBVIOUS
        <4>2. i - 1 \in 1..Len(t) /\ i - 1 # 1 /\ (i - 1) - 1 = j - 1
          BY <1>1, <3>1, <4>1
        <4>. QED  BY <1>1, <4>2
      <3>6. i = Len(t) <=> j = Len(u)
        BY <1>a, <3>1
      <3>7. i = Len(t) - 1 <=> j = Len(u) - 1
        BY <1>a, <3>1
      <3>. QED  BY <3>2, <3>3, <3>4, <3>5, <3>6, <3>7 DEF LFrame
    <2>. QED  BY <2>1, <2>2
  <1>3. ASSUME NEW i \in 1..Len(t), NEW j \in 1..Len(t), t[i].of = t[j].of,
               t[i].frame # "submit", t[j].frame # "submit"
        PROVE  i = j
    <2>1. CASE i # 1 /\ j # 1
      <3>1. i - 1 \in 1..Len(u) /\ j - 1 \in 1..Len(u) /\ t[i] = u[i - 1] /\ t[j] = u[j - 1]
        BY <1>1, <2>1
      <3>2. i - 1 = j - 1
        BY <1>3, <3>1 DEF LOnce
      <3>. QED  BY <3>2
    <2>2. CASE i = 1 /\ j # 1
      <3>1. PICK k \in 1..Len(u) : t[j] = u[k]
        BY <1>1, <2>2
      <3>2. t[j].of # x.of
        BY <1>3, <3>1
      <3>. QED  BY <1>1, <1>3, <2>2, <3>2
    <2>3. CASE i # 1 /\ j = 1
      <3>1. PICK k \in 1..Len(u) : t[i] = u[k]
        BY <1>1, <2>3
      <3>2. t[i].of # x.of
        BY <1>3, <3>1
      <3>. QED  BY <1>1, <1>3, <2>3, <3>2
    <2>. QED  BY <2>1, <2>2, <2>3
  <1>. QED  BY <1>2, <1>3 DEF LShape, LOnce

\* A stack keeps its shape when its coroutines stay as they are.
LEMMA LStays ==
  ASSUME NEW u, LShape(u),
         \A i \in 1..Len(u) : /\ co'[u[i].of] = co[u[i].of] /\ slot'[u[i].of] = slot[u[i].of]
                              /\ canceled[u[i].of] => canceled'[u[i].of]
  PROVE  LShape(u)'
  BY DEF LShape, LFrame

\* A coroutine that need not be on the stack.
Calm(d) == co[d] # "running" /\ (co[d] = "waiting" => ~canceled[d] /\ slot[d] = "run")

\* The stacks without cancelers: empty, ...
LEMMA LNone ==
  /\ LStack(<<>>) <=> \A d \in Coroutines : Calm(d)
  /\ LStack(<<>>)' <=> \A d \in Coroutines : Calm(d)'
  /\ \A g : LDone(<<>>, g) /\ LDone(<<>>, g)'
  <1>1. Len(<<>>) = 0 /\ \A f, d : ~OnStack(<<>>, f, d)
    BY DEF OnStack
  <1>2. LShape(<<>>) /\ LOnce(<<>>) /\ LShape(<<>>)'
    BY <1>1 DEF LShape, LFrame, LOnce
  <1>3. \A g : LDone(<<>>, g) /\ LDone(<<>>, g)'
    BY <1>1 DEF LDone
  <1>4. LRun(<<>>) <=> \A d \in Coroutines : Calm(d)
    BY <1>1 DEF LRun, Calm
  <1>5. LRun(<<>>)' <=> \A d \in Coroutines : Calm(d)'
    BY <1>1 DEF LRun, Calm
  <1>. QED  BY <1>2, <1>3, <1>4, <1>5 DEF LStack, LOnce

\* ... with code that was resumed, ...
LEMMA LCode ==
  ASSUME NEW c \in Coroutines, NEW t \in Seq(Frames),
         Len(t) = 1, t[1] = [frame |-> "run", of |-> c]
  PROVE  /\ LStack(t) <=> /\ co[c] = "running" /\ ~canceled[c] /\ slot[c] = "run"
                          /\ \A d \in Coroutines \ {c} : Calm(d)
         /\ LStack(t)' <=> /\ co'[c] = "running" /\ ~canceled'[c] /\ slot'[c] = "run"
                           /\ \A d \in Coroutines \ {c} : Calm(d)'
         /\ \A g : LDone(t, g) /\ LDone(t, g)'
  <1>1. PICK x \in Frames : x = [frame |-> "run", of |-> c]
    BY DEF Frames
  <1>2. t \in Seq(Frames) /\ Len(t) = 1 /\ t[1] = x /\ x.frame = "run" /\ x.of = c
    BY <1>1
  <1>3. \A f, d : OnStack(t, f, d) <=> f = "run" /\ d = c
    BY <1>1, <1>2 DEF OnStack
  <1>4. LOnce(t)
    BY <1>2 DEF LOnce
  <1>5. LShape(t) <=> co[c] = "running"
    BY <1>2 DEF LShape, LFrame
  <1>6. LShape(t)' <=> co'[c] = "running"
    BY <1>2 DEF LShape, LFrame
  <1>7. ASSUME co[c] = "running"
        PROVE  LRun(t) <=> ~canceled[c] /\ slot[c] = "run" /\ \A d \in Coroutines \ {c} : Calm(d)
    BY <1>3, <1>7 DEF LRun, Calm
  <1>8. ASSUME co'[c] = "running"
        PROVE  LRun(t)' <=> ~canceled'[c] /\ slot'[c] = "run" /\ \A d \in Coroutines \ {c} : Calm(d)'
    BY <1>3, <1>8 DEF LRun, Calm
  <1>9. \A g : LDone(t, g) /\ LDone(t, g)'
    BY <1>2 DEF LDone
  <1>. QED  BY <1>4, <1>5, <1>6, <1>7, <1>8, <1>9 DEF LStack, LOnce

\* ... with code that submit() runs, ...
LEMMA LFirst ==
  ASSUME NEW c \in Coroutines, NEW t \in Seq(Frames), Len(t) = 2,
         t[1] = [frame |-> "run", of |-> c], t[2] = [frame |-> "submit", of |-> c]
  PROVE  /\ LStack(t) <=> /\ co[c] = "running" /\ slot[c] = "none"
                          /\ \A d \in Coroutines \ {c} : Calm(d)
         /\ LStack(t)' <=> /\ co'[c] = "running" /\ slot'[c] = "none"
                           /\ \A d \in Coroutines \ {c} : Calm(d)'
         /\ \A g : LDone(t, g) /\ LDone(t, g)'
  <1>1. PICK x \in Frames : x = [frame |-> "run", of |-> c]
    BY DEF Frames
  <1>a. PICK y \in Frames : y = [frame |-> "submit", of |-> c]
    BY DEF Frames
  <1>2. /\ t \in Seq(Frames) /\ Len(t) = 2 /\ t[1] = x /\ t[2] = y
        /\ x.frame = "run" /\ x.of = c /\ y.frame = "submit" /\ y.of = c
    BY <1>1, <1>a
  <1>3. \A f, d : OnStack(t, f, d) <=> f \in {"run", "submit"} /\ d = c
    BY <1>1, <1>a, <1>2 DEF OnStack
  <1>4. LOnce(t)
    BY <1>2 DEF LOnce
  <1>5. LShape(t) <=> co[c] = "running" /\ slot[c] = "none"
    BY <1>1, <1>a, <1>2 DEF LShape, LFrame
  <1>6. LShape(t)' <=> co'[c] = "running" /\ slot'[c] = "none"
    BY <1>1, <1>a, <1>2 DEF LShape, LFrame
  <1>7. ASSUME co[c] = "running"
        PROVE  LRun(t) <=> \A d \in Coroutines \ {c} : Calm(d)
    BY <1>3, <1>7 DEF LRun, Calm
  <1>8. ASSUME co'[c] = "running"
        PROVE  LRun(t)' <=> \A d \in Coroutines \ {c} : Calm(d)'
    BY <1>3, <1>8 DEF LRun, Calm
  <1>9. \A g : LDone(t, g) /\ LDone(t, g)'
    BY <1>2 DEF LDone
  <1>. QED  BY <1>4, <1>5, <1>6, <1>7, <1>8, <1>9 DEF LStack, LOnce

\* ... and with submit() when the code was suspended, or is over.
LEMMA LSubmit ==
  ASSUME NEW c \in Coroutines, NEW t \in Seq(Frames), Len(t) = 1,
         t[1] = [frame |-> "submit", of |-> c]
  PROVE  /\ LStack(t) <=> /\ co[c] \in {"waiting", "dead"} /\ slot[c] = "none"
                          /\ \A d \in Coroutines \ {c} : Calm(d)
         /\ LStack(t)' <=> /\ co'[c] \in {"waiting", "dead"} /\ slot'[c] = "none"
                           /\ \A d \in Coroutines \ {c} : Calm(d)'
         /\ \A g : LDone(t, g) /\ LDone(t, g)'
  <1>1. PICK x \in Frames : x = [frame |-> "submit", of |-> c]
    BY DEF Frames
  <1>2. t \in Seq(Frames) /\ Len(t) = 1 /\ t[1] = x /\ x.frame = "submit" /\ x.of = c
    BY <1>1
  <1>3. \A f, d : OnStack(t, f, d) <=> f = "submit" /\ d = c
    BY <1>1, <1>2 DEF OnStack
  <1>4. LOnce(t)
    BY <1>2 DEF LOnce
  <1>5. LShape(t) <=> co[c] \in {"running", "waiting", "dead"} /\ slot[c] = "none"
    BY <1>2 DEF LShape, LFrame
  <1>6. LShape(t)' <=> co'[c] \in {"running", "waiting", "dead"} /\ slot'[c] = "none"
    BY <1>2 DEF LShape, LFrame
  <1>7. ASSUME co[c] \in {"running", "waiting", "dead"}
        PROVE  LRun(t) <=> co[c] # "running" /\ \A d \in Coroutines \ {c} : Calm(d)
    BY <1>3, <1>7 DEF LRun, Calm
  <1>8. ASSUME co'[c] \in {"running", "waiting", "dead"}
        PROVE  LRun(t)' <=> co'[c] # "running" /\ \A d \in Coroutines \ {c} : Calm(d)'
    BY <1>3, <1>8 DEF LRun, Calm
  <1>9. \A g : LDone(t, g) /\ LDone(t, g)'
    BY <1>2 DEF LDone
  <1>. QED  BY <1>4, <1>5, <1>6, <1>7, <1>8, <1>9 DEF LStack, LOnce

\* What is canceled only now is destroyed.
LEMMA LLate ==
  ASSUME NEW c \in Coroutines, NEW t \in Seq(Frames), Len(t) = 1,
         t[1] = [frame |-> "destroy", of |-> c],
         co'[c] = "waiting", canceled'[c], slot'[c] = "run", \A d \in Coroutines \ {c} : Calm(d)'
  PROVE  LStack(t)' /\ \A g : LDone(t, g)'
  <1>1. PICK x \in Frames : x = [frame |-> "destroy", of |-> c]
    BY DEF Frames
  <1>2. t \in Seq(Frames) /\ Len(t) = 1 /\ t[1] = x /\ x.frame = "destroy" /\ x.of = c
    BY <1>1
  <1>3. \A f, d : OnStack(t, f, d) <=> f = "destroy" /\ d = c
    BY <1>1, <1>2 DEF OnStack
  <1>4. LOnce(t) /\ LShape(t)' /\ \A g : LDone(t, g)'
    BY <1>2 DEF LOnce, LShape, LFrame, LDone
  <1>5. LRun(t)'
    BY <1>3 DEF LRun, Calm
  <1>. QED  BY <1>4, <1>5 DEF LStack, LOnce

\* A canceler that destroyed the frame is yet to call the receiver.
LEMMA LTold ==
  ASSUME NEW c \in Coroutines, NEW u \in Seq(Frames), NEW t, NEW v, NEW g,
         t = <<[frame |-> "destroy", of |-> c]>> \o u,
         v = <<[frame |-> "done", of |-> c]>> \o u,
         LStack(t), LDone(t, g)
  PROVE  /\ v \in Seq(Frames) /\ LStack(v) /\ LDone(v, g \cup {<<c, no[c]>>})
         /\ co[c] = "waiting" /\ canceled[c]
  <1>1. PICK x \in Frames : x = [frame |-> "destroy", of |-> c]
    BY DEF Frames
  <1>2. PICK y \in Frames : y = [frame |-> "done", of |-> c]
    BY DEF Frames
  <1>3. x.frame = "destroy" /\ x.of = c /\ y.frame = "done" /\ y.of = c
    BY <1>1, <1>2
  <1>4. t = <<x>> \o u /\ v = <<y>> \o u
    BY <1>1, <1>2
  <1>5. /\ t \in Seq(Frames) /\ Len(t) = Len(u) + 1 /\ t[1] = x /\ Len(u) \in Nat
        /\ \A i \in 1..Len(u) : t[i + 1] = u[i]
        /\ \A i \in 1..Len(t) : i = 1 \/ (i - 1 \in 1..Len(u) /\ t[i] = u[i - 1])
    BY <1>4, Stacked
  <1>6. \A f, d : OnStack(t, f, d) <=> (x.frame = f /\ x.of = d) \/ OnStack(u, f, d)
    BY <1>4, Stacked
  <1>7. /\ v \in Seq(Frames) /\ Len(v) = Len(u) + 1 /\ v[1] = y
        /\ \A i \in 1..Len(v) : i = 1 \/ (i - 1 \in 1..Len(u) /\ v[i] = u[i - 1])
    BY <1>4, Stacked
  <1>8. \A f, d : OnStack(v, f, d) <=> (y.frame = f /\ y.of = d) \/ OnStack(u, f, d)
    BY <1>4, Stacked
  <1>9. /\ co[c] = "waiting" /\ canceled[c] /\ slot[c] = "run" /\ LShape(u) /\ LOnce(u)
        /\ Len(u) = 0 \/ u[1].frame # "submit"
        /\ \A i \in 1..Len(u) : /\ u[i].frame # "destroy"
                                /\ u[i].frame # "submit" => u[i].of # c
    <2>1. LShape(t) /\ LOnce(t)
      BY DEF LStack
    <2>2. /\ x.frame \in {"destroy", "done"} =>
               co[x.of] = "waiting" /\ canceled[x.of] /\ slot[x.of] = "run"
          /\ \A i \in 1..Len(u) : /\ u[i].frame # "destroy"
                                  /\ x.frame # "submit" /\ u[i].frame # "submit" => u[i].of # x.of
          /\ x.frame # "run" => Len(u) = 0 \/ u[1].frame # "submit"
          /\ LShape(u) /\ LOnce(u)
      BY <1>4, <2>1, LTop
    <2>. QED  BY <1>3, <2>2
  <1>10. LShape(v) /\ LOnce(v)
    BY <1>3, <1>4, <1>9, LPushed
  <1>11. LRun(v)
    <2>1. LRun(t)
      BY DEF LStack
    <2>2. ASSUME NEW d \in Coroutines, co[d] = "running"
          PROVE  OnStack(v, "run", d) /\ (canceled[d] => OnStack(v, "submit", d))
      <3>1. OnStack(t, "run", d) /\ (canceled[d] => OnStack(t, "submit", d))
        BY <2>1, <2>2 DEF LRun
      <3>. QED  BY <1>3, <1>6, <1>8, <3>1
    <2>3. ASSUME NEW d \in Coroutines, co[d] = "waiting", canceled[d]
          PROVE  OnStack(v, "destroy", d) \/ OnStack(v, "done", d) \/ OnStack(v, "submit", d)
      <3>1. OnStack(t, "destroy", d) \/ OnStack(t, "done", d) \/ OnStack(t, "submit", d)
        BY <2>1, <2>3 DEF LRun
      <3>. QED  BY <1>3, <1>6, <1>8, <3>1
    <2>4. ASSUME NEW d \in Coroutines, co[d] \in {"waiting", "running"}
          PROVE  slot[d] = "run" \/ OnStack(v, "submit", d)
      <3>1. slot[d] = "run" \/ OnStack(t, "submit", d)
        BY <2>1, <2>4 DEF LRun
      <3>. QED  BY <1>3, <1>6, <1>8, <3>1
    <2>. QED  BY <2>2, <2>3, <2>4 DEF LRun
  <1>12. LDone(v, g \cup {<<c, no[c]>>})
    <2>1. SUFFICES ASSUME NEW i \in 1..Len(v), v[i].frame = "done"
                   PROVE  <<v[i].of, no[v[i].of]>> \in g \cup {<<c, no[c]>>}
      BY DEF LDone
    <2>2. CASE i = 1
      BY <1>3, <1>7, <2>2
    <2>3. CASE i # 1
      <3>1. i \in 1..Len(t) /\ t[i] = v[i]
        BY <1>5, <1>7, <2>3
      <3>. QED  BY <2>1, <3>1 DEF LDone
    <2>. QED  BY <2>2, <2>3
  <1>. QED  BY <1>7, <1>9, <1>10, <1>11, <1>12 DEF LStack

\* request_cancel(), whatever called it: not a canceler that has not destroyed yet.
\* It may find that the coroutine runs; nothing is claimed of what follows then.
LEMMA LRequest ==
  ASSUME Common, LSlot, NEW s \in Seq(Frames), LStack(s), LDone(s, gone'),
         Len(s) = 0 \/ s[1].frame \notin {"destroy", "submit"},
         NEW d \in Coroutines, co[d] # "none", Stackless!RequestCancel(d, s),
         Shrinks, UNCHANGED <<no, on, ptr, previous>>, gone' \in SUBSET Awaits
  PROVE  Common' /\ (Up' => LSlot' /\ LStack(stack)' /\ LDone(stack, gone)')
  <1>1. canceled \in [Coroutines -> BOOLEAN] /\ canceled' = [canceled EXCEPT ![d] = TRUE]
    BY Types DEF Common, Stackless!RequestCancel
  <1>2. /\ canceled' \in [Coroutines -> BOOLEAN] /\ canceled'[d]
        /\ \A c \in Coroutines : c # d => canceled'[c] = canceled[c]
    BY <1>1
  <1>3. PICK x \in Frames : x = [frame |-> "destroy", of |-> d]
    BY DEF Frames
  <1>4. /\ previous' \in [Coroutines -> Coroutines \cup {Null}] /\ ptr' \in Coroutines \cup {Null}
        /\ LShape(s) /\ LOnce(s) /\ LRun(s)
    BY Types DEF Common, LStack
  <1>5. \A i \in 1..Len(s) : s[i] \in Frames /\ s[i].of \in Coroutines
    <2>1. ASSUME NEW i \in 1..Len(s)
          PROVE  s[i] \in Frames
      BY <2>1, NotEmpty
    <2>2. \A f \in Frames : f.of \in Coroutines
      BY DEF Frames
    <2>. QED  BY <2>1, <2>2
  <1>6. CASE ~canceled[d] /\ slot[d] = "start"
    <2>1. stack' = s /\ Stackless!Complete(d, "canceled")
      BY <1>6 DEF Stackless!RequestCancel
    <2>2. PICK q : Ends(d, "canceled", q)
      BY <2>1, StacklessEnds DEF Common
    <2>3. co[d] = "queued"
      BY <1>6 DEF Common, LifeInv
    <2>4. /\ Common' /\ co'[d] = "dead" /\ slot'[d] = "none"
          /\ \A c \in Coroutines : c # d => co'[c] = co[c] /\ slot'[c] = slot[c]
      BY <1>2, <1>4, <2>1, <2>2, <2>3, EndsOnce
    <2>5. LSlot'
      BY <2>4 DEF LSlot
    <2>6. LShape(s)'
      <3>1. \A i \in 1..Len(s) : s[i].of # d
        BY <1>4, <2>3 DEF LShape, LFrame
      <3>. QED  BY <1>2, <1>4, <1>5, <2>4, <3>1, LStays
    <2>7. LRun(s)'
      BY <1>2, <1>4, <2>4 DEF LRun
    <2>8. LDone(s, gone)'
      BY DEF LDone
    <2>. QED  BY <1>4, <2>1, <2>4, <2>5, <2>6, <2>7, <2>8 DEF LStack, LOnce
  <1>7. CASE canceled[d] \/ slot[d] # "start"
    <2>1. UNCHANGED <<co, slot, result, queue>>
      BY <1>7 DEF Stackless!RequestCancel
    <2>2. CASE ~canceled[d] /\ slot[d] = "run"
      <3>1. PICK t : t = <<x>> \o s /\ stack' = t /\ t \in Seq(Frames)
        <4>1. stack' = <<x>> \o s
          BY <1>3, <2>2 DEF Stackless!RequestCancel, Stackless!Frame
        <4>2. PICK t : t = <<x>> \o s
          OBVIOUS
        <4>3. t \in Seq(Frames)
          BY <4>2, Stacked
        <4>. QED  BY <4>1, <4>2, <4>3
      <3>2. co[d] \in {"waiting", "running"}
        BY <2>2 DEF LSlot
      <3>3. NeverTouchedDead'
        BY <1>7, <2>2, <3>2, Zenon DEF Stackless!RequestCancel, NeverTouchedDead
      <3>4. Common' /\ LSlot'
        <4>1. CoTypeOK'
          BY <1>2, <1>4, <2>1, <3>1, <3>3 DEF Common, CoTypeOK, Shrinks
        <4>2. AwaitInv'
          <5>1. Keeps /\ Buries
            BY <2>1 DEF Keeps, Buries
          <5>. QED  BY <2>1, <5>1, IdleAwaits DEF Common
        <4>3. LifeInv'
          BY <1>2, <2>1, <3>2 DEF Common, LifeInv
        <4>. QED  BY <2>1, <4>1, <4>2, <4>3 DEF Common, LSlot
      <3>5. CASE co[d] = "running"
        <4>1. ~Up'
          BY <1>7, <2>2, <3>5, Zenon DEF Stackless!RequestCancel, Up
        <4>. QED  BY <3>4, <4>1
      <3>6. CASE co[d] = "waiting"
        <4>1. LShape(s)'
          BY <1>2, <1>4, <1>5, <2>1, LStays
        <4>2. \A i \in 1..Len(s) : /\ s[i].frame # "destroy"
                                   /\ s[i].frame # "submit" => s[i].of # d
          <5>1. SUFFICES ASSUME NEW i \in 1..Len(s)
                         PROVE  /\ s[i].frame # "destroy"
                                /\ s[i].frame # "submit" => s[i].of # d
            OBVIOUS
          <5>2. LFrame(s, i) /\ Len(s) # 0
            BY <1>4 DEF LShape
          <5>3. s[i].frame # "destroy"
            BY <5>2 DEF LFrame
          <5>4. s[i].frame # "submit" => s[i].of # d
            BY <2>2, <3>6, <5>2, <5>3 DEF LFrame
          <5>. QED  BY <5>3, <5>4
        <4>3. LShape(t)' /\ LOnce(t)
          <5>1. x.frame = "destroy" /\ x.of = d
            BY <1>3
          <5>2. x.frame \in {"destroy", "done"} /\ co'[x.of] = "waiting" /\ canceled'[x.of]
                /\ slot'[x.of] = "run"
            BY <1>2, <2>1, <2>2, <3>6, <5>1
          <5>3. Len(s) = 0 \/ s[1].frame # "submit"
            OBVIOUS
          <5>. QED  BY <1>4, <3>1, <4>1, <4>2, <5>1, <5>2, <5>3, LPush
        <4>4. \A f, c : OnStack(t, f, c) <=> (f = "destroy" /\ c = d) \/ OnStack(s, f, c)
          <5>1. x.frame = "destroy" /\ x.of = d
            BY <1>3
          <5>2. \A f, c : OnStack(t, f, c) <=> (x.frame = f /\ x.of = c) \/ OnStack(s, f, c)
            BY <3>1, Stacked
          <5>. QED  BY <5>1, <5>2
        <4>5. LRun(t)'
          <5>1. ASSUME NEW c \in Coroutines, co[c] = "running"
                PROVE  OnStack(t, "run", c) /\ (canceled'[c] => OnStack(t, "submit", c))
            BY <1>2, <1>4, <3>6, <4>4, <5>1 DEF LRun
          <5>2. ASSUME NEW c \in Coroutines, co[c] = "waiting", canceled'[c]
                PROVE  OnStack(t, "destroy", c) \/ OnStack(t, "done", c) \/ OnStack(t, "submit", c)
            BY <1>2, <1>4, <4>4, <5>2 DEF LRun
          <5>3. ASSUME NEW c \in Coroutines, co[c] \in {"waiting", "running"}
                PROVE  slot[c] = "run" \/ OnStack(t, "submit", c)
            BY <1>4, <4>4, <5>3 DEF LRun
          <5>. QED  BY <2>1, <5>1, <5>2, <5>3 DEF LRun
        <4>6. LDone(t, gone)'
          <5>1. x.frame = "destroy"
            BY <1>3
          <5>2. t[1] = x /\ \A i \in 1..Len(t) : i = 1 \/ (i - 1 \in 1..Len(s) /\ t[i] = s[i - 1])
            BY <3>1, Stacked
          <5>3. ASSUME NEW i \in 1..Len(t), t[i].frame = "done"
                PROVE  <<t[i].of, no'[t[i].of]>> \in gone'
            <6>1. PICK j \in 1..Len(s) : t[i] = s[j]
              BY <5>1, <5>2, <5>3
            <6>. QED  BY <5>3, <6>1 DEF LDone
          <5>. QED  BY <5>3 DEF LDone
        <4>. QED  BY <3>1, <3>4, <4>3, <4>5, <4>6 DEF LStack, LOnce
      <3>. QED  BY <3>2, <3>5, <3>6
    <2>3. CASE canceled[d] \/ slot[d] # "run"
      <3>1. stack' = s
        BY <2>3 DEF Stackless!RequestCancel
      <3>2. NeverTouchedDead'
        BY <1>7, <2>3, Zenon DEF Stackless!RequestCancel, NeverTouchedDead
      <3>3. LShape(s)'
        BY <1>2, <1>4, <1>5, <2>1, LStays
      <3>4. ~canceled[d] => co[d] # "queued"
        BY <1>7 DEF Common, LifeInv
      <3>5. LRun(s)'
        <4>1. ASSUME NEW c \in Coroutines, co[c] = "running"
              PROVE  OnStack(s, "run", c) /\ (canceled'[c] => OnStack(s, "submit", c))
          BY <1>2, <1>4, <2>3, <4>1 DEF LRun
        <4>2. ASSUME NEW c \in Coroutines, co[c] = "waiting", canceled'[c]
              PROVE  OnStack(s, "destroy", c) \/ OnStack(s, "done", c) \/ OnStack(s, "submit", c)
          BY <1>2, <1>4, <2>3, <4>2 DEF LRun
        <4>3. ASSUME NEW c \in Coroutines, co[c] \in {"waiting", "running"}
              PROVE  slot[c] = "run" \/ OnStack(s, "submit", c)
          BY <1>4, <4>3 DEF LRun
        <4>. QED  BY <2>1, <4>1, <4>2, <4>3 DEF LRun
      <3>6. LDone(s, gone)'
        BY DEF LDone
      <3>7. Common' /\ LSlot'
        <4>1. CoTypeOK'
          BY <1>2, <1>4, <2>1, <3>1, <3>2 DEF Common, CoTypeOK, Shrinks
        <4>2. AwaitInv'
          <5>1. Keeps /\ Buries
            BY <2>1 DEF Keeps, Buries
          <5>. QED  BY <2>1, <5>1, IdleAwaits DEF Common
        <4>3. LifeInv'
          BY <1>2, <2>1, <3>4 DEF Common, LifeInv
        <4>. QED  BY <2>1, <4>1, <4>2, <4>3 DEF Common, LSlot
      <3>. QED  BY <1>4, <3>1, <3>3, <3>5, <3>6, <3>7 DEF LStack, LOnce
    <2>. QED  BY <2>2, <2>3
  <1>. QED  BY <1>6, <1>7
--------------------------------------------------------------------------------
(* The stackless coroutines *)

LSafe == Common /\ (Up => LSlot /\ LStack(stack) /\ LDone(stack, gone))
LFit == Common /\ LSlot /\ LStack(stack) /\ LDone(stack, gone)

LEMMA LSame ==
  ASSUME LFit, UNCHANGED <<co, no, slot, canceled, stack, gone>>
  PROVE  LSlot' /\ LStack(stack)' /\ LDone(stack, gone)'
  BY DEF LFit, LSlot, LStack, LShape, LFrame, LOnce, LRun, LDone

\* The thread has nothing to do.
LEMMA LIdle ==
  ASSUME LFit, stack = <<>>
  PROVE  \A d \in Coroutines : Calm(d)
  BY LNone DEF LFit

LEMMA LSameStack ==
  ASSUME NEW t, stack' = t, LStack(t)', LDone(t, gone)'
  PROVE  LStack(stack)' /\ LDone(stack, gone)'
  BY DEF LStack, LShape, LFrame, LOnce, LRun, LDone

LEMMA LStaysIdle ==
  ASSUME stack' = <<>>, \A d \in Coroutines : Calm(d)'
  PROVE  LStack(stack)' /\ LDone(stack, gone)'
  <1>1. LStack(<<>>)' /\ LDone(<<>>, gone)'
    BY LNone
  <1>. QED  BY <1>1, LSameStack

\* The code of c runs: it is all there is, or submit() is below it.
LEMMA LRunning ==
  ASSUME LFit, NEW c \in Coroutines, Stackless!Top("run", c)
  PROVE  /\ stack[1] = [frame |-> "run", of |-> c] /\ Tail(stack) \in Seq(Frames)
         /\ co[c] = "running" /\ \A d \in Coroutines \ {c} : Calm(d)
         /\ \/ Len(stack) = 1 /\ Tail(stack) = <<>> /\ ~canceled[c] /\ slot[c] = "run"
            \/ /\ Len(stack) = 2 /\ stack[2] = [frame |-> "submit", of |-> c] /\ slot[c] = "none"
               /\ Len(Tail(stack)) = 1 /\ Tail(stack)[1] = [frame |-> "submit", of |-> c]
  <1>1. stack \in Seq(Frames) /\ stack # <<>> /\ Head(stack) = [frame |-> "run", of |-> c]
    BY Types DEF LFit, Common, Stackless!Top, Stackless!Frame
  <1>2. PICK x \in Frames, u \in Seq(Frames) :
          x = [frame |-> "run", of |-> c] /\ u = Tail(stack) /\ stack = <<x>> \o u
    BY <1>1, Unstacked
  <1>3. LShape(stack) /\ LOnce(stack) /\ x.frame = "run" /\ x.of = c
    BY <1>2 DEF LFit, LStack
  <1>4. u = <<>> \/ (Len(u) = 1 /\ u[1] = [frame |-> "submit", of |-> c])
    <2>1. x.frame = "run" =>
            u = <<>> \/ (Len(u) = 1 /\ u[1] = [frame |-> "submit", of |-> x.of])
      BY <1>2, <1>3, LTop
    <2>. QED  BY <1>3, <2>1
  <1>5. /\ Len(stack) = Len(u) + 1 /\ stack[1] = x
        /\ \A i \in 1..Len(u) : stack[i + 1] = u[i]
    BY <1>2, Stacked
  <1>6. CASE u = <<>>
    <2>1. Len(stack) = 1
      BY <1>5, <1>6
    <2>2. /\ co[c] = "running" /\ ~canceled[c] /\ slot[c] = "run"
          /\ \A d \in Coroutines \ {c} : Calm(d)
      BY <1>1, <1>2, <1>5, <2>1, LCode DEF LFit
    <2>. QED  BY <1>2, <1>5, <1>6, <2>1, <2>2
  <1>7. CASE Len(u) = 1 /\ u[1] = [frame |-> "submit", of |-> c]
    <2>1. Len(stack) = 2 /\ stack[2] = u[1]
      <3>1. 1 \in 1..Len(u) /\ 1 + 1 = 2
        BY <1>7
      <3>. QED  BY <1>5, <1>7, <3>1
    <2>2. co[c] = "running" /\ slot[c] = "none" /\ \A d \in Coroutines \ {c} : Calm(d)
      BY <1>1, <1>2, <1>5, <1>7, <2>1, LFirst DEF LFit
    <2>. QED  BY <1>2, <1>5, <1>7, <2>1, <2>2
  <1>. QED  BY <1>4, <1>6, <1>7

\* It goes on, ...
LEMMA LOn ==
  ASSUME LFit, NEW c \in Coroutines, Stackless!Top("run", c), UNCHANGED stack,
         co'[c] = "running", slot'[c] = slot[c], canceled'[c] = canceled[c],
         \A d \in Coroutines \ {c} : Calm(d)'
  PROVE  LStack(stack)' /\ LDone(stack, gone)'
  <1>1. /\ stack[1] = [frame |-> "run", of |-> c]
        /\ \/ Len(stack) = 1 /\ ~canceled[c] /\ slot[c] = "run"
           \/ Len(stack) = 2 /\ stack[2] = [frame |-> "submit", of |-> c] /\ slot[c] = "none"
    BY LRunning
  <1>2. PICK t \in Seq(Frames) : t = stack
    BY Types DEF LFit, Common
  <1>3. LStack(t)' /\ LDone(t, gone)'
    <2>1. CASE Len(stack) = 1 /\ ~canceled[c] /\ slot[c] = "run"
      BY <1>1, <1>2, <2>1, LCode
    <2>2. CASE Len(stack) = 2 /\ stack[2] = [frame |-> "submit", of |-> c] /\ slot[c] = "none"
      BY <1>1, <1>2, <2>2, LFirst
    <2>. QED  BY <1>1, <2>1, <2>2
  <1>4. stack' = t
    BY <1>2
  <1>. QED  BY <1>3, <1>4, LSameStack

\* ... or is suspended, or over.
LEMMA LLeave ==
  ASSUME LFit, NEW c \in Coroutines, Stackless!Top("run", c), stack' = Tail(stack),
         (co'[c] = "waiting" /\ slot'[c] = slot[c]) \/ (co'[c] = "dead" /\ slot'[c] = "none"),
         canceled'[c] = canceled[c], \A d \in Coroutines \ {c} : Calm(d)'
  PROVE  LStack(stack)' /\ LDone(stack, gone)'
  <1>1. /\ Tail(stack) \in Seq(Frames)
        /\ \/ Tail(stack) = <<>> /\ ~canceled[c] /\ slot[c] = "run"
           \/ /\ Len(Tail(stack)) = 1 /\ Tail(stack)[1] = [frame |-> "submit", of |-> c]
              /\ slot[c] = "none"
    BY LRunning
  <1>2. CASE Tail(stack) = <<>> /\ ~canceled[c] /\ slot[c] = "run"
    <2>1. Calm(c)'
      BY <1>2 DEF Calm
    <2>. QED  BY <1>2, <2>1, LStaysIdle
  <1>3. CASE Len(Tail(stack)) = 1 /\ Tail(stack)[1] = [frame |-> "submit", of |-> c] /\ slot[c] = "none"
    <2>1. PICK t \in Seq(Frames) : t = Tail(stack)
      BY <1>1
    <2>2. LStack(t)' /\ LDone(t, gone)'
      BY <1>3, <2>1, LSubmit
    <2>3. stack' = t
      BY <2>1
    <2>. QED  BY <2>2, <2>3, LSameStack
  <1>. QED  BY <1>1, <1>2, <1>3

\* The steps of a stackless coroutine, one by one.
LEMMA LStart ==
  ASSUME LFit, NEW c \in Coroutines, Stackless!Start(c), UNCHANGED <<ptr, previous>>
  PROVE  LFit'
  <1>1. /\ stack = <<>> /\ queue # <<>> /\ Head(queue).task = "start" /\ queue' = Tail(queue)
        /\ UNCHANGED <<no, on, result, canceled, promises, senders, firing, giving, gone, failed>>
    BY DEF Stackless!Start, Stackless!TakeTask, Stackless!awaitVars
  <1>2. queue \in Seq(Tasks) /\ queue' \in Seq(Tasks) /\ Len(queue') = Len(queue) - 1
        /\ Len(queue) \in Nat /\ \A i \in 1..Len(queue') : queue'[i] = queue[i + 1]
    BY <1>1, Types, PopFacts DEF LFit, Common
  <1>3. \A i \in 1..Len(queue') : i + 1 \in 1..Len(queue) /\ queue'[i] = queue[i + 1]
    BY <1>2
  <1>4. Shrinks /\ NeverTouchedDead'
    BY <1>1, NothingFails DEF Shrinks, LFit, Common
  <1>5. \A d \in Coroutines : Calm(d)
    BY <1>1, LIdle
  <1>6. CASE co[c] = "queued"
    <2>1. /\ co' = [co EXCEPT ![c] = "running"] /\ slot' = [slot EXCEPT ![c] = "none"]
          /\ stack' = <<[frame |-> "run", of |-> c], [frame |-> "submit", of |-> c]>>
      BY <1>6 DEF Stackless!Start, Stackless!Frame
    <2>2. /\ co' \in [Coroutines -> States] /\ slot' \in [Coroutines -> {"none", "start", "await", "run"}]
          /\ co'[c] = "running" /\ slot'[c] = "none"
          /\ \A d \in Coroutines : d # c => co'[d] = co[d] /\ slot'[d] = slot[d]
      BY <2>1, Types DEF LFit, Common, States
    <2>3. PICK t \in Seq(Frames) :
            /\ stack' = t /\ Len(t) = 2
            /\ t[1] = [frame |-> "run", of |-> c] /\ t[2] = [frame |-> "submit", of |-> c]
      <3>1. PICK x \in Frames : x = [frame |-> "run", of |-> c]
        BY DEF Frames
      <3>2. PICK y \in Frames : y = [frame |-> "submit", of |-> c]
        BY DEF Frames
      <3>3. stack' = <<x, y>>
        BY <2>1, <3>1, <3>2
      <3>4. <<x, y>> \in Seq(Frames) /\ Len(<<x, y>>) = 2 /\ <<x, y>>[1] = x /\ <<x, y>>[2] = y
        OBVIOUS
      <3>. QED  BY <3>1, <3>2, <3>3, <3>4
    <2>4. Keeps /\ Buries
      BY <1>6, <2>2 DEF Keeps, Buries
    <2>5. AwaitInv'
      BY <1>1, <1>2, <1>3, <1>4, <2>4, KeepAwaits DEF LFit, Common
    <2>6. CoTypeOK'
      BY <1>1, <1>2, <1>4, <2>2, <2>3 DEF LFit, Common, CoTypeOK
    <2>7. LifeInv'
      BY <1>1, <1>6, <2>2 DEF LFit, Common, LifeInv
    <2>8. LSlot'
      BY <2>2 DEF LFit, LSlot
    <2>9. LStack(t)' /\ LDone(t, gone)'
      <3>1. \A d \in Coroutines \ {c} : Calm(d)'
        BY <1>1, <1>5, <2>2 DEF Calm
      <3>. QED  BY <2>2, <2>3, <3>1, LFirst
    <2>10. LStack(stack)' /\ LDone(stack, gone)'
      BY <2>3, <2>9, LSameStack
    <2>. QED  BY <2>5, <2>6, <2>7, <2>8, <2>10 DEF LFit, Common
  <1>7. CASE co[c] # "queued"
    <2>1. UNCHANGED <<co, slot, stack>>
      BY <1>7 DEF Stackless!Start
    <2>2. Keeps /\ Buries
      BY <2>1 DEF Keeps, Buries
    <2>3. AwaitInv'
      BY <1>1, <1>2, <1>3, <1>4, <2>2, KeepAwaits DEF LFit, Common
    <2>4. CoTypeOK'
      BY <1>1, <1>2, <1>4, <2>1 DEF LFit, Common, CoTypeOK
    <2>5. LifeInv'
      BY <1>1, <2>1 DEF LFit, Common, LifeInv
    <2>6. LSlot' /\ LStack(stack)' /\ LDone(stack, gone)'
      BY <1>1, <2>1, LSame
    <2>. QED  BY <2>3, <2>4, <2>5, <2>6 DEF LFit, Common
  <1>. QED  BY <1>6, <1>7

LEMMA LSubmitEnds ==
  ASSUME LFit, NEW c \in Coroutines, Stackless!SubmitEnds(c), UNCHANGED <<ptr, previous>>
  PROVE  LFit'
  <1>1. /\ Head(stack) = [frame |-> "submit", of |-> c] /\ stack # <<>> /\ stack \in Seq(Frames)
        /\ UNCHANGED <<co, no, on, result, canceled, queue, promises, senders, firing, giving, gone,
                       failed>>
    BY Types DEF Stackless!SubmitEnds, Stackless!Top, Stackless!Frame, Stackless!coVars,
                 Stackless!awaitVars, LFit, Common
  <1>2. PICK x \in Frames, u \in Seq(Frames) :
          x = [frame |-> "submit", of |-> c] /\ u = Tail(stack) /\ stack = <<x>> \o u
    BY <1>1, Unstacked
  <1>3. LShape(stack) /\ LOnce(stack) /\ x.frame = "submit" /\ x.of = c
    BY <1>2 DEF LFit, LStack
  <1>4. u = <<>>
    BY <1>2, <1>3, LTop
  <1>5. Len(stack) = 1 /\ stack[1] = [frame |-> "submit", of |-> c]
    <2>1. Len(stack) = Len(u) + 1 /\ stack[1] = x
      BY <1>2, Stacked
    <2>2. Len(u) = 0
      BY <1>4
    <2>. QED  BY <1>2, <2>1, <2>2
  <1>6. co[c] \in {"waiting", "dead"} /\ slot[c] = "none" /\ \A d \in Coroutines \ {c} : Calm(d)
    BY <1>1, <1>5, LSubmit DEF LFit
  <1>7. Shrinks /\ NeverTouchedDead' /\ Keeps /\ Buries
    BY <1>1, NothingFails DEF Shrinks, Keeps, Buries, LFit, Common
  <1>8. AwaitInv'
    BY <1>1, <1>7, IdleAwaits DEF LFit, Common
  <1>9. CASE co[c] = "dead"
    <2>1. stack' = <<>> /\ UNCHANGED slot
      BY <1>2, <1>4, <1>9 DEF Stackless!SubmitEnds
    <2>2. Common'
      BY <1>1, <1>7, <2>1, Moved, Types DEF LFit, Common
    <2>3. \A d \in Coroutines : Calm(d)'
      BY <1>1, <1>6, <1>9, <2>1 DEF Calm
    <2>4. LSlot'
      BY <1>1, <2>1 DEF LFit, LSlot
    <2>. QED  BY <2>1, <2>2, <2>3, <2>4, LStaysIdle DEF LFit
  <1>10. CASE co[c] # "dead"
    <2>1. slot' = [slot EXCEPT ![c] = "run"] /\ co[c] = "waiting"
      BY <1>6, <1>10 DEF Stackless!SubmitEnds
    <2>2. /\ slot' \in [Coroutines -> {"none", "start", "await", "run"}] /\ slot'[c] = "run"
          /\ \A d \in Coroutines : d # c => slot'[d] = slot[d]
      BY <2>1, Types DEF LFit, Common
    <2>3. \A d \in Coroutines \ {c} : Calm(d)'
      BY <1>1, <1>6, <2>2 DEF Calm
    <2>4. LSlot' /\ LifeInv'
      BY <1>1, <2>1, <2>2 DEF LFit, LSlot, Common, LifeInv
    <2>5. stack' \in Seq(Frames) /\ LStack(stack)' /\ LDone(stack, gone)'
      <3>1. CASE canceled[c]
        <4>1. PICK y \in Frames : y = [frame |-> "destroy", of |-> c]
          BY DEF Frames
        <4>2. PICK t : t = <<y>> \o u
          OBVIOUS
        <4>3. stack' = t
          BY <1>2, <1>10, <3>1, <4>1, <4>2 DEF Stackless!SubmitEnds, Stackless!Frame
        <4>4. t \in Seq(Frames) /\ Len(t) = 1 /\ t[1] = [frame |-> "destroy", of |-> c]
          <5>1. t \in Seq(Frames) /\ Len(t) = Len(u) + 1 /\ t[1] = y
            BY <4>2, Stacked
          <5>. QED  BY <1>4, <4>1, <5>1
        <4>5. LStack(t)' /\ LDone(t, gone)'
          BY <1>1, <2>1, <2>2, <2>3, <3>1, <4>4, LLate
        <4>. QED  BY <4>3, <4>4, <4>5, LSameStack
      <3>2. CASE ~canceled[c]
        <4>1. stack' = <<>>
          BY <1>2, <1>4, <1>10, <3>2 DEF Stackless!SubmitEnds
        <4>2. Calm(c)'
          BY <1>1, <2>1, <2>2, <3>2 DEF Calm
        <4>. QED  BY <2>3, <4>1, <4>2, LStaysIdle
      <3>. QED  BY <3>1, <3>2
    <2>6. CoTypeOK'
      BY <1>1, <1>7, <2>2, <2>5 DEF LFit, Common, CoTypeOK
    <2>. QED  BY <1>8, <2>4, <2>5, <2>6 DEF LFit, Common
  <1>. QED  BY <1>9, <1>10

LEMMA LResume ==
  ASSUME LFit, NEW c \in Coroutines, Stackless!Resume(c), UNCHANGED <<ptr, previous>>
  PROVE  LFit'
  <1>1. /\ stack = <<>> /\ queue # <<>> /\ Head(queue).task = "resume" /\ Head(queue).of = c
        /\ queue' = Tail(queue)
        /\ UNCHANGED <<no, on, result, slot, canceled, promises, senders, firing, giving, gone>>
    BY DEF Stackless!Resume, Stackless!TakeTask, Stackless!awaitVars, Stackless!tokenVars
  <1>2. queue \in Seq(Tasks) /\ queue' \in Seq(Tasks) /\ Len(queue') = Len(queue) - 1
        /\ Len(queue) \in Nat /\ \A i \in 1..Len(queue') : queue'[i] = queue[i + 1]
        /\ Len(queue) > 0 /\ Head(queue) = queue[1]
    BY <1>1, Types, PopFacts DEF LFit, Common
  <1>3. \A i \in 1..Len(queue') : i + 1 \in 1..Len(queue) /\ queue'[i] = queue[i + 1]
    BY <1>2
  <1>4. \A d \in Coroutines : Calm(d)
    BY <1>1, LIdle
  <1>5. CASE <<c, Head(queue).no>> \in gone
    <2>1. UNCHANGED <<co, stack, failed>>
      BY <1>5 DEF Stackless!Resume
    <2>2. Keeps /\ Buries /\ Shrinks
      BY <1>1, <2>1 DEF Keeps, Buries, Shrinks
    <2>3. AwaitInv'
      BY <1>1, <1>2, <1>3, <2>2, KeepAwaits DEF LFit, Common
    <2>4. CoTypeOK'
      <3>1. NeverTouchedDead'
        BY <2>1, NothingFails DEF LFit, Common
      <3>. QED  BY <1>1, <1>2, <2>1, <3>1 DEF LFit, Common, CoTypeOK
    <2>5. LifeInv'
      BY <1>1, <2>1 DEF LFit, Common, LifeInv
    <2>6. LSlot' /\ LStack(stack)' /\ LDone(stack, gone)'
      BY <1>1, <2>1, LSame
    <2>. QED  BY <2>3, <2>4, <2>5, <2>6 DEF LFit, Common
  <1>6. CASE <<c, Head(queue).no>> \notin gone
    <2>1. Resuming(Head(queue)) /\ Awaited(Head(queue)) = <<c, Head(queue).no>>
      BY <1>1, <1>6 DEF Resuming, Awaited
    <2>2. Current(Awaited(Head(queue)))
      BY <1>2, <2>1 DEF LFit, Common, AwaitInv
    <2>3. co[c] = "waiting" /\ no[c] = Head(queue).no
      BY <2>1, <2>2 DEF Current
    <2>4. co' = [co EXCEPT ![c] = "running"] /\ stack' = <<[frame |-> "run", of |-> c]>> /\ UNCHANGED failed
      BY <1>6, <2>3 DEF Stackless!Resume, Stackless!Frame
    <2>5. AwaitInv'
      BY <1>1, <2>1, <2>4, ResumeAwaits DEF LFit, Common
    <2>6. /\ co' \in [Coroutines -> States] /\ co'[c] = "running"
          /\ \A d \in Coroutines : d # c => co'[d] = co[d]
      BY <2>4, Types DEF LFit, Common, States
    <2>7. PICK t \in Seq(Frames) :
            stack' = t /\ Len(t) = 1 /\ t[1] = [frame |-> "run", of |-> c]
      <3>1. PICK x \in Frames : x = [frame |-> "run", of |-> c]
        BY DEF Frames
      <3>2. stack' = <<x>>
        BY <2>4, <3>1
      <3>3. <<x>> \in Seq(Frames) /\ Len(<<x>>) = 1 /\ <<x>>[1] = x
        OBVIOUS
      <3>. QED  BY <3>1, <3>2, <3>3
    <2>8. CoTypeOK'
      <3>1. NeverTouchedDead'
        BY <2>4, NothingFails DEF LFit, Common
      <3>. QED  BY <1>1, <1>2, <2>6, <2>7, <3>1 DEF LFit, Common, CoTypeOK
    <2>9. LifeInv' /\ LSlot'
      BY <1>1, <2>3, <2>6 DEF LFit, Common, LifeInv, LSlot
    <2>10. LStack(stack)' /\ LDone(stack, gone)'
      <3>1. ~canceled[c] /\ slot[c] = "run"
        BY <1>4, <2>3 DEF Calm
      <3>2. \A d \in Coroutines \ {c} : Calm(d)'
        BY <1>1, <1>4, <2>6 DEF Calm
      <3>3. LStack(t)' /\ LDone(t, gone)'
        BY <1>1, <2>6, <2>7, <3>1, <3>2, LCode
      <3>. QED  BY <2>7, <3>3, LSameStack
    <2>. QED  BY <2>5, <2>8, <2>9, <2>10 DEF LFit, Common
  <1>. QED  BY <1>5, <1>6

LEMMA LFinish ==
  ASSUME LFit, NEW c \in Coroutines, Stackless!Finish(c), UNCHANGED <<ptr, previous>>
  PROVE  LFit'
  <1>1. /\ Stackless!Top("run", c) /\ stack' = Tail(stack)
        /\ UNCHANGED <<no, on, canceled, promises, senders, firing, giving, gone>>
    BY DEF Stackless!Finish, Stackless!awaitVars
  <1>2. PICK r \in {"value", "error"} : Stackless!Complete(c, r)
    BY DEF Stackless!Finish
  <1>3. PICK q : Ends(c, r, q)
    BY <1>2, StacklessEnds DEF LFit, Common
  <1>4. /\ Tail(stack) \in Seq(Frames) /\ co[c] = "running"
        /\ \A d \in Coroutines \ {c} : Calm(d)
    BY <1>1, LRunning
  <1>5. /\ canceled' \in [Coroutines -> BOOLEAN] /\ gone' \in SUBSET Awaits /\ Shrinks
        /\ previous' \in [Coroutines -> Coroutines \cup {Null}]
        /\ stack' \in Seq(Frames) /\ ptr' \in Coroutines \cup {Null}
    BY <1>1, <1>4 DEF Shrinks, LFit, Common, CoTypeOK
  <1>6. /\ Common' /\ co'[c] = "dead" /\ slot'[c] = "none"
        /\ \A d \in Coroutines : d # c => co'[d] = co[d] /\ slot'[d] = slot[d]
    BY <1>1, <1>3, <1>4, <1>5, EndsOnce DEF LFit
  <1>7. LSlot'
    BY <1>6 DEF LFit, LSlot
  <1>8. \A d \in Coroutines \ {c} : Calm(d)'
    BY <1>1, <1>4, <1>6 DEF Calm
  <1>9. LStack(stack)' /\ LDone(stack, gone)'
    BY <1>1, <1>6, <1>8, LLeave
  <1>. QED  BY <1>6, <1>7, <1>9 DEF LFit

\* A nested cotask begins or ends: it is all within c.
LEMMA LWithin ==
  ASSUME LFit, NEW c \in Coroutines, Stackless!Nest(c) \/ Stackless!Return(c),
         UNCHANGED <<ptr, previous>>
  PROVE  LFit'
  <1>1. UNCHANGED <<co, no, on, result, slot, canceled, stack, queue,
                    promises, senders, firing, giving, gone, failed>>
    BY DEF Stackless!Nest, Stackless!Return, Stackless!tokenVars, Stackless!threadVars,
           Stackless!awaitVars
  <1>2. Shrinks /\ NeverTouchedDead'
    BY <1>1, NothingFails DEF Shrinks, LFit, Common
  <1>3. Common'
    BY <1>1, <1>2, Moved, Types DEF LFit, Common
  <1>. QED  BY <1>1, <1>3, LSame DEF LFit

LEMMA LSpawn ==
  ASSUME LFit, NEW c \in Coroutines, NEW d \in Coroutines, Stackless!Spawn(c, d),
         UNCHANGED <<ptr, previous>>
  PROVE  LFit'
  <1>1. /\ Stackless!Top("run", c)
        /\ co[d] = "none" /\ co' = [co EXCEPT ![d] = "queued"] /\ slot' = [slot EXCEPT ![d] = "start"]
        /\ queue' = Append(queue, [task |-> "start", of |-> d, no |-> 0])
        /\ UNCHANGED <<no, on, result, canceled, stack, ptr, previous,
                       promises, senders, firing, giving, gone, failed>>
    BY DEF Stackless!Spawn, Stackless!UserStep, Stackless!StartTask, Stackless!awaitVars
  <1>2. PICK t \in Tasks : t = [task |-> "start", of |-> d, no |-> 0]
    BY DEF Tasks
  <1>3. /\ Common' /\ co'[d] = "queued" /\ slot'[d] = "start"
        /\ \A e \in Coroutines : e # d => co'[e] = co[e] /\ slot'[e] = slot[e]
    BY <1>1, <1>2, Spawned DEF LFit
  <1>4. co[c] = "running" /\ \A e \in Coroutines \ {c} : Calm(e)
    BY <1>1, LRunning
  <1>5. LSlot'
    BY <1>1, <1>3 DEF LFit, LSlot
  <1>6. \A e \in Coroutines \ {c} : Calm(e)'
    BY <1>1, <1>3, <1>4 DEF Calm
  <1>7. LStack(stack)' /\ LDone(stack, gone)'
    BY <1>1, <1>3, <1>4, <1>6, LOn
  <1>. QED  BY <1>3, <1>5, <1>7 DEF LFit

LEMMA LSuspend ==
  ASSUME LFit, NEW c \in Coroutines, NEW w \in Coroutines \cup {"promise", "sender", "ready"},
         Stackless!Suspend(c, w), UNCHANGED <<ptr, previous>>
  PROVE  LFit'
  <1>1. /\ Stackless!Top("run", c) /\ stack' = Tail(stack)
        /\ w \in Coroutines => co[w] # "none"
        /\ UNCHANGED <<result, slot, canceled, firing, giving, gone, failed>>
    BY DEF Stackless!Suspend, Stackless!UserStep, Stackless!tokenVars
  <1>2. /\ co' = [co EXCEPT ![c] = "waiting"] /\ no' = [no EXCEPT ![c] = @ + 1]
        /\ on' = [on EXCEPT ![c] = w]
        /\ promises' = IF w = "promise" THEN promises \cup {<<c, no[c] + 1>>} ELSE promises
        /\ senders' = IF w = "sender" THEN senders \cup {<<c, no[c] + 1>>} ELSE senders
        /\ queue' = IF w = "ready"
                    THEN Append(queue, [task |-> "resume", of |-> c, no |-> no[c] + 1]) ELSE queue
    <2>1. Stackless!ResumeTask(<<c, no[c] + 1>>) = [task |-> "resume", of |-> c, no |-> no[c] + 1]
      BY DEF Stackless!ResumeTask
    <2>. QED  BY <2>1 DEF Stackless!Suspend
  <1>3. /\ Tail(stack) \in Seq(Frames) /\ co[c] = "running"
        /\ \A d \in Coroutines \ {c} : Calm(d)
    BY <1>1, LRunning
  <1>4. AwaitInv'
    BY <1>1, <1>2, <1>3, SuspendAwaits DEF LFit, Common
  <1>5. /\ co' \in [Coroutines -> States] /\ no' \in [Coroutines -> Nat]
        /\ on' \in [Coroutines -> Coroutines \cup {"promise", "sender", "ready"}]
    BY <1>2, Types DEF LFit, Common, States
  <1>6. co'[c] = "waiting" /\ on'[c] = w /\ no[c] + 1 \in Nat
    BY <1>2, Types DEF LFit, Common, States
  <1>7. \A d \in Coroutines : d # c => co'[d] = co[d] /\ on'[d] = on[d]
    BY <1>2, Types DEF LFit, Common
  <1>8. promises' \in SUBSET Awaits /\ senders' \in SUBSET Awaits
    <2>1. promises \in SUBSET Awaits /\ senders \in SUBSET Awaits
      BY DEF LFit, Common, CoTypeOK
    <2>2. <<c, no[c] + 1>> \in Awaits
      BY <1>6, Pairs
    <2>. QED  BY <1>2, <2>1, <2>2
  <1>9. queue' \in Seq(Tasks)
    <2>1. queue \in Seq(Tasks)
      BY Types DEF LFit, Common
    <2>2. [task |-> "resume", of |-> c, no |-> no[c] + 1] \in Tasks
      BY <1>6 DEF Tasks
    <2>3. Append(queue, [task |-> "resume", of |-> c, no |-> no[c] + 1]) \in Seq(Tasks)
      BY <2>1, <2>2, AppendFacts
    <2>. QED  BY <1>2, <2>1, <2>3
  <1>10. CoTypeOK'
    <2>1. NeverTouchedDead'
      BY <1>1, NothingFails DEF LFit, Common
    <2>. QED  BY <1>1, <1>3, <1>5, <1>8, <1>9, <2>1 DEF LFit, Common, CoTypeOK
  <1>11. LifeInv'
    BY <1>1, <1>3, <1>6, <1>7 DEF LFit, Common, LifeInv
  <1>12. LSlot'
    BY <1>1, <1>6, <1>7 DEF LFit, LSlot
  <1>13. \A d \in Coroutines \ {c} : Calm(d)'
    BY <1>1, <1>3, <1>7 DEF Calm
  <1>14. LStack(stack)' /\ LDone(stack, gone)'
    <2>1. slot'[c] = slot[c] /\ canceled'[c] = canceled[c]
      BY <1>1
    <2>. QED  BY <1>1, <1>6, <1>13, <2>1, LLeave
  <1>. QED  BY <1>4, <1>10, <1>11, <1>12, <1>14 DEF LFit, Common

LEMMA LCancel ==
  ASSUME LFit, NEW c \in Coroutines, NEW d \in Coroutines, Stackless!Cancel(c, d),
         UNCHANGED <<ptr, previous>>
  PROVE  LSafe'
  <1>1. /\ Stackless!Top("run", c) /\ co[d] # "none" /\ Stackless!RequestCancel(d, stack)
        /\ UNCHANGED <<no, on, ptr, previous, promises, senders, firing, giving, gone>>
    BY DEF Stackless!Cancel, Stackless!UserStep, Stackless!awaitVars
  <1>2. stack[1].frame \notin {"destroy", "submit"}
    <2>1. stack[1] = [frame |-> "run", of |-> c]
      BY <1>1, LRunning
    <2>. QED  BY <2>1
  <1>3. Shrinks /\ gone' \in SUBSET Awaits
    BY <1>1 DEF Shrinks, LFit, Common, CoTypeOK
  <1>4. LDone(stack, gone')
    BY <1>1 DEF LFit
  <1>. QED  BY <1>1, <1>2, <1>3, <1>4, LRequest, Types DEF LFit, LSafe, Common

LEMMA LCancelByTask ==
  ASSUME LFit, NEW d \in Coroutines, Stackless!CancelByTask(d), UNCHANGED <<ptr, previous>>
  PROVE  LSafe'
  <1>1. /\ stack = <<>> /\ co[d] # "none" /\ Stackless!RequestCancel(d, stack)
        /\ UNCHANGED <<no, on, ptr, previous, promises, senders, firing, giving, gone>>
    BY DEF Stackless!CancelByTask, Stackless!awaitVars
  <1>2. Len(stack) = 0
    BY <1>1
  <1>3. Shrinks /\ gone' \in SUBSET Awaits
    BY <1>1 DEF Shrinks, LFit, Common, CoTypeOK
  <1>4. LDone(stack, gone')
    BY <1>1 DEF LFit
  <1>. QED  BY <1>1, <1>2, <1>3, <1>4, LRequest, Types DEF LFit, LSafe, Common

LEMMA LDestroy ==
  ASSUME LFit, NEW c \in Coroutines, Stackless!Destroy(c), UNCHANGED <<ptr, previous>>
  PROVE  LSafe'
  <1>1. /\ Head(stack) = [frame |-> "destroy", of |-> c] /\ stack # <<>> /\ stack \in Seq(Frames)
        /\ gone' = gone \cup {<<c, no[c]>>} /\ senders' = senders \ {<<c, no[c]>>}
        /\ UNCHANGED <<no, on, ptr, previous, promises, firing, giving>>
    BY Types DEF Stackless!Destroy, Stackless!Top, Stackless!Frame, Stackless!Await, LFit, Common
  <1>2. PICK x \in Frames, u \in Seq(Frames) :
          x = [frame |-> "destroy", of |-> c] /\ u = Tail(stack) /\ stack = <<x>> \o u
    BY <1>1, Unstacked
  <1>3. PICK y \in Frames : y = [frame |-> "done", of |-> c]
    BY DEF Frames
  <1>4. PICK v : v = <<y>> \o u
    OBVIOUS
  <1>5. /\ v \in Seq(Frames) /\ LStack(v) /\ LDone(v, gone') /\ co[c] = "waiting"
    BY <1>1, <1>2, <1>3, <1>4, LTold DEF LFit
  <1>6. v = <<Stackless!Frame("done", c)>> \o Tail(stack)
    BY <1>2, <1>3, <1>4 DEF Stackless!Frame
  <1>7. v[1].frame = "done"
    BY <1>3, <1>4, Stacked
  <1>8. Shrinks /\ gone' \in SUBSET Awaits
    <2>1. <<c, no[c]>> \in Awaits
      BY Pairs, Types DEF LFit, Common
    <2>. QED  BY <1>1, <2>1 DEF Shrinks, LFit, Common, CoTypeOK
  <1>9. CASE on[c] \in Coroutines
    <2>1. Stackless!RequestCancel(on[c], v)
      BY <1>6, <1>9 DEF Stackless!Destroy
    <2>2. co[on[c]] # "none"
      BY <1>9 DEF LFit, Common, LifeInv
    <2>3. Common' /\ (Up' => LSlot' /\ LStack(stack)' /\ LDone(stack, gone)')
      BY <1>1, <1>5, <1>7, <1>8, <1>9, <2>1, <2>2, LRequest DEF LFit
    <2>. QED  BY <2>3 DEF LSafe
  <1>10. CASE on[c] \notin Coroutines
    <2>1. stack' = v /\ UNCHANGED <<co, result, slot, canceled, queue, failed>>
      BY <1>6, <1>10 DEF Stackless!Destroy, Stackless!tokenVars
    <2>2. NeverTouchedDead'
      BY <2>1, NothingFails DEF LFit, Common
    <2>3. CoTypeOK'
      BY <1>1, <1>5, <1>8, <2>1, <2>2 DEF LFit, Common, CoTypeOK, Shrinks
    <2>4. AwaitInv'
      <3>1. Keeps /\ Buries
        BY <2>1 DEF Keeps, Buries
      <3>. QED  BY <1>1, <1>8, <2>1, <3>1, IdleAwaits DEF LFit, Common
    <2>5. LifeInv' /\ LSlot'
      BY <1>1, <2>1 DEF LFit, Common, LifeInv, LSlot
    <2>6. LStack(v)' /\ LDone(v, gone)'
      BY <1>1, <1>5, <2>1 DEF LStack, LShape, LFrame, LOnce, LRun, LDone
    <2>7. LStack(stack)' /\ LDone(stack, gone)'
      BY <2>1, <2>6, LSameStack
    <2>. QED  BY <2>3, <2>4, <2>5, <2>7 DEF LSafe, Common
  <1>. QED  BY <1>9, <1>10

LEMMA LDestroyed ==
  ASSUME LFit, NEW c \in Coroutines, Stackless!Done(c), UNCHANGED <<ptr, previous>>
  PROVE  LFit'
  <1>1. /\ Head(stack) = [frame |-> "done", of |-> c] /\ stack # <<>> /\ stack \in Seq(Frames)
        /\ stack' = Tail(stack) /\ Stackless!Complete(c, "canceled")
        /\ UNCHANGED <<no, on, canceled, promises, senders, firing, giving, gone>>
    BY Types DEF Stackless!Done, Stackless!Top, Stackless!Frame, Stackless!awaitVars, LFit, Common
  <1>2. PICK x \in Frames, u \in Seq(Frames) :
          /\ x = Head(stack) /\ u = Tail(stack) /\ stack = <<x>> \o u
          /\ x.frame = "done" /\ x.of = c
    <2>1. PICK x \in Frames, u \in Seq(Frames) : x = Head(stack) /\ u = Tail(stack) /\ stack = <<x>> \o u
      BY <1>1, Unstacked
    <2>2. x.frame = "done" /\ x.of = c
      BY <1>1, <2>1
    <2>. QED  BY <2>1, <2>2
  <1>3. /\ co[c] = "waiting" /\ slot[c] = "run" /\ LShape(u) /\ LOnce(u)
        /\ \A i \in 1..Len(u) : u[i].frame # "submit" => u[i].of # c
    <2>1. LShape(stack) /\ LOnce(stack)
      BY DEF LFit, LStack
    <2>2. /\ x.frame \in {"destroy", "done"} => co[x.of] = "waiting" /\ slot[x.of] = "run"
          /\ \A i \in 1..Len(u) : x.frame # "submit" /\ u[i].frame # "submit" => u[i].of # x.of
          /\ LShape(u) /\ LOnce(u)
      BY <1>2, <2>1, LTop
    <2>. QED  BY <1>2, <2>2
  <1>4. \A f, d : OnStack(stack, f, d) <=> (x.frame = f /\ x.of = d) \/ OnStack(u, f, d)
    <2>a. stack = <<x>> \o u
      BY <1>2
    <2>. QED  BY <2>a, Stacked
  <1>5. /\ Len(stack) = Len(u) + 1 /\ Len(u) \in Nat /\ stack[1] = x
        /\ \A i \in 1..Len(u) : stack[i + 1] = u[i]
    <2>a. stack = <<x>> \o u
      BY <1>2
    <2>. QED  BY <2>a, Stacked
  <1>6. <<c, no[c]>> \in gone
    <2>1. 1 \in 1..Len(stack) /\ stack[1].frame = "done" /\ stack[1].of = c
      BY <1>2, <1>5
    <2>2. LDone(stack, gone)
      BY DEF LFit
    <2>. QED  BY <2>1, <2>2 DEF LDone
  <1>7. PICK q : Ends(c, "canceled", q)
    BY <1>1, StacklessEnds DEF LFit, Common
  <1>8. /\ Common' /\ co'[c] = "dead" /\ slot'[c] = "none"
        /\ \A d \in Coroutines : d # c => co'[d] = co[d] /\ slot'[d] = slot[d]
    <2>1. Shrinks /\ canceled' \in [Coroutines -> BOOLEAN] /\ gone' \in SUBSET Awaits
      BY <1>1 DEF Shrinks, LFit, Common, CoTypeOK
    <2>2. stack' \in Seq(Frames)
      BY <1>1, <1>2
    <2>3. /\ previous' \in [Coroutines -> Coroutines \cup {Null}]
          /\ ptr' \in Coroutines \cup {Null}
      BY Types DEF LFit, Common
    <2>. QED  BY <1>1, <1>3, <1>6, <1>7, <2>1, <2>2, <2>3, EndsOnce DEF LFit
  <1>9. LSlot'
    BY <1>8 DEF LFit, LSlot
  <1>10. \A i \in 1..Len(u) : u[i].of \in Coroutines /\ u[i].of # c
    <2>1. ASSUME NEW i \in 1..Len(u)
          PROVE  u[i].of \in Coroutines
      <3>1. u[i] \in Frames
        BY <2>1, NotEmpty
      <3>. QED  BY <3>1 DEF Frames
    <2>2. ASSUME NEW i \in 1..Len(u), u[i].frame = "submit"
          PROVE  u[i].of # c
      <3>1. LFrame(u, i)
        BY <1>3 DEF LShape
      <3>. QED  BY <1>3, <2>2, <3>1 DEF LFrame
    <2>. QED  BY <1>3, <2>1, <2>2
  <1>11. LShape(u)'
    BY <1>1, <1>3, <1>8, <1>10, LStays
  <1>12. LRun(u)'
    <2>1. LRun(stack)
      BY DEF LFit, LStack
    <2>2. ASSUME NEW d \in Coroutines, co'[d] = "running"
          PROVE  OnStack(u, "run", d) /\ (canceled'[d] => OnStack(u, "submit", d))
      <3>1. d # c
        BY <1>8, <2>2
      <3>2. OnStack(stack, "run", d) /\ (canceled[d] => OnStack(stack, "submit", d))
        BY <1>8, <2>1, <2>2, <3>1 DEF LRun
      <3>. QED  BY <1>1, <1>2, <1>4, <3>2
    <2>3. ASSUME NEW d \in Coroutines, co'[d] = "waiting", canceled'[d]
          PROVE  OnStack(u, "destroy", d) \/ OnStack(u, "done", d) \/ OnStack(u, "submit", d)
      <3>1. d # c
        BY <1>8, <2>3
      <3>2. OnStack(stack, "destroy", d) \/ OnStack(stack, "done", d) \/ OnStack(stack, "submit", d)
        BY <1>1, <1>8, <2>1, <2>3, <3>1 DEF LRun
      <3>. QED  BY <1>2, <1>4, <3>1, <3>2
    <2>4. ASSUME NEW d \in Coroutines, co'[d] \in {"waiting", "running"}
          PROVE  slot'[d] = "run" \/ OnStack(u, "submit", d)
      <3>1. d # c
        BY <1>8, <2>4
      <3>2. slot[d] = "run" \/ OnStack(stack, "submit", d)
        BY <1>8, <2>1, <2>4, <3>1 DEF LRun
      <3>. QED  BY <1>2, <1>4, <1>8, <3>1, <3>2
    <2>. QED  BY <2>2, <2>3, <2>4 DEF LRun
  <1>13. LDone(u, gone)'
    <2>1. SUFFICES ASSUME NEW i \in 1..Len(u), u[i].frame = "done"
                   PROVE  <<u[i].of, no[u[i].of]>> \in gone
      BY <1>1 DEF LDone
    <2>2. i + 1 \in 1..Len(stack) /\ stack[i + 1] = u[i]
      BY <1>5
    <2>3. LDone(stack, gone)
      BY DEF LFit
    <2>. QED  BY <2>1, <2>2, <2>3 DEF LDone
  <1>14. LStack(u)'
    BY <1>3, <1>11, <1>12 DEF LStack, LOnce
  <1>15. stack' = u
    BY <1>1, <1>2
  <1>16. LStack(stack)' /\ LDone(stack, gone)'
    BY <1>13, <1>14, <1>15, LSameStack
  <1>. QED  BY <1>8, <1>9, <1>16 DEF LFit

\* What the other threads do.  A receiver may write to what is freed; nothing is claimed
\* of what follows then.
LEMMA LAnswers ==
  ASSUME LFit, NEW a, UNCHANGED <<ptr, previous>>,
         \/ a \in promises /\ Stackless!Resolve(a)
         \/ a \in senders /\ Stackless!Fire(a)
         \/ a \in firing /\ Stackless!Look(a)
         \/ a \in giving /\ Stackless!Give(a)
  PROVE  LFit'
  <1>1. /\ a \in Awaits
        /\ UNCHANGED <<co, no, on, result, slot, canceled, stack, ptr, previous, gone>>
    BY DEF LFit, Common, CoTypeOK, Stackless!Resolve, Stackless!Fire, Stackless!Look,
           Stackless!Give, Stackless!coVars, Stackless!tokenVars, Stackless!threadVars
  <1>2. LSlot' /\ LStack(stack)' /\ LDone(stack, gone)'
    BY <1>1, LSame
  <1>3. /\ stack' \in Seq(Frames) /\ ptr' \in Coroutines \cup {Null}
        /\ previous' \in [Coroutines -> Coroutines \cup {Null}]
    BY <1>1, Types DEF LFit, Common
  <1>4. CASE a \in promises /\ Stackless!Resolve(a)
    <2>1. /\ promises' = promises \ {a}
          /\ queue' = Append(queue, [task |-> "resume", of |-> a[1], no |-> a[2]])
          /\ UNCHANGED <<senders, firing, giving, failed>>
      BY <1>4 DEF Stackless!Resolve, Stackless!ResumeTask
    <2>2. Shrinks /\ NeverTouchedDead'
      BY <1>1, <2>1, NothingFails DEF Shrinks, LFit, Common
    <2>3. a \in gone \/ a \notin promises' \cup senders' \cup firing' \cup giving'
      BY <1>1, <1>4, <2>1, Sole DEF LFit, Common
    <2>4. Common'
      BY <1>1, <1>3, <1>4, <2>1, <2>2, <2>3, Posted DEF LFit
    <2>. QED  BY <1>2, <2>4 DEF LFit
  <1>5. CASE a \in senders /\ Stackless!Fire(a)
    <2>1. /\ senders' = senders \ {a} /\ firing' = firing \cup {a}
          /\ UNCHANGED <<queue, promises, giving, failed>>
      BY <1>5 DEF Stackless!Fire, Stackless!threadVars
    <2>2. NeverTouchedDead'
      BY <2>1, NothingFails DEF LFit, Common
    <2>3. Common'
      BY <1>1, <1>3, <1>5, <2>1, <2>2, Moved DEF LFit
    <2>. QED  BY <1>2, <2>3 DEF LFit
  <1>6. CASE a \in firing /\ Stackless!Look(a)
    <2>1. /\ firing' = firing \ {a} /\ giving' \in {giving, giving \cup {a}}
          /\ UNCHANGED <<queue, promises, senders, failed>>
      BY <1>6 DEF Stackless!Look, Stackless!threadVars
    <2>2. NeverTouchedDead'
      BY <2>1, NothingFails DEF LFit, Common
    <2>3. Common'
      BY <1>1, <1>3, <1>6, <2>1, <2>2, Moved DEF LFit
    <2>. QED  BY <1>2, <2>3 DEF LFit
  <1>7. CASE a \in giving /\ Stackless!Give(a)
    <2>1. giving' = giving \ {a} /\ UNCHANGED <<promises, senders, firing>>
      BY <1>7 DEF Stackless!Give
    <2>2. Shrinks
      BY <1>1, <2>1 DEF Shrinks
    <2>3. Common'
      <3>1. CASE a \in gone
        <4>1. UNCHANGED queue /\ NeverTouchedDead'
          BY <1>7, <3>1 DEF Stackless!Give, NeverTouchedDead
        <4>. QED  BY <1>1, <1>3, <2>1, <2>2, <4>1, Moved DEF LFit
      <3>2. CASE a \notin gone
        <4>1. /\ queue' = Append(queue, [task |-> "resume", of |-> a[1], no |-> a[2]])
              /\ UNCHANGED failed
          BY <1>7, <3>2 DEF Stackless!Give, Stackless!ResumeTask
        <4>2. NeverTouchedDead'
          BY <4>1, NothingFails DEF LFit, Common
        <4>3. a \notin promises' \cup senders' \cup firing' \cup giving'
          BY <1>1, <1>7, <2>1, <3>2, Sole DEF LFit, Common
        <4>. QED  BY <1>1, <1>3, <1>7, <2>1, <2>2, <4>1, <4>2, <4>3, Posted DEF LFit
      <3>. QED  BY <3>1, <3>2
    <2>. QED  BY <1>2, <2>3 DEF LFit
  <1>. QED  BY <1>4, <1>5, <1>6, <1>7

\* Nothing goes on once something failed.
LEMMA LUp ==
  ASSUME Stackless!Thread \/ Stackless!Sender \/ Stackless!Others
  PROVE  Up
  <1>1. Stackless!Up => Up
    BY Zenon DEF Stackless!Up, Up
  <1>2. Stackless!Thread => Stackless!Up
    <2>1. SUFFICES ASSUME NEW c \in Coroutines,
                          \/ Stackless!Start(c) \/ Stackless!SubmitEnds(c) \/ Stackless!Resume(c)
                          \/ Stackless!Destroy(c) \/ Stackless!Done(c) \/ Stackless!Code(c)
                   PROVE  Stackless!Up
      BY DEF Stackless!Thread
    <2>2. Stackless!Start(c) \/ Stackless!Resume(c) => Stackless!Up
      BY DEF Stackless!Start, Stackless!Resume, Stackless!TakeTask
    <2>3. Stackless!SubmitEnds(c) \/ Stackless!Destroy(c) \/ Stackless!Done(c) => Stackless!Up
      BY DEF Stackless!SubmitEnds, Stackless!Destroy, Stackless!Done, Stackless!Top
    <2>4. Stackless!Code(c) => Stackless!Up
      BY DEF Stackless!Code, Stackless!Finish, Stackless!Nest, Stackless!Return, Stackless!Spawn,
             Stackless!Cancel, Stackless!Suspend, Stackless!UserStep, Stackless!Top
    <2>. QED  BY <2>1, <2>2, <2>3, <2>4
  <1>3. Stackless!Sender => Stackless!Up
    BY DEF Stackless!Sender, Stackless!Look, Stackless!Give
  <1>4. Stackless!Others => Stackless!Up
    BY DEF Stackless!Others, Stackless!CancelByTask, Stackless!Resolve, Stackless!Fire
  <1>. QED  BY <1>1, <1>2, <1>3, <1>4

\* Any of them.
LEMMA LStep ==
  ASSUME LSafe, UNCHANGED <<ptr, previous>>, Stackless!Thread \/ Stackless!Sender \/ Stackless!Others
  PROVE  LSafe'
  <1>1. LFit
    BY LUp DEF LSafe, LFit
  <1>2. LFit' => LSafe'
    BY DEF LSafe, LFit
  <1>3. CASE Stackless!Thread
    <2>1. PICK c \in Coroutines :
            \/ Stackless!Start(c) \/ Stackless!SubmitEnds(c) \/ Stackless!Resume(c)
            \/ Stackless!Destroy(c) \/ Stackless!Done(c) \/ Stackless!Code(c)
      BY <1>3 DEF Stackless!Thread
    <2>2. CASE Stackless!Code(c)
      <3>1. CASE Stackless!Finish(c)
        BY <1>1, <1>2, <3>1, LFinish
      <3>2. CASE Stackless!Nest(c) \/ Stackless!Return(c)
        BY <1>1, <1>2, <3>2, LWithin
      <3>3. ASSUME NEW d \in Coroutines, Stackless!Spawn(c, d)
            PROVE  LSafe'
        BY <1>1, <1>2, <3>3, LSpawn
      <3>4. ASSUME NEW d \in Coroutines, Stackless!Cancel(c, d)
            PROVE  LSafe'
        BY <1>1, <3>4, LCancel
      <3>5. ASSUME NEW w \in Coroutines \cup {"promise", "sender", "ready"}, Stackless!Suspend(c, w)
            PROVE  LSafe'
        BY <1>1, <1>2, <3>5, LSuspend
      <3>. QED  BY <2>2, <3>1, <3>2, <3>3, <3>4, <3>5 DEF Stackless!Code
    <2>. QED  BY <1>1, <1>2, <2>1, <2>2, LStart, LSubmitEnds, LResume, LDestroy, LDestroyed
  <1>4. CASE Stackless!Sender
    BY <1>1, <1>2, <1>4, LAnswers DEF Stackless!Sender
  <1>5. CASE Stackless!Others
    <2>1. ASSUME NEW d \in Coroutines, Stackless!CancelByTask(d)
          PROVE  LSafe'
      BY <1>1, <2>1, LCancelByTask
    <2>2. ASSUME NEW a \in promises, Stackless!Resolve(a)
          PROVE  LSafe'
      BY <1>1, <1>2, <2>2, LAnswers
    <2>3. ASSUME NEW a \in senders, Stackless!Fire(a)
          PROVE  LSafe'
      BY <1>1, <1>2, <2>3, LAnswers
    <2>. QED  BY <1>5, <2>1, <2>2, <2>3 DEF Stackless!Others
  <1>. QED  BY <1>3, <1>4, <1>5

--------------------------------------------------------------------------------
(* The theorems *)

\* What every reachable state satisfies, with either header.
CoInv ==
  /\ header \in {"stackful", "stackless"} /\ Common
  /\ header = "stackful" => FSlot /\ FStack(stack)
  /\ header = "stackless" => LSafe

\* The code starts with one coroutine that is queued, and nothing else.
LEMMA CoInit ==
  ASSUME Init  PROVE CoInv
  <1>1. /\ header \in {"stackful", "stackless"} /\ giving = {}
        /\ co = [c \in Coroutines |-> IF c = First THEN "queued" ELSE "none"]
        /\ no = [c \in Coroutines |-> 0] /\ on = [c \in Coroutines |-> "ready"]
        /\ result = [c \in Coroutines |-> "none"]
        /\ slot = [c \in Coroutines |-> IF c = First THEN "start" ELSE "none"]
        /\ canceled = [c \in Coroutines |-> FALSE]
        /\ stack = <<>> /\ queue = <<[task |-> "start", of |-> First, no |-> 0]>>
        /\ promises = {} /\ senders = {} /\ firing = {} /\ gone = {}
        /\ ptr = Null /\ previous = [c \in Coroutines |-> Null]
    BY Zenon DEF Init, Stackful!Init
  <1>2. NeverTouchedDead
    BY Zenon DEF Init, Stackful!Init, NeverTouchedDead
  <1>3. PICK t \in Tasks : queue = <<t>> /\ t.task = "start"
    <2>1. PICK t : t = [task |-> "start", of |-> First, no |-> 0]
      OBVIOUS
    <2>2. t \in Tasks /\ t.task = "start"
      BY <2>1, CoroutineAssumption DEF Tasks
    <2>3. queue = <<t>>
      BY <1>1, <2>1
    <2>. QED  BY <2>2, <2>3
  <1>4. /\ queue \in Seq(Tasks) /\ \A i \in 1..Len(queue) : ~Resuming(queue[i])
    <2>1. <<t>> \in Seq(Tasks) /\ \A i \in 1..Len(<<t>>) : <<t>>[i] = t
      OBVIOUS
    <2>. QED  BY <1>3, <2>1 DEF Resuming
  <1>5. CoTypeOK
    <2>1. stack \in Seq(Frames)
      BY <1>1
    <2>2. /\ co \in [Coroutines -> States] /\ slot \in [Coroutines -> {"none", "start", "await", "run"}]
          /\ no \in [Coroutines -> Nat] /\ canceled \in [Coroutines -> BOOLEAN]
          /\ on \in [Coroutines -> Coroutines \cup {"promise", "sender", "ready"}]
          /\ result \in [Coroutines -> {"none", "value", "error", "canceled"}]
          /\ previous \in [Coroutines -> Coroutines \cup {Null}]
      BY <1>1 DEF States
    <2>. QED  BY <1>1, <1>2, <1>4, <2>1, <2>2 DEF CoTypeOK
  <1>6. AwaitInv
    BY <1>1, <1>4 DEF AwaitInv
  <1>7. LifeInv
    BY <1>1, CoroutineAssumption DEF LifeInv
  <1>8. (\A d \in Coroutines : Quiet(d) /\ Calm(d)) /\ FSlot /\ LSlot
    BY <1>1 DEF Quiet, Calm, FSlot, LSlot
  <1>9. FStack(<<>>) /\ LStack(<<>>) /\ LDone(<<>>, gone)
    BY <1>1, <1>8, FNone, LNone
  <1>. QED  BY <1>1, <1>5, <1>6, <1>7, <1>8, <1>9 DEF CoInv, Common, LSafe

LEMMA CoStep ==
  ASSUME CoInv, [Next]_vars  PROVE CoInv'
  <1>1. CASE UNCHANGED vars
    <2>1. /\ UNCHANGED <<header, co, no, on, result, slot, canceled, stack, queue, promises, senders,
                         firing, gone, failed, ptr, previous, giving>>
      BY <1>1 DEF vars, both, stackfulVars, stacklessVars
    <2>2. Common'
      <3>1. Shrinks /\ NeverTouchedDead'
        BY <2>1, NothingFails DEF Shrinks, CoInv, Common
      <3>. QED  BY <2>1, <3>1, Moved, Types DEF CoInv, Common
    <2>3. FSlot /\ FStack(stack) => FSlot' /\ FStack(stack)'
      BY <2>1, <2>2, FSame DEF FSafe, CoInv
    <2>4. LSlot /\ LStack(stack) /\ LDone(stack, gone) => LSlot' /\ LStack(stack)' /\ LDone(stack, gone)'
      BY <2>1, <2>2, LSame DEF LFit, CoInv
    <2>5. Up' => Up
      BY <2>1, Zenon DEF Up
    <2>. QED  BY <2>1, <2>2, <2>3, <2>4, <2>5 DEF CoInv, LSafe
  <1>2. CASE /\ header = "stackful" /\ UNCHANGED <<header, stacklessVars>>
             /\ Stackful!Thread \/ Stackful!Sender \/ Stackful!Others
    <2>1. FSafe /\ UNCHANGED giving
      BY <1>2 DEF CoInv, FSafe, stacklessVars
    <2>2. FSafe'
      BY <1>2, <2>1, FStep
    <2>. QED  BY <1>2, <2>2 DEF CoInv, FSafe
  <1>3. CASE /\ header = "stackless" /\ UNCHANGED <<header, stackfulVars>>
             /\ Stackless!Thread \/ Stackless!Sender \/ Stackless!Others
    <2>1. LSafe /\ UNCHANGED <<ptr, previous>>
      BY <1>3 DEF CoInv, stackfulVars
    <2>2. LSafe'
      BY <1>3, <2>1, LStep
    <2>. QED  BY <1>3, <2>2 DEF CoInv, LSafe
  <1>. QED  BY <1>1, <1>2, <1>3 DEF Next, Thread, Sender, Others

\* What is on the stack of the thread, who is canceled, who awaits what and which tasks
\* are posted agree, whatever the coroutines do to each other.
THEOREM CoInvariant == SafeSpec => []CoInv
  BY CoInit, CoStep, PTL DEF SafeSpec

\* No coroutine that is freed is resumed, none is destroyed after it ended, and no future
\* is completed twice: a cancelation outruns what was posted before it.
THEOREM NoUseAfterEnd == SafeSpec => []NeverTouchedDead
  <1>1. CoInv => NeverTouchedDead
    BY DEF CoInv, Common, CoTypeOK
  <1>. QED  BY <1>1, CoInvariant, PTL

\* request_cancel() leaves no coroutine of the chain without its result, unless its own
\* code is on the stack.
THEOREM SynchronousCancel == SafeSpec => []CancelIsSynchronous
  <1>1. ASSUME CoInv, NEW c \in Coroutines, canceled[c], \A i \in DOMAIN stack : stack[i].of # c
        PROVE  result[c] # "none" \/ ~Up
    <2>1. stack \in Seq(Frames) /\ co[c] \in States
      BY <1>1, Types DEF CoInv, Common
    <2>2. \A f : ~OnStack(stack, f, c)
      <3>1. DOMAIN stack = 1..Len(stack)
        BY <2>1
      <3>2. \A f : [frame |-> f, of |-> c].of = c
        OBVIOUS
      <3>. QED  BY <1>1, <3>1, <3>2 DEF OnStack
    <2>3. co[c] \notin {"none", "queued"}
      BY <1>1 DEF CoInv, Common, LifeInv
    <2>4. CASE header = "stackful"
      <3>1. FRun(stack)
        BY <1>1, <2>4 DEF CoInv, FStack
      <3>2. co[c] \notin {"running", "waiting"}
        BY <1>1, <2>2, <3>1 DEF FRun
      <3>. QED  BY <1>1, <2>1, <2>3, <3>2 DEF CoInv, Common, LifeInv, States
    <2>5. CASE header = "stackless" /\ Up
      <3>1. LRun(stack)
        BY <1>1, <2>5 DEF CoInv, LSafe, LStack
      <3>2. co[c] \notin {"running", "waiting"}
        BY <1>1, <2>2, <3>1 DEF LRun
      <3>. QED  BY <1>1, <2>1, <2>3, <3>2 DEF CoInv, Common, LifeInv, States
    <2>. QED  BY <1>1, <2>4, <2>5 DEF CoInv
  <1>2. CoInv => CancelIsSynchronous
    BY <1>1 DEF CancelIsSynchronous
  <1>. QED  BY <1>2, CoInvariant, PTL

\* Stackful code, resumed or unwinding, finds its own coroutine as the current one; work it
\* dispatches and tasks of the executor find none.
THEOREM CurrentCoroutine == SafeSpec => []CurrentIsInnermost
  <1>1. ASSUME CoInv, header = "stackful"
        PROVE  IF stack = <<>> THEN ptr = Null
               ELSE /\ Head(stack).frame \in {"run", "unwind"} => ptr = Head(stack).of
                    /\ Head(stack).frame = "work" => ptr = Null
    <2>1. FStack(stack) /\ stack \in Seq(Frames)
      BY <1>1, Types DEF CoInv, Common
    <2>2. CASE stack = <<>>
      <3>1. FStack(<<>>)
        BY <2>1, <2>2 DEF FStack, FShape, FOnce, FRun, FPtr, OnStack, Base
      <3>. QED  BY <2>2, <3>1, FNone
    <2>3. CASE stack # <<>>
      <3>1. PICK x \in Frames, u \in Seq(Frames) :
              x = Head(stack) /\ u = Tail(stack) /\ stack = <<x>> \o u
        BY <2>1, <2>3, Unstacked
      <3>2. /\ x.frame = "run" => u = <<>>
            /\ x.frame = "work" => u = <<[frame |-> "run", of |-> x.of]>>
        BY <2>1, <3>1, FTop
      <3>3. stack[1] = x /\ Len(stack) > 0 /\ Len(stack) = Len(u) + 1 /\ 1 \in 1..Len(stack)
        <4>1. Len(stack) = Len(u) + 1 /\ Len(u) \in Nat /\ stack[1] = x
          BY <3>1, Stacked
        <4>. QED  BY <4>1
      <3>4. FPtr(stack)
        BY <2>1 DEF FStack
      <3>5. x.frame = "unwind" => ptr = x.of
        BY <3>3, <3>4 DEF FPtr
      <3>6. x.frame = "work" => ptr = Null
        BY <3>3, <3>4 DEF FPtr, Base
      <3>7. ASSUME x.frame = "run"
            PROVE  ptr = x.of
        <4>1. Len(u) = 0
          BY <3>2, <3>7
        <4>2. Len(stack) = 1
          BY <3>3, <4>1
        <4>3. x.of \in Coroutines /\ x = [frame |-> "run", of |-> x.of]
          BY <3>7 DEF Frames
        <4>. QED  BY <2>1, <3>3, <4>2, <4>3, FCode
      <3>. QED  BY <2>3, <3>1, <3>5, <3>6, <3>7
    <2>. QED  BY <2>2, <2>3
  <1>2. CoInv => CurrentIsInnermost
    BY <1>1 DEF CurrentIsInnermost
  <1>. QED  BY <1>2, CoInvariant, PTL
================================================================================
