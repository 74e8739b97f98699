------------------------------- MODULE Semaphore -------------------------------
(***************************************************************************)
(* semaphore.hpp over concurrent_queue.hpp: calls of acquire() and of       *)
(* get_scope_lock(), from any threads, with the releases, the cancelations  *)
(* and the destruction that may come meanwhile.                             *)
(*                                                                          *)
(* A call pops the queue of permits under _mutex, then attaches to the      *)
(* future it got the synchronous continuation that makes the user's future. *)
(* A push gives the permit to the first waiter while it holds _mutex: what  *)
(* the waiter attached runs there, the user's own synchronous continuation  *)
(* included.                                                                *)
(***************************************************************************)
EXTENDS Integers, Sequences, FiniteSets

CONSTANTS Calls,     \* the calls of acquire() and get_scope_lock()
          Permits,   \* the argument of the constructor
          MaxExtra,  \* bound on the releases by code that acquired nothing
          Careless   \* calls whose permit may be released by what runs when it comes

ASSUME PermitsAssumption == /\ Permits \in Nat
                            /\ MaxExtra \in Nat
                            /\ Careless \subseteq Calls

VARIABLES
  queue,    \* how many permits are in _queue
  waiters,  \* _waiters: the calls whose promise is there
  progress,    \* how far each call is
  given,    \* the calls whose pop() was given a permit
  attached, \* calls with an immediate release attached to their future
  canceled, \* calls whose cancelation was requested while they waited
  arrived,  \* the calls in the order of their pop()
  extra,    \* how many bare releases there were
  stuck,    \* a push waits for the _mutex that it holds
  alive     \* the semaphore is not destroyed

vars == <<queue, waiters, progress, given, attached, canceled, arrived, extra, stuck, alive>>

Init == /\ queue = Permits
        /\ waiters = <<>>
        /\ progress = [c \in Calls |-> "idle"]
        /\ given = {} /\ attached = {} /\ canceled = {} /\ arrived = <<>>
        /\ extra = 0 /\ stuck = FALSE /\ alive = TRUE

\* Somebody may lock _mutex.
Lockable == alive /\ ~stuck

--------------------------------------------------------------------------------
(* Acquiring *)

\* MUTANT: pop() leaves the permit in the queue.
PopReady_Copies(c) ==
  /\ Lockable /\ progress[c] = "idle" /\ queue > 0
  /\ given' = given \cup {c}
  /\ arrived' = Append(arrived, c)
  /\ progress' = [progress EXCEPT ![c] = "popped"]
  /\ UNCHANGED <<queue, waiters, attached, canceled, extra, stuck, alive>>

\* pop() finds a permit: the future that it returns is ready.
PopReady(c) ==
  /\ Lockable /\ progress[c] = "idle" /\ queue > 0
  /\ queue' = queue - 1
  /\ given' = given \cup {c}
  /\ arrived' = Append(arrived, c)
  /\ progress' = [progress EXCEPT ![c] = "popped"]
  /\ UNCHANGED <<waiters, attached, canceled, extra, stuck, alive>>

\* MUTANT: the new waiter passes before the others.
PopWaits_First(c) ==
  /\ Lockable /\ progress[c] = "idle" /\ queue = 0
  /\ waiters' = <<c>> \o waiters
  /\ arrived' = Append(arrived, c)
  /\ progress' = [progress EXCEPT ![c] = "popped"]
  /\ UNCHANGED <<queue, given, attached, canceled, extra, stuck, alive>>

\* pop() finds none: it leaves a promise.
PopWaits(c) ==
  /\ Lockable /\ progress[c] = "idle" /\ queue = 0
  /\ waiters' = Append(waiters, c)
  /\ arrived' = Append(arrived, c)
  /\ progress' = [progress EXCEPT ![c] = "popped"]
  /\ UNCHANGED <<queue, given, attached, canceled, extra, stuck, alive>>

\* MUTANT: a continuation attached to a ready future is not run.
AndThen_NeverRuns(c) ==
  /\ progress[c] = "popped"
  /\ progress' = [progress EXCEPT ![c] = "waiting"]
  /\ UNCHANGED <<queue, waiters, given, attached, canceled, arrived, extra, stuck, alive>>

\* acquire() and get_scope_lock(), out of the lock: and_then() runs its callback
\* at once if the permit came, and leaves it in the future of pop() otherwise.
AndThen(c) ==
  /\ progress[c] = "popped"
  /\ progress' = [progress EXCEPT ![c] = IF c \in given THEN "held" ELSE "waiting"]
  /\ UNCHANGED <<queue, waiters, given, attached, canceled, arrived, extra, stuck, alive>>

\* The user attaches a synchronous continuation that releases the permit, or drops
\* the future of get_scope_lock(): the scope_lock dies when it is made.
LetGo(c) ==
  /\ c \in Careless /\ progress[c] = "waiting"
  /\ attached' = attached \cup {c}
  /\ UNCHANGED <<queue, waiters, progress, given, canceled, arrived, extra, stuck, alive>>

\* request_cancel() on the user's future: nobody listens to its token, so that the
\* call keeps its place in _waiters.
Cancel(c) ==
  /\ progress[c] = "waiting"
  /\ canceled' = canceled \cup {c}
  /\ UNCHANGED <<queue, waiters, progress, given, attached, arrived, extra, stuck, alive>>

--------------------------------------------------------------------------------
(* Releasing *)

\* push(), in a state where the calls are as "before": the first waiter is given
\* the permit.  If it has its continuation, this one runs here: it throws if the
\* token is canceled, and nobody has the permit; otherwise the user's future gets
\* it, and what the user attached to it runs.  If that releases, it locks _mutex
\* once more.
Push(before) ==
  \/ /\ waiters = <<>>
     /\ queue' = queue + 1
     /\ progress' = before
     /\ UNCHANGED <<waiters, given, stuck>>
  \/ /\ waiters # <<>>
     /\ LET w == Head(waiters)
            answer == IF w \in canceled THEN "canceled" ELSE "held"
        IN /\ given' = given \cup {w}
           /\ progress' = IF before[w] = "waiting" THEN [before EXCEPT ![w] = answer] ELSE before
           /\ stuck' = (before[w] = "waiting" /\ answer = "held" /\ w \in attached)
     /\ waiters' = Tail(waiters)
     /\ UNCHANGED queue

\* The user releases its permit, with release() or by the end of its scope_lock.
Release(c) ==
  /\ Lockable /\ progress[c] = "held"
  /\ Push([progress EXCEPT ![c] = "released"])
  /\ UNCHANGED <<attached, canceled, arrived, extra, alive>>

\* release() by code that acquired nothing: a permit more.
ReleaseExtra ==
  /\ Lockable /\ extra < MaxExtra
  /\ extra' = extra + 1
  /\ Push(progress)
  /\ UNCHANGED <<attached, canceled, arrived, alive>>

\* The semaphore is destroyed with its promises, when nobody holds a permit or is
\* inside a call: those who wait get a broken promise.
Destroy ==
  /\ Lockable
  /\ \A c \in Calls : progress[c] \notin {"popped", "held"}
  /\ alive' = FALSE
  /\ progress' = [c \in Calls |-> IF progress[c] = "waiting" THEN "broken" ELSE progress[c]]
  /\ waiters' = <<>>
  /\ queue' = 0
  /\ UNCHANGED <<given, attached, canceled, arrived, extra, stuck>>

--------------------------------------------------------------------------------
Next == \/ \E c \in Calls : \/ PopReady(c) \/ PopWaits(c) \/ AndThen(c)
                            \/ LetGo(c) \/ Cancel(c) \/ Release(c)
        \/ ReleaseExtra
        \/ Destroy

SafeSpec == Init /\ [][Next]_vars

\* A thread inside a call goes on, and who holds a permit releases it.  Nothing
\* makes anybody call, cancel or destroy.
Fairness == \A c \in Calls : WF_vars(AndThen(c)) /\ WF_vars(Release(c))

Spec == SafeSpec /\ Fairness

--------------------------------------------------------------------------------
(* Properties *)

Lost == {c \in given : progress[c] = "canceled"}

\* A permit is in the queue, with the call it was given to, or lost to a call that
\* was canceled before it came: none is duplicated, and none is lost otherwise.
PermitsAreConserved ==
  alive => queue + Cardinality({c \in given : progress[c] \in {"popped", "held"}})
                 + Cardinality(Lost) = Permits + extra

\* A permit goes to the calls in the order of their pop(), whether it was free or
\* handed over; and none stays in the queue while a promise waits (the two asserts
\* of concurrent_queue).
ServedInOrder ==
  /\ alive => queue = 0 \/ waiters = <<>>
  /\ \A i, j \in 1..Len(arrived) : i < j /\ arrived[j] \in given => arrived[i] \in given

\* A call that waits gets a permit or ends, unless every permit was lost to
\* canceled calls, or a push is stuck on the _mutex that it holds.
AnswersCome ==
  \A c \in Calls : progress[c] = "waiting" ~>
    (progress[c] # "waiting" \/ stuck \/ Cardinality(Lost) = Permits + extra)
================================================================================
