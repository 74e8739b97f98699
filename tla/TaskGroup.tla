------------------------------- MODULE TaskGroup -------------------------------
(***************************************************************************)
(* task_canceler.hpp and future_group.hpp: threads run tasks in the group   *)
(* and add futures to it, others terminate it, and a user waits with        *)
(* when_any() for the futures that it has a copy of.                        *)
(*                                                                          *)
(* The two classes differ in who starts the task, and in which terminate()  *)
(* closes the group: only the destructor of a task_canceler, any one of a   *)
(* future_group.                                                            *)
(***************************************************************************)
EXTENDS When

CONSTANTS Terminators, \* the calls of when_all() that terminate() makes
          Kinds,       \* what the others are, that users make
          Destructor,  \* the terminate() that the destructor of task_canceler makes
          Reentrant    \* tasks whose end, in a cancelation, comes back to the group

Users == Whens \ Terminators

ASSUME GroupAssumption == /\ Terminators \subseteq Whens /\ None \notin Whens
                          /\ Kinds \subseteq {"all", "any", "auto"}
                          /\ Destructor \in Terminators
                          /\ Reentrant \subseteq Futures

VARIABLES
  class,       \* "task_canceler" or "future_group"
  lock,        \* the terminate() that holds _mutex, or None
  joining,     \* "idle", "returned" or "refused": run() of each task
  members,     \* _futures, in any order
  terminating, \* _terminating
  before,      \* the tasks that were in the group when each terminate() began
  stuck        \* a thread waits for the _mutex that it holds

groupVars == <<class, lock, joining, members, terminating, before, stuck>>
vars == <<whenVars, groupVars>>

Canceler == class = "task_canceler"

Init == /\ class \in {"task_canceler", "future_group"}
        /\ WhenInit(IF Canceler THEN "none" ELSE "pending")
        /\ lock = None
        /\ joining = [f \in Futures |-> "idle"]
        /\ members = {}
        /\ terminating = FALSE
        /\ before = [k \in Terminators |-> {}]
        /\ stuck = FALSE

Free == ~aborted /\ lock = None

\* A task_canceler is not used once its destructor runs.
Open == Canceler => pc[Destructor] = "idle"

--------------------------------------------------------------------------------
(* run() and add() *)

\* The future that run() gets from the function it calls, or that add() is given.
Started(f) == IF Canceler THEN {"pending", "ended"} ELSE {state[f]}

\* MUTANT: collect() removes the futures that are not ready.
Collect_Pending(fs) == {g \in fs : state[g] = "ended"}

\* collect() removes the futures that are ready.
Collect(fs) == {g \in fs : state[g] # "ended"}

\* run() or add() in a group that is terminating throws.
Refuse(f) ==
  /\ Free /\ Open /\ joining[f] = "idle" /\ terminating
  /\ joining' = [joining EXCEPT ![f] = "refused"]
  /\ UNCHANGED <<whenVars, class, lock, members, terminating, before, stuck>>

\* run() calls the function that starts the task, under _mutex.  A future that is
\* not ready takes its place.
Join(f) ==
  /\ Free /\ Open /\ joining[f] = "idle" /\ ~terminating
  /\ joining' = [joining EXCEPT ![f] = "returned"]
  /\ state' \in {[state EXCEPT ![f] = s] : s \in Started(f)}
  /\ members' = IF state'[f] = "ended" THEN members
                ELSE Collect(members) \cup {f}
  /\ UNCHANGED <<told, loopVars, callbackVars, askVars, aborted,
                 class, lock, terminating, before, stuck>>

--------------------------------------------------------------------------------
(* terminate() *)

\* terminate() by a user, or by the destructor when every other call returned.
Terminate(k) ==
  /\ Free /\ pc[k] = "idle"
  /\ IF Canceler /\ k = Destructor
     THEN \A j \in Terminators \ {k} : pc[j] \in {"idle", "returned"}
     ELSE Open
  /\ lock' = k
  /\ terminating' = (terminating \/ ~Canceler \/ k = Destructor)
  /\ before' = [before EXCEPT ![k] = {f \in Futures : joining[f] = "returned"}]
  /\ pc' = [pc EXCEPT ![k] = "telling"]
  /\ \E fs \in SetToSeqs(members) : list' = [list EXCEPT ![k] = fs]
  /\ UNCHANGED <<futureVars, kind, at, inline, callbackVars, askVars, aborted,
                 class, joining, members, stuck>>

\* request_cancel() on each member, under _mutex: the task may end at once, and a
\* synchronous continuation of its future use the group.
Tell(k) ==
  /\ ~aborted /\ ~stuck /\ pc[k] = "telling" /\ at[k] <= Len(list[k])
  /\ LET f == list[k][at[k]]
     IN /\ told' = told \cup Pending({f})
        /\ stuck' \in BOOLEAN
        /\ stuck' => f \in Reentrant /\ state[f] = "pending"
  /\ at' = [at EXCEPT ![k] = @ + 1]
  /\ UNCHANGED <<state, kind, pc, list, inline, callbackVars, askVars, aborted,
                 class, lock, joining, members, terminating, before>>

\* when_all() of the members: at once a result if there are none.
WaitForAll(k) ==
  /\ ~aborted /\ ~stuck /\ pc[k] = "telling" /\ at[k] > Len(list[k])
  /\ pc' = [pc EXCEPT ![k] = "looping"]
  /\ at' = [at EXCEPT ![k] = 1]
  /\ result' = [result EXCEPT ![k] = IF list[k] = <<>> THEN "all" ELSE @]
  /\ UNCHANGED <<futureVars, kind, list, inline, cb, stored, count, triggered, moved,
                 askVars, aborted, groupVars>>

\* The vector is cleared, and terminate() returns.
Terminated(k) ==
  /\ LoopIsOver(k) /\ k \in Terminators
  /\ lock' = None
  /\ members' = {}
  /\ pc' = [pc EXCEPT ![k] = "returned"]
  /\ UNCHANGED <<futureVars, kind, list, at, inline, callbackVars, askVars, aborted,
                 class, joining, terminating, before, stuck>>

--------------------------------------------------------------------------------
(* when_all() and when_any() by a user *)

\* On the futures that run() returned to it: those of a future_group were moved there.
When(w) ==
  /\ ~aborted /\ Canceler /\ w \in Users /\ pc[w] = "idle"
  /\ LET fs == {f \in Futures : joining[f] = "returned"}
     IN /\ fs # {}
        /\ \E s \in SetToSeqs(fs) : list' = [list EXCEPT ![w] = s]
  /\ \E k \in Kinds : kind' = [kind EXCEPT ![w] = k]
  /\ pc' = [pc EXCEPT ![w] = "looping"]
  /\ UNCHANGED <<futureVars, at, inline, callbackVars, askVars, aborted, groupVars>>

Returns(w) ==
  /\ LoopIsOver(w) /\ w \in Users
  /\ pc' = [pc EXCEPT ![w] = "returned"]
  /\ UNCHANGED <<futureVars, kind, list, at, inline, callbackVars, askVars, aborted, groupVars>>

--------------------------------------------------------------------------------
CallStep(w) == \/ Tell(w) \/ WaitForAll(w) \/ Terminated(w) \/ Returns(w)
               \/ WhenStep(w) /\ UNCHANGED groupVars

Next == \/ \E f \in Futures : Refuse(f) \/ Join(f)
        \/ \E f \in Futures : End(f) /\ UNCHANGED groupVars
        \/ \E w \in Terminators : Terminate(w)
        \/ \E w \in Users : When(w)
        \/ \E w \in Whens : CallStep(w)
        \/ \E w \in Users : Ask(w) /\ UNCHANGED groupVars

SafeSpec == Init /\ [][Next]_vars

\* Threads go on, and a task that was told to stop ends some day.
Fairness == /\ \A f \in Futures : WF_vars(f \in told /\ End(f) /\ UNCHANGED groupVars)
            /\ \A w \in Whens : WF_vars(CallStep(w))

Spec == SafeSpec /\ Fairness

--------------------------------------------------------------------------------
(* Properties *)

\* After terminate(), each task that was in the group when it began has ended or
\* was told to.
NoneIsForgotten ==
  \A k \in Terminators : pc[k] = "returned" =>
    \A f \in before[k] : state[f] = "ended" \/ f \in told

\* A result of when_all() has every future in its place, each ended; that of
\* when_any() is one that ended, and it is set once: no callback is about to set
\* it again (the asserts of when_all_callback and of the shared state).
ResultsAreComplete ==
  \A w \in Whens :
    /\ count[w] <= Len(list[w])
    /\ result[w] = "all" => \A f \in Range(list[w]) : state[f] = "ended" /\ f \in stored[w]
    /\ result[w] \in Futures => /\ state[result[w]] = "ended"
                                /\ \A f \in Futures : cb[w][f] # "won"

\* request_cancel() on the future of a call reaches each of its futures, whichever
\* of them end meanwhile.
CancelReachesAll ==
  \A w \in asked : asking[w] = 0 =>
    \A f \in Range(list[w]) : state[f] = "ended" \/ f \in told

\* The future of terminate() gets ready: its members end when they are told.
TerminateEnds ==
  \A k \in Terminators :
    pc[k] # "idle" ~> (result[k] = "all" \/ stuck \/ aborted)

================================================================================
