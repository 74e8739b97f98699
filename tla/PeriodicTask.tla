------------------------------ MODULE PeriodicTask ------------------------------
(***************************************************************************)
(* periodic_task.cpp: a callback run again and again, each time a period    *)
(* after it ended, by an executor, while any number of threads start and    *)
(* stop it.                                                                 *)
(*                                                                          *)
(* Each run has a chain of futures of its own: a timer (async_wait) or a    *)
(* task posted at once, then do_call(), then the future that the callback   *)
(* returned; _future is the end of the chain of the latest run.             *)
(*                                                                          *)
(* A critical section of the recursive _mutex is one step, with what it     *)
(* runs on the synchronous executor inside, but for reschedule(): it arms   *)
(* the timer first, and attaches do_call() and assigns _future afterwards.  *)
(* A timer that fires in between has do_call() run inside reschedule(), the *)
(* callback with it, which may reschedule, start or stop the task in turn.  *)
(* An assert that fails ends the program.                                   *)
(***************************************************************************)
EXTENDS Naturals, Sequences

CONSTANTS Chains,  \* the runs that can be told apart, recycled once over
          Stops,   \* the calls of stop() that can be under way
          Patient  \* nobody starts the task again, after its callback failed,
                   \* before the stop() that was waiting for it is over

ASSUME ChainsAssumption == Chains \subseteq Nat \ {0}
ASSUME PatientAssumption == Patient \in BOOLEAN

NoChain == 0

VARIABLES
  state,      \* _state
  current,    \* the chain _future ends, or NoChain
  stack,      \* the chains that reschedule() armed and did not assign yet, the
              \* innermost first: their thread holds _mutex
  nested,     \* the task was rescheduled, started or stopped inside reschedule()
  phase,      \* how far each chain is
  requested,  \* the flag of the cancelation token of each chain
  fut,        \* the future that the callback returned, until its continuation ran;
              \* "canceled" is kept
  conts,      \* what stop() attached to the end of each chain, in order
  waiting,    \* the calls of stop() whose future is not ready
  aborted     \* the assert that failed, or "none"

chainVars == <<phase, requested, fut, conts>>
lockVars == <<stack, nested>>
taskVars == <<state, current, lockVars, chainVars, waiting, aborted>>

\* The callback is running, or the future it returned is pending.
Running == {"calling", "threw", "returned", "inner"}
\* The timer runs, or fired; the promise has its value before do_call() was
\* attached; do_call() is about to take _mutex; the task is posted.
Scheduled == {"timer", "fired", "set", "checked", "posted"}
\* "again": the continuation of the callback's future is inside reschedule().
Over == {"free", "again", "ending", "done"}

TaskInit == /\ state = "Stopped"
            /\ current = NoChain
            /\ stack = <<>>
            /\ nested = FALSE
            /\ phase = [c \in Chains |-> "free"]
            /\ requested = [c \in Chains |-> FALSE]
            /\ fut = [c \in Chains |-> "none"]
            /\ conts = [c \in Chains |-> <<>>]
            /\ waiting = {}
            /\ aborted = "none"

Goto(c, p) == phase' = [phase EXCEPT ![c] = p]

--------------------------------------------------------------------------------
(* The recursive _mutex, and the thread that holds it in reschedule() *)

Free == stack = <<>>

\* The thread in reschedule() is in the part of `c` that runs there.
Inside(c) == ~Free /\ c = Head(stack)

\* `c` is armed but do_call() is not attached to its timer.
Unattached(c) == \E i \in DOMAIN stack : stack[i] = c

\* Who runs `c` can go on; who runs `c` can take _mutex.
GoesOn(c) == Unattached(c) => Inside(c)
Locks(c) == Free \/ Inside(c)

\* start() and stop() are called by any thread that can take _mutex, the callback
\* that runs inside reschedule() among them.
MayCall == Free \/ \E c \in Chains : Inside(c) /\ phase[c] = "calling"
Called == /\ nested' = (nested \/ ~Free)
          /\ UNCHANGED stack

--------------------------------------------------------------------------------
(* start() and reschedule() *)

\* A chain nobody refers to any more.
Fresh(c) == \/ phase[c] = "free"
            \/ phase[c] = "done" /\ c # current /\ conts[c] = <<>>

\* The chain that the next run gets.
IsNext(c) == Fresh(c) /\ \A d \in Chains : Fresh(d) => c <= d

\* MUTANT: the new chain inherits the cancelation token of the old one.
Arm_SameToken(c, old, given) ==
  /\ IsNext(c)
  /\ stack' = <<c>> \o stack
  /\ nested' = (nested \/ ~Free)
  /\ phase' = [old EXCEPT ![c] = "timer"]
  /\ fut' = [given EXCEPT ![c] = "none"]
  /\ UNCHANGED <<current, requested, conts>>

\* async_wait(): the timer of a new chain runs, and _future is the old one yet;
\* the other chains and their futures are where `old` and `given` say.
Arm(c, old, given) ==
  /\ IsNext(c)
  /\ stack' = <<c>> \o stack
  /\ nested' = (nested \/ ~Free)
  /\ phase' = [old EXCEPT ![c] = "timer"]
  /\ requested' = [requested EXCEPT ![c] = FALSE]
  /\ fut' = [given EXCEPT ![c] = "none"]
  /\ UNCHANGED <<current, conts>>

\* start_immediately: _future is assigned before the task is posted.
Post(c) ==
  /\ IsNext(c)
  /\ current' = c
  /\ Goto(c, "posted")
  /\ requested' = [requested EXCEPT ![c] = FALSE]
  /\ fut' = [fut EXCEPT ![c] = "none"]
  /\ Called
  /\ UNCHANGED conts

\* The continuations that were inside the reschedule() that returns.
Resumes(d) == phase[d] = "again" /\ (Len(stack) = 1 \/ d = stack[2])

\* and_then(), unwrap() and the assignment of _future, whatever it was: do_call()
\* is attached if the timer has no value yet, else it ran and returned.
Assign(c) ==
  /\ Inside(c)
  /\ phase[c] \in {"timer", "fired", "inner", "ending"}
  /\ current' = c
  /\ stack' = Tail(stack)
  /\ phase' = [d \in Chains |-> CASE d = c /\ phase[c] = "ending" -> "done"
                                 [] Resumes(d) -> "ending"
                                 [] OTHER -> phase[d]]
  /\ UNCHANGED <<state, nested, requested, fut, conts, waiting, aborted>>

\* What stop() attaches: the first one ends the stop, a later one, made when the
\* task is already stopping, swallows the exceptions.
Cont(u, ends) == [call |-> u, ends |-> ends]

\* A stop() under way would end the run that start() begins.
StopPending == \E c \in Chains, u \in Stops :
                 \E i \in DOMAIN conts[c] : conts[c][i] = Cont(u, TRUE)

\* MUTANT: start() does not wait for the end of stop().
Start_WhileStopping ==
  /\ MayCall
  /\ state \in {"Stopped", "Stopping"}
  /\ state' = "Running"
  /\ \E c \in Chains : Arm(c, phase, fut) \/ Post(c)
  /\ UNCHANGED <<waiting, aborted>>

\* start(no_option) and start(start_immediately).  It throws while stopping, and
\* returns if running.
Start ==
  /\ MayCall
  /\ state = "Stopped"
  /\ Patient => ~StopPending
  /\ state' = "Running"
  /\ \E c \in Chains : Arm(c, phase, fut) \/ Post(c)
  /\ UNCHANGED <<waiting, aborted>>

--------------------------------------------------------------------------------
(* A run *)

\* A step that moves one chain.
Move(c, p) == /\ Goto(c, p)
              /\ UNCHANGED <<current, lockVars, requested, conts, waiting, aborted>>

\* The timer's handler takes `fired`.
Fire(c) ==
  /\ phase[c] = "timer"
  /\ Move(c, "fired")
  /\ UNCHANGED <<state, fut>>

\* The handler sets the value of the promise while reschedule() is still to attach
\* do_call().  Bound: there is a chain left for what the callback may start.
SetEarly(c) ==
  /\ phase[c] = "fired"
  /\ Inside(c)
  /\ \E d \in Chains : Fresh(d)
  /\ Move(c, "set")
  /\ UNCHANGED <<state, fut>>

\* do_and_then_callback() looks whether the chain was canceled meanwhile.
Check(c) ==
  /\ phase[c] = "fired"
  /\ ~Unattached(c)
  /\ Move(c, IF requested[c] THEN "ending" ELSE "checked")
  /\ UNCHANGED <<state, fut>>

\* The executor runs the task posted by start(start_immediately), canceled or not.
RunPosted(c) ==
  /\ phase[c] = "posted"
  /\ Move(c, "checked")
  /\ UNCHANGED <<state, fut>>

\* do_call() copies the callback under _mutex, and calls it: in the thread of the
\* timer or the executor, or in the one that is inside reschedule().
DoCall(c) ==
  /\ \/ phase[c] = "checked" /\ Free
     \/ phase[c] = "set" /\ Inside(c)
  /\ Move(c, "calling")
  /\ UNCHANGED <<state, fut>>

\* The callback throws, or returns a future.
CallbackEnds(c) ==
  /\ phase[c] = "calling"
  /\ GoesOn(c)
  /\ \/ Move(c, "threw") /\ UNCHANGED fut
     \/ /\ Move(c, "returned")
        /\ \E v \in {"pending", "value", "error", "canceled"} :
             fut' = [fut EXCEPT ![c] = v]
  /\ UNCHANGED state

\* `if (!success)`, under _mutex: whatever the state was, it is Stopped.
StopOnThrow(c) ==
  /\ phase[c] = "threw"
  /\ Locks(c)
  /\ state' = "Stopped"
  /\ Move(c, "ending")
  /\ UNCHANGED fut

\* reschedule(), in the continuation of the callback's future: a chain that
\* ended starts the next one, unless it is stopping.
Reschedule(c) ==
  CASE state = "Running" ->
         (\E d \in Chains : Arm(d, [phase EXCEPT ![c] = "again"], [fut EXCEPT ![c] = "none"])) /\ UNCHANGED aborted
    [] state = "Stopping" ->
         /\ Move(c, "ending")
         /\ fut' = [fut EXCEPT ![c] = "none"]
    [] state = "Stopped" ->
         aborted' = "reschedule" /\ UNCHANGED <<current, lockVars, chainVars>>

\* The continuation on the callback's future, under _mutex: at once if it was
\* ready when do_call() attached it, or when it gets ready.
FutureReady(c, v) ==
  /\ \/ phase[c] = "returned" /\ fut[c] = v /\ Locks(c)
     \/ phase[c] = "inner" /\ Free
  /\ IF v = "value"
       THEN Reschedule(c) /\ UNCHANGED <<state, waiting>>
       ELSE /\ Move(c, "ending")
            /\ fut' = [fut EXCEPT ![c] = IF v = "canceled" THEN v ELSE "none"]
            /\ state' = IF v = "error" THEN "Stopped" ELSE state

\* do_call() returns a future that is not ready, and unwrap() waits for it.
AwaitFuture(c) ==
  /\ phase[c] = "returned"
  /\ fut[c] = "pending"
  /\ Locks(c)
  /\ Move(c, "inner")
  /\ UNCHANGED <<state, fut>>

\* unwrap() resolves the end of the chain.
Resolve(c) ==
  /\ phase[c] = "ending"
  /\ ~Unattached(c)
  /\ Move(c, "done")
  /\ UNCHANGED <<state, fut>>

--------------------------------------------------------------------------------
(* stop() *)

\* The continuation of stop() runs, and its future gets ready.  `others` are the
\* calls of stop() that wait besides.
Continue(k, others) ==
  IF k.ends /\ state = "Running"
    THEN aborted' = "stop" /\ UNCHANGED <<state, waiting>>
    ELSE /\ state' = IF k.ends THEN "Stopped" ELSE state
         /\ waiting' = others \ {k.call}
         /\ UNCHANGED aborted

\* MUTANT: only the first continuation runs.
RunContinuation_First(c) ==
  /\ phase[c] = "done"
  /\ conts[c] # <<>>
  /\ Head(conts[c]).ends => Free
  /\ conts' = [conts EXCEPT ![c] = <<>>]
  /\ Continue(Head(conts[c]), waiting)
  /\ UNCHANGED <<current, lockVars, phase, requested, fut>>

\* finish() runs the continuations one after the other; the one that ends a stop
\* takes _mutex.
RunContinuation(c) ==
  /\ phase[c] = "done"
  /\ conts[c] # <<>>
  /\ Head(conts[c]).ends => Free
  /\ conts' = [conts EXCEPT ![c] = Tail(@)]
  /\ Continue(Head(conts[c]), waiting)
  /\ UNCHANGED <<current, lockVars, phase, requested, fut>>

\* stop() of a running task that waits for its timer: the timer is canceled, the
\* chain resolved and the continuation run before stop() returns.
StopTimer ==
  /\ state = "Running"
  /\ current # NoChain
  /\ phase[current] = "timer"
  /\ state' = "Stopped"
  /\ requested' = [requested EXCEPT ![current] = TRUE]
  /\ Goto(current, "done")
  /\ UNCHANGED <<current, fut, conts, waiting, aborted>>

\* stop() of a running task in the middle of a run, or at its end.
StopRun(u) ==
  /\ state = "Running"
  /\ current # NoChain
  /\ phase[current] # "timer"
  /\ requested' = [requested EXCEPT ![current] = TRUE]
  /\ IF phase[current] = "done"
       THEN state' = "Stopped" /\ UNCHANGED <<conts, waiting>>
       ELSE /\ state' = "Stopping"
            /\ conts' = [conts EXCEPT ![current] = Append(@, Cont(u, TRUE))]
            /\ waiting' = waiting \cup {u}
  /\ UNCHANGED <<current, phase, fut, aborted>>

\* stop() of a task that is stopping: its future gets ready after the chain.
StopAgain(u) ==
  /\ state = "Stopping"
  /\ phase[current] # "done"
  /\ conts' = [conts EXCEPT ![current] = Append(@, Cont(u, FALSE))]
  /\ waiting' = waiting \cup {u}
  /\ UNCHANGED <<state, current, phase, requested, fut, aborted>>

\* assert(_future.is_valid()): the callback that runs inside the first reschedule()
\* stops a task whose _future was never assigned.
StopInvalid ==
  /\ state = "Running"
  /\ current = NoChain
  /\ aborted' = "valid"
  /\ UNCHANGED <<state, current, chainVars, waiting>>

\* The future that stop() returns is ready at once if the task is stopped, or is
\* stopping and its chain resolved: nothing changes.
Stop(u) == /\ MayCall
           /\ Called
           /\ u \notin waiting
           /\ StopTimer \/ StopRun(u) \/ StopAgain(u) \/ StopInvalid

--------------------------------------------------------------------------------

ChainStep(c) == \/ Fire(c) \/ SetEarly(c) \/ Assign(c) \/ Check(c) \/ RunPosted(c)
                \/ DoCall(c) \/ CallbackEnds(c) \/ StopOnThrow(c) \/ AwaitFuture(c) \/ Resolve(c)
                \/ (\E v \in {"value", "error", "canceled"} : FutureReady(c, v))
                \/ RunContinuation(c)

\* The program was aborted, or the task rests.
Rest == /\ aborted # "none" \/ \A c \in Chains : phase[c] \in {"free", "done"}
        /\ UNCHANGED taskVars

TaskNext == \/ /\ aborted = "none"
               /\ \/ Start
                  \/ \E u \in Stops : Stop(u)
                  \/ \E c \in Chains : ChainStep(c)
            \/ Rest

TaskSafeSpec == TaskInit /\ [][TaskNext]_taskVars

\* Timers fire, the executor runs what it was given, the callback and its future
\* end, and who waits for _mutex gets it in the end although others take it
\* meanwhile: strong fairness.
TaskFairness == \A c \in Chains : SF_taskVars(aborted = "none" /\ ChainStep(c))

TaskSpec == TaskSafeSpec /\ TaskFairness

--------------------------------------------------------------------------------
(* Properties *)

\* The callback is never run while its previous run, or the future it returned,
\* is not over, however start() and stop() are called.
NoOverlap ==
  \A c, d \in Chains : phase[c] \in Running /\ phase[d] \in Running => c = d

\* A task that is stopped runs nothing, and nothing is scheduled that would.
StoppedIsQuiet ==
  state = "Stopped" => \A c \in Chains : phase[c] \in Over

\* "can be Stopping, or Stopped if the callback threw on the last run" in the
\* continuation of stop(), and the asserts of stop() and reschedule() with it.
AssertsHold == aborted = "none"

\* At most one run is under way, none when the task is stopped, and stop() ends the
\* run that it found and no later one: unless the callback, called inside
\* reschedule() because the timer was faster, was rescheduled or called start() or
\* stop() there.
OneRunAtATime == nested \/ (NoOverlap /\ StoppedIsQuiet /\ AssertsHold)

\* The future of every stop() gets ready, unless an assert fails.
StopReturns ==
  \A u \in Stops : (u \in waiting) ~> (u \notin waiting \/ aborted # "none")

\* The chain of the latest run.
Latest == IF Free THEN current ELSE Head(stack)

\* A running task calls its callback again, unless the callback itself ended with
\* an error or with operation_canceled, or did something inside reschedule().
KeepsRunning ==
  (state = "Running" /\ Latest # NoChain /\ phase[Latest] \notin Over) ~>
     \/ \E c \in Chains : phase[c] = "calling"
     \/ state # "Running"
     \/ fut[Latest] = "canceled"
     \/ nested

--------------------------------------------------------------------------------
(* The inductive invariant, when nobody starts the task before the stop() that  *)
(* was waiting for it is over                                                   *)

Phases == Running \cup Scheduled \cup Over
Conts == [call : Stops, ends : BOOLEAN]

TypeInv == /\ state \in {"Stopped", "Running", "Stopping"}
           /\ current \in Chains \cup {NoChain}
           /\ stack \in Seq(Chains)
           /\ nested \in BOOLEAN
           /\ phase \in [Chains -> Phases]
           /\ conts \in [Chains -> Seq(Conts)]

\* One reschedule() at most is under way, and a task that is not stopped has a
\* chain when there is none.
LockInv == /\ Len(stack) <= 1
           /\ Free /\ state # "Stopped" => current # NoChain

\* Only the latest chain has something to do, and none if the task is stopped.
ActiveInv == \A c \in Chains :
               phase[c] \notin Over => c = Latest /\ state # "Stopped"

\* A stop() waits for the latest chain, and the task does not run nor get
\* rescheduled meanwhile.
StopInv == \A c \in Chains : \A i \in DOMAIN conts[c] :
             conts[c][i].ends => c = current /\ state # "Running" /\ Free

QuietInv == LockInv /\ ActiveInv /\ StopInv /\ aborted = "none"

IndInv == TypeInv /\ (nested \/ QuietInv)
================================================================================
