------------------------------- MODULE ThreadPool -------------------------------
(***************************************************************************)
(* thread_pool.cpp: its owner starts, stops and destroys the pool, and      *)
(* stops it before a fork; threads of the pool, and others that call        *)
(* run_thread(), run the tasks that anybody posts.                          *)
(*                                                                          *)
(* The io_context is that of Boost.Asio as the pool uses it: it stops when  *)
(* it runs out of work or when it is told to, run() returns then, and since *)
(* nobody restarts it, it stays so.                                         *)
(***************************************************************************)
EXTENDS Integers, Sequences, FiniteSets

CONSTANTS Tasks,
          Bad,     \* those that end with an exception
          Threads, \* the threads that start() can make
          Workers, \* the other threads that call run_thread()
          Sizes    \* the thread counts given to start()

ASSUME PoolAssumption == /\ Bad \subseteq Tasks
                         /\ IsFiniteSet(Threads) /\ Threads \cap Workers = {}
                         /\ \A n \in Sizes : n \in Nat \ {0} /\ n <= Cardinality(Threads)

Runners == Threads \cup Workers

VARIABLES
  work,    \* _work: the io_context is to wait for tasks
  stopped, \* the io_context is stopped
  queue,   \* the tasks that wait in it
  threads, \* _threads
  saved,   \* _num_threads_before_fork
  dead,    \* _dead
  null,    \* _p was released
  pc,      \* where each thread is
  on,      \* the task that it runs
  task,    \* "new", "queued", "running", "done", "failed" or "dropped", of each task
  owner,   \* "idle", "draining", "canceling" or "destroyed"
  drained, \* the tasks that the last stop(false) has to run
  before,  \* the threads there were when stop_before_fork() stopped them, or 0
  aborted  \* "" or what failed: the assert of post(), or a use of a dead impl

implVars == <<work, stopped, threads, saved, dead, null>>
runVars == <<pc, on, task, queue>>
pastVars == <<owner, drained, before>>
vars == <<implVars, runVars, pastVars, aborted>>

Init == /\ work = FALSE /\ stopped = FALSE /\ threads = {}
        /\ saved = 0 /\ dead = FALSE /\ null = FALSE
        /\ pc = [w \in Runners |-> "out"]
        /\ on = [w \in Runners |-> "none"]
        /\ task = [t \in Tasks |-> "new"]
        /\ queue = <<>>
        /\ owner = "idle" /\ drained = {} /\ before = 0
        /\ aborted = ""

Up == aborted = ""

\* What the io_context counts as outstanding work, but for the work guard.
Busy(p) == queue # <<>> \/ \E w \in Runners : p[w] = "task"

\* _num_running_threads counts these.
Running == {w \in Runners : pc[w] \in {"run", "task", "error", "leave"}}

--------------------------------------------------------------------------------
(* post() *)

\* By anybody, but only by a task once the destructor runs: the assert fails then.
Post(t) ==
  /\ Up /\ task[t] = "new"
  /\ owner # "destroyed" /\ (dead => \E w \in Runners : pc[w] = "task")
  /\ IF null \/ dead
     THEN /\ aborted' = IF null THEN "null" ELSE "dead"
          /\ UNCHANGED <<task, queue, drained>>
     ELSE /\ task' = [task EXCEPT ![t] = "queued"]
          /\ queue' = Append(queue, t)
          /\ drained' = IF owner = "draining" /\ ~stopped /\ threads # {}
                   THEN drained \cup {t} ELSE drained
          /\ UNCHANGED aborted
  /\ UNCHANGED <<implVars, pc, on, owner, before>>

--------------------------------------------------------------------------------
(* run_thread() *)

Goto(w, p) == pc' = [pc EXCEPT ![w] = p]

\* A thread of the pool enters run_thread(), or another thread calls it.
Enter(w) ==
  /\ Up
  /\ pc[w] = "spawned" \/ (w \in Workers /\ pc[w] = "out" /\ ~dead)
  /\ Goto(w, "run")
  /\ aborted' = IF null THEN "null" ELSE ""
  /\ UNCHANGED <<implVars, on, task, queue, pastVars>>

Take(w) ==
  /\ Up /\ pc[w] = "run" /\ ~stopped /\ queue # <<>>
  /\ Goto(w, "task")
  /\ on' = [on EXCEPT ![w] = Head(queue)]
  /\ task' = [task EXCEPT ![Head(queue)] = "running"]
  /\ queue' = Tail(queue)
  /\ UNCHANGED <<implVars, pastVars, aborted>>

\* The task ends.  If it was the last one and there is no work guard, the
\* io_context stops; an exception leaves run() besides.
Finish(w) ==
  /\ Up /\ pc[w] = "task"
  /\ Goto(w, IF on[w] \in Bad THEN "error" ELSE "run")
  /\ task' = [task EXCEPT ![on[w]] = IF on[w] \in Bad THEN "failed" ELSE "done"]
  /\ stopped' = (stopped \/ (~work /\ ~Busy(pc')))
  /\ UNCHANGED <<work, threads, saved, dead, null, on, queue, pastVars, aborted>>

\* MUTANT: the thread leaves its loop after an exception.
Report_Leaves(w) ==
  /\ Up /\ pc[w] = "error"
  /\ Goto(w, "leave")
  /\ UNCHANGED <<implVars, on, task, queue, pastVars, aborted>>

\* The error handler is called, then run() again.
Report(w) ==
  /\ Up /\ pc[w] = "error"
  /\ Goto(w, "run")
  /\ UNCHANGED <<implVars, on, task, queue, pastVars, aborted>>

\* run() returns when the io_context is stopped, or stops it for want of work.
Leave(w) ==
  /\ Up /\ pc[w] = "run" /\ (stopped \/ (~work /\ ~Busy(pc)))
  /\ stopped' = TRUE
  /\ Goto(w, "leave")
  /\ UNCHANGED <<work, threads, saved, dead, null, on, task, queue, pastVars, aborted>>

\* The thread decrements _num_running_threads, in an impl that may be gone.
Left(w) ==
  /\ Up /\ pc[w] = "leave"
  /\ Goto(w, "out")
  /\ aborted' = IF null THEN "null" ELSE ""
  /\ UNCHANGED <<implVars, on, task, queue, pastVars>>

--------------------------------------------------------------------------------
(* The owner *)

\* start() of n threads.
Spawn(n) == \E ts \in SUBSET Threads :
  /\ Cardinality(ts) = n
  /\ threads' = ts
  /\ pc' = [w \in Runners |-> IF w \in ts THEN "spawned" ELSE pc[w]]
  /\ work' = TRUE

\* start() throws if there is a work guard.  Nobody calls it between the two hooks of
\* a fork.
Start ==
  /\ Up /\ owner = "idle" /\ ~null /\ ~work /\ before = 0
  /\ \E n \in Sizes : Spawn(n)
  /\ UNCHANGED <<stopped, saved, dead, null, on, task, queue, pastVars, aborted>>

\* MUTANT: the work guard stays.
BeginStop_KeepsWork(cancel) ==
  /\ stopped' = (stopped \/ cancel)
  /\ owner' = IF cancel THEN "canceling" ELSE "draining"
  /\ UNCHANGED <<work, threads, null, runVars, aborted>>

\* stop(), up to its joins.
BeginStop(cancel) ==
  /\ work' = FALSE
  /\ stopped' = (stopped \/ cancel \/ (work /\ ~Busy(pc)))
  /\ owner' = IF cancel THEN "canceling" ELSE "draining"
  /\ UNCHANGED <<threads, null, runVars, aborted>>

\* MUTANT: stop() always cancels.
Stop_Cancels(cancel) ==
  /\ Up /\ owner = "idle" /\ ~null
  /\ BeginStop(TRUE)
  /\ drained' = IF cancel \/ stopped \/ threads = {} THEN {}
                ELSE {t \in Tasks : task[t] \in {"queued", "running"}}
  /\ UNCHANGED <<saved, dead, before>>

\* stop(cancel).  Without cancel, it has to run what was posted to a pool that runs.
Stop(cancel) ==
  /\ Up /\ owner = "idle" /\ ~null
  /\ BeginStop(cancel)
  /\ drained' = IF cancel \/ stopped \/ threads = {} THEN {}
                ELSE {t \in Tasks : task[t] \in {"queued", "running"}}
  /\ UNCHANGED <<saved, dead, before>>

\* stop() has joined its threads, and gives its impl up if another thread still runs
\* there.  The destructor frees the impl and its tasks with it.
Joined ==
  /\ Up /\ owner \in {"draining", "canceling"}
  /\ \A w \in threads : pc[w] = "out"
  /\ threads' = {}
  /\ null' = (Running # {})
  /\ owner' = IF dead THEN "destroyed" ELSE "idle"
  /\ IF dead /\ Running = {}
     THEN /\ task' = [t \in Tasks |-> IF task[t] = "queued" THEN "dropped" ELSE task[t]]
          /\ queue' = <<>>
     ELSE UNCHANGED <<task, queue>>
  /\ UNCHANGED <<work, stopped, saved, dead, pc, on, drained, before, aborted>>

\* MUTANT: the saved number of threads is not kept by a second call.
StopBeforeFork_Again ==
  /\ Up /\ owner = "idle" /\ ~null
  /\ saved' = Cardinality(threads)
  /\ before' = IF saved = 0 THEN Cardinality(threads) ELSE before
  /\ BeginStop(TRUE)
  /\ UNCHANGED <<dead, drained>>

\* stop_before_fork() does nothing once it saved how many threads there were.
StopBeforeFork ==
  /\ Up /\ owner = "idle" /\ ~null /\ saved = 0
  /\ saved' = Cardinality(threads)
  /\ before' = Cardinality(threads)
  /\ BeginStop(TRUE)
  /\ UNCHANGED <<dead, drained>>

\* resume_after_fork() does nothing if there are threads.  Otherwise a new impl
\* takes the place of the old one, whose tasks are dropped.
Resume ==
  /\ Up /\ owner = "idle" /\ threads = {}
  /\ IF null \/ Running # {}
     THEN /\ aborted' = IF null THEN "null" ELSE "dangling"
          /\ UNCHANGED <<implVars, runVars, before>>
     ELSE /\ Spawn(saved)
          /\ stopped' = FALSE /\ saved' = 0 /\ before' = 0
          /\ task' = [t \in Tasks |-> IF task[t] = "queued" THEN "dropped" ELSE task[t]]
          /\ queue' = <<>>
          /\ UNCHANGED <<dead, null, on, aborted>>
  /\ UNCHANGED <<owner, drained>>

\* The destructor.
Destroy ==
  /\ Up /\ owner = "idle" /\ ~null
  /\ dead' = TRUE
  /\ BeginStop(TRUE)
  /\ UNCHANGED <<saved, drained, before>>

--------------------------------------------------------------------------------
Runner(w) == \/ Enter(w) \/ Take(w) \/ Finish(w) \/ Report(w) \/ Leave(w) \/ Left(w)

Next == \/ \E t \in Tasks : Post(t)
        \/ \E w \in Runners : Runner(w)
        \/ Start \/ Joined \/ StopBeforeFork \/ Resume \/ Destroy
        \/ \E cancel \in BOOLEAN : Stop(cancel)

SafeSpec == Init /\ [][Next]_vars

\* Threads go on, and tasks end.  Nothing makes a thread call run_thread().
Fairness == /\ \A w \in Threads : WF_vars(Runner(w))
            /\ \A w \in Workers : WF_vars(pc[w] # "out" /\ Runner(w))
            /\ WF_vars(Joined)

Spec == SafeSpec /\ Fairness

--------------------------------------------------------------------------------
(* Properties *)

Over == {"done", "failed"}

\* stop(false) returns when every task that was posted to the running pool has run,
\* with those that were posted before the last of them ended.
DrainedByStop ==
  owner = "idle" => \A t \in drained : task[t] \in Over

\* A pool that was stopped, once or more, before a fork has no thread until it is
\* resumed, and as many as before then.
ForkRestoresThreads ==
  [][/\ owner = "idle" /\ before # 0 => \A w \in Threads : pc[w] = "out"
     /\ before # 0 /\ before' = 0 => Cardinality(threads') = before]_vars

\* stop() and the destructor return: what they wait for ends.
StopReturns == owner \in {"draining", "canceling"} ~> (owner \in {"idle", "destroyed"} \/ ~Up)

\* A task posted to a pool that runs gets its turn, whatever the others throw, unless
\* the pool is stopped.
Serves == work /\ threads # {} /\ ~stopped
PostedTasksRun ==
  \A t \in Tasks : (task[t] = "queued" /\ Serves) ~> (task[t] \in Over \/ ~Serves \/ ~Up)

\* Not so (README, Known disagreements): "this can't _p.release(), [...] so _p will
\* still be valid in resume_after_fork".
ForkKeepsImpl == before # 0 => ~null
================================================================================
