--------------------------- MODULE ThreadPool_proofs ---------------------------
(* Proofs about ThreadPool, for any set of tasks, finite set of threads that start() can make, and set of
other threads that call run_thread(). *)
EXTENDS ThreadPool, FiniteSetTheorems, TLAPS

Places == {"out", "spawned", "run", "task", "error", "leave"}

PoolTypeOK ==
  /\ work \in BOOLEAN /\ stopped \in BOOLEAN /\ dead \in BOOLEAN /\ null \in BOOLEAN
  /\ queue \in Seq(Tasks)
  /\ threads \in SUBSET Threads
  /\ saved \in Nat /\ before \in Nat
  /\ pc \in [Runners -> Places]
  /\ on \in [Runners -> Tasks \cup {"none"}]
  /\ task \in [Tasks -> {"new", "queued", "running", "done", "failed", "dropped"}]
  /\ owner \in {"idle", "draining", "canceling", "destroyed"}
  /\ drained \in SUBSET Tasks

\* The queue has each of the tasks that wait, once.
QueueInv ==
  /\ \A i \in 1..Len(queue) : task[queue[i]] = "queued"
  /\ \A i, j \in 1..Len(queue) : queue[i] = queue[j] => i = j
  /\ \A t \in Tasks : task[t] = "queued" => \E i \in 1..Len(queue) : queue[i] = t

\* A task that runs has a thread, of its own.
RunInv ==
  /\ \A w \in Runners : pc[w] = "task" => on[w] \in Tasks /\ task[on[w]] = "running"
  /\ \A w, v \in Runners : pc[w] = "task" /\ pc[v] = "task" /\ on[w] = on[v] => w = v
  /\ \A t \in Tasks : task[t] = "running" => \E w \in Runners : pc[w] = "task" /\ on[w] = t

\* A thread runs only between start() and the stop() that joins it, and leaves the pool
\* when the io_context is stopped.
ThreadInv ==
  /\ \A w \in Threads \ threads : pc[w] = "out"
  /\ \A w \in threads : pc[w] \in {"leave", "out"} => stopped
  /\ owner = "idle" /\ ~work => threads = {}

\* What stop(false) has to run is over once the io_context has stopped, and there are
\* threads to run it until then.
DrainInv ==
  /\ (owner = "draining" => stopped) => \A t \in drained : task[t] \in Over
  /\ owner = "draining" /\ drained # {} => threads # {}
  /\ \A t \in drained : task[t] \in {"queued", "running"} \cup Over

\* Between the hooks of a fork there is no thread, and the impl has their number.
ForkInv ==
  /\ before = saved
  /\ before # 0 /\ owner \in {"idle", "destroyed"} => threads = {}

PoolInv == PoolTypeOK /\ QueueInv /\ RunInv /\ ThreadInv /\ DrainInv /\ ForkInv

--------------------------------------------------------------------------------
LEMMA PoolTypeStep ==
  ASSUME PoolTypeOK, ThreadInv, [Next]_vars
  PROVE  PoolTypeOK'
  <1>. USE PoolAssumption DEF PoolTypeOK, Places, Runners
  <1>1. ASSUME NEW ts \in SUBSET Threads
        PROVE  Cardinality(ts) \in Nat
    BY FS_Subset, FS_CardinalityType
  <1>2. ASSUME NEW t \in Tasks, Post(t)
        PROVE  PoolTypeOK'
    <2>1. CASE null \/ dead
      BY <1>2, <2>1 DEF Post, implVars
    <2>2. CASE ~(null \/ dead)
      <3>1. queue' = Append(queue, t) /\ task' = [task EXCEPT ![t] = "queued"]
        BY <1>2, <2>2 DEF Post
      <3>2. queue' \in Seq(Tasks)
        BY <3>1
      <3>3. task' \in [Tasks -> {"new", "queued", "running", "done", "failed", "dropped"}]
        BY <3>1
      <3>4. drained' \in SUBSET Tasks
        BY <1>2, <2>2 DEF Post
      <3>. QED  BY <1>2, <3>2, <3>3, <3>4 DEF Post, implVars
    <2>. QED  BY <2>1, <2>2
  <1>3. ASSUME NEW w \in Runners, Runner(w)
        PROVE  PoolTypeOK'
    <2>1. CASE Enter(w)
      BY <2>1 DEF Enter, Goto, implVars, pastVars
    <2>2. CASE Take(w)
      BY <2>2 DEF Take, Goto, implVars, pastVars
    <2>3. CASE Finish(w)
      BY <2>3 DEF Finish, Goto, pastVars
    <2>4. CASE Report(w)
      BY <2>4 DEF Report, Goto, implVars, pastVars
    <2>5. CASE Leave(w)
      BY <2>5 DEF Leave, Goto, pastVars
    <2>6. CASE Left(w)
      BY <2>6 DEF Left, Goto, implVars, pastVars
    <2>. QED  BY <1>3, <2>1, <2>2, <2>3, <2>4, <2>5, <2>6 DEF Runner
  <1>4. CASE Start
    BY <1>4 DEF Start, Spawn, pastVars
  <1>5. CASE Joined
    <2>1. task' \in [Tasks -> {"new", "queued", "running", "done", "failed", "dropped"}]
      BY <1>5 DEF Joined
    <2>2. queue' = <<>> \/ queue' = queue
      BY <1>5, Zenon DEF Joined
    <2>3. null' \in BOOLEAN /\ owner' \in {"idle", "destroyed"}
      BY <1>5, Zenon DEF Joined
    <2>4. queue' \in Seq(Tasks)
      <3>1. <<>> \in Seq(Tasks) /\ queue \in Seq(Tasks)
        OBVIOUS
      <3>. QED  BY <2>2, <3>1
    <2>5. threads' = {} /\ UNCHANGED <<work, stopped, saved, dead, pc, on, drained, before>>
      BY <1>5 DEF Joined
    <2>. QED  BY <2>1, <2>3, <2>4, <2>5
  <1>6. CASE StopBeforeFork
    BY <1>1, <1>6 DEF StopBeforeFork, BeginStop, runVars
  <1>7. CASE Resume
    <2>1. CASE null \/ Running # {}
      BY <1>7, <2>1 DEF Resume, implVars, runVars
    <2>2. CASE ~(null \/ Running # {})
      <3>1. task' \in [Tasks -> {"new", "queued", "running", "done", "failed", "dropped"}]
        BY <1>7, <2>2 DEF Resume
      <3>2. pc' \in [Runners -> Places] /\ threads' \in SUBSET Threads /\ work' = TRUE
        BY <1>7, <2>2 DEF Resume, Spawn
      <3>3. queue' = <<>> /\ stopped' = FALSE /\ saved' = 0 /\ before' = 0
        BY <1>7, <2>2 DEF Resume
      <3>4. UNCHANGED <<dead, null, on, owner, drained>>
        BY <1>7, <2>2 DEF Resume
      <3>5. queue' \in Seq(Tasks) /\ saved' \in Nat /\ before' \in Nat
        BY <3>3
      <3>. QED  BY <3>1, <3>2, <3>3, <3>4, <3>5
    <2>. QED  BY <2>1, <2>2
  <1>8. CASE Destroy
    BY <1>8 DEF Destroy, BeginStop, runVars
  <1>9. ASSUME NEW cancel \in BOOLEAN, Stop(cancel)
        PROVE  PoolTypeOK'
    BY <1>9 DEF Stop, BeginStop, runVars
  <1>10. CASE UNCHANGED vars
    BY <1>10 DEF vars, implVars, runVars, pastVars
  <1>. QED  BY <1>2, <1>3, <1>4, <1>5, <1>6, <1>7, <1>8, <1>9, <1>10 DEF Next

\* The steps that change the queue keep it.
LEMMA QueueStep ==
  ASSUME PoolTypeOK, QueueInv, RunInv, [Next]_vars
  PROVE  QueueInv'
  <1>. USE DEF PoolTypeOK, QueueInv
  <1>1. ASSUME NEW t \in Tasks, Post(t)
        PROVE  QueueInv'
    <2>1. CASE null \/ dead
      BY <1>1, <2>1 DEF Post
    <2>2. CASE ~(null \/ dead)
      <3>1. /\ task[t] = "new" /\ task' = [task EXCEPT ![t] = "queued"]
            /\ queue' = Append(queue, t)
        BY <1>1, <2>2 DEF Post
      <3>2. /\ Len(queue') = Len(queue) + 1 /\ Len(queue) \in Nat
            /\ \A i \in 1..Len(queue) : queue'[i] = queue[i] /\ queue[i] \in Tasks
            /\ queue'[Len(queue) + 1] = t
        BY <3>1
      <3>3. \A i \in 1..Len(queue) : queue[i] # t
        BY <3>1
      <3>4. \A u \in Tasks : task'[u] = IF u = t THEN "queued" ELSE task[u]
        BY <3>1
      <3>5. (\A i \in 1..Len(queue) : task[queue[i]] = "queued")'
        BY <3>2, <3>4
      <3>6. (\A i, j \in 1..Len(queue) : queue[i] = queue[j] => i = j)'
        BY <3>2, <3>3
      <3>7. ASSUME NEW u \in Tasks, task'[u] = "queued"
            PROVE  \E i \in 1..Len(queue') : queue'[i] = u
        <4>1. CASE u = t
          BY <3>2, <4>1
        <4>2. CASE u # t
          <5>1. PICK i \in 1..Len(queue) : queue[i] = u
            BY <3>4, <3>7, <4>2
          <5>. QED  BY <3>2, <5>1
        <4>. QED  BY <4>1, <4>2
      <3>. QED  BY <3>5, <3>6, <3>7
    <2>. QED  BY <2>1, <2>2
  <1>2. ASSUME NEW w \in Runners, Take(w)
        PROVE  QueueInv'
    <2>1. /\ queue # <<>> /\ queue' = Tail(queue)
          /\ task' = [task EXCEPT ![Head(queue)] = "running"]
      BY <1>2 DEF Take
    <2>2. /\ Len(queue') = Len(queue) - 1 /\ Len(queue) \in Nat \ {0}
          /\ Head(queue) = queue[1]
          /\ \A i \in 1..Len(queue) : queue[i] \in Tasks
          /\ \A i \in 1..Len(queue') : i + 1 \in 1..Len(queue) /\ queue'[i] = queue[i + 1]
      BY <2>1
    <2>3. \A u \in Tasks : task'[u] = IF u = queue[1] THEN "running" ELSE task[u]
      BY <2>1, <2>2
    <2>4. \A i \in 1..Len(queue') : queue[i + 1] # queue[1]
      BY <2>2
    <2>5. (\A i \in 1..Len(queue) : task[queue[i]] = "queued")'
      BY <2>2, <2>3, <2>4
    <2>6. (\A i, j \in 1..Len(queue) : queue[i] = queue[j] => i = j)'
      BY <2>2
    <2>7. ASSUME NEW u \in Tasks, task'[u] = "queued"
          PROVE  \E i \in 1..Len(queue') : queue'[i] = u
      <3>1. task[u] = "queued" /\ u # queue[1]
        BY <2>3, <2>7
      <3>2. PICK i \in 1..Len(queue) : queue[i] = u
        BY <3>1
      <3>3. i # 1 /\ i - 1 \in 1..Len(queue')
        BY <2>2, <3>1, <3>2
      <3>4. queue'[i - 1] = queue[(i - 1) + 1] /\ (i - 1) + 1 = i
        BY <2>2, <3>3
      <3>. QED  BY <3>2, <3>3, <3>4
    <2>. QED  BY <2>5, <2>6, <2>7
  <1>3. ASSUME NEW w \in Runners, Finish(w)
        PROVE  QueueInv'
    <2>1. on[w] \in Tasks /\ task[on[w]] = "running"
      BY <1>3 DEF Finish, RunInv
    <2>2. /\ queue' = queue
          /\ task' = [task EXCEPT ![on[w]] = IF on[w] \in Bad THEN "failed" ELSE "done"]
      BY <1>3 DEF Finish
    <2>3. \A i \in 1..Len(queue) : queue[i] \in Tasks
      OBVIOUS
    <2>. QED  BY <2>1, <2>2, <2>3
  <1>4. ASSUME /\ task' = [t \in Tasks |-> IF task[t] = "queued" THEN "dropped" ELSE task[t]]
               /\ queue' = <<>>
        PROVE  QueueInv'
    BY <1>4
  <1>5. ASSUME UNCHANGED <<task, queue>>
        PROVE  QueueInv'
    BY <1>5
  <1>6. CASE Joined
    BY <1>4, <1>5, <1>6 DEF Joined
  <1>7. CASE Resume
    BY <1>4, <1>5, <1>7 DEF Resume, runVars
  <1>8. ASSUME NEW w \in Runners, Runner(w)
        PROVE  QueueInv'
    BY <1>2, <1>3, <1>5, <1>8 DEF Runner, Enter, Report, Leave, Left
  <1>9. CASE Start \/ StopBeforeFork \/ Destroy \/ UNCHANGED vars
    BY <1>5, <1>9 DEF Start, StopBeforeFork, Destroy, BeginStop, runVars, vars
  <1>10. ASSUME NEW cancel \in BOOLEAN, Stop(cancel)
         PROVE  QueueInv'
    BY <1>5, <1>10 DEF Stop, BeginStop, runVars
  <1>. QED  BY <1>1, <1>6, <1>7, <1>8, <1>9, <1>10 DEF Next

\* The threads that run a task keep it.
LEMMA RunStep ==
  ASSUME PoolTypeOK, QueueInv, RunInv, ThreadInv, [Next]_vars
  PROVE  RunInv'
  <1>. USE DEF PoolTypeOK, RunInv
  <1>1. ASSUME pc' = pc, on' = on,
               \A t \in Tasks : task'[t] = "running" <=> task[t] = "running"
        PROVE  RunInv'
    BY <1>1
  <1>2. ASSUME on' = on, task' = task,
               \A w \in Runners : pc'[w] = "task" <=> pc[w] = "task"
        PROVE  RunInv'
    BY <1>2
  <1>3. ASSUME NEW ts \in SUBSET Threads, threads = {},
               pc' = [w \in Runners |-> IF w \in ts THEN "spawned" ELSE pc[w]]
        PROVE  \A w \in Runners : pc'[w] = "task" <=> pc[w] = "task"
    BY <1>3 DEF ThreadInv
  <1>4. ASSUME NEW t \in Tasks, Post(t)
        PROVE  RunInv'
    <2>1. \A u \in Tasks : task'[u] = "running" <=> task[u] = "running"
      BY <1>4 DEF Post
    <2>. QED  BY <1>1, <1>4, <2>1 DEF Post
  <1>5. ASSUME NEW w \in Runners, Take(w)
        PROVE  RunInv'
    <2>1. Head(queue) \in Tasks /\ task[Head(queue)] = "queued"
      BY <1>5 DEF Take, QueueInv
    <2>2. /\ pc[w] = "run" /\ pc' = [pc EXCEPT ![w] = "task"]
          /\ on' = [on EXCEPT ![w] = Head(queue)]
          /\ task' = [task EXCEPT ![Head(queue)] = "running"]
      BY <1>5 DEF Take, Goto
    <2>3. (\A v \in Runners : pc[v] = "task" => on[v] \in Tasks /\ task[on[v]] = "running")'
      BY <2>1, <2>2
    <2>4. (\A v, x \in Runners : pc[v] = "task" /\ pc[x] = "task" /\ on[v] = on[x] => v = x)'
      BY <2>1, <2>2
    <2>5. (\A t \in Tasks : task[t] = "running" => \E v \in Runners : pc[v] = "task" /\ on[v] = t)'
      BY <2>1, <2>2
    <2>. QED  BY <2>3, <2>4, <2>5
  <1>6. ASSUME NEW w \in Runners, Finish(w)
        PROVE  RunInv'
    <2>1. on[w] \in Tasks /\ task[on[w]] = "running"
      BY <1>6 DEF Finish
    <2>2. /\ pc[w] = "task" /\ pc' = [pc EXCEPT ![w] = IF on[w] \in Bad THEN "error" ELSE "run"]
          /\ on' = on
          /\ task' = [task EXCEPT ![on[w]] = IF on[w] \in Bad THEN "failed" ELSE "done"]
      BY <1>6 DEF Finish, Goto
    <2>3. (\A v \in Runners : pc[v] = "task" => on[v] \in Tasks /\ task[on[v]] = "running")'
      BY <2>1, <2>2
    <2>4. (\A v, x \in Runners : pc[v] = "task" /\ pc[x] = "task" /\ on[v] = on[x] => v = x)'
      BY <2>1, <2>2
    <2>5. (\A t \in Tasks : task[t] = "running" => \E v \in Runners : pc[v] = "task" /\ on[v] = t)'
      BY <2>1, <2>2
    <2>. QED  BY <2>3, <2>4, <2>5
  <1>7. ASSUME NEW w \in Runners, Enter(w) \/ Report(w) \/ Leave(w) \/ Left(w)
        PROVE  RunInv'
    <2>1. on' = on /\ task' = task
      BY <1>7 DEF Enter, Report, Leave, Left
    <2>2. pc[w] # "task" /\ \E p \in Places \ {"task"} : pc' = [pc EXCEPT ![w] = p]
      BY <1>7 DEF Enter, Report, Leave, Left, Goto, Places
    <2>. QED  BY <1>2, <2>1, <2>2
  <1>8. CASE Start
    <2>1. threads = {}
      BY <1>8 DEF Start, ThreadInv
    <2>. QED  BY <1>2, <1>3, <1>8, <2>1 DEF Start, Spawn
  <1>9. CASE Resume
    <2>1. CASE null \/ Running # {}
      BY <1>1, <1>9, <2>1 DEF Resume, runVars
    <2>2. CASE ~(null \/ Running # {})
      <3>1. \A w \in Runners : pc'[w] = "task" <=> pc[w] = "task"
        BY <1>3, <1>9, <2>2 DEF Resume, Spawn
      <3>2. /\ on' = on
            /\ task' = [t \in Tasks |-> IF task[t] = "queued" THEN "dropped" ELSE task[t]]
        BY <1>9, <2>2 DEF Resume
      <3>3. \A t \in Tasks : task'[t] = "running" <=> task[t] = "running"
        BY <3>2
      <3>. QED  BY <3>1, <3>2, <3>3
    <2>. QED  BY <2>1, <2>2
  <1>10. CASE Joined
    <2>1. \A t \in Tasks : task'[t] = "running" <=> task[t] = "running"
      BY <1>10 DEF Joined
    <2>. QED  BY <1>1, <1>10, <2>1 DEF Joined
  <1>11. CASE StopBeforeFork \/ Destroy \/ UNCHANGED vars
    BY <1>1, <1>11 DEF StopBeforeFork, Destroy, BeginStop, runVars, vars
  <1>12. ASSUME NEW cancel \in BOOLEAN, Stop(cancel)
         PROVE  RunInv'
    BY <1>1, <1>12 DEF Stop, BeginStop, runVars
  <1>. QED  BY <1>4, <1>5, <1>6, <1>7, <1>8, <1>9, <1>10, <1>11, <1>12 DEF Next, Runner

\* Threads are made and joined by the owner only.
LEMMA ThreadStep ==
  ASSUME PoolTypeOK, ThreadInv, [Next]_vars
  PROVE  ThreadInv'
  <1>. USE DEF PoolTypeOK, ThreadInv
  <1>1. ASSUME UNCHANGED <<pc, threads>>, stopped => stopped',
               owner' = "idle" /\ ~work' => owner = "idle" /\ ~work
        PROVE  ThreadInv'
    BY <1>1
  <1>2. ASSUME NEW n \in Nat, threads = {}, Spawn(n)
        PROVE  ThreadInv'
    <2>1. PICK ts \in SUBSET Threads :
            /\ threads' = ts
            /\ pc' = [w \in Runners |-> IF w \in ts THEN "spawned" ELSE pc[w]]
            /\ work' = TRUE
      BY <1>2 DEF Spawn
    <2>. QED  BY <1>2, <2>1 DEF Runners
  <1>3. ASSUME NEW t \in Tasks, Post(t)
        PROVE  ThreadInv'
    BY <1>1, <1>3 DEF Post, implVars
  <1>4. ASSUME NEW w \in Runners, Runner(w)
        PROVE  ThreadInv'
    <2>1. UNCHANGED <<threads, work, owner>> /\ (stopped => stopped')
      BY <1>4 DEF Runner, Enter, Take, Finish, Report, Leave, Left, implVars, pastVars
    <2>2. PICK p \in Places : pc' = [pc EXCEPT ![w] = p]
      BY <1>4 DEF Runner, Enter, Take, Finish, Report, Leave, Left, Goto, Places
    <2>3. w \in Threads => pc[w] # "out"
      BY <1>4, PoolAssumption DEF Runner, Enter, Take, Finish, Report, Leave, Left
    <2>4. pc'[w] \in {"leave", "out"} => stopped' \/ pc[w] = "leave"
      BY <1>4 DEF Runner, Enter, Take, Finish, Report, Leave, Left, Goto
    <2>. QED  BY <2>1, <2>2, <2>3, <2>4 DEF Runners
  <1>5. CASE Start
    <2>1. threads = {} /\ \E n \in Sizes : Spawn(n)
      BY <1>5 DEF Start
    <2>. QED  BY <1>2, <2>1, PoolAssumption
  <1>6. CASE Joined
    BY <1>6 DEF Joined
  <1>7. CASE Resume
    <2>1. CASE null \/ Running # {}
      BY <1>1, <1>7, <2>1 DEF Resume, implVars, runVars
    <2>2. CASE ~(null \/ Running # {})
      BY <1>2, <1>7, <2>2 DEF Resume
    <2>. QED  BY <2>1, <2>2
  <1>8. CASE StopBeforeFork \/ Destroy
    BY <1>1, <1>8 DEF StopBeforeFork, Destroy, BeginStop, runVars
  <1>9. ASSUME NEW cancel \in BOOLEAN, Stop(cancel)
        PROVE  ThreadInv'
    BY <1>1, <1>9 DEF Stop, BeginStop, runVars
  <1>10. CASE UNCHANGED vars
    BY <1>1, <1>10 DEF vars, implVars, runVars, pastVars
  <1>. QED  BY <1>3, <1>4, <1>5, <1>6, <1>7, <1>8, <1>9, <1>10 DEF Next

\* Without tasks that wait or run, what has to be run is over.
LEMMA NotBusyIsDrained ==
  ASSUME PoolTypeOK, QueueInv, RunInv, ~Busy(pc)
  PROVE  \A t \in Tasks : task[t] \notin {"queued", "running"}
  BY DEF PoolTypeOK, QueueInv, RunInv, Busy

\* No step drops a task that stop(false) has to run.
LEMMA DrainStep ==
  ASSUME PoolTypeOK, QueueInv, RunInv, ThreadInv, DrainInv, [Next]_vars
  PROVE  DrainInv'
  <1>. USE DEF PoolTypeOK, DrainInv, Over
  <1>1. \A t \in Tasks : task[t] \in Over => task'[t] \in Over
    <2>1. ASSUME NEW t \in Tasks, Post(t)
          PROVE  \A u \in Tasks : task[u] \in Over => task'[u] \in Over
      BY <2>1 DEF Post
    <2>2. ASSUME NEW w \in Runners, Take(w)
          PROVE  \A u \in Tasks : task[u] \in Over => task'[u] \in Over
      <3>1. Head(queue) \in Tasks /\ task[Head(queue)] = "queued"
        BY <2>2 DEF Take, QueueInv
      <3>. QED  BY <2>2, <3>1 DEF Take
    <2>3. ASSUME NEW w \in Runners, Finish(w)
          PROVE  \A u \in Tasks : task[u] \in Over => task'[u] \in Over
      BY <2>3 DEF Finish, RunInv
    <2>4. ASSUME NEW w \in Runners, Enter(w) \/ Report(w) \/ Leave(w) \/ Left(w)
          PROVE  task' = task
      BY <2>4 DEF Enter, Report, Leave, Left
    <2>5. ASSUME Joined \/ Resume
          PROVE  \A u \in Tasks : task[u] \in Over => task'[u] \in Over
      BY <2>5 DEF Joined, Resume, runVars
    <2>6. ASSUME Start \/ StopBeforeFork \/ Destroy \/ UNCHANGED vars
          PROVE  task' = task
      BY <2>6 DEF Start, StopBeforeFork, Destroy, BeginStop, runVars, vars
    <2>7. ASSUME NEW cancel \in BOOLEAN, Stop(cancel)
          PROVE  task' = task
      BY <2>7 DEF Stop, BeginStop, runVars
    <2>. QED  BY <2>1, <2>2, <2>3, <2>4, <2>5, <2>6, <2>7 DEF Next, Runner
  <1>2. ASSUME \A t \in drained' : t \in Tasks /\ task[t] \in Over,
               owner' = "draining" => drained' = {}
        PROVE  DrainInv'
    BY <1>1, <1>2
  <1>3. ASSUME UNCHANGED <<owner, drained, threads>>, ~stopped /\ stopped' => ~Busy(pc)',
               NEW w \in Runners, Runner(w)
        PROVE  DrainInv'
    <2>1. \A t \in drained : task'[t] \in {"queued", "running"} \cup Over
      BY <1>1, <1>3 DEF Runner, Enter, Take, Finish, Report, Leave, Left
    <2>2. ASSUME ~stopped, stopped'
          PROVE  \A t \in drained : task'[t] \in Over
      <3>1. QueueInv' /\ RunInv' /\ PoolTypeOK'
        BY QueueStep, RunStep, PoolTypeStep, <1>3 DEF Next
      <3>. QED  BY <1>3, <2>1, <2>2, <3>1 DEF QueueInv, RunInv, Busy
    <2>3. CASE stopped \/ ~stopped'
      BY <1>1, <1>3, <2>1, <2>3
    <2>. QED  BY <1>3, <2>1, <2>2, <2>3
  <1>4. ASSUME NEW t \in Tasks, Post(t)
        PROVE  DrainInv'
    <2>1. CASE null \/ dead
      BY <1>4, <2>1 DEF Post, implVars
    <2>2. CASE ~(null \/ dead)
      <3>1. /\ task' = [task EXCEPT ![t] = "queued"] /\ task[t] = "new"
            /\ drained' = IF owner = "draining" /\ ~stopped /\ threads # {}
                          THEN drained \cup {t} ELSE drained
            /\ UNCHANGED <<owner, threads, stopped>>
        BY <1>4, <2>2 DEF Post, implVars
      <3>. QED  BY <3>1
    <2>. QED  BY <2>1, <2>2
  <1>5. ASSUME NEW w \in Runners, Runner(w)
        PROVE  DrainInv'
    <2>1. UNCHANGED <<owner, drained, threads>>
      BY <1>5 DEF Runner, Enter, Take, Finish, Report, Leave, Left, implVars, pastVars
    <2>2. ASSUME ~stopped, stopped'
          PROVE  ~Busy(pc)'
      <3>1. CASE Finish(w)
        BY <2>2, <3>1 DEF Finish, Busy
      <3>2. CASE Leave(w)
        <4>1. ~Busy(pc) /\ pc' = [pc EXCEPT ![w] = "leave"] /\ queue' = queue
          BY <2>2, <3>2 DEF Leave, Goto
        <4>. QED  BY <4>1 DEF Busy
      <3>. QED  BY <1>5, <2>2, <3>1, <3>2 DEF Runner, Enter, Take, Report, Left, implVars
    <2>. QED  BY <1>3, <1>5, <2>1, <2>2
  <1>6. CASE Start \/ Resume
    BY <1>2, <1>6 DEF Start, Resume, pastVars
  <1>7. CASE Joined
    <2>1. \A t \in drained : task[t] \in Over
      <3>1. CASE owner = "draining" /\ drained # {}
        <4>1. PICK w \in threads : pc[w] = "out"
          BY <1>7, <3>1 DEF Joined
        <4>. QED  BY <3>1, <4>1 DEF ThreadInv
      <3>2. CASE owner # "draining" \/ drained = {}
        BY <3>2
      <3>. QED  BY <3>1, <3>2
    <2>. QED  BY <1>2, <1>7, <2>1 DEF Joined
  <1>8. CASE StopBeforeFork \/ Destroy
    BY <1>2, <1>8 DEF StopBeforeFork, Destroy, BeginStop, runVars
  <1>9. ASSUME NEW cancel \in BOOLEAN, Stop(cancel)
        PROVE  DrainInv'
    <2>1. /\ owner = "idle" /\ UNCHANGED <<task, threads>>
          /\ owner' = IF cancel THEN "canceling" ELSE "draining"
          /\ stopped' = (stopped \/ cancel \/ (work /\ ~Busy(pc)))
          /\ drained' = IF cancel \/ stopped \/ threads = {} THEN {}
                        ELSE {t \in Tasks : task[t] \in {"queued", "running"}}
      BY <1>9 DEF Stop, BeginStop, runVars
    <2>2. CASE cancel \/ stopped \/ threads = {}
      BY <2>1, <2>2
    <2>3. CASE ~(cancel \/ stopped \/ threads = {})
      <3>1. stopped' => drained' = {}
        BY <2>1, <2>3, NotBusyIsDrained
      <3>. QED  BY <2>1, <2>3, <3>1
    <2>. QED  BY <2>2, <2>3
  <1>10. CASE UNCHANGED vars
    BY <1>10 DEF vars, implVars, runVars, pastVars
  <1>. QED  BY <1>4, <1>5, <1>6, <1>7, <1>8, <1>9, <1>10 DEF Next

\* Only the hooks of a fork change what they keep.
LEMMA ForkStep ==
  ASSUME PoolTypeOK, ThreadInv, ForkInv, [Next]_vars
  PROVE  ForkInv'
  <1>. USE DEF PoolTypeOK, ForkInv
  <1>1. ASSUME UNCHANGED <<before, saved, threads>>,
               owner' \in {"idle", "destroyed"} => owner \in {"idle", "destroyed"}
        PROVE  ForkInv'
    BY <1>1
  <1>2. ASSUME NEW t \in Tasks, Post(t)
        PROVE  ForkInv'
    BY <1>1, <1>2 DEF Post, implVars
  <1>3. ASSUME NEW w \in Runners, Runner(w)
        PROVE  ForkInv'
    BY <1>1, <1>3 DEF Runner, Enter, Take, Finish, Report, Leave, Left, implVars, pastVars
  <1>4. CASE Start
    BY <1>4 DEF Start, pastVars
  <1>5. CASE Joined
    BY <1>5 DEF Joined
  <1>6. CASE StopBeforeFork
    BY <1>6 DEF StopBeforeFork, BeginStop
  <1>7. CASE Resume
    BY <1>1, <1>7 DEF Resume, implVars
  <1>8. CASE Destroy
    BY <1>1, <1>8 DEF Destroy, BeginStop
  <1>9. ASSUME NEW cancel \in BOOLEAN, Stop(cancel)
        PROVE  ForkInv'
    BY <1>1, <1>9 DEF Stop, BeginStop
  <1>10. CASE UNCHANGED vars
    BY <1>1, <1>10 DEF vars, implVars, pastVars
  <1>. QED  BY <1>2, <1>3, <1>4, <1>5, <1>6, <1>7, <1>8, <1>9, <1>10 DEF Next

LEMMA PoolInit == Init => PoolInv
  <1>. SUFFICES ASSUME Init PROVE PoolInv
    OBVIOUS
  <1>1. /\ \A t \in Tasks : task[t] = "new"
        /\ \A w \in Runners : pc[w] = "out"
        /\ Len(queue) = 0
    BY DEF Init
  <1>2. PoolTypeOK
    <2>1. pc \in [Runners -> Places] /\ on \in [Runners -> Tasks \cup {"none"}]
      BY DEF Init, Places
    <2>2. task \in [Tasks -> {"new", "queued", "running", "done", "failed", "dropped"}]
      BY DEF Init
    <2>3. <<>> \in Seq(Tasks)
      OBVIOUS
    <2>. QED  BY <2>1, <2>2, <2>3 DEF Init, PoolTypeOK
  <1>3. QueueInv
    BY <1>1 DEF QueueInv
  <1>4. RunInv
    BY <1>1 DEF RunInv
  <1>5. ThreadInv /\ DrainInv /\ ForkInv
    BY DEF Init, ThreadInv, DrainInv, ForkInv, Runners
  <1>. QED  BY <1>2, <1>3, <1>4, <1>5 DEF PoolInv

\* The inductive invariant.
THEOREM PoolInvariant == SafeSpec => []PoolInv
  <1>1. PoolInv /\ [Next]_vars => PoolInv'
    BY PoolTypeStep, QueueStep, RunStep, ThreadStep, DrainStep, ForkStep DEF PoolInv
  <1>. QED  BY PoolInit, <1>1, PTL DEF SafeSpec

\* Whatever the tasks throw and whoever posts meanwhile, stop(false) returns only when
\* what it had to run is over.
THEOREM PoolIsDrained == SafeSpec => []DrainedByStop
  <1>1. PoolInv => DrainedByStop
    BY DEF PoolInv, DrainInv, DrainedByStop
  <1>. QED  BY <1>1, PoolInvariant, PTL

\* The hooks of a fork restore the threads that there were.
THEOREM ForkSafe == SafeSpec => ForkRestoresThreads
  <1>1. ASSUME PoolInv, Next
        PROVE  /\ owner = "idle" /\ before # 0 => \A w \in Threads : pc[w] = "out"
               /\ before # 0 /\ before' = 0 => Cardinality(threads') = before
    <2>. USE <1>1 DEF PoolInv, PoolTypeOK, ForkInv
    <2>1. owner = "idle" /\ before # 0 => \A w \in Threads : pc[w] = "out"
      BY DEF ThreadInv
    <2>2. ASSUME before # 0, before' = 0
          PROVE  Resume /\ ~(null \/ Running # {})
      <3>1. ~StopBeforeFork
        BY <2>2 DEF StopBeforeFork
      <3>2. ASSUME NEW w \in Runners, Runner(w)
            PROVE  before' = before
        BY <3>2 DEF Runner, Enter, Take, Finish, Report, Leave, Left, pastVars
      <3>3. ASSUME NEW t \in Tasks, Post(t)
            PROVE  before' = before
        BY <3>3 DEF Post
      <3>4. Start \/ Joined \/ Destroy \/ (\E cancel \in BOOLEAN : Stop(cancel)) => before' = before
        BY DEF Start, Joined, Destroy, Stop, pastVars
      <3>5. Resume
        BY <2>2, <3>1, <3>2, <3>3, <3>4 DEF Next
      <3>. QED  BY <2>2, <3>5 DEF Resume
    <2>3. ASSUME Resume, ~(null \/ Running # {})
          PROVE  Cardinality(threads') = saved
      BY <2>3 DEF Resume, Spawn
    <2>. QED  BY <2>1, <2>2, <2>3
  <1>. QED  BY <1>1, PoolInvariant, PTL DEF SafeSpec, ForkRestoresThreads
================================================================================
