# tconcurrent: a verification development

tconcurrent is a C++14 library of futures: promises and futures with
continuations, cancelation tokens that follow the chains of continuations,
executors and thread pools, and a set of components built on them (semaphores,
periodic tasks, jobs, groups, lazy senders, coroutines).  All of it is meant to
be used from several threads, and almost none of its ordering guarantees can be
reached by a unit test.  This directory holds TLA+ models of the code in `src/`,
the TLC configurations that check them on small instances, and TLAPS proofs of
what matters most for every instance.

`PROJECT.json` is the index: the components, the runs and what each checks, the
mutants (for each property, a plausible bug of the code that breaks it), the map
from definitions to source lines, the finding, the hazards and the theorems.

1. [The system](#1-the-system)
2. [The modules](#2-the-modules)
3. [The runs](#3-the-runs)
4. [Bounds and fairness](#4-bounds-and-fairness)
5. [What is proved](#5-what-is-proved)
6. [What is only model-checked, and what is not modelled](#6-what-is-only-model-checked-and-what-is-not-modelled)
7. [Known disagreements](#7-known-disagreements)

Paths below are relative to `src/` (`include/tconcurrent` is written `inc`).

## 1. The system

### Components

| component | source | state | operations |
|---|---|---|---|
| shared state, `promise_ptr` | `inc/detail/shared_base.hpp` | `_promise_count`, `_r`, `_then`, `_mutex`, `_ready`, `_cancelation_token` | copy, `try_lock`, destroy, `set`, `set_exception`, `then`, `get`, `wait`, `wait_for` |
| promise | `inc/promise.hpp` | a `promise_ptr` | `set_value`, `set_exception`, `get_future`, `get_cancelation_token` |
| cancelation token | `inc/cancelation_token.hpp` | `_do_cancels` (a stack), `_cancel_requested`, `_mutex` | push, pop, `make_scope_canceler`, `request_cancel`, `is_cancel_requested` |
| packaged task, `async` | `inc/packaged_task.hpp`, `inc/async.hpp` | `_done`, `_f`, `_cancelable` on top of a shared state | call, cancel, destroy |
| future | `inc/future.hpp` | a shared state, a token of its own, a chain name | `then`, `and_then`, `unwrap`, `to_void`, `to_shared`, `request_cancel`, `break_cancelation_chain`, `submit_to_future` |
| periodic task, `async_wait` | `src/periodic_task.cpp`, `src/async_wait.cpp` | `_state`, `_future`, recursive `_mutex`; `fired` | `start`, `stop`, `reschedule`, `do_call` |
| job | `inc/job.hpp` | `_scheduled`, `_stopping`, `_running`, `_future`, `_successPromises`, recursive `_mutex` | `trigger`, `trigger_success`, `~job` |
| concurrent queue, semaphore | `inc/concurrent_queue.hpp`, `inc/semaphore.hpp` | `_queue`, `_waiters`, `_mutex` | `push`, `pop`; `acquire`, `release`, `get_scope_lock` |
| `when_all`, `when_any` | `inc/when.hpp` | a count or a flag, the futures, a promise | one callback per future; the canceler |
| task canceler, future group | `inc/task_canceler.hpp`, `inc/future_group.hpp` | `_futures`, `_terminating`, `_mutex` | `run` / `add`, `terminate` |
| barrier, stepper | `src/barrier.cpp`, `src/stepper.cpp` | a counter, `_mutex`, `_cond` | `operator()` |
| executor, thread pool | `src/executor.cpp`, `src/thread_pool.cpp` | the io_context, its work, the threads, the fork state | `post`, `start`, `stop`, `run_in_pool`, the hooks of `fork()` |
| lazy token and senders | `inc/lazy/*.hpp` | `_cancel`, `_cancel_requested`; operation states | `submit`, `set_value`, `set_error`, `set_done`, `sync_wait` |
| lazy task canceler | `inc/lazy/task_canceler.hpp` | a list of tasks, `_terminating` | `wrap`, `terminate` |
| stackful, stackless coroutines | `inc/stackful_coroutine.hpp`, `inc/stackless_coroutine.hpp` | a context or a frame, its token, `aborting` | `async_resumable`, `await`, `yield`, abort |
| asio adapter | `inc/asio_use_future.hpp` | a promise | the completion handler |

### How they interact

* Everything ends in the **shared state**: a promise counts as an owner, a future
  reads the result, `then()` queues a continuation that `finish()` posts on an
  executor.  Continuations posted on the *synchronous executor* run inside
  `set()`, in the thread of the producer, which is how control crosses
  components: the callback of `when_all`, the second half of `unwrap()`, the
  continuation of `periodic_task::stop()`.
* **Cancelation** goes against the flow: `request_cancel()` on a future runs the
  callback on the top of the token that the chain shares; the tasks push and pop
  callbacks by position, so that the one who runs is on the top, and each
  component above that returns a future forwards the request to those it waits for.
* `packaged_task` is where both meet: the executor and the cancelers race for it.
* `periodic_task` and `job` are state machines under a *recursive* mutex, because
  their own continuations come back into them synchronously.

### What is hard

* A promise may be destroyed, set, copied and locked at the same time from
  several threads, with one atomic counter to tell the last (`shared_base`).
* `_r` is read without the mutex in `decrement_promise()` and in the futures.
* Callbacks are run after the unlock: what was copied may be stale.
* Callbacks are popped by position: a user of the token that does not nest breaks
  its neighbours.
* A task may be dropped by its executor instead of being run.
* Cancelation may arrive before, during or after each step of a chain, and a
  canceled step must leave the component above in a state that works.
* Synchronous continuations run under the locks of whoever resolves them.
* A lazy chain has room for the canceler of one stage, set and reset while a timer, a
  handler and a cancelation race for the stage.
* A cancelation of a coroutine is synchronous: it runs the coroutine one last time, or
  destroys it, from inside the code of another one, which may be what it cancels.

The hazards, each at the line where it bites and with the properties that cover it,
are in `PROJECT.json`.

## 2. The modules

```
TokenOps <---- CancelationToken         OneShot <==== SharedState (implements it)
    ^                                      ^
    +---------- PackagedTask --------------+   (INSTANCE: its shared state)
    +---------- FutureChain

When <---- TaskGroup                    StackfulCoroutine  <--+
                                        StacklessCoroutine <--+-- Coroutine (INSTANCE)

Semaphore     ThreadPool     LazyTasks     PeriodicTask     Job
```

`X_proofs` extends `X`; two proof modules take several components, which share nothing but
the file: `Results_proofs` is about `SharedState` and `LazyTasks`, `Monitors_proofs` about
`CancelationToken`, `Semaphore` and `PeriodicTask`.  So that they can be extended together,
some of these modules prefix the definitions that would clash (`TokenInit`, `TaskInit`,
`LazyResultInv`...).  `MCPackagedTask` and `MCFutureChain` give constants their
values.  A property is defined in the module it is about, next to its specification.
Mutants are operators named `Definition_Bug`, just before the definition they replace.

`OneShot` is the abstract specification of a promise/future pair: one result,
given by an owner or, when nobody owns the state any more, `broken_promise`, and
each continuation delivered once after it.  `SharedState` is shown to implement it;
`PackagedTask` uses it instead of the implementation, and `FutureChain` has one of them
per future, reduced to its result.  The modules of the second and third lines work one
level up: a future there is how far its chain is, and a cancelation is what
`CancelationToken` and `PackagedTask` show it to be (it reaches the top of the chain,
and cancels a task that was not taken).

### SharedState (`inc/detail/shared_base.hpp`, `inc/promise.hpp`)

A thread is represented by the object it works on: a `promise_ptr`, a call of
`then()`, a call of `wait()`.  `pc[p]` is the next line of the code that uses
promise `p`.  One step is one access to an atomic, one critical section of
`_mutex`, or one unlocked read of `_r`.  `increment_promise()` is a load and a
compare-exchange that may fail or retry; `decrement_promise()` is the decrement
and the unlocked test of `_r`; `finish()` is lock, store of the result, swap of
`_then`, notify, one step per posted continuation.  `wait_for()` may give up at
any time, and the condition variable may wake up spuriously.  Users own one right
to set the result (`claimed`), which is what the interface asks of them.

| property | in words |
|---|---|
| `AssertsNeverFail` | `finish()` never finds a result ("state already set" is for users who set twice), the copy of a live promise never sees a count of zero, and a state that nobody can set any more has its result |
| `BrokenOnlyWhenAbandoned` | `broken_promise` is stored over nothing and when nobody is left |
| `ContinuationsArePosted` | `then()` against `finish()`: none lost, none twice, none before the result |
| `WaitersReturn` | `notify_all()` after the unlock suffices |
| `ImplementsOneShot` | the refinement, liveness included |

### TokenOps, CancelationToken (`inc/cancelation_token.hpp`)

`TokenOps` is the token as a value: the stack of callbacks, the flag, and what each
operation returns, including the callback that is to be run after the unlock.
`CancelationToken` runs it: one chain of tasks nests scopes, any number of threads
request the cancelation, and "copy under the lock, call after it" are two steps.
`InnermostIsCanceled` says that once a request was made, the callback of the
innermost open scope was run, or somebody is about to; `InnermostHears` that
somebody does.

### PackagedTask (`inc/packaged_task.hpp`, `inc/async.hpp`)

A cancelable task from the moment `package_cancelable()` returned: the executor
runs it or drops it, threads call `request_cancel()` on its future (reading the
token from the shared state, which may be null by then) or on a derived future
that kept the token, the owner of the future may call `break_cancelation_chain()`,
the function may open a scope on its token, and a continuation that shares the
token pushes and pops a callback as `unwrap()` does.  `TakenOnce` says that one thread
takes the task, that who sets the result owns it as `SharedState` asks, and that `_f` is
called once and alive; `CancelIsHeard`, that callbacks are popped by who pushed them
(the unwritten contract of `pop_cancelation_callback()`) and that a request reaches
whoever is there to hear it before it returns; `EverybodyEnds` is its liveness.

### FutureChain (`inc/future.hpp`)

A user builds a chain of `then()` or `and_then()`, each with its `unwrap()`, while it
executes.  Future 0 is the source; `phase[k]` is how far step k is: attached (`waiting`,
`posted`), in its callback (`running`), between the two accesses to the token and the
call after the unlock (`push`, `pushed`, `popped`), or waiting for the future that the
callback returned (`inner`).  An `and_then()` looks at the token (`checked`), then calls
its callback with no lock held: a request may run and return in between.  `futToken[k]` and `stToken[k]` are the two
`_cancelation_token` of the code: the future copies the one of its state when it is
made, `finish()` drops the latter, `break_cancelation_chain()` replaces both, and
`package()` makes one when it is given none.  The promise may be set before its future is
taken, and a step may end before `unwrap()` makes its future, which are the two ways to
a null token.  `NoCallbackDueAfterCancel` and `CanceledChainEnds` are what a user of
`request_cancel()` counts on: after it returned, at most the one callback that was found
due before may begin.  `InnerHears` is what the task in progress does, and `BreakIsolates`
the documentation of `break_cancelation_chain()`, for the requests made with a token older
than the break, on the broken future too.  What a request made after the break on the broken
future does to the task before it is another matter: `unwrap()` may link that task to the
new token.

### PeriodicTask (`src/periodic_task.cpp`, `src/async_wait.cpp`)

Each run is a chain: a timer or a posted task, `do_call()`, then the future of the
callback.  `phase[c]` is how far the chain is, `requested[c]` the flag of its token,
`conts[c]` what `stop()` attached to its end.  The critical sections of the recursive
mutex are steps, with what runs synchronously inside; but for `reschedule()`, which arms
the timer (`Arm`) before it attaches `do_call()` and assigns `_future` (`Assign`).  The
timer's handler takes no mutex.  If it is faster (`SetEarly`), `and_then()` runs `do_call()`
and the callback inside `reschedule()`, where the callback may be rescheduled, or start or
stop the task, under the same recursive lock: `stack` is the chains that the thread in
there armed and did not assign yet, and who else needs `_mutex` waits until it is empty.
`nested` remembers that something of the kind was done: the outer `reschedule()` then
overwrites `_future` with a chain that is over, and nothing is promised by `OneRunAtATime`
any more (section 7).  `StopReturns` goes on to be checked there.
The callback may return, throw, or return a future that ends with a value, an error or a
cancelation.
`_future` may be replaced while an older chain is still resolving, so several
chains exist; `Chains` bounds how many, and a chain that is over is used again.

### Job (`inc/job.hpp`)

`phase` is how far the run at the head of the chain of futures is, `next` whether
another one waits for it: `_scheduled` allows one at most.  All the futures of a job
share the token of the first, which the code never replaces: `requested` stays set,
and `linked` tells whether the canceler of the current run was pushed on it yet.
`began`, `canceled` and `fulfilled` remember, for each call, what happened after it.

### Semaphore (`inc/semaphore.hpp`, `inc/concurrent_queue.hpp`)

`progress[c]` is how far a call of `acquire()` or `get_scope_lock()` is: `pop()` is one
critical section, the `and_then()` on its future a step after it.  `Push` is `push()`
with all that runs inside it, under `_mutex`: the first waiter gets the permit, its
continuation throws if the call was canceled (the permit is lost), and what the user
attached runs there too; if that releases, the thread locks the mutex it holds
(`stuck`).  `arrived` remembers the order of the calls, for `ServedInOrder`.

### When, TaskGroup (`inc/when.hpp`, `inc/task_canceler.hpp`, `inc/future_group.hpp`)

`When` is any number of calls of `when_all()` and `when_any()` on futures that end at any
time.  The constructor attaches one callback after the other (`at`), each of which runs
inside `then()` if the future is ready (`inline`), or in the thread that ends it; a callback
is a step per atomic (`cb`, `count`, `triggered`), and the vector of futures moves into the
result of `when_any` (`moved`).  The use of the moved vector stops the model (`aborted`).
`Ask` and `AskNext` are `request_cancel()` on the result.  The futures of a group are told
and awaited in any order.
`TaskGroup` uses it for the `when_all()` of `terminate()`, which it makes under the mutex
of the group: the task canceler and the future group are two values of `class`.

### ThreadPool (`src/thread_pool.cpp`)

The io_context is what Boost.Asio documents and the pool uses: a queue, a work guard and
the flag that stops it.  `pc[w]` is where a thread is in the loop of `run_thread()`.
`stop()` is two steps, up to its joins and after them; `stop_before_fork()`,
`resume_after_fork()` and the destructor are built on it.  `null` is `_p` after its
`release()`.

### LazyTasks (`inc/lazy/*.hpp`)

A chain of senders, each `async()` or `async_wait()`, connected by `then()`, that
`sync_wait()` or `submit_to_future()` submits.  `submit[i]` and `handler[i]` are how far
`submit()` of stage i and the handler it posts are; both race, and the canceler of the
stage, for `fired`.  `slot` is the one canceler of the token, whose mutex is held while it
runs.  `ResultIsFinal`, `CanceledStageIsSkipped` and `CancelEnds` are what a user of the
token counts on.

### StackfulCoroutine, StacklessCoroutine, Coroutine (`inc/*_coroutine.hpp`)

Coroutines of one single-threaded executor.  `stack` is the call stack of its thread, frame
by frame: the code of a coroutine, a canceler that has told the awaited task and has yet to
resume or destroy its coroutine, and so on: this is how a cancelation runs inside the code
of another coroutine.  Other threads resolve promises and run senders.  The two modules
have the same variables for what both implementations do; `Coroutine` chooses one, as the
macro in `coroutine.hpp` does, and states what both promise.  `NeverTouchedDead` is about
`*aborted` and `keep_alive`, `CurrentIsInnermost` about `get_current_coroutine_ptr()`.

## 3. The runs

| run | instance | distinct states | shows |
|---|---|---|---|
| `shared_state` | 3 promises, 1 continuation, a waiter and a timed waiter | 220 404 | the table of SharedState |
| `cancelation_token` | 3 scopes, 2 cancelers | 8 000 | the innermost scope always hears |
| `packaged_task` | a canceler, a derived canceler, drop and break allowed | 35 226 | the races for the task |
| `future_chain` | 2 steps, 1 canceler, breaks between them | 303 506 | requests reach the task in progress, stop what follows, end the chain |
| `periodic_task` | 3 chains, 2 stops | 143 018 | no overlap, quiet when stopped, stops return, runs go on; timers that fire inside `reschedule()` |
| `job` | 3 triggers | 67 624 | asserts, values, promises, destruction, answers |
| `semaphore` | 4 calls, 2 permits at most | 11 175 | permits are conserved and go in order, who waits is answered |
| `task_group` | 2 tasks, 2 terminations, a `when_all` or `when_any` of a user | 410 665 | nothing is forgotten, results are complete and set once, `terminate()` ends |
| `thread_pool` | 3 tasks, two of which throw, 2 threads and a guest | 289 960 | stops drain, forks restore, stops return, posted tasks run |
| `lazy_tasks` | 3 stages, 2 threads | 11 271 | one result, nothing after it, cancelations end the chain |
| `lazy_tasks_late` | 2 stages, 1 thread | violation | the finding: `async_wait()` sets its canceler late |
| `coroutine` | 2 coroutines of 3 steps, 2 nested cotasks, both headers | 162 547 | cancelation is synchronous, no dead coroutine is resumed, answers resume |

## 4. Bounds and fairness

Bounds, and why they are enough:

* *SharedState*: three promises are an original, its copy and a `try_lock`, which is
  every pair of roles around the last owner; a promise object that was destroyed stays
  so (`gone`), and three objects are all there are in a history.  One continuation
  exhibits each order of `then()` against `finish()`, since continuations do not
  interact but through `_then` as a whole; one waiter that must return and one that
  may give up exhibit the condition variable.  The theorems of section 5 cover any
  number.
* *CancelationToken*: three scopes nest two deep with one closed before; cancelers
  request again and again.
* *PackagedTask*: `_done` elects one thread, so that two competitors are enough for
  its races; one of each kind is there.
* *FutureChain*: a step interacts with the one before it and the one after, by the token
  and the result; two steps and the source have a first, a middle and a last future.
  One request is enough, since a token remembers it; two at once are `CancelationToken`'s.
* *PeriodicTask*: a third chain is reachable only while two older ones resolve.  With
  three chains, a further run waits for an older one to be resolved.  `Patient` excludes
  the starts that slip in before the continuation of a `stop()` ran (section 7), so that
  `OneRunAtATime` is checked for what remains.  `SetEarly` needs a chain that is left for
  what the callback may start; with three, `reschedule()` nests two deep.
* *Job*: one call for the run in progress, one for the next, one after both.
* *Semaphore*: two permits and four calls: two have a permit, and two wait in an order.
  `MaxExtra` bounds the releases by who acquired nothing.  One call is careless, which is
  enough to be stuck.
* *TaskGroup*: a future that ends before, while and after the other is attached or told;
  the `terminate()` of a user and that of the destructor follow each other.
* *ThreadPool*: two threads and one that is not of the pool; the third task is posted by one
  that runs, or while `stop()` waits.  The owner does what it likes again and again.
* *LazyTasks*: a first, a middle and a last stage.
* *Coroutine*: two coroutines cancel each other and themselves; three steps are enough to
  be suspended, resumed and suspended again, with what was posted for the first time still
  in the queue.  Nested cotasks: one that has a caller and a callee.

Deadlock is checked in the runs whose specification lets the finished program stutter
(`Rest`, `Finished`...).  The runs of the newer modules (`semaphore`, `task_group`,
`thread_pool`, `lazy_tasks`, `coroutine`) say `CHECK_DEADLOCK FALSE`: their programs may
really stop, when every call returned or where the model stops at undefined behaviour, and
that nobody waits for ever is what their liveness properties say.

Fairness:

* A thread that is inside a function of the library goes on (`WF` of the steps of
  each promise, waiter, canceler, chain, handler, runner): the scheduler is fair, and
  mutexes are held for bounded sections only.  In `PeriodicTask`, who waits for `_mutex`
  gets it in the end although others take it again and again (`SF`): an orphan timer that
  reschedules itself for ever would otherwise starve the rest.
* An executor runs or drops what it was given, and the user's function or callback
  ends (`WF` of `RunStep`, `ChainStep`, `Thread`...): without it no future of the library
  gets ready, and nothing in the code waits longer.
* A task that was told to stop ends (`TaskGroup`), and who holds a permit releases it
  (`Semaphore`): the classes are of no use otherwise.
* Nobody is obliged to copy, set, destroy a promise, to call `then()`, to request a
  cancelation, to start, stop, trigger, terminate or destroy anything, to resolve a promise
  that a coroutine awaits: no fairness there.  Neither is a timer obliged to fire in
  `LazyTasks`, so that `CancelEnds` shows a cancelation that does not wait for timers.
  That a timed wait gives up is not fair either.

## 5. What is proved

TLAPS checks the theorems below for every value of the constants, under the
assumptions that the modules name and nothing else: finite sets of promises, futures,
threads and coroutines; actors that are different, and none of which is one of the markers
(`None`, `Null`, "promise"...); a first stage and an executor; `Patient`, for the theorem that
says so.  Every invariant and action property of a passing run is the conclusion of one of
them.

| component | theorems, and the property of the runs that they state | inductive invariant |
|---|---|---|
| SharedState (`Results_proofs`) | `StateInvariance`, `TypeCorrect`, `AssertsSafe` (`AssertsNeverFail`), `BrokenIsAbandoned` (`BrokenOnlyWhenAbandoned`), `ContinuationsSafe` (`ContinuationsArePosted`), `WakeupsSafe`, `NoRevival`, `ResultFinality`, `Refinement` | `_promise_count` is the number of owners; a copy under way has an owner behind it; one promise at a time is in `finish()` or about to decide to break, and in the latter case nobody owns the state; where each continuation is |
| CancelationToken (`Monitors_proofs`) | `TypeCorrect`, `InnermostSafe` (`InnermostIsCanceled`) | the property with the types, over lemmas on the operators of `TokenOps` |
| PackagedTask | `Invariance`, `Typed`, `TakenByOne` (`TakenOnce`), `TellsTheTruth` (`ResultTellsTheTruth`), `CancelReaches` (`CancelIsHeard`) | who holds a `promise_ptr` is where the code holds one; `_done` elects one thread; the function is called by the executor alone and before the result; the given token contains the callbacks of the caller, then those of the task, of its body and of the continuation while each is in its scope, in this order; who changes the top of a canceled token is to call the new top |
| FutureChain | `Invariance`, `TypeCorrect`, `Nesting`, `Hearing` (`InnerHears`), `Isolation` (`BreakIsolates`), `CancelFirst` (`NoCallbackDueAfterCancel`) | one step of the chain is in progress at a time, and its canceler is the only callback on the tokens; a token was made at or before the futures that have it, and by the last break or after it; a step that is not over has the token of every future after it, down to a break, so that a request on them finds it |
| PeriodicTask (`Monitors_proofs`) | `TaskInvariance`, `OneRun` (`OneRunAtATime`), assuming `Patient` | until something is done inside `reschedule()` (`nested`): one `reschedule()` at most is under way; only the latest chain, which is the one it armed if there is one, has something to do, and none does once the task is stopped; a `stop()` waits for the latest chain, assigned, and for a task that is not running |
| Job | `Invariance`, `Honesty` (`RunsAreHonest`), `DestructionIsQuiet` (`DestroyedIsQuiet`) | `_scheduled` covers the run that is not taken yet, but for the one canceled in its queue; those who wait for the head of the chain while it runs called before it began |
| Semaphore (`Monitors_proofs`) | `SemaphoreInvariance`, `OrderSafe` (`ServedInOrder`), `ConservationSafe` (`PermitsAreConserved`) | the promises of `_waiters` are those of the last calls that arrived, in their order, and all the others were given a permit; permits in the queue and with the calls make up those there are |
| When, TaskGroup | `GroupInvariant`, `NobodyForgotten` (`NoneIsForgotten`), `CompleteResults` (`ResultsAreComplete`), `EveryoneIsAsked` (`CancelReachesAll`) | `ListInv`, `CallbackInv`: the futures of a call are distinct and started, callbacks are attached in the order of the loop, and one that runs is that of a future that ended; `AllInv`, `AnyInv`: the count is the number of callbacks that are over, and who won the race of `when_any()` is one; `AskInv`: a walk of `request_cancel()` has hit the futures before it; `MemberInv`: a task that joined is a member, is over or was told, and the terminate() that holds the mutex has the members in its list |
| ThreadPool | `PoolInvariant`, `PoolIsDrained` (`DrainedByStop`), `ForkSafe` (`ForkRestoresThreads`) | the queue has each task that waits, once, and each that runs has a thread of its own; a thread leaves the pool when the io_context is stopped, and none exists outside of `start()` and `stop()`; what `stop(false)` has to run is waiting, running or over, there are threads while it is not over, and the io_context is not stopped before |
| LazyTasks (`Results_proofs`) | `LazyInvariance`, `SkipSafe` (`CanceledStageIsSkipped`), `Finality` (`ResultIsFinal`) | stages are submitted in turn; who exchanged `fired` of the last one submitted owes the result, and nobody else does; a stage born after the cancelation is not past its check |
| Coroutine, both headers | `CoInvariant`, `SynchronousCancel` (`CancelIsSynchronous`), `NoUseAfterEnd` (`NeverTouchedDead`), `CurrentCoroutine` (`CurrentIsInnermost`) | `CoInv`, see below |

Only that of the token is inductive as it stands.  "`_r` is not set twice", for
instance, says nothing of the thread that read the counter and has not read `_r` yet;
the invariant has to say that such a thread is alone and that nobody can set any more,
which in turn needs the counter to be exact while copies are half done.  "Served in
order" says nothing of who comes next: the invariant ties `_waiters`, element by element,
to the order of the calls.  "`terminate()` forgets nobody" says nothing of the task that ends
while the loop is at another one: the invariant says that those before `at` in the list are
hit, and that the list is all the members because the mutex is held.

`CoInv` has a part that the headers share, `Common`: the types; `AwaitInv`, that an answer
in flight (a promise, a sender, a receiver, a task in the queue) whose awaiter is not gone is
for what the coroutine awaits now and is the only one; `LifeInv`, that a coroutine has its
result exactly when it is dead, and that what was not started is not canceled.  The
other part is about the call stack, read from its top:

* stackful: `FSlot` says which coroutines have their canceler on their token, and `FStack` which
  frames may be where (code that runs at the bottom, its work over it, cancelers on top, and
  only the top one yet to cancel, or unwinding), that each coroutine is in one frame, that one
  that runs, or was canceled and waits, is on the stack, and that `ptr` and the `previous` of
  who unwinds are what the bottom of the stack says;
* stackless: `LSlot` and `LStack` say the same with frames that are destroyed in place of
  contexts that unwind, and `LDone` that the await whose receiver is yet to be called from a
  canceler is already gone; they hold while no failure that the model names (`failed`, section
  7) has happened, since the code is undefined from there on, and `LSafe` says so.

The two headers do so much in one step, a canceler or a result that runs several calls, that
their proofs go through lemmas about one frame pushed, popped or replaced (`FTop`,
`LTop`...), and then one lemma per action.

Each proof module has one lemma per part of the invariant or per group of actions, and the
theorems combine them.  `Refinement` shows that `SharedState` implements `OneShot` for safety:
the initial states map to one of `OneShot`, every step to a step or a stutter.

The theorems hold for a chain of any length, for any number of calls, permits, promises,
threads, coroutines and cancelers, of which the runs take two or three.

## 6. What is only model-checked, and what is not modelled

Only model-checked:

* the liveness properties (`WaitersReturn`, `InnermostHears`, `EverybodyEnds`, `StopReturns` of
  the periodic task and of the pool, `KeepsRunning`, `TriggerReturns`, `CanceledChainEnds`,
  `AnswersCome`, `TerminateEnds`, `PostedTasksRun`, `CancelEnds`, `AnswersResume`) and what
  `ImplementsOneShot` adds to `Refinement`, the fairness of `OneShot`: liveness under fairness
  and ENABLED are out of the prover's reach, as is induction over data.  No module uses a
  RECURSIVE operator;
* what happens to the periodic task once something was done inside `reschedule()`, or
  without `Patient` (section 7), and the finding.

Not modelled:

* the lazy task canceler: reading it refutes what it promises (section 7);
* the asio adapter (a promise and template glue), `barrier` and `stepper` (helpers for
  tests), the emscripten ports (another, single-threaded build), type utilities;
* of the modelled components: the formatting of task names and chain names, values (a value
  is one constant), allocation failures, exceptions thrown by `post()` or by `submit()`,
  `set_period()` and the other setters of the periodic task, the callbacks of the thread
  pool, several continuations of one `shared_future` that unwrap at once (their cancelers do
  not nest on the token: `FutureChain` would need a tree of steps), copies made by several
  threads from one const `promise_ptr` (each promise of `SharedState` is used by one thread
  at a time), `package()` on a token that is canceled already (the tokens of `PackagedTask`
  start fresh), what `start()`, `stop()` and `post()` of a `ThreadPool` do once its impl is
  released: they dereference a null `_p`, and the model disables them.

External code (boost::asio, boost::context, the frames of the compiler,
`std::condition_variable`) is modelled by what the code above relies on.

Memory order: the atomics of the library are sequentially consistent, `_promise_count`,
`_done` and `fired` included, so that interleaving is enough; the unlocked reads of `_r`
are steps of their own.

What would come next: a tree of steps in place of the chain of `FutureChain`; an abstract
semaphore, a counter and a queue, that `Semaphore` implements.

## 7. Known disagreements

What the models do and a line of the repository denies.  The first has a run of its own;
for the others, the module states the denied sentence as a definition marked "Not so", or
stops at the step in question (`aborted`, `failed`, `stuck`), and nothing more is said of the
program from there on.

1. **A late canceler** (run `lazy_tasks_late`, `OneCanceler`).  `async_wait()` starts its
   timer (`inc/lazy/async_wait.hpp:48`) before it sets its canceler (line 55).  A timer that
   fires in between completes the stage; the next one sets its own, and
   `assert(!_cancel)` fails (`inc/lazy/cancelation_token.hpp:60`).
2. **A dropped task fails an assert** (`PackagedTask.DeadMeansDone`).
   `packaged_task_canceler` takes a promise that is dead for a task that was run, and
   asserts it (`inc/packaged_task.hpp:142-143`).  An executor that discards its queue destroys
   the task unrun.
3. **A broken chain pops nothing** (`PackagedTask.RunsDefined`).
   `break_cancelation_chain()` on a future of `async()` that has not started makes the
   task pop the new, empty token (`inc/packaged_task.hpp:112`): undefined behaviour.
4. **then() dereferences a null token** (`FutureChain.NoNullToken`).  A future made after its
   state resolved has no token, and the callbacks of `then()` that take one get `*token`
   (`inc/future.hpp:127`).
5. **stop() may find a new run** (`PeriodicTask.AssertsHold`, with `Patient = FALSE`).
   A callback that throws while `stop()` waits stores `Stopped` early; a `start()` slips in,
   and the continuation of `stop()` fails its assert (`src/periodic_task.cpp:62`).  If a second
   `stop()` slips in besides, the continuation of the first one stores `Stopped` while the
   new run is under way.
6. **A canceled job stays scheduled** (`Job.ReadyMeansRan`).  A run canceled in the queue of
   the executor never resets `_scheduled`, and the job never runs again
   (`inc/job.hpp:83,109`), against `trigger()`, "a future that will finish when the job has run
   once from begin to end after the call" (lines 43-44).
7. **trigger_success() may return the promise of the run in progress**
   (`Job.SuccessMeansRan`, `inc/job.hpp:65`); and `trigger()` followed by
   `trigger_success()` before the run starts calls `back()` on an empty vector (`aborted =
   "back"`).
8. **A fork may lose the impl** (`ThreadPool.ForkKeepsImpl`).  "This can't `_p.release()`"
   (`src/thread_pool.cpp:160`) fails when another thread is in `run_thread()`:
   `resume_after_fork()` then uses a null `_p`.
9. **A coroutine that cancels itself** is not "immediately destroyed" at "a suspension point"
   (`doc/2-coroutines.md:60,64`).  The stackless one destroys the frame that is running
   (`inc/stackless_coroutine.hpp:649`).  The stackful one goes on to its next await, of which
   `inc/stackful_coroutine.hpp:246-254` says "This call is a cancelation point, it can throw
   operation_canceled if a cancelation is requested, even if awaitable finished with a
   value".  So it does if what is awaited is ready; if it is not, the canceler is pushed on a
   token that is canceled, is called at once (lines 438-451), and `run_coroutine()` resumes the
   coroutine that runs it.  Both are `failed = "running"`.
10. **The lazy task canceler forgets tasks** (not modelled).  `terminate()` iterates over
    `_cancelation_tokens` while the completion that `request_cancel()` causes erases from it
    (`inc/lazy/task_canceler.hpp:104-116`): with three tasks that end when they are canceled,
    the second is skipped and the third is asked twice, in one thread, against "When this
    member is destroyed, all tasks will be canceled" (`doc/3-task-canceler.md:45`).  With
    several threads, it holds its mutex when it takes that of a token, and a canceler takes
    them in the other order.
11. **A timer may be faster than reschedule()** (`PeriodicTask.AssertsHold`, `NoOverlap` and
    `StoppedIsQuiet`, once `nested`).  The timer that fires between
    `src/async_wait.cpp:44` and the assignment of `_future` (`src/periodic_task.cpp:76-81`) has
    the callback run inside `reschedule()`.  If it returns a ready future, a nested
    `reschedule()` assigns `_future`, and the outer one overwrites it with a chain that is
    over: `stop()` finds that chain, stores `Stopped` and returns a ready future, while the
    orphan timer calls the callback of a task that is stopped, or of one that was started
    again.  When that run ends, `assert(_state != State::Stopped)` fails
    (`src/periodic_task.cpp:72`).  If the callback calls `stop()` there, it
    stops the chain before; in the first run of the task there is none, and
    `assert(_future.is_valid())` fails (line 52).

What the code does beyond its documentation and no line denies: a thread that completes a
chain of `sync_wait()` notifies a condition variable that the waiter may have destroyed
(`inc/lazy/sync_wait.hpp:57`, `dangling`); a receiver on the thread of a sender may use the
token or the awaiter of a coroutine that was canceled since (`dangling` in both coroutine
modules); `push()` on a semaphore locks its mutex twice if what it resolves releases
(`stuck`); a permit that reaches a canceled call is lost (`Lost`); a callback of `when_any`
that runs in its constructor moves the vector that the loop goes on with
(`inc/when.hpp:161-175`, `aborted`); a `stop()` that finds the periodic task stopping and its
chain resolved returns a ready future while the continuation of the first `stop()` has not
run; a periodic callback whose future ends with `operation_canceled`, nobody having called
`stop()`, leaves the task running with nothing scheduled (the exception that `KeepsRunning`
names); one cancelation of a job makes its token ask for the cancelation of every later run.
