--------------------------- MODULE StackfulCoroutine ---------------------------
(***************************************************************************)
(* include/tconcurrent/stackful_coroutine.hpp: the coroutines that          *)
(* async_resumable() starts on one single-threaded executor.                *)
(*                                                                          *)
(* The thread of the executor takes tasks: one starts a coroutine or resumes*)
(* one.  A coroutine runs user code: it spawns another, awaits a future or a*)
(* sender, yields, runs work on the stack of the thread, or cancels a future*)
(* of a coroutine, its own included.  The thread keeps a stack of what it   *)
(* is in: a coroutine's code ("run"), work that one dispatched ("work"), a  *)
(* canceler that is yet to tell the awaited task ("cancel"), one that is yet*)
(* to run the coroutine one last time ("abort") and that run ("unwind").    *)
(* Other threads resolve promises and run senders.                          *)
(***************************************************************************)
EXTENDS Integers, Sequences, SequencesExt

CONSTANTS Coroutines,
          First,  \* the coroutine that is started first
          Null,   \* nullptr
          Steps   \* how many things the code of each does before it ends

VARIABLES
  co,       \* "none", "queued", "running", "waiting" or "dead"
  left,     \* how many steps the code of each has left
  no,       \* how many times each has been suspended
  on,       \* what each awaits: a coroutine's future, or "promise", "sender", "ready"
  result,   \* of the future of each: "none", "value", "error" or "canceled"
  slot,     \* the canceler in the token of each: "none", "start" or "await"
  canceled, \* _canceled of the token of each
  stack,    \* the thread, innermost frame first
  ptr,      \* get_current_coroutine_ptr()
  previous, \* previous_coroutine of each
  queue,    \* the tasks of the executor
  promises, \* the awaits <<coroutine, number>> whose promise is not resolved
  senders,  \* the awaits whose sender runs
  firing,   \* the awaits whose sender has exchanged "fired", in its own thread
  gone,     \* the awaits whose *aborted is true
  failed    \* "", or what went wrong: "running", a coroutine resumes itself; "freed",
            \* a dead one is resumed; "dangling", a sender uses a token on the stack of
            \* a dead one; "result", a second result

coVars == <<co, left, no, on, result>>
tokenVars == <<slot, canceled>>
threadVars == <<stack, ptr, previous, queue>>
awaitVars == <<promises, senders, firing, gone>>
vars == <<coVars, tokenVars, threadVars, awaitVars, failed>>

Up == failed = ""

Frame(f, c) == [frame |-> f, of |-> c]
Task(t, c) == [task |-> t, of |-> c, no |-> no[c]]
Await(c) == <<c, no[c]>>

Init == /\ co = [c \in Coroutines |-> IF c = First THEN "queued" ELSE "none"]
        /\ left = [c \in Coroutines |-> Steps]
        /\ no = [c \in Coroutines |-> 0] /\ on = [c \in Coroutines |-> "ready"]
        /\ result = [c \in Coroutines |-> "none"]
        /\ slot = [c \in Coroutines |-> IF c = First THEN "start" ELSE "none"]
        /\ canceled = [c \in Coroutines |-> FALSE]
        /\ stack = <<>> /\ ptr = Null /\ previous = [c \in Coroutines |-> Null]
        /\ queue = <<[task |-> "start", of |-> First, no |-> 0]>>
        /\ promises = {} /\ senders = {} /\ firing = {} /\ gone = {}
        /\ failed = ""

Top(f, c) == Up /\ stack # <<>> /\ Head(stack) = Frame(f, c)

--------------------------------------------------------------------------------
(* The end of a coroutine, and its cancelation *)

\* The continuations that await the future of c are posted.
Resumes(c) == SetToSeq({Task("resume", d) : d \in {w \in Coroutines :
                                          co[w] = "waiting" /\ on[w] = c}})

\* The receiver of c: it resets the token and sets the future.
Complete(c, r) == /\ co' = [co EXCEPT ![c] = "dead"]
                  /\ slot' = [slot EXCEPT ![c] = "none"]
                  /\ result' = [result EXCEPT ![c] = r]
                  /\ queue' = queue \o Resumes(c)
                  /\ failed' = IF result[c] # "none" THEN "result" ELSE ""

\* request_cancel() of c, called with stack s: the canceler of async() completes the
\* future, that of await() runs, and a coroutine that runs is left its flag.
RequestCancel(c, s) ==
  /\ canceled' = [canceled EXCEPT ![c] = TRUE]
  /\ stack' = IF ~canceled[c] /\ slot[c] = "await" THEN <<Frame("cancel", c)>> \o s ELSE s
  /\ IF ~canceled[c] /\ slot[c] = "start"
     THEN Complete(c, "canceled")
     ELSE UNCHANGED <<co, slot, result, queue, failed>>

\* The canceler of await() requests the cancelation of what c awaits.  A sender that
\* has not fired is done and posts; a promise may ignore it.
Tell(c) ==
  /\ Top("cancel", c)
  /\ \/ /\ on[c] \in Coroutines
        /\ RequestCancel(on[c], <<Frame("abort", c)>> \o Tail(stack))
        /\ UNCHANGED senders
     \/ /\ on[c] \notin Coroutines
        /\ stack' = <<Frame("abort", c)>> \o Tail(stack)
        /\ senders' = senders \ {Await(c)}
        /\ queue' = IF Await(c) \in senders THEN Append(queue, Task("resume", c)) ELSE queue
        /\ UNCHANGED <<co, result, tokenVars, failed>>
  /\ UNCHANGED <<left, no, on, ptr, previous, promises, firing, gone>>

\* MUTANT: run_coroutine() leaves no current coroutine behind it.
Leave_Forgets(c) == /\ stack' = Tail(stack)
                    /\ ptr' = Null
                    /\ previous' = [previous EXCEPT ![c] = Null]

\* The scope exit of run_coroutine(): the code of c was suspended or is over.
Leave(c) == /\ stack' = Tail(stack)
            /\ ptr' = previous[c]
            /\ previous' = [previous EXCEPT ![c] = Null]

\* The thread, whose other frames are s, switches to the stack of c.
Enter(c, f, s) == /\ co' = [co EXCEPT ![c] = "running"]
                  /\ slot' = [slot EXCEPT ![c] = "none"]
                  /\ stack' = <<Frame(f, c)>> \o s
                  /\ ptr' = c
                  /\ previous' = [previous EXCEPT ![c] = ptr]

\* MUTANT: the canceler leaves the coroutine to its continuation.
Abort_Waits(c) ==
  /\ Top("abort", c)
  /\ stack' = Tail(stack)
  /\ UNCHANGED <<coVars, tokenVars, ptr, previous, queue, awaitVars, failed>>

\* The canceler then sets *aborted and runs the coroutine one last time: await() throws
\* abort_coroutine, which unwinds its stack.
Abort(c) ==
  /\ Top("abort", c)
  /\ gone' = gone \cup {Await(c)}
  /\ Enter(c, "unwind", Tail(stack))
  /\ UNCHANGED <<left, no, on, result, canceled, queue, promises, senders, firing, failed>>

\* The handler of abort_coroutine calls set_done(): the thread is back in the canceler,
\* which returns.
Unwound(c) ==
  /\ Top("unwind", c)
  /\ Complete(c, "canceled")
  /\ Leave(c)
  /\ UNCHANGED <<left, no, on, canceled, awaitVars>>

\* A task starts a coroutine, unless the canceler of async() was first.
Start(c) ==
  /\ Up /\ stack = <<>> /\ queue # <<>>
  /\ Head(queue).task = "start" /\ Head(queue).of = c
  /\ queue' = Tail(queue)
  /\ IF co[c] = "queued" THEN Enter(c, "run", stack) ELSE UNCHANGED <<co, slot, stack, ptr, previous>>
  /\ UNCHANGED <<left, no, on, result, canceled, awaitVars, failed>>

\* A continuation resumes c, unless *aborted says that c is dead.
Resume(c) ==
  /\ Up /\ stack = <<>> /\ queue # <<>>
  /\ Head(queue).task = "resume" /\ Head(queue).of = c
  /\ queue' = Tail(queue)
  /\ IF <<c, Head(queue).no>> \in gone
     THEN UNCHANGED <<co, slot, stack, ptr, previous, failed>>
     ELSE IF co[c] = "waiting" /\ no[c] = Head(queue).no
     THEN Enter(c, "run", stack) /\ UNCHANGED failed
     ELSE failed' = "freed" /\ UNCHANGED <<co, slot, stack, ptr, previous>>
  /\ UNCHANGED <<left, no, on, result, canceled, awaitVars>>

--------------------------------------------------------------------------------
(* The code of a coroutine *)

UserStep(c) == /\ left[c] > 0
               /\ left' = [left EXCEPT ![c] = @ - 1]

\* The code ends: with a value, by an exception, or by the operation_canceled that it
\* did not catch.
End(c, r) == /\ Complete(c, r)
             /\ Leave(c)
             /\ UNCHANGED <<no, on, canceled, awaitVars>>

Finish(c) == /\ Top("run", c)
             /\ \E r \in {"value", "error"} : End(c, r)
             /\ UNCHANGED left

\* async_resumable(): submit_to_future() of connect(async(), run_resumable()).
Spawn(c, d) ==
  /\ Top("run", c) /\ UserStep(c)
  /\ co[d] = "none"
  /\ co' = [co EXCEPT ![d] = "queued"]
  /\ slot' = [slot EXCEPT ![d] = "start"]
  /\ queue' = Append(queue, Task("start", d))
  /\ UNCHANGED <<no, on, result, canceled, stack, ptr, previous, awaitVars, failed>>

\* The canceler is set, the thread is back in run_coroutine(), and the exit setup
\* there attaches the continuation to the future or submits the sender.
Suspend(c, what) ==
  /\ co' = [co EXCEPT ![c] = "waiting"]
  /\ no' = [no EXCEPT ![c] = @ + 1]
  /\ on' = [on EXCEPT ![c] = what]
  /\ slot' = [slot EXCEPT ![c] = "await"]
  /\ Leave(c)
  /\ promises' = IF what = "promise" THEN promises \cup {<<c, no[c] + 1>>} ELSE promises
  /\ senders' = IF what = "sender" THEN senders \cup {<<c, no[c] + 1>>} ELSE senders
  /\ queue' = IF what = "ready" THEN Append(queue, [task |-> "resume", of |-> c, no |-> no[c] + 1])
              ELSE queue
  /\ UNCHANGED failed

\* await() of what is not ready, or of a sender.  If c is canceled, set_canceler()
\* runs the canceler at once: it resumes the coroutine that runs.
AwaitPending(c, what) ==
  /\ Top("run", c) /\ UserStep(c)
  /\ what \in Coroutines => co[what] # "none" /\ result[what] = "none"
  /\ IF canceled[c]
     THEN failed' = "running" /\ UNCHANGED <<co, no, on, slot, threadVars, promises, senders>>
     ELSE Suspend(c, what)
  /\ UNCHANGED <<result, canceled, firing, gone>>

\* await() of a future that is ready: no switch, but a cancelation point.
AwaitReady(c) ==
  /\ Top("run", c) /\ UserStep(c)
  /\ IF canceled[c]
     THEN End(c, "canceled")
     ELSE UNCHANGED <<co, no, on, result, tokenVars, threadVars, awaitVars, failed>>

\* yield(): a cancelation point, then await() of a ready future, with no early return.
Yield(c) ==
  /\ Top("run", c) /\ UserStep(c)
  /\ IF canceled[c]
     THEN End(c, "canceled")
     ELSE Suspend(c, "ready") /\ UNCHANGED <<result, canceled, firing, gone>>

\* dispatch_on_thread_context(): run_coroutine() runs the work on its own stack, out
\* of the coroutine.
Dispatch(c) ==
  /\ Top("run", c) /\ UserStep(c)
  /\ stack' = <<Frame("work", c)>> \o stack
  /\ ptr' = Null
  /\ UNCHANGED <<co, no, on, result, tokenVars, previous, queue, awaitVars, failed>>

WorkEnds(c) ==
  /\ Top("work", c)
  /\ stack' = Tail(stack)
  /\ ptr' = c
  /\ UNCHANGED <<coVars, tokenVars, previous, queue, awaitVars, failed>>

\* The code of c, or its work, cancels the future of d.
Cancel(c, d) ==
  /\ Top("run", c) \/ Top("work", c)
  /\ UserStep(c)
  /\ co[d] # "none" /\ ~canceled[d]
  /\ RequestCancel(d, stack)
  /\ UNCHANGED <<no, on, ptr, previous, awaitVars>>

\* Another task of the executor cancels the future of d.
CancelByTask(d) ==
  /\ Up /\ stack = <<>>
  /\ co[d] # "none" /\ ~canceled[d]
  /\ RequestCancel(d, stack)
  /\ UNCHANGED <<left, no, on, ptr, previous, awaitVars>>

--------------------------------------------------------------------------------
(* Other threads *)

\* The promise that c awaits is resolved: its continuation is posted.
Resolve(a) ==
  /\ Up /\ a \in promises
  /\ promises' = promises \ {a}
  /\ queue' = Append(queue, [task |-> "resume", of |-> a[1], no |-> a[2]])
  /\ UNCHANGED <<coVars, tokenVars, stack, ptr, previous, senders, firing, gone, failed>>

\* The sender exchanges "fired": its canceler has no effect from now on.
Fire(a) ==
  /\ Up /\ a \in senders
  /\ senders' = senders \ {a}
  /\ firing' = firing \cup {a}
  /\ UNCHANGED <<coVars, tokenVars, threadVars, promises, gone, failed>>

\* It looks at the token of the await, on the stack of the coroutine, and posts.
Answer(a) ==
  /\ Up /\ a \in firing
  /\ firing' = firing \ {a}
  /\ IF a \in gone
     THEN failed' = "dangling" /\ UNCHANGED queue
     ELSE queue' = Append(queue, [task |-> "resume", of |-> a[1], no |-> a[2]]) /\ UNCHANGED failed
  /\ UNCHANGED <<coVars, tokenVars, stack, ptr, previous, promises, senders, gone>>

--------------------------------------------------------------------------------

Code(c) == \/ Finish(c) \/ AwaitReady(c) \/ Yield(c) \/ Dispatch(c) \/ WorkEnds(c)
           \/ \E d \in Coroutines : Spawn(c, d) \/ Cancel(c, d)
           \/ \E w \in Coroutines \cup {"promise", "sender"} : AwaitPending(c, w)

Thread == \E c \in Coroutines : Start(c) \/ Resume(c) \/ Tell(c) \/ Abort(c) \/ Unwound(c) \/ Code(c)

Sender == \E a \in firing : Answer(a)

Others == \/ \E d \in Coroutines : CancelByTask(d)
          \/ \E a \in promises : Resolve(a)
          \/ \E a \in senders : Fire(a)
================================================================================
