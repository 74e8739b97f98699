-------------------------- MODULE StacklessCoroutine --------------------------
(***************************************************************************)
(* include/tconcurrent/stackless_coroutine.hpp: the coroutines that         *)
(* async_resumable() starts on one single-threaded executor, when the       *)
(* compiler makes them.  StackfulCoroutine is the other implementation.      *)
(*                                                                          *)
(* The frame of a coroutine is destroyed, not resumed, when it is canceled, *)
(* and the destructors of what it awaits cancel that.  Its canceler is set  *)
(* once, when submit() has run it to its first suspension.  The code of a   *)
(* coroutine may await nested cotasks, each with a frame and a continuation.*)
(*                                                                          *)
(* The stack of the thread has "submit" under the first "run" of a          *)
(* coroutine, "destroy" for one that is canceled and "done" for one that was*)
(* destroyed and whose receiver is yet to be called.                        *)
(***************************************************************************)
EXTENDS Integers, Sequences, SequencesExt

CONSTANTS Coroutines,
          First,  \* the coroutine that is started first
          Steps,  \* how many things the code of each does before it ends
          Nesting \* how many cotasks are nested at most

VARIABLES
  co,       \* "none", "queued", "running", "waiting" or "dead"
  left,     \* how many steps the code of each has left
  no,       \* how many times each has been suspended
  on,       \* what each awaits: a coroutine's future, "promise", "sender", "ready"
  depth,    \* how many cotasks are nested in each
  linked,   \* those, by depth, that have a continuation
  result,   \* of the future of each: "none", "value", "error" or "canceled"
  slot,     \* the canceler in the token of each: "none", "start" or "run"
  canceled, \* _canceled of the token of each
  stack,    \* the thread, innermost frame first
  queue,    \* the tasks of the executor
  promises, \* the awaits <<coroutine, number>> whose promise is not resolved
  senders,  \* the awaits whose sender runs
  firing,   \* the awaits whose sender has exchanged "fired", in its own thread
  giving,   \* the awaits whose receiver found no cancelation
  gone,     \* the awaits whose awaiter is destroyed
  failed    \* "", or what went wrong: "running", a coroutine is destroyed by its own
            \* code; "freed", a dead one is resumed or destroyed; "dangling", a receiver
            \* writes to an awaiter that is destroyed; "result", a second result

coVars == <<co, left, no, on, depth, linked, result>>
tokenVars == <<slot, canceled>>
threadVars == <<stack, queue>>
awaitVars == <<promises, senders, firing, giving, gone>>
vars == <<coVars, tokenVars, threadVars, awaitVars, failed>>

Up == failed = ""

Frame(f, c) == [frame |-> f, of |-> c]
Await(c) == <<c, no[c]>>
ResumeTask(a) == [task |-> "resume", of |-> a[1], no |-> a[2]]
StartTask(c) == [task |-> "start", of |-> c, no |-> 0]

Init == /\ co = [c \in Coroutines |-> IF c = First THEN "queued" ELSE "none"]
        /\ left = [c \in Coroutines |-> Steps]
        /\ no = [c \in Coroutines |-> 0] /\ on = [c \in Coroutines |-> "ready"]
        /\ depth = [c \in Coroutines |-> 0] /\ linked = [c \in Coroutines |-> {}]
        /\ result = [c \in Coroutines |-> "none"]
        /\ slot = [c \in Coroutines |-> IF c = First THEN "start" ELSE "none"]
        /\ canceled = [c \in Coroutines |-> FALSE]
        /\ stack = <<>> /\ queue = <<StartTask(First)>>
        /\ promises = {} /\ senders = {} /\ firing = {} /\ giving = {} /\ gone = {}
        /\ failed = ""

Top(f, c) == Up /\ stack # <<>> /\ Head(stack) = Frame(f, c)

--------------------------------------------------------------------------------
(* The end of a coroutine, and its cancelation *)

\* The receiver of c: it resets the token and sets the future, whose continuations
\* are posted; then the holder is let go.
Complete(c, r) ==
  /\ co' = [co EXCEPT ![c] = "dead"]
  /\ slot' = [slot EXCEPT ![c] = "none"]
  /\ result' = [result EXCEPT ![c] = r]
  /\ queue' = queue \o SetToSeq({ResumeTask(Await(d)) : d \in {w \in Coroutines :
                                                     co[w] = "waiting" /\ on[w] = c}})
  /\ failed' = IF result[c] # "none" THEN "result" ELSE ""

\* request_cancel() of c, called with stack s: the canceler of async() completes the
\* future, and that of submit() destroys the coroutine, which must be suspended.
RequestCancel(c, s) ==
  /\ canceled' = [canceled EXCEPT ![c] = TRUE]
  /\ stack' = IF ~canceled[c] /\ slot[c] = "run" THEN <<Frame("destroy", c)>> \o s ELSE s
  /\ IF ~canceled[c] /\ slot[c] = "start"
     THEN Complete(c, "canceled")
     ELSE /\ UNCHANGED <<co, slot, result, queue>>
          /\ failed' = IF canceled[c] \/ slot[c] # "run" THEN ""
                       ELSE IF co[c] = "running" THEN "running"
                       ELSE IF co[c] = "dead" THEN "freed" ELSE ""

\* destroy(): the destructor of the awaiter flags it dead, and requests the cancelation
\* of what it awaits.  The receiver of a sender that is canceled so drops its set_done().
Destroy(c) ==
  /\ Top("destroy", c)
  /\ gone' = gone \cup {Await(c)}
  /\ senders' = senders \ {Await(c)}
  /\ depth' = [depth EXCEPT ![c] = 0]
  /\ linked' = [linked EXCEPT ![c] = {}]
  /\ \/ /\ on[c] \in Coroutines
        /\ RequestCancel(on[c], <<Frame("done", c)>> \o Tail(stack))
     \/ /\ on[c] \notin Coroutines
        /\ stack' = <<Frame("done", c)>> \o Tail(stack)
        /\ UNCHANGED <<co, result, tokenVars, queue, failed>>
  /\ UNCHANGED <<left, no, on, promises, firing, giving>>

\* Then cancel() calls set_done().
Done(c) ==
  /\ Top("done", c)
  /\ stack' = Tail(stack)
  /\ Complete(c, "canceled")
  /\ UNCHANGED <<left, no, on, depth, linked, canceled, awaitVars>>

--------------------------------------------------------------------------------
(* The executor *)

TakeTask(t, c) == /\ Up /\ stack = <<>> /\ queue # <<>>
                  /\ Head(queue).task = t /\ Head(queue).of = c
                  /\ queue' = Tail(queue)

\* The task of async(), unless its canceler was first: submit() resumes the coroutine.
Start(c) ==
  /\ TakeTask("start", c)
  /\ IF co[c] = "queued"
     THEN /\ co' = [co EXCEPT ![c] = "running"]
          /\ slot' = [slot EXCEPT ![c] = "none"]
          /\ stack' = <<Frame("run", c), Frame("submit", c)>>
     ELSE UNCHANGED <<co, slot, stack>>
  /\ UNCHANGED <<left, no, on, depth, linked, result, canceled, awaitVars, failed>>

\* MUTANT: submit() does not see that the coroutine died right away.
SubmitEnds_Always(c) ==
  /\ Top("submit", c)
  /\ stack' = Tail(stack)
  /\ slot' = [slot EXCEPT ![c] = "run"]
  /\ UNCHANGED <<coVars, canceled, queue, awaitVars, failed>>

\* submit() has run the coroutine: if it did not die, its canceler is set, and called at
\* once if the coroutine was canceled meanwhile.
SubmitEnds(c) ==
  /\ Top("submit", c)
  /\ IF co[c] = "dead"
     THEN stack' = Tail(stack) /\ UNCHANGED slot
     ELSE /\ slot' = [slot EXCEPT ![c] = "run"]
          /\ stack' = IF canceled[c] THEN <<Frame("destroy", c)>> \o Tail(stack)
                      ELSE Tail(stack)
  /\ UNCHANGED <<coVars, canceled, queue, awaitVars, failed>>

\* A continuation resumes the innermost frame of c, unless its awaiter is dead.
Resume(c) ==
  /\ TakeTask("resume", c)
  /\ IF <<c, Head(queue).no>> \in gone
     THEN UNCHANGED <<co, stack, failed>>
     ELSE IF co[c] = "waiting" /\ no[c] = Head(queue).no
     THEN /\ co' = [co EXCEPT ![c] = "running"]
          /\ stack' = <<Frame("run", c)>>
          /\ UNCHANGED failed
     ELSE failed' = "freed" /\ UNCHANGED <<co, stack>>
  /\ UNCHANGED <<left, no, on, depth, linked, result, tokenVars, awaitVars>>

--------------------------------------------------------------------------------
(* The code of a coroutine *)

UserStep(c) == /\ Top("run", c)
               /\ left[c] > 0
               /\ left' = [left EXCEPT ![c] = @ - 1]

\* The outermost cotask returns or throws, and the receiver is called.
Finish(c) ==
  /\ Top("run", c) /\ depth[c] = 0
  /\ stack' = Tail(stack)
  /\ \E r \in {"value", "error"} : Complete(c, r)
  /\ UNCHANGED <<left, no, on, depth, linked, canceled, awaitVars>>

\* The code awaits a cotask, which runs at once.
Nest(c) ==
  /\ UserStep(c)
  /\ depth[c] < Nesting
  /\ depth' = [depth EXCEPT ![c] = @ + 1]
  /\ UNCHANGED <<co, no, on, linked, result, tokenVars, threadVars, awaitVars, failed>>

\* MUTANT: await_suspend() of a cotask does not look whether it is done.
Return_Sleeps(c) ==
  /\ Top("run", c) /\ depth[c] > 0
  /\ depth' = [depth EXCEPT ![c] = @ - 1]
  /\ linked' = [linked EXCEPT ![c] = @ \ {depth[c]}]
  /\ IF depth[c] \in linked[c]
     THEN UNCHANGED <<co, no, stack>>
     ELSE /\ co' = [co EXCEPT ![c] = "waiting"]
          /\ no' = [no EXCEPT ![c] = @ + 1]
          /\ stack' = Tail(stack)
  /\ UNCHANGED <<left, on, result, tokenVars, queue, awaitVars, failed>>

\* A cotask ends.  If it was suspended its continuation resumes the caller, else the
\* caller finds it done and goes on.
Return(c) ==
  /\ Top("run", c) /\ depth[c] > 0
  /\ depth' = [depth EXCEPT ![c] = @ - 1]
  /\ linked' = [linked EXCEPT ![c] = @ \ {depth[c]}]
  /\ UNCHANGED <<co, left, no, on, result, tokenVars, threadVars, awaitVars, failed>>

\* async_resumable(): submit_to_future() of connect(async(), run_resumable()).
Spawn(c, d) ==
  /\ UserStep(c)
  /\ co[d] = "none"
  /\ co' = [co EXCEPT ![d] = "queued"]
  /\ slot' = [slot EXCEPT ![d] = "start"]
  /\ queue' = Append(queue, StartTask(d))
  /\ UNCHANGED <<no, on, depth, linked, result, canceled, stack, awaitVars, failed>>

\* await_suspend() attaches the continuation, submits the sender or, for a yield ("ready"), posts;
\* each nested cotask that was not suspended before gets its continuation.
Suspend(c, what) ==
  /\ UserStep(c)
  /\ what \in Coroutines => co[what] # "none" /\ result[what] = "none"
  /\ co' = [co EXCEPT ![c] = "waiting"]
  /\ no' = [no EXCEPT ![c] = @ + 1]
  /\ on' = [on EXCEPT ![c] = what]
  /\ linked' = [linked EXCEPT ![c] = 1..depth[c]]
  /\ stack' = Tail(stack)
  /\ LET a == <<c, no[c] + 1>>
     IN /\ promises' = IF what = "promise" THEN promises \cup {a} ELSE promises
        /\ senders' = IF what = "sender" THEN senders \cup {a} ELSE senders
        /\ queue' = IF what = "ready" THEN Append(queue, ResumeTask(a)) ELSE queue
  /\ UNCHANGED <<depth, result, tokenVars, firing, giving, gone, failed>>

\* The code of c cancels the future of d.
Cancel(c, d) ==
  /\ UserStep(c)
  /\ co[d] # "none" /\ ~canceled[d]
  /\ RequestCancel(d, stack)
  /\ UNCHANGED <<no, on, depth, linked, awaitVars>>

\* Another task of the executor cancels it.
CancelByTask(d) ==
  /\ Up /\ stack = <<>>
  /\ co[d] # "none" /\ ~canceled[d]
  /\ RequestCancel(d, stack)
  /\ UNCHANGED <<left, no, on, depth, linked, awaitVars>>

--------------------------------------------------------------------------------
(* Other threads *)

\* The promise that c awaits is resolved: its continuation is posted.
Resolve(a) ==
  /\ Up /\ a \in promises
  /\ promises' = promises \ {a}
  /\ queue' = Append(queue, ResumeTask(a))
  /\ UNCHANGED <<coVars, tokenVars, stack, senders, firing, giving, gone, failed>>

\* The sender exchanges "fired": its canceler has no effect from now on.
Fire(a) ==
  /\ Up /\ a \in senders
  /\ senders' = senders \ {a}
  /\ firing' = firing \cup {a}
  /\ UNCHANGED <<coVars, tokenVars, threadVars, promises, giving, gone, failed>>

\* Its receiver looks whether the awaiter canceled it, ...
Look(a) ==
  /\ Up /\ a \in firing
  /\ firing' = firing \ {a}
  /\ giving' = IF a \in gone THEN giving ELSE giving \cup {a}
  /\ UNCHANGED <<coVars, tokenVars, threadVars, promises, senders, gone, failed>>

\* ... and then gives the awaiter its value, and posts.
Give(a) ==
  /\ Up /\ a \in giving
  /\ giving' = giving \ {a}
  /\ IF a \in gone
     THEN failed' = "dangling" /\ UNCHANGED queue
     ELSE queue' = Append(queue, ResumeTask(a)) /\ UNCHANGED failed
  /\ UNCHANGED <<coVars, tokenVars, stack, promises, senders, firing, gone>>

--------------------------------------------------------------------------------

Code(c) == \/ Finish(c) \/ Nest(c) \/ Return(c)
           \/ \E d \in Coroutines : Spawn(c, d) \/ Cancel(c, d)
           \/ \E w \in Coroutines \cup {"promise", "sender", "ready"} : Suspend(c, w)

Thread == \E c \in Coroutines : \/ Start(c) \/ SubmitEnds(c) \/ Resume(c)
                                \/ Destroy(c) \/ Done(c) \/ Code(c)

Sender == (\E a \in firing : Look(a)) \/ (\E a \in giving : Give(a))

Others == \/ \E d \in Coroutines : CancelByTask(d)
          \/ \E a \in promises : Resolve(a)
          \/ \E a \in senders : Fire(a)
================================================================================
