------------------------------ MODULE PackagedTask ------------------------------
(***************************************************************************)
(* packaged_task.hpp: a cancelable task - what async() posts on an executor *)
(* - raced by the executor that runs it (or drops it unrun), by threads     *)
(* that cancel its future or a future derived from it, by the owner of the  *)
(* future calling break_cancelation_chain(), and by the continuation that   *)
(* uses the same cancelation token once the task is over.                   *)
(*                                                                          *)
(* The shared state is the one-shot result of OneShot, which SharedState    *)
(* implements; the tokens are those of TokenOps.                            *)
(***************************************************************************)
EXTENDS TokenOps, FiniteSets

CONSTANTS Cancelers,    \* threads calling request_cancel() on the task's future
          Derived,      \* threads calling it on a future that shares its token
          Runner,       \* the executor's thread
          Continuation, \* a continuation that uses the token, as unwrap()'s does
          InitialStack, \* the callbacks the given token already has
          MayDrop,      \* the executor may destroy the task without running it
          MayBreak      \* the future's owner may break the cancelation chain

Threads == Cancelers \cup Derived \cup {Runner, Continuation}

ASSUME ActorsAssumption == /\ Runner \notin Cancelers \cup Derived
                           /\ Continuation \notin Cancelers \cup Derived
                           /\ Runner # Continuation
                           /\ MayDrop \in BOOLEAN /\ MayBreak \in BOOLEAN

\* The callers of the task have callbacks of their own on its token.
ASSUME StackAssumption == InitialStack \in Seq({"outer"})

VARIABLES
  owners,  \* the threads that hold a promise_ptr of the task
  result,  \* the result of the task
  ptoken,  \* the token the shared state refers to: "given", "fresh" or "null"
  tokens,  \* the two tokens themselves
  done,    \* _done
  f,       \* _f: TRUE until it is reset
  calls,   \* how many times the function was called
  called,  \* the callbacks of the token's other users that were called
  pc,      \* where each thread is
  cb,      \* the callback each thread copied out of a token
  tok      \* the token each thread refers to

taskVars == <<done, f, calls>>
tokenVars == <<ptoken, tokens>>
threadVars == <<pc, cb, tok>>
vars == <<owners, result, taskVars, tokenVars, threadVars, called>>

Shared == INSTANCE OneShot WITH
            Promises <- Threads,
            Conts <- {},
            Outcomes <- {"value", "exception", "canceled"},
            registered <- {},
            delivered <- [c \in {} |-> 0]

\* package(): the promise, and the canceler pushed on the token.
Init == /\ owners = {Runner}
        /\ result = "none"
        /\ ptoken = "given"
        /\ tokens = [t \in {"given", "fresh"} |->
                       IF t = "given"
                         THEN PushCallback([NewToken EXCEPT
                                              !.callbacks = InitialStack], "task")
                         ELSE NewToken]
        /\ done = FALSE
        /\ f = TRUE
        /\ calls = 0
        /\ called = {}
        /\ pc = [t \in Threads |-> IF t = Runner THEN "queued" ELSE "idle"]
        /\ cb = [t \in Threads |-> NoCallback]
        /\ tok = [t \in Threads |-> "given"]

Goto(t, label) == pc' = [pc EXCEPT ![t] = label]

\* A critical section of thread t leaves token k as `after`; t copies the
\* callback it has to run next, if there is one.
UseToken(t, k, after) ==
  /\ tokens' = [tokens EXCEPT ![k] = after]
  /\ cb' = [cb EXCEPT ![t] = ToCall(after)]

\* The result is stored, and finish() drops the token.
Resolve(v) == Shared!Fulfil(v) /\ ptoken' = "null"

--------------------------------------------------------------------------------
(* The executor: shared::operator() *)

\* MUTANT: a load and a store in place of the exchange.
RunExchange_Load ==
  /\ pc[Runner] = "queued"
  /\ Goto(Runner, "pop")
  /\ done' = TRUE
  /\ UNCHANGED <<owners, result, f, calls, tokenVars, cb, tok, called>>

\* MUTANT: a task whose token is canceled returns without taking _done.
RunExchange_Skip ==
  /\ pc[Runner] = "queued"
  /\ LET skip == done \/ tokens[ptoken].requested
     IN Goto(Runner, IF skip THEN "destroy" ELSE "pop") /\ done' = (done \/ ~skip)
  /\ UNCHANGED <<owners, result, f, calls, tokenVars, cb, tok, called>>

\* `if (_done.exchange(true)) return;`
RunExchange ==
  /\ pc[Runner] = "queued"
  /\ Goto(Runner, IF done THEN "destroy" ELSE "pop")
  /\ done' = TRUE
  /\ UNCHANGED <<owners, result, f, calls, tokenVars, cb, tok, called>>

\* The canceler is popped from the token the shared state refers to now.
RunPop ==
  /\ pc[Runner] = "pop"
  /\ Depth(tokens[ptoken]) > 0
  /\ UseToken(Runner, ptoken, PopCallback(tokens[ptoken]))
  /\ Goto(Runner, "popped")
  /\ UNCHANGED <<owners, result, taskVars, ptoken, tok, called>>

\* pop_back() of an empty deque is undefined: nothing is said of what follows.
RunPopEmpty ==
  /\ pc[Runner] = "pop"
  /\ Depth(tokens[ptoken]) = 0
  /\ Goto(Runner, "undefined")
  /\ UNCHANGED <<owners, result, taskVars, tokenVars, cb, tok, called>>

\* pop_cancelation_callback() ran the callback of the enclosing scope if it
\* copied one; then _f is called with the token, which it may use.
RunCall ==
  /\ pc[Runner] = "popped"
  /\ tok' = [tok EXCEPT ![Runner] = ptoken]
  /\ calls' = calls + 1
  /\ Goto(Runner, "running")
  /\ cb' = [cb EXCEPT ![Runner] = NoCallback]
  /\ called' = called \cup ({cb[Runner]} \ {NoCallback})
  /\ UNCHANGED <<owners, result, done, f, tokenVars>>

\* The function opens a scope_canceler...
BodyPush ==
  /\ pc[Runner] = "running"
  /\ UseToken(Runner, tok[Runner], PushCallback(tokens[tok[Runner]], "body"))
  /\ Goto(Runner, "pushed")
  /\ UNCHANGED <<owners, result, taskVars, ptoken, tok, called>>

\* ... whose callback runs at once if the token was already canceled...
BodyPushed ==
  /\ pc[Runner] = "pushed"
  /\ called' = called \cup ({cb[Runner]} \ {NoCallback})
  /\ cb' = [cb EXCEPT ![Runner] = NoCallback]
  /\ Goto(Runner, "scoped")
  /\ UNCHANGED <<owners, result, taskVars, tokenVars, tok>>

\* ... and closes it.
BodyPop ==
  /\ pc[Runner] = "scoped"
  /\ Depth(tokens[tok[Runner]]) > 0
  /\ UseToken(Runner, tok[Runner], PopCallback(tokens[tok[Runner]]))
  /\ Goto(Runner, "unscoped")
  /\ UNCHANGED <<owners, result, taskVars, ptoken, tok, called>>

\* The function returned or threw (operation_canceled or anything else).
RunSet(v) ==
  /\ pc[Runner] \in {"running", "unscoped"}
  /\ Resolve(v)
  /\ called' = called \cup ({cb[Runner]} \ {NoCallback})
  /\ cb' = [cb EXCEPT ![Runner] = NoCallback]
  /\ Goto(Runner, "clear")
  /\ UNCHANGED <<taskVars, tokens, tok>>

\* `_f = nullptr`.
RunClear ==
  /\ pc[Runner] = "clear"
  /\ f' = FALSE
  /\ Goto(Runner, "destroy")
  /\ UNCHANGED <<owners, result, done, calls, tokenVars, cb, tok, called>>

\* The executor destroys the packaged_task.
RunDestroy ==
  /\ pc[Runner] = "destroy"
  /\ Shared!Disown(Runner)
  /\ Goto(Runner, "gone")
  /\ UNCHANGED <<taskVars, tokenVars, cb, tok, called>>

\* MUTANT: the executor leaks its queue.
Drop_Leak ==
  /\ MayDrop
  /\ pc[Runner] = "queued"
  /\ Goto(Runner, "dropped")
  /\ UNCHANGED <<owners, result, taskVars, tokenVars, cb, tok, called>>

\* An executor that goes away discards its queue.
Drop ==
  /\ MayDrop
  /\ pc[Runner] = "queued"
  /\ Shared!Disown(Runner)
  /\ Goto(Runner, "dropped")
  /\ UNCHANGED <<taskVars, tokenVars, cb, tok, called>>

\* The last promise_ptr is gone without a result: broken_promise.
BreakPromise ==
  /\ Shared!Abandon
  /\ ptoken' = "null"
  /\ UNCHANGED <<taskVars, tokens, threadVars, called>>

--------------------------------------------------------------------------------
(* The cancelers: future::request_cancel() and packaged_task_canceler *)

\* get_cancelation_token(); a resolved future has no token any more, but those
\* derived from it still share the one it had.
GetToken(t) ==
  /\ t \in Cancelers \cup Derived
  /\ pc[t] = "idle"
  /\ IF t \in Cancelers /\ ptoken = "null"
       THEN Goto(t, "returned") /\ UNCHANGED tok
       ELSE /\ Goto(t, "request")
            /\ tok' = [tok EXCEPT ![t] = IF t \in Derived THEN "given" ELSE ptoken]
  /\ UNCHANGED <<owners, result, taskVars, tokenVars, cb, called>>

Request(t) ==
  /\ pc[t] = "request"
  /\ UseToken(t, tok[t], RequestCancel(tokens[tok[t]]))
  /\ Goto(t, "call")
  /\ UNCHANGED <<owners, result, taskVars, ptoken, tok, called>>

\* The callback of another user of the token, or none.
CallOther(t) ==
  /\ pc[t] = "call"
  /\ cb[t] # "task"
  /\ called' = called \cup ({cb[t]} \ {NoCallback})
  /\ Goto(t, "returned")
  /\ UNCHANGED <<owners, result, taskVars, tokenVars, cb, tok>>

\* packaged_task_canceler::operator(): promise_ptr::try_lock().
TryLock(t) ==
  /\ pc[t] = "call"
  /\ cb[t] = "task"
  /\ IF owners = {}
       THEN Goto(t, "dead") /\ UNCHANGED <<owners, result>>
       ELSE Shared!Share(t) /\ Goto(t, "exchange")
  /\ UNCHANGED <<taskVars, tokenVars, cb, tok, called>>

\* `if (!pp) { assert(_p->_done.load()); return; }`
DeadReturn(t) ==
  /\ pc[t] = "dead"
  /\ Goto(t, "returned")
  /\ UNCHANGED <<owners, result, taskVars, tokenVars, cb, tok, called>>

\* MUTANT: the function is destroyed even if the task got it first.
CancelExchange_ClearFirst(t) ==
  /\ pc[t] = "exchange"
  /\ Goto(t, IF done THEN "release" ELSE "cancel_pop")
  /\ done' = TRUE
  /\ f' = FALSE
  /\ UNCHANGED <<owners, result, calls, tokenVars, cb, tok, called>>


CancelExchange(t) ==
  /\ pc[t] = "exchange"
  /\ Goto(t, IF done THEN "release" ELSE "cancel_pop")
  /\ done' = TRUE
  /\ UNCHANGED <<owners, result, f, calls, tokenVars, cb, tok, called>>

\* MUTANT: the future is made ready before the canceler is popped.
CancelPop_AfterSet(t) ==
  /\ pc[t] = "cancel_pop"
  /\ IF result = "none"
       THEN /\ Resolve("canceled")
            /\ UNCHANGED <<tokens, cb, pc>>
       ELSE /\ Depth(tokens["given"]) > 0
            /\ UseToken(t, "given", PopCallback(tokens["given"]))
            /\ Goto(t, "release")
            /\ UNCHANGED <<owners, result, ptoken>>
  /\ UNCHANGED <<taskVars, tok, called>>

\* The canceler remembers the token it was pushed on.
CancelPop(t) ==
  /\ pc[t] = "cancel_pop"
  /\ Depth(tokens["given"]) > 0
  /\ UseToken(t, "given", PopCallback(tokens["given"]))
  /\ Goto(t, "cancel_clear")
  /\ UNCHANGED <<owners, result, taskVars, ptoken, tok, called>>

CancelClear(t) ==
  /\ pc[t] = "cancel_clear"
  /\ f' = FALSE
  /\ called' = called \cup ({cb[t]} \ {NoCallback})
  /\ cb' = [cb EXCEPT ![t] = NoCallback]
  /\ Goto(t, "cancel_set")
  /\ UNCHANGED <<owners, result, done, calls, tokenVars, tok>>

CancelSet(t) ==
  /\ pc[t] = "cancel_set"
  /\ Resolve("canceled")
  /\ Goto(t, "release")
  /\ UNCHANGED <<taskVars, tokens, cb, tok, called>>

\* The locked promise_ptr goes out of scope.
Release(t) ==
  /\ pc[t] = "release"
  /\ Shared!Disown(t)
  /\ Goto(t, "returned")
  /\ UNCHANGED <<taskVars, tokenVars, cb, tok, called>>

CancelStep(t) == \/ Request(t) \/ CallOther(t) \/ TryLock(t) \/ DeadReturn(t)
                 \/ CancelExchange(t) \/ CancelPop(t) \/ CancelClear(t)
                 \/ CancelSet(t) \/ Release(t)

--------------------------------------------------------------------------------
(* The future's side *)

\* break_cancelation_chain(): the shared state and the future get a new token.
BreakChain ==
  /\ MayBreak
  /\ ptoken # "fresh"
  /\ ptoken' = "fresh"
  /\ UNCHANGED <<owners, result, taskVars, tokens, threadVars, called>>

\* A continuation that runs once the future is ready pushes its own canceler on
\* the token it inherited, as unwrap() does for the inner future.
ContinuationPush ==
  /\ pc[Continuation] = "idle"
  /\ result # "none"
  /\ UseToken(Continuation, "given", PushCallback(tokens["given"], "inner"))
  /\ Goto(Continuation, "inner_pushed")
  /\ UNCHANGED <<owners, result, taskVars, ptoken, tok, called>>

ContinuationPushed ==
  /\ pc[Continuation] = "inner_pushed"
  /\ called' = called \cup ({cb[Continuation]} \ {NoCallback})
  /\ Goto(Continuation, "inner")
  /\ UNCHANGED <<owners, result, taskVars, tokenVars, cb, tok>>

\* Once it is over it pops it, and runs what that uncovers.
ContinuationPop ==
  /\ pc[Continuation] = "inner"
  /\ Depth(tokens["given"]) > 0
  /\ UseToken(Continuation, "given", PopCallback(tokens["given"]))
  /\ Goto(Continuation, "call")
  /\ UNCHANGED <<owners, result, taskVars, ptoken, tok, called>>

--------------------------------------------------------------------------------

RunStep == \/ RunExchange \/ RunPop \/ RunPopEmpty \/ RunCall \/ BodyPushed \/ BodyPop
           \/ (\E v \in {"value", "exception"} : RunSet(v))
           \/ RunClear \/ RunDestroy

ContinuationStep == \/ ContinuationPush \/ ContinuationPushed \/ ContinuationPop

\* Every thread is done with the task.
Finished == /\ \/ pc[Runner] \in {"gone", "dropped"} /\ result # "none"
               \/ pc[Runner] = "undefined"
            /\ \A t \in Threads \ {Runner} :
                 \/ pc[t] = "returned"
                 \/ t = Continuation /\ result = "none"
            /\ UNCHANGED vars

Next == \/ RunStep \/ BodyPush \/ Drop \/ BreakPromise
        \/ \E t \in Threads : GetToken(t) \/ CancelStep(t)
        \/ BreakChain
        \/ ContinuationStep
        \/ Finished

SafeSpec == Init /\ [][Next]_vars

\* The executor runs what it was given, and a call once begun goes on.
Fairness == /\ WF_vars(RunStep)
            /\ WF_vars(BreakPromise)
            /\ \A t \in Threads : WF_vars(CancelStep(t))
            /\ WF_vars(ContinuationStep)

Spec == SafeSpec /\ Fairness

--------------------------------------------------------------------------------
(* Properties *)

Callbacks == {"task", "body", "inner", "outer"}

PCs == {"idle", "queued", "pop", "popped", "running", "pushed", "scoped",
        "unscoped", "clear", "destroy", "gone", "dropped", "undefined",
        "request", "call", "dead", "exchange", "cancel_pop", "cancel_clear",
        "cancel_set", "release", "returned", "inner_pushed", "inner"}

\* Every variable has its type.
TypeOK == /\ owners \subseteq Threads
          /\ result \in {"none", "value", "exception", "canceled", "broken"}
          /\ ptoken \in {"given", "fresh", "null"}
          /\ tokens \in [{"given", "fresh"} -> Token(Callbacks)]
          /\ done \in BOOLEAN
          /\ f \in BOOLEAN
          /\ calls \in Nat
          /\ called \subseteq Callbacks \ {"task"}
          /\ pc \in [Threads -> PCs]
          /\ cb \in [Threads -> Callbacks \cup {NoCallback}]
          /\ tok \in [Threads -> {"given", "fresh", "null"}]

\* The precondition of set() and set_exception() that SharedState relies on:
\* whoever is about to store the task's result finds none, and owns a promise.
SetsOnceAsOwner ==
  \A t \in Threads :
    pc[t] \in {"cancel_pop", "cancel_clear", "cancel_set", "pop", "popped",
               "running", "pushed", "scoped", "unscoped"} =>
      result = "none" /\ t \in owners

\* _f is called at most once, and never once it was reset.
CalledOnceAndAlive ==
  /\ calls <= 1
  /\ pc[Runner] \in {"popped", "running", "pushed", "scoped", "unscoped"} => f

\* Whoever takes the task is the only one who does, may set its result and finds the
\* function alive, however the executor, the cancelers and a drop of the task race.
TakenOnce == SetsOnceAsOwner /\ CalledOnceAndAlive

\* The future tells what happened: canceled or broken only if the function was
\* not and will not be called, a value or an exception only if it was.
ResultTellsTheTruth ==
  /\ result \in {"value", "exception"} <=>
       calls = 1 /\ pc[Runner] \in {"clear", "destroy", "gone"}
  /\ result \in {"canceled", "broken"} => calls = 0 /\ pc[Runner] # "popped"

\* pop_cancelation_callback() names no callback: everybody who pops must find
\* his own on the top.  The executor does as long as the chain is not broken.
PopsItsOwn ==
  /\ pc[Runner] = "pop" /\ ptoken = "given" => Top(tokens[ptoken]) = "task"
  /\ pc[Runner] = "scoped" => Top(tokens[tok[Runner]]) = "body"
  /\ pc[Continuation] = "inner" => Top(tokens["given"]) = "inner"
  /\ \A t \in Threads : pc[t] = "cancel_pop" => Top(tokens["given"]) = "task"

\* Once request_cancel() on the token of the task returned, the task cannot start
\* any more, unless it had started: somebody took it, or it was dropped.
CanceledBeforeReturn ==
  \A t \in Cancelers \cup Derived :
    pc[t] = "returned" /\ tok[t] = "given" => done \/ pc[Runner] = "dropped"

\* A request is never lost between the task, its body and its continuation.
RequestReachesTop ==
  LET t == tokens["given"]
      top == Top(t)
  IN t.requested /\ Depth(t) > 0 /\ pc[Runner] # "dropped" =>
       \/ top \in called
       \/ top = "task" /\ done
       \/ \E th \in Threads :
            cb[th] = top /\ pc[th] \in {"call", "popped", "pushed", "unscoped",
                                        "cancel_clear", "inner_pushed", "exchange"}

\* A request finds whoever is there to hear it, task, body or continuation, and the
\* callbacks come and go around it without taking one another's place.
CancelIsHeard == PopsItsOwn /\ CanceledBeforeReturn /\ RequestReachesTop

\* Not so (README, Known disagreements): "the promise is already dead, this means
\* the callback has run" and its assert(_p->_done.load()), in packaged_task_canceler.
DeadMeansDone == \A t \in Threads : pc[t] = "dead" => done

\* Not so (README, Known disagreements): "\return a future<T> corresponding to the
\* result of the function" (async): the task never pops a callback that is not there.
RunsDefined == pc[Runner] # "undefined"

\* The task that the executor has gets a result, unless what it does is undefined.
TaskResolves == <>(result # "none" \/ pc[Runner] = "undefined")

\* A cancelation request returns.
RequestsReturn ==
  \A t \in Cancelers \cup Derived : (pc[t] = "request") ~> (pc[t] = "returned")

\* The task gets a result though it is dropped, and whoever asks for its cancelation
\* gets back.
EverybodyEnds == TaskResolves /\ RequestsReturn

--------------------------------------------------------------------------------
(* The inductive invariant: _done elects one thread, which owns a promise *)

RunTaking == {"pop", "popped", "running", "pushed", "scoped", "unscoped",
              "undefined"}
Taking == RunTaking \cup {"cancel_pop", "cancel_clear", "cancel_set"}

\* Where the executor's thread holds its packaged_task, and the others the
\* promise_ptr that they locked.
Owning == Taking \cup {"queued", "clear", "destroy", "exchange", "release"}

OwnerInv ==
  /\ pc \in [Threads -> PCs]
  /\ \A t \in Threads : pc[t] \in Owning <=> t \in owners
  /\ \A t \in Threads : t # Runner => pc[t] \notin RunTaking \cup
                                        {"queued", "clear", "destroy", "gone"}
  /\ pc[Runner] \in RunTaking \cup
                    {"queued", "clear", "destroy", "gone", "dropped"}

DoneInv ==
  /\ \A t, u \in Threads : pc[t] \in Taking /\ pc[u] \in Taking => t = u
  /\ \A t \in Threads : pc[t] \in Taking => done /\ result = "none"
  /\ ~done => result \in {"none", "broken"} /\ f
  /\ result = "broken" => owners = {}

CallInv ==
  /\ pc[Runner] \in RunTaking => f
  /\ calls = IF \/ pc[Runner] \in {"running", "pushed", "scoped", "unscoped"}
                \/ result \in {"value", "exception"}
               THEN 1 ELSE 0
  /\ pc[Runner] = "clear" => result \in {"value", "exception"}
  /\ result \in {"value", "exception"} => pc[Runner] \in {"clear", "destroy", "gone"}

IndInv == OwnerInv /\ DoneInv /\ CallInv
================================================================================
