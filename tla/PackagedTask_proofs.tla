-------------------------- MODULE PackagedTask_proofs --------------------------
(***************************************************************************)
(* Proofs about PackagedTask, for any number of cancelers, any callbacks    *)
(* below the task's on its token, dropped or not, its chain broken or not:  *)
(* who takes the task does not depend on what the tokens contain, and who   *)
(* hears a request for its cancelation does.                                *)
(***************************************************************************)
EXTENDS PackagedTask, TLAPS

\* The steps that only move a thread between places where it neither owns nor
\* takes anything, or not at all.
Neutral ==
  /\ UNCHANGED <<owners, result, done, f, calls>>
  /\ \/ UNCHANGED pc
     \/ \E t \in Threads \ {Runner}, l \in PCs \ (Owning \cup {"gone"}) :
          pc[t] \notin Owning /\ Goto(t, l)
     \/ \E l \in RunTaking : /\ pc[Runner] \in RunTaking
                             /\ pc[Runner] \notin {"running", "pushed", "scoped",
                                                   "unscoped"}
                             /\ l \notin {"running", "pushed", "scoped", "unscoped"}
                             /\ Goto(Runner, l)
     \/ \E l \in {"pushed", "scoped", "unscoped"} :
          pc[Runner] \in {"running", "pushed", "scoped"} /\ Goto(Runner, l)
     \/ \E t \in Threads \ {Runner} :
          pc[t] = "cancel_pop" /\ Goto(t, "cancel_clear")

\* The runner is one of the threads and nobody else; so is the continuation.
LEMMA Actors == /\ Runner \in Threads /\ Continuation \in Threads
                /\ Continuation # Runner
                /\ \A t \in Cancelers \cup Derived : t \in Threads /\ t # Runner
  <1>. QED  BY ActorsAssumption DEF Threads

\* Every step is neutral or one of those named here.
LEMMA Steps ==
  ASSUME IndInv, [Next]_vars
  PROVE  \/ Neutral
         \/ RunExchange \/ RunCall \/ RunClear \/ RunDestroy
         \/ \E v \in {"value", "exception"} : RunSet(v)
         \/ Drop \/ BreakPromise
         \/ \E t \in Threads :
              TryLock(t) \/ CancelExchange(t) \/ CancelClear(t) \/ CancelSet(t)
                \/ Release(t)
  <1>. USE Actors DEF IndInv, OwnerInv, PCs, Owning, Taking, RunTaking, taskVars
  <1>. DEFINE Elsewhere == PCs \ (Owning \cup {"gone"})
  <1>1. ASSUME NEW t \in Threads \ {Runner}, NEW l \in Elsewhere,
               pc[t] \in Elsewhere, Goto(t, l),
               UNCHANGED <<owners, result, done, f, calls>>
        PROVE  Neutral
    <2>1. pc[t] \notin Owning /\ l \in PCs \ (Owning \cup {"gone"})
      BY <1>1
    <2>. QED  BY <1>1, <2>1, Zenon DEF Neutral
  <1>2. CASE RunPop \/ RunPopEmpty
    BY <1>2 DEF RunPop, RunPopEmpty, Neutral, Goto
  <1>3. CASE BodyPush \/ BodyPushed \/ BodyPop
    BY <1>3 DEF BodyPush, BodyPushed, BodyPop, Neutral, Goto
  <1>4. ASSUME NEW t \in Threads,
               GetToken(t) \/ Request(t) \/ CallOther(t) \/ DeadReturn(t)
        PROVE  Neutral
    <2>1. UNCHANGED <<owners, result, done, f, calls>>
      BY <1>4 DEF GetToken, Request, CallOther, DeadReturn
    <2>2. PICK l \in {"request", "call", "returned"} :
            pc[t] \in {"idle", "request", "call", "dead"} /\ Goto(t, l)
      BY <1>4 DEF GetToken, Request, CallOther, DeadReturn
    <2>3. t # Runner  BY <2>2
    <2>4. l \in Elsewhere /\ pc[t] \in Elsewhere  BY <2>2
    <2>. QED  BY <1>1, <2>1, <2>2, <2>3, <2>4
  <1>5. ASSUME NEW t \in Threads, CancelPop(t)
        PROVE  Neutral
    BY <1>5 DEF CancelPop, Neutral, Goto
  <1>6. CASE ContinuationStep
    <2>. USE DEF ContinuationStep, ContinuationPush, ContinuationPushed,
                 ContinuationPop
    <2>1. UNCHANGED <<owners, result, done, f, calls>>  BY <1>6
    <2>2. PICK l \in {"inner_pushed", "inner", "call"} :
            /\ pc[Continuation] \in {"idle", "inner_pushed", "inner"}
            /\ Goto(Continuation, l)
      BY <1>6
    <2>3. l \in Elsewhere /\ pc[Continuation] \in Elsewhere  BY <2>2
    <2>. QED  BY <1>1, <2>1, <2>2, <2>3
  <1>7. CASE BreakChain \/ UNCHANGED vars
    BY <1>7 DEF BreakChain, Neutral, threadVars, vars
  <1>. QED
    BY <1>2, <1>3, <1>4, <1>5, <1>6, <1>7 DEF Next, RunStep, CancelStep, Finished

\* The first state.
LEMMA InitInv == Init => IndInv
  <1>. SUFFICES ASSUME Init PROVE IndInv
    OBVIOUS
  <1>. USE Actors DEF Init, PCs, Owning, Taking, RunTaking
  <1>1. OwnerInv  BY DEF OwnerInv
  <1>2. DoneInv  BY DEF DoneInv
  <1>3. CallInv  BY DEF CallInv
  <1>. QED  BY <1>1, <1>2, <1>3 DEF IndInv

\* Who holds a promise_ptr is where the code holds one.
LEMMA OwnerStep ==
  ASSUME IndInv, [Next]_vars
  PROVE  OwnerInv'
  <1>. USE Actors DEF IndInv, OwnerInv, PCs, Owning, Taking, RunTaking, Goto,
                      taskVars
  <1>1. CASE Neutral
    BY <1>1 DEF Neutral
  <1>2. CASE RunExchange
    BY <1>2 DEF RunExchange
  <1>3. CASE RunCall \/ RunClear
    BY <1>3 DEF RunCall, RunClear
  <1>4. CASE RunDestroy \/ Drop
    BY <1>4 DEF RunDestroy, Drop, Shared!Disown
  <1>5. ASSUME NEW v \in {"value", "exception"}, RunSet(v)
        PROVE  OwnerInv'
    BY <1>5 DEF RunSet, Resolve, Shared!Fulfil
  <1>6. CASE BreakPromise
    BY <1>6 DEF BreakPromise, Shared!Abandon, threadVars
  <1>7. ASSUME NEW t \in Threads, TryLock(t)
        PROVE  OwnerInv'
    BY <1>7 DEF TryLock, Shared!Share
  <1>8. ASSUME NEW t \in Threads, CancelExchange(t) \/ CancelClear(t)
        PROVE  OwnerInv'
    BY <1>8 DEF CancelExchange, CancelClear
  <1>9. ASSUME NEW t \in Threads, CancelSet(t)
        PROVE  OwnerInv'
    BY <1>9 DEF CancelSet, Resolve, Shared!Fulfil
  <1>10. ASSUME NEW t \in Threads, Release(t)
         PROVE  OwnerInv'
    BY <1>10 DEF Release, Shared!Disown
  <1>. QED  BY Steps, <1>1, <1>2, <1>3, <1>4, <1>5, <1>6, <1>7, <1>8, <1>9, <1>10

\* _done elects one thread, and nobody stores a result before it does.
LEMMA DoneStep ==
  ASSUME IndInv, [Next]_vars
  PROVE  DoneInv'
  <1>. USE Actors DEF IndInv, OwnerInv, DoneInv, PCs, Owning, Taking, RunTaking,
                      Goto, taskVars
  <1>1. CASE Neutral
    BY <1>1 DEF Neutral
  <1>2. CASE RunExchange
    BY <1>2 DEF RunExchange, CallInv
  <1>3. CASE RunCall \/ RunClear
    BY <1>3 DEF RunCall, RunClear, CallInv
  <1>4. CASE RunDestroy \/ Drop
    BY <1>4 DEF RunDestroy, Drop, Shared!Disown
  <1>5. ASSUME NEW v \in {"value", "exception"}, RunSet(v)
        PROVE  DoneInv'
    BY <1>5 DEF RunSet, Resolve, Shared!Fulfil
  <1>6. CASE BreakPromise
    BY <1>6 DEF BreakPromise, Shared!Abandon, threadVars
  <1>7. ASSUME NEW t \in Threads, TryLock(t)
        PROVE  DoneInv'
    BY <1>7 DEF TryLock, Shared!Share
  <1>8. ASSUME NEW t \in Threads, CancelExchange(t)
        PROVE  DoneInv'
    BY <1>8 DEF CancelExchange
  <1>9. ASSUME NEW t \in Threads, CancelClear(t)
        PROVE  DoneInv'
    BY <1>9 DEF CancelClear
  <1>10. ASSUME NEW t \in Threads, CancelSet(t)
         PROVE  DoneInv'
    BY <1>10 DEF CancelSet, Resolve, Shared!Fulfil
  <1>11. ASSUME NEW t \in Threads, Release(t)
         PROVE  DoneInv'
    BY <1>11 DEF Release, Shared!Disown
  <1>. QED
    BY Steps, <1>1, <1>2, <1>3, <1>4, <1>5, <1>6, <1>7, <1>8, <1>9, <1>10, <1>11

\* The function is called by the runner alone, before its result is stored.
LEMMA CallStep ==
  ASSUME IndInv, [Next]_vars
  PROVE  CallInv'
  <1>. USE Actors DEF IndInv, OwnerInv, CallInv, PCs, Owning, Taking, RunTaking,
                      Goto, taskVars
  <1>1. CASE Neutral
    BY <1>1 DEF Neutral
  <1>2. CASE RunExchange
    BY <1>2 DEF RunExchange, DoneInv
  <1>3. CASE RunCall \/ RunClear
    BY <1>3 DEF RunCall, RunClear, DoneInv
  <1>4. CASE RunDestroy \/ Drop
    BY <1>4 DEF RunDestroy, Drop, Shared!Disown
  <1>5. ASSUME NEW v \in {"value", "exception"}, RunSet(v)
        PROVE  CallInv'
    BY <1>5 DEF RunSet, Resolve, Shared!Fulfil
  <1>6. CASE BreakPromise
    BY <1>6 DEF BreakPromise, Shared!Abandon, threadVars
  <1>7. ASSUME NEW t \in Threads, TryLock(t)
        PROVE  CallInv'
    BY <1>7 DEF TryLock, Shared!Share
  <1>8. ASSUME NEW t \in Threads, CancelExchange(t)
        PROVE  CallInv'
    BY <1>8 DEF CancelExchange
  <1>9. ASSUME NEW t \in Threads, CancelClear(t)
        PROVE  CallInv'
    BY <1>9 DEF CancelClear, DoneInv
  <1>10. ASSUME NEW t \in Threads, CancelSet(t)
         PROVE  CallInv'
    BY <1>10 DEF CancelSet, DoneInv, Resolve, Shared!Fulfil
  <1>11. ASSUME NEW t \in Threads, Release(t)
         PROVE  CallInv'
    BY <1>11 DEF Release, Shared!Disown
  <1>. QED
    BY Steps, <1>1, <1>2, <1>3, <1>4, <1>5, <1>6, <1>7, <1>8, <1>9, <1>10, <1>11

\* The inductive invariant holds throughout.
THEOREM Invariance == SafeSpec => []IndInv
  <1>1. IndInv /\ [Next]_vars => IndInv'
    BY OwnerStep, DoneStep, CallStep DEF IndInv
  <1>. QED  BY InitInv, <1>1, PTL DEF SafeSpec

\* A packaged_task keeps the precondition of set() and set_exception(), and of
\* the shared state's promises: between the exchange of _done and the result,
\* there is no result, and the thread owns a promise.
THEOREM SetsOnce == SafeSpec => []SetsOnceAsOwner
  <1>1. IndInv => SetsOnceAsOwner
    BY DEF IndInv, OwnerInv, DoneInv, SetsOnceAsOwner, Owning, Taking, RunTaking
  <1>. QED  BY Invariance, <1>1, PTL

\* The function is called once at most, and is alive when it is.
THEOREM CalledOnce == SafeSpec => []CalledOnceAndAlive
  <1>1. IndInv => CalledOnceAndAlive
    BY DEF IndInv, CallInv, CalledOnceAndAlive, RunTaking
  <1>. QED  BY Invariance, <1>1, PTL

\* One thread takes the task, whatever races for it.
THEOREM TakenByOne == SafeSpec => []TakenOnce
  BY SetsOnce, CalledOnce, PTL DEF TakenOnce

\* Canceled means not called, now or later; a value or an exception, called.
THEOREM TellsTheTruth == SafeSpec => []ResultTellsTheTruth
  <1>1. IndInv => ResultTellsTheTruth
    BY Actors DEF IndInv, OwnerInv, DoneInv, CallInv, ResultTellsTheTruth,
                  Taking, RunTaking
  <1>. QED  BY Invariance, <1>1, PTL

--------------------------------------------------------------------------------
(* What the tokens contain *)

\* Who has taken the task has popped its canceler from the given token.
TaskOff ==
  \/ pc[Runner] \in {"popped", "running", "pushed", "scoped", "unscoped"}
  \/ \E t \in Threads : pc[t] \in {"cancel_clear", "cancel_set"}
  \/ result \in {"value", "exception", "canceled"}

\* The scope_canceler of the body is on token k.
BodyOn(k) == pc[Runner] \in {"pushed", "scoped"} /\ tok[Runner] = k

\* That of the continuation is on the given one.
InnerOn == pc[Continuation] \in {"inner_pushed", "inner"}

With(s, on, c) == IF on THEN Append(s, c) ELSE s

\* The callbacks of the two tokens, from the first pushed to the last.
GivenStack ==
  With(With(With(InitialStack, ~TaskOff, "task"), BodyOn("given"), "body"),
       InnerOn, "inner")

FreshStack == With(<<>>, BodyOn("fresh"), "body")

StackInv == /\ tokens["given"].callbacks = GivenStack
            /\ tokens["fresh"].callbacks = FreshStack

\* Somebody took the task, or it was dropped.
Over == done \/ pc[Runner] = "dropped"

\* The task is over once it has a result or nobody has to run it, and the continuation
\* begins with the result.
PlaceInv ==
  /\ pc[Runner] \in {"queued", "dropped"} \/ done
  /\ \A t \in Threads : pc[t] = "release" => done
  /\ result # "none" => Over
  /\ InnerOn => result # "none"
  /\ ptoken = "null" => result # "none"

\* Those who have copied the canceler of the task call it.
HolderInv ==
  \A t \in Threads :
    /\ pc[t] \in {"exchange", "cancel_pop"} => cb[t] = "task"
    /\ cb[t] = "task" => pc[t] \in {"call", "dead", "exchange", "cancel_pop", "release",
                                    "returned"}

\* So it is for whoever has canceled its token without the help of its canceler.
ReturnInv ==
  \A t \in Cancelers \cup Derived :
    \/ pc[t] = "dead"
    \/ tok[t] = "given" /\ pc[t] = "returned"
    \/ tok[t] = "given" /\ pc[t] = "call" /\ cb[t] # "task"
    => Over

HeardInv == /\ TypeOK /\ tok \in [Threads -> {"given", "fresh"}]
            /\ StackInv /\ PlaceInv /\ HolderInv /\ ReturnInv /\ RequestReachesTop

--------------------------------------------------------------------------------
(* They keep it *)

\* The callbacks below that of the task are those of its caller.
LEMMA OuterStack == /\ InitialStack \in Seq(Callbacks)
                    /\ InitialStack # <<>> =>
                         /\ Len(InitialStack) > 0
                         /\ InitialStack[Len(InitialStack)] = "outer"
  <1>1. ASSUME NEW s \in Seq({"outer"})
        PROVE  /\ s \in Seq(Callbacks)
               /\ s # <<>> => Len(s) > 0 /\ s[Len(s)] = "outer"
    BY DEF Callbacks
  <1>. QED  BY <1>1, StackAssumption

\* A stack, and what pop_back() gives back of it.
LEMMA Appending ==
  ASSUME NEW s \in Seq(Callbacks), NEW c \in Callbacks
  PROVE  /\ Append(s, c) \in Seq(Callbacks)
         /\ Len(Append(s, c)) = Len(s) + 1
         /\ Len(Append(s, c)) > 0
         /\ Append(s, c)[Len(Append(s, c))] = c
         /\ SubSeq(Append(s, c), 1, Len(Append(s, c)) - 1) = s
  <1>1. SubSeq(Append(s, c), 1, Len(s)) = s
    OBVIOUS
  <1>. QED  BY <1>1

\* push_cancelation_callback().
LEMMA Pushing ==
  ASSUME NEW k \in Token(Callbacks), NEW c \in Callbacks
  PROVE  /\ PushCallback(k, c) \in Token(Callbacks)
         /\ PushCallback(k, c).callbacks = Append(k.callbacks, c)
         /\ PushCallback(k, c).requested = k.requested
         /\ Top(PushCallback(k, c)) = c
  BY Appending DEF Token, PushCallback, Top, Depth

\* pop_cancelation_callback().
LEMMA Popping ==
  ASSUME NEW k \in Token(Callbacks), NEW s \in Seq(Callbacks), NEW c \in Callbacks,
         k.callbacks = Append(s, c)
  PROVE  /\ PopCallback(k) \in Token(Callbacks)
         /\ PopCallback(k).callbacks = s
         /\ PopCallback(k).requested = k.requested
         /\ Top(k) = c
  BY Appending DEF Token, PopCallback, Top, Depth

\* request_cancel().
LEMMA Asking ==
  ASSUME NEW k \in Token(Callbacks)
  PROVE  /\ RequestCancel(k) \in Token(Callbacks)
         /\ RequestCancel(k).callbacks = k.callbacks
         /\ Top(RequestCancel(k)) = Top(k)
  BY DEF Token, RequestCancel, Top, Depth

\* A token copies one of its callbacks, or none.
LEMMA Topping ==
  ASSUME NEW k \in Token(Callbacks)
  PROVE  /\ Top(k) \in Callbacks \cup {NoCallback}
         /\ ToCall(k) \in Callbacks \cup {NoCallback}
  BY DEF Token, Top, ToCall, Depth

\* package() has pushed the canceler of the task.
LEMMA InitHeard == Init => HeardInv
  <1>. SUFFICES ASSUME Init PROVE HeardInv
    OBVIOUS
  <1>. USE Actors DEF Init
  <1>1. /\ pc \in [Threads -> PCs] /\ pc[Runner] = "queued"
        /\ \A t \in Threads : pc[t] \in {"queued", "idle"} /\ cb[t] = NoCallback
        /\ result = "none" /\ ptoken = "given"
    BY DEF PCs
  <1>2. ~TaskOff /\ ~BodyOn("given") /\ ~BodyOn("fresh") /\ ~InnerOn
    BY <1>1 DEF TaskOff, BodyOn, InnerOn
  <1>. DEFINE given == [NewToken EXCEPT !.callbacks = InitialStack]
  <1>3. tokens["given"] = PushCallback(given, "task") /\ tokens["fresh"] = NewToken
    OBVIOUS
  <1>9. given \in Token(Callbacks)
    BY OuterStack DEF NewToken, Token
  <1>11. given.callbacks = InitialStack
    BY DEF NewToken
  <1>12. ~given.requested
    BY DEF NewToken
  <1>13. NewToken \in Token(Callbacks) /\ NewToken.callbacks = <<>>
    BY DEF NewToken, Token
  <1>4. /\ PushCallback(given, "task") \in Token(Callbacks)
        /\ PushCallback(given, "task").callbacks = Append(given.callbacks, "task")
        /\ PushCallback(given, "task").requested = given.requested
    <2>. HIDE DEF given
    <2>. QED  BY <1>9, Pushing DEF Callbacks
  <1>10. /\ tokens["given"] \in Token(Callbacks) /\ tokens["fresh"] \in Token(Callbacks)
        /\ tokens["given"].callbacks = Append(InitialStack, "task")
        /\ tokens["fresh"].callbacks = <<>>
        /\ ~tokens["given"].requested
        /\ tokens = [t \in {"given", "fresh"} |-> tokens[t]]
    BY <1>3, <1>4, <1>11, <1>12, <1>13
  <1>5. StackInv
    BY <1>2, <1>10 DEF StackInv, GivenStack, FreshStack, With
  <1>6. TypeOK /\ tok \in [Threads -> {"given", "fresh"}]
    BY <1>1, <1>10 DEF TypeOK, Callbacks, NoCallback
  <1>7. PlaceInv /\ HolderInv /\ ReturnInv
    BY <1>1, <1>2 DEF PlaceInv, HolderInv, ReturnInv, NoCallback
  <1>8. RequestReachesTop
    BY <1>10 DEF RequestReachesTop
  <1>. QED  BY <1>5, <1>6, <1>7, <1>8 DEF HeardInv

\* The stacks are stacks of callbacks.
LEMMA Stacks ==
  ASSUME HeardInv
  PROVE  /\ GivenStack \in Seq(Callbacks) /\ FreshStack \in Seq(Callbacks)
         /\ With(InitialStack, ~TaskOff, "task") \in Seq(Callbacks)
         /\ With(With(InitialStack, ~TaskOff, "task"), BodyOn("given"), "body")
              \in Seq(Callbacks)
         /\ tokens["given"] \in Token(Callbacks) /\ tokens["fresh"] \in Token(Callbacks)
  <1>. USE OuterStack, Appending DEF With, Callbacks
  <1>1. With(InitialStack, ~TaskOff, "task") \in Seq(Callbacks)
    OBVIOUS
  <1>2. With(With(InitialStack, ~TaskOff, "task"), BodyOn("given"), "body")
          \in Seq(Callbacks)
    BY <1>1
  <1>3. GivenStack \in Seq(Callbacks)
    BY <1>2 DEF GivenStack
  <1>4. FreshStack \in Seq(Callbacks)
    BY DEF FreshStack
  <1>. QED  BY <1>1, <1>2, <1>3, <1>4 DEF HeardInv, TypeOK

\* What is on the token where the threads are.
LEMMA Shape ==
  ASSUME IndInv, HeardInv
  PROVE  /\ \A t \in Threads : pc[t] \in {"pop", "cancel_pop"} =>
              ~TaskOff /\ ~BodyOn("given") /\ ~BodyOn("fresh") /\ ~InnerOn
         /\ pc[Runner] \in RunTaking => ~InnerOn /\ ptoken # "null"
         /\ pc[Runner] \in {"running", "unscoped"} =>
              TaskOff /\ ~BodyOn("given") /\ ~BodyOn("fresh")
         /\ pc[Runner] \in {"pushed", "scoped"} => TaskOff
         /\ result # "none" => ~BodyOn("given") /\ ~BodyOn("fresh")
         /\ TaskOff => done
         /\ BodyOn("given") => ~BodyOn("fresh")
  BY Actors DEF IndInv, OwnerInv, DoneInv, HeardInv, PlaceInv, TaskOff, BodyOn, InnerOn,
                Taking, RunTaking, Owning, PCs

\* Where the shape of the stacks changes.
LEMMA RunPopStack ==
  ASSUME IndInv, HeardInv, RunPop
  PROVE  /\ StackInv' /\ ptoken = "given" /\ Top(tokens["given"]) = "task"
         /\ PopCallback(tokens["given"]).callbacks = InitialStack
         /\ tokens' = [tokens EXCEPT !["given"] = PopCallback(tokens["given"])]
         /\ PopCallback(tokens["given"]) \in Token(Callbacks)
  <1>. USE Actors DEF RunPop, Goto, UseToken
  <1>1. ~TaskOff /\ ~BodyOn("given") /\ ~BodyOn("fresh") /\ ~InnerOn /\ ptoken # "null"
    BY Shape DEF RunTaking
  <1>2. tokens["fresh"].callbacks = <<>>
    BY <1>1 DEF HeardInv, StackInv, FreshStack, With
  <1>3. ptoken = "given"
    BY <1>1, <1>2 DEF HeardInv, TypeOK, Depth
  <1>4. tokens["given"].callbacks = Append(InitialStack, "task")
    BY <1>1 DEF HeardInv, StackInv, GivenStack, With
  <1>5. /\ PopCallback(tokens["given"]).callbacks = InitialStack
        /\ PopCallback(tokens["given"]) \in Token(Callbacks)
        /\ Top(tokens["given"]) = "task"
    BY <1>4, Popping, OuterStack, Stacks DEF Callbacks
  <1>6. /\ tokens'["given"].callbacks = InitialStack
        /\ tokens'["fresh"].callbacks = <<>>
    BY <1>2, <1>3, <1>5 DEF HeardInv, TypeOK
  <1>7. TaskOff' /\ ~BodyOn("given")' /\ ~BodyOn("fresh")' /\ ~InnerOn'
    BY <1>1 DEF TaskOff, BodyOn, InnerOn, IndInv, OwnerInv
  <1>8. StackInv'
    BY <1>6, <1>7 DEF StackInv, GivenStack, FreshStack, With
  <1>. QED  BY <1>3, <1>5, <1>8

\* The canceler of the task that is canceled is on the top.
LEMMA CancelPopStack ==
  ASSUME IndInv, HeardInv, NEW t \in Threads, CancelPop(t)
  PROVE  /\ StackInv' /\ Top(tokens["given"]) = "task"
         /\ PopCallback(tokens["given"]).callbacks = InitialStack
         /\ PopCallback(tokens["given"]) \in Token(Callbacks)
  <1>. USE Actors DEF CancelPop, Goto, UseToken
  <1>1. ~TaskOff /\ ~BodyOn("given") /\ ~BodyOn("fresh") /\ ~InnerOn
    BY Shape
  <1>2. tokens["fresh"].callbacks = <<>>
    BY <1>1 DEF HeardInv, StackInv, FreshStack, With
  <1>4. tokens["given"].callbacks = Append(InitialStack, "task")
    BY <1>1 DEF HeardInv, StackInv, GivenStack, With
  <1>5. /\ PopCallback(tokens["given"]).callbacks = InitialStack
        /\ PopCallback(tokens["given"]) \in Token(Callbacks)
        /\ Top(tokens["given"]) = "task"
    BY <1>4, Popping, OuterStack, Stacks DEF Callbacks
  <1>6. /\ tokens'["given"].callbacks = InitialStack
        /\ tokens'["fresh"].callbacks = <<>>
    BY <1>2, <1>5 DEF HeardInv, TypeOK
  <1>7. TaskOff' /\ ~BodyOn("given")' /\ ~BodyOn("fresh")' /\ ~InnerOn'
    BY <1>1 DEF TaskOff, BodyOn, InnerOn, IndInv, OwnerInv, RunTaking, taskVars
  <1>8. StackInv'
    BY <1>6, <1>7 DEF StackInv, GivenStack, FreshStack, With
  <1>. QED  BY <1>5, <1>8

\* The body pushes its callback when those of the task and of the continuation are
\* not there...
LEMMA BodyPushStack ==
  ASSUME IndInv, HeardInv, BodyPush
  PROVE  /\ StackInv' /\ tok[Runner] \in {"given", "fresh"}
         /\ PushCallback(tokens[tok[Runner]], "body") \in Token(Callbacks)
         /\ Top(PushCallback(tokens[tok[Runner]], "body")) = "body"
  <1>. USE Actors DEF BodyPush, Goto, UseToken
  <1>1. TaskOff /\ ~BodyOn("given") /\ ~BodyOn("fresh") /\ ~InnerOn
    BY Shape DEF RunTaking
  <1>2. /\ tokens["fresh"].callbacks = <<>> /\ tokens["given"].callbacks = InitialStack
        /\ tok[Runner] \in {"given", "fresh"}
    BY <1>1 DEF HeardInv, StackInv, GivenStack, FreshStack, With
  <1>3. /\ PushCallback(tokens[tok[Runner]], "body") \in Token(Callbacks)
        /\ Top(PushCallback(tokens[tok[Runner]], "body")) = "body"
        /\ PushCallback(tokens[tok[Runner]], "body").callbacks
             = Append(tokens[tok[Runner]].callbacks, "body")
    BY <1>2, Pushing, Stacks DEF Callbacks
  <1>4. TaskOff' /\ ~InnerOn'
    BY <1>1 DEF TaskOff, InnerOn, IndInv, OwnerInv
  <1>5. CASE tok[Runner] = "given"
    <2>1. BodyOn("given")' /\ ~BodyOn("fresh")'
      BY <1>5 DEF BodyOn, IndInv, OwnerInv
    <2>2. /\ tokens'["given"].callbacks = Append(InitialStack, "body")
          /\ tokens'["fresh"].callbacks = <<>>
      BY <1>2, <1>3, <1>5 DEF HeardInv, TypeOK
    <2>3. StackInv'
      BY <1>4, <2>1, <2>2 DEF StackInv, GivenStack, FreshStack, With
    <2>. QED  BY <1>2, <1>3, <2>3
  <1>6. CASE tok[Runner] = "fresh"
    <2>1. BodyOn("fresh")' /\ ~BodyOn("given")'
      BY <1>6 DEF BodyOn, IndInv, OwnerInv
    <2>2. /\ tokens'["given"].callbacks = InitialStack
          /\ tokens'["fresh"].callbacks = Append(<<>>, "body")
      BY <1>2, <1>3, <1>6 DEF HeardInv, TypeOK
    <2>3. StackInv'
      BY <1>4, <2>1, <2>2 DEF StackInv, GivenStack, FreshStack, With
    <2>. QED  BY <1>2, <1>3, <2>3
  <1>. QED  BY <1>2, <1>5, <1>6

\* ... and pops its own.
LEMMA BodyPopStack ==
  ASSUME IndInv, HeardInv, BodyPop
  PROVE  /\ StackInv' /\ tok[Runner] \in {"given", "fresh"}
         /\ PopCallback(tokens[tok[Runner]]) \in Token(Callbacks)
         /\ tok[Runner] = "given" => PopCallback(tokens["given"]).callbacks = InitialStack
         /\ tok[Runner] = "fresh" => PopCallback(tokens["fresh"]).callbacks = <<>>
  <1>. USE Actors DEF BodyPop, Goto, UseToken
  <1>1. TaskOff /\ ~InnerOn /\ tok[Runner] \in {"given", "fresh"}
    BY Shape DEF HeardInv, RunTaking
  <1>2. TaskOff' /\ ~InnerOn' /\ ~BodyOn("given")' /\ ~BodyOn("fresh")'
    BY <1>1 DEF TaskOff, InnerOn, BodyOn, IndInv, OwnerInv
  <1>5. CASE tok[Runner] = "given"
    <2>1. BodyOn("given") /\ ~BodyOn("fresh")
      BY <1>5 DEF BodyOn
    <2>2. /\ tokens["given"].callbacks = Append(InitialStack, "body")
          /\ tokens["fresh"].callbacks = <<>>
      BY <1>1, <2>1 DEF HeardInv, StackInv, GivenStack, FreshStack, With
    <2>3. /\ PopCallback(tokens["given"]) \in Token(Callbacks)
          /\ PopCallback(tokens["given"]).callbacks = InitialStack
      BY <2>2, Popping, OuterStack, Stacks DEF Callbacks
    <2>4. /\ tokens'["given"].callbacks = InitialStack
          /\ tokens'["fresh"].callbacks = <<>>
      BY <1>5, <2>2, <2>3 DEF HeardInv, TypeOK
    <2>5. StackInv'
      BY <1>2, <2>4 DEF StackInv, GivenStack, FreshStack, With
    <2>. QED  BY <1>5, <2>3, <2>5
  <1>6. CASE tok[Runner] = "fresh"
    <2>1. BodyOn("fresh") /\ ~BodyOn("given")
      BY <1>6 DEF BodyOn
    <2>2. /\ tokens["fresh"].callbacks = Append(<<>>, "body")
          /\ tokens["given"].callbacks = InitialStack
      BY <1>1, <2>1 DEF HeardInv, StackInv, GivenStack, FreshStack, With
    <2>3. /\ PopCallback(tokens["fresh"]) \in Token(Callbacks)
          /\ PopCallback(tokens["fresh"]).callbacks = <<>>
      <3>1. <<>> \in Seq(Callbacks)
        OBVIOUS
      <3>. QED  BY <2>2, <3>1, Popping, Stacks DEF Callbacks
    <2>4. /\ tokens'["fresh"].callbacks = <<>>
          /\ tokens'["given"].callbacks = InitialStack
      BY <1>6, <2>2, <2>3 DEF HeardInv, TypeOK
    <2>5. StackInv'
      BY <1>2, <2>4 DEF StackInv, GivenStack, FreshStack, With
    <2>. QED  BY <1>6, <2>3, <2>5
  <1>. QED  BY <1>1, <1>5, <1>6

\* The continuation comes last...
LEMMA ContinuationPushStack ==
  ASSUME IndInv, HeardInv, ContinuationPush
  PROVE  /\ StackInv'
         /\ PushCallback(tokens["given"], "inner") \in Token(Callbacks)
         /\ Top(PushCallback(tokens["given"], "inner")) = "inner"
  <1>. USE Actors DEF ContinuationPush, Goto, UseToken
  <1>1. ~BodyOn("given") /\ ~BodyOn("fresh") /\ ~InnerOn
    BY Shape DEF InnerOn
  <1>2. /\ tokens["given"].callbacks = With(InitialStack, ~TaskOff, "task")
        /\ tokens["fresh"].callbacks = <<>>
    BY <1>1 DEF HeardInv, StackInv, GivenStack, FreshStack, With
  <1>3. /\ PushCallback(tokens["given"], "inner") \in Token(Callbacks)
        /\ Top(PushCallback(tokens["given"], "inner")) = "inner"
        /\ PushCallback(tokens["given"], "inner").callbacks
             = Append(tokens["given"].callbacks, "inner")
    BY Pushing, Stacks DEF Callbacks
  <1>4. /\ TaskOff' <=> TaskOff
        /\ ~BodyOn("given")' /\ ~BodyOn("fresh")' /\ InnerOn'
    BY <1>1 DEF TaskOff, InnerOn, BodyOn, IndInv, OwnerInv
  <1>5. /\ tokens'["given"].callbacks
             = Append(With(InitialStack, ~TaskOff, "task"), "inner")
        /\ tokens'["fresh"].callbacks = <<>>
    BY <1>2, <1>3 DEF HeardInv, TypeOK
  <1>6. StackInv'
    BY <1>4, <1>5 DEF StackInv, GivenStack, FreshStack, With
  <1>. QED  BY <1>3, <1>6

\* ... and goes first.
LEMMA ContinuationPopStack ==
  ASSUME IndInv, HeardInv, ContinuationPop
  PROVE  /\ StackInv'
         /\ PopCallback(tokens["given"]) \in Token(Callbacks)
  <1>. USE Actors DEF ContinuationPop, Goto, UseToken
  <1>1. ~BodyOn("given") /\ ~BodyOn("fresh") /\ InnerOn
    BY Shape DEF InnerOn, HeardInv, PlaceInv
  <1>2. /\ tokens["given"].callbacks = Append(With(InitialStack, ~TaskOff, "task"), "inner")
        /\ tokens["fresh"].callbacks = <<>>
    BY <1>1 DEF HeardInv, StackInv, GivenStack, FreshStack, With
  <1>3. /\ PopCallback(tokens["given"]) \in Token(Callbacks)
        /\ PopCallback(tokens["given"]).callbacks = With(InitialStack, ~TaskOff, "task")
    BY <1>2, Popping, Stacks DEF Callbacks
  <1>4. /\ TaskOff' <=> TaskOff
        /\ ~BodyOn("given")' /\ ~BodyOn("fresh")' /\ ~InnerOn'
    BY <1>1 DEF TaskOff, InnerOn, BodyOn, IndInv, OwnerInv
  <1>5. /\ tokens'["given"].callbacks = With(InitialStack, ~TaskOff, "task")
        /\ tokens'["fresh"].callbacks = <<>>
    BY <1>2, <1>3 DEF HeardInv, TypeOK
  <1>6. StackInv'
    BY <1>4, <1>5 DEF StackInv, GivenStack, FreshStack, With
  <1>. QED  BY <1>3, <1>6

\* The other steps.
Calm(t) ==
  \/ RunExchange \/ RunPopEmpty \/ RunCall \/ BodyPushed \/ RunClear \/ RunDestroy
  \/ \E v \in {"value", "exception"} : RunSet(v)
  \/ Drop \/ BreakPromise \/ BreakChain \/ ContinuationPushed \/ UNCHANGED vars
  \/ GetToken(t) \/ CallOther(t) \/ TryLock(t) \/ DeadReturn(t)
  \/ CancelExchange(t) \/ CancelClear(t) \/ CancelSet(t) \/ Release(t)

\* They leave the tokens alone.
LEMMA CalmTokens ==
  ASSUME NEW t \in Threads, Calm(t)
  PROVE  tokens' = tokens
  BY DEF Calm, RunExchange, RunPopEmpty, RunCall, BodyPushed, RunClear, RunDestroy,
     RunSet, Drop, BreakPromise, BreakChain, ContinuationPushed, vars, GetToken,
     CallOther, TryLock, DeadReturn, CancelExchange, CancelClear, CancelSet, Release,
     tokenVars

SameShape == /\ TaskOff' <=> TaskOff
             /\ BodyOn("given")' <=> BodyOn("given")
             /\ BodyOn("fresh")' <=> BodyOn("fresh")
             /\ InnerOn' <=> InnerOn

\* They move nobody between the places that the stacks tell apart.
LEMMA CalmShape ==
  ASSUME IndInv, HeardInv, NEW t \in Threads, Calm(t)
  PROVE  SameShape
  <1>. USE Actors DEF SameShape, IndInv, OwnerInv, DoneInv, TaskOff, BodyOn, InnerOn,
     Goto, Taking, RunTaking, Owning, taskVars, tokenVars, threadVars, vars
  <1>1. CASE RunExchange
    BY <1>1 DEF RunExchange
  <1>2. CASE RunPopEmpty
    BY <1>2 DEF RunPopEmpty
  <1>3. CASE RunCall
    BY <1>3 DEF RunCall
  <1>4. CASE BodyPushed
    BY <1>4 DEF BodyPushed
  <1>5. CASE RunClear
    BY <1>5 DEF RunClear, CallInv
  <1>6. CASE RunDestroy
    BY <1>6 DEF RunDestroy, Shared!Disown
  <1>7. ASSUME NEW v \in {"value", "exception"}, RunSet(v) PROVE SameShape
    BY <1>7 DEF RunSet, Resolve, Shared!Fulfil
  <1>8. CASE Drop
    BY <1>8 DEF Drop, Shared!Disown
  <1>9. CASE BreakPromise
    BY <1>9 DEF BreakPromise, Shared!Abandon
  <1>10. CASE BreakChain
    BY <1>10 DEF BreakChain
  <1>11. CASE ContinuationPushed
    BY <1>11 DEF ContinuationPushed
  <1>12. CASE UNCHANGED vars
    BY <1>12
  <1>13. CASE GetToken(t)
    <2>1. PICK l \in {"request", "returned"} : pc[t] = "idle" /\ Goto(t, l)
      BY <1>13 DEF GetToken
    <2>2. t # Runner /\ UNCHANGED result
      BY <1>13, <2>1 DEF GetToken
    <2>3. tok'[Runner] = tok[Runner]
      BY <1>13, <2>2 DEF GetToken, HeardInv
    <2>. QED  BY <2>1, <2>2, <2>3
  <1>14. CASE CallOther(t)
    BY <1>14 DEF CallOther
  <1>15. CASE TryLock(t)
    BY <1>15 DEF TryLock, Shared!Share
  <1>16. CASE DeadReturn(t)
    BY <1>16 DEF DeadReturn
  <1>17. CASE CancelExchange(t)
    BY <1>17 DEF CancelExchange
  <1>18. CASE CancelClear(t)
    BY <1>18 DEF CancelClear
  <1>19. CASE CancelSet(t)
    BY <1>19 DEF CancelSet, Resolve, Shared!Fulfil
  <1>20. CASE Release(t)
    BY <1>20 DEF Release, Shared!Disown
  <1>. QED
    BY <1>1, <1>2, <1>3, <1>4, <1>5, <1>6, <1>7, <1>8, <1>9, <1>10, <1>11, <1>12, <1>13,
       <1>14, <1>15, <1>16, <1>17, <1>18, <1>19, <1>20 DEF Calm

\* So they keep the stacks.
LEMMA CalmStack ==
  ASSUME IndInv, HeardInv, NEW t \in Threads, Calm(t)
  PROVE  StackInv'
  BY CalmShape, CalmTokens DEF SameShape, HeardInv, StackInv, GivenStack, FreshStack,
     With

\* A request only sets the flag.
LEMMA RequestStack ==
  ASSUME IndInv, HeardInv, NEW t \in Threads, Request(t)
  PROVE  /\ StackInv'
         /\ RequestCancel(tokens[tok[t]]) \in Token(Callbacks)
         /\ Top(tokens["given"])' = Top(tokens["given"])
  <1>. USE Actors DEF Request, Goto, UseToken
  <1>1. tok[t] \in {"given", "fresh"}
    BY DEF HeardInv
  <1>2. /\ RequestCancel(tokens[tok[t]]) \in Token(Callbacks)
        /\ RequestCancel(tokens[tok[t]]).callbacks = tokens[tok[t]].callbacks
    BY <1>1, Asking, Stacks
  <1>3. /\ tokens'["given"].callbacks = tokens["given"].callbacks
        /\ tokens'["fresh"].callbacks = tokens["fresh"].callbacks
    BY <1>1, <1>2 DEF HeardInv, TypeOK
  <1>4. SameShape
    BY DEF SameShape, TaskOff, BodyOn, InnerOn, IndInv, OwnerInv, taskVars
  <1>5. StackInv'
    BY <1>3, <1>4 DEF SameShape, HeardInv, StackInv, GivenStack, FreshStack, With
  <1>. QED  BY <1>2, <1>3, <1>5 DEF Top, Depth

\* Every step is calm, or is one of those above, for some thread.
LEMMA CalmOrNot ==
  ASSUME [Next]_vars
  PROVE  \E t \in Threads :
           \/ Calm(t) \/ Request(t) \/ CancelPop(t)
           \/ RunPop \/ BodyPush \/ BodyPop \/ ContinuationPush \/ ContinuationPop
  BY Actors DEF Next, RunStep, CancelStep, ContinuationStep, Finished, Calm

\* The tokens contain what GivenStack and FreshStack say.
LEMMA StackStep ==
  ASSUME IndInv, HeardInv, [Next]_vars
  PROVE  StackInv'
  BY CalmOrNot, CalmStack, RequestStack, CancelPopStack, RunPopStack, BodyPushStack,
     BodyPopStack, ContinuationPushStack, ContinuationPopStack

TypeInv == TypeOK /\ tok \in [Threads -> {"given", "fresh"}]

\* The calm steps keep the types.
LEMMA CalmType ==
  ASSUME IndInv, HeardInv, OwnerInv', NEW t \in Threads, Calm(t)
  PROVE  TypeInv'
  <1>. USE Actors, CalmTokens, Shape DEF TypeInv, HeardInv, TypeOK, OwnerInv, PlaceInv,
     HolderInv, Goto, RunTaking, taskVars, tokenVars, threadVars, vars
  <1>1. CASE RunExchange
    BY <1>1 DEF RunExchange
  <1>2. CASE RunPopEmpty
    BY <1>2 DEF RunPopEmpty
  <1>3. CASE RunCall
    BY <1>3 DEF RunCall
  <1>4. CASE BodyPushed
    BY <1>4 DEF BodyPushed
  <1>5. CASE RunClear
    BY <1>5 DEF RunClear
  <1>6. CASE RunDestroy
    BY <1>6 DEF RunDestroy, Shared!Disown
  <1>7. ASSUME NEW v \in {"value", "exception"}, RunSet(v) PROVE TypeInv'
    BY <1>7 DEF RunSet, Resolve, Shared!Fulfil
  <1>8. CASE Drop
    BY <1>8 DEF Drop, Shared!Disown
  <1>9. CASE BreakPromise
    BY <1>9 DEF BreakPromise, Shared!Abandon
  <1>10. CASE BreakChain
    BY <1>10 DEF BreakChain
  <1>11. CASE ContinuationPushed
    BY <1>11 DEF ContinuationPushed
  <1>12. CASE UNCHANGED vars
    BY <1>12
  <1>13. CASE GetToken(t)
    BY <1>13 DEF GetToken
  <1>14. CASE CallOther(t)
    BY <1>14 DEF CallOther
  <1>15. CASE TryLock(t)
    BY <1>15 DEF TryLock, Shared!Share
  <1>16. CASE DeadReturn(t)
    BY <1>16 DEF DeadReturn
  <1>17. CASE CancelExchange(t)
    BY <1>17 DEF CancelExchange
  <1>18. CASE CancelClear(t)
    <2>1. called' \subseteq Callbacks \ {"task"}
      BY <1>18 DEF CancelClear
    <2>2. cb' \in [Threads -> Callbacks \cup {NoCallback}]
      BY <1>18 DEF CancelClear
    <2>. QED  BY <1>18, <2>1, <2>2 DEF CancelClear
  <1>19. CASE CancelSet(t)
    BY <1>19 DEF CancelSet, Resolve, Shared!Fulfil
  <1>20. CASE Release(t)
    BY <1>20 DEF Release, Shared!Disown
  <1>. QED     BY <1>1, <1>2, <1>3, <1>4, <1>5, <1>6, <1>7, <1>8, <1>9, <1>10, <1>11,
       <1>12, <1>13, <1>14, <1>15, <1>16, <1>17, <1>18, <1>19, <1>20 DEF Calm

\* Every step does.
LEMMA TypeStep ==
  ASSUME IndInv, HeardInv, [Next]_vars
  PROVE  TypeInv'
  <1>. OwnerInv'
    BY OwnerStep
  <1>. USE Actors, Topping DEF TypeInv, HeardInv, TypeOK, OwnerInv, Goto, UseToken,
     taskVars
  <1>1. ASSUME NEW t \in Threads, Calm(t) PROVE TypeInv'
    BY <1>1, CalmType
  <1>2. ASSUME NEW t \in Threads, Request(t) PROVE TypeInv'
    BY <1>2, RequestStack DEF Request
  <1>3. ASSUME NEW t \in Threads, CancelPop(t) PROVE TypeInv'
    BY <1>3, CancelPopStack DEF CancelPop
  <1>4. CASE RunPop
    BY <1>4, RunPopStack DEF RunPop
  <1>5. CASE BodyPush
    BY <1>5, BodyPushStack DEF BodyPush
  <1>6. CASE BodyPop
    BY <1>6, BodyPopStack DEF BodyPop
  <1>7. CASE ContinuationPush
    BY <1>7, ContinuationPushStack DEF ContinuationPush
  <1>8. CASE ContinuationPop
    BY <1>8, ContinuationPopStack DEF ContinuationPop
  <1>. QED
    BY CalmOrNot, <1>1, <1>2, <1>3, <1>4, <1>5, <1>6, <1>7, <1>8

\* The calm steps keep PlaceInv...
LEMMA CalmPlace ==
  ASSUME IndInv, HeardInv, OwnerInv', DoneInv', NEW t \in Threads, Calm(t)
  PROVE  PlaceInv'
  <1>. USE Actors DEF HeardInv, TypeOK, IndInv, OwnerInv, DoneInv, PlaceInv, Goto, Over,
     InnerOn, RunTaking, Taking, Owning, taskVars, tokenVars, threadVars, vars
  <1>1. CASE RunExchange
    BY <1>1 DEF RunExchange
  <1>2. CASE RunPopEmpty
    BY <1>2 DEF RunPopEmpty
  <1>3. CASE RunCall
    BY <1>3 DEF RunCall
  <1>4. CASE BodyPushed
    BY <1>4 DEF BodyPushed
  <1>5. CASE RunClear
    BY <1>5 DEF RunClear
  <1>6. CASE RunDestroy
    BY <1>6 DEF RunDestroy, Shared!Disown
  <1>7. ASSUME NEW v \in {"value", "exception"}, RunSet(v) PROVE PlaceInv'
    BY <1>7 DEF RunSet, Resolve, Shared!Fulfil
  <1>8. CASE Drop
    BY <1>8 DEF Drop, Shared!Disown
  <1>9. CASE BreakPromise
    BY <1>9 DEF BreakPromise, Shared!Abandon
  <1>10. CASE BreakChain
    BY <1>10 DEF BreakChain
  <1>11. CASE ContinuationPushed
    BY <1>11 DEF ContinuationPushed
  <1>12. CASE UNCHANGED vars
    BY <1>12
  <1>13. CASE GetToken(t)
    BY <1>13 DEF GetToken
  <1>14. CASE CallOther(t)
    BY <1>14 DEF CallOther
  <1>15. CASE TryLock(t)
    BY <1>15 DEF TryLock, Shared!Share
  <1>16. CASE DeadReturn(t)
    BY <1>16 DEF DeadReturn
  <1>17. CASE CancelExchange(t)
    BY <1>17 DEF CancelExchange
  <1>18. CASE CancelClear(t)
    BY <1>18 DEF CancelClear
  <1>19. CASE CancelSet(t)
    BY <1>19 DEF CancelSet, Resolve, Shared!Fulfil
  <1>20. CASE Release(t)
    BY <1>20 DEF Release, Shared!Disown
  <1>. QED
    BY <1>1, <1>2, <1>3, <1>4, <1>5, <1>6, <1>7, <1>8, <1>9, <1>10, <1>11, <1>12,
       <1>13, <1>14, <1>15, <1>16, <1>17, <1>18, <1>19, <1>20 DEF Calm

\* ... and HolderInv.
LEMMA CalmHolder ==
  ASSUME HeardInv, NEW t \in Threads, Calm(t)
  PROVE  HolderInv'
  <1>. USE Actors DEF HeardInv, TypeOK, HolderInv, Goto, NoCallback,
           taskVars, tokenVars, threadVars, vars
  <1>1. CASE RunExchange
    BY <1>1 DEF RunExchange
  <1>2. CASE RunPopEmpty
    BY <1>2 DEF RunPopEmpty
  <1>3. CASE RunCall
    BY <1>3 DEF RunCall
  <1>4. CASE BodyPushed
    BY <1>4 DEF BodyPushed
  <1>5. CASE RunClear
    BY <1>5 DEF RunClear
  <1>6. CASE RunDestroy
    BY <1>6 DEF RunDestroy, Shared!Disown
  <1>7. ASSUME NEW v \in {"value", "exception"}, RunSet(v) PROVE HolderInv'
    BY <1>7 DEF RunSet, Resolve, Shared!Fulfil
  <1>8. CASE Drop
    BY <1>8 DEF Drop, Shared!Disown
  <1>9. CASE BreakPromise
    BY <1>9 DEF BreakPromise, Shared!Abandon
  <1>10. CASE BreakChain
    BY <1>10 DEF BreakChain
  <1>11. CASE ContinuationPushed
    BY <1>11 DEF ContinuationPushed
  <1>12. CASE UNCHANGED vars
    BY <1>12
  <1>13. CASE GetToken(t)
    BY <1>13 DEF GetToken
  <1>14. CASE CallOther(t)
    BY <1>14 DEF CallOther
  <1>15. CASE TryLock(t)
    BY <1>15 DEF TryLock, Shared!Share
  <1>16. CASE DeadReturn(t)
    BY <1>16 DEF DeadReturn
  <1>17. CASE CancelExchange(t)
    BY <1>17 DEF CancelExchange
  <1>18. CASE CancelClear(t)
    BY <1>18 DEF CancelClear
  <1>19. CASE CancelSet(t)
    BY <1>19 DEF CancelSet, Resolve, Shared!Fulfil
  <1>20. CASE Release(t)
    BY <1>20 DEF Release, Shared!Disown
  <1>. QED
    BY <1>1, <1>2, <1>3, <1>4, <1>5, <1>6, <1>7, <1>8, <1>9, <1>10, <1>11, <1>12,
       <1>13, <1>14, <1>15, <1>16, <1>17, <1>18, <1>19, <1>20 DEF Calm

\* PlaceInv is kept.
LEMMA PlaceStep ==
  ASSUME IndInv, HeardInv, [Next]_vars
  PROVE  PlaceInv'
  <1>. OwnerInv' /\ DoneInv'
    BY OwnerStep, DoneStep
  <1>. USE Actors DEF HeardInv, TypeOK, IndInv, OwnerInv, DoneInv, PlaceInv, Goto, Over,
     InnerOn, RunTaking, Taking, Owning, UseToken, taskVars
  <1>1. ASSUME NEW t \in Threads, Calm(t) PROVE PlaceInv'
    BY <1>1, CalmPlace
  <1>2. ASSUME NEW t \in Threads, Request(t) PROVE PlaceInv'
    BY <1>2 DEF Request
  <1>3. ASSUME NEW t \in Threads, CancelPop(t) PROVE PlaceInv'
    BY <1>3 DEF CancelPop
  <1>4. CASE RunPop
    BY <1>4 DEF RunPop
  <1>5. CASE BodyPush
    BY <1>5 DEF BodyPush
  <1>6. CASE BodyPop
    BY <1>6 DEF BodyPop
  <1>7. CASE ContinuationPush
    BY <1>7 DEF ContinuationPush
  <1>8. CASE ContinuationPop
    BY <1>8 DEF ContinuationPop
  <1>. QED
    BY CalmOrNot, <1>1, <1>2, <1>3, <1>4, <1>5, <1>6, <1>7, <1>8

\* What is below the task on its token is not the task.
LEMMA Uncovered ==
  ASSUME NEW k, k.callbacks \in {InitialStack, <<>>}
  PROVE  ToCall(k) # "task"
  BY OuterStack DEF ToCall, Top, Depth, NoCallback

\* HolderInv is kept.
LEMMA HolderStep ==
  ASSUME IndInv, HeardInv, [Next]_vars
  PROVE  HolderInv'
  <1>. USE Actors DEF HeardInv, TypeOK, HolderInv, Goto, UseToken, NoCallback, taskVars
  <1>1. ASSUME NEW t \in Threads, Calm(t) PROVE HolderInv'
    BY <1>1, CalmHolder
  <1>2. ASSUME NEW t \in Threads, Request(t) PROVE HolderInv'
    BY <1>2 DEF Request
  <1>3. ASSUME NEW t \in Threads, CancelPop(t) PROVE HolderInv'
    <2>1. ToCall(PopCallback(tokens["given"])) # "task"
      BY <1>3, CancelPopStack, Uncovered
    <2>. QED  BY <1>3, <2>1 DEF CancelPop
  <1>4. CASE RunPop
    <2>1. ptoken = "given" /\ ToCall(PopCallback(tokens["given"])) # "task"
      BY <1>4, RunPopStack, Uncovered
    <2>. QED  BY <1>4, <2>1 DEF RunPop
  <1>5. CASE BodyPush
    <2>1. ToCall(PushCallback(tokens[tok[Runner]], "body")) # "task"
      BY <1>5, BodyPushStack DEF ToCall
    <2>. QED  BY <1>5, <2>1 DEF BodyPush
  <1>6. CASE BodyPop
    <2>1. ToCall(PopCallback(tokens[tok[Runner]])) # "task"
      BY <1>6, BodyPopStack, Uncovered
    <2>. QED  BY <1>6, <2>1 DEF BodyPop
  <1>7. CASE ContinuationPush
    <2>1. ToCall(PushCallback(tokens["given"], "inner")) # "task"
      BY <1>7, ContinuationPushStack DEF ToCall
    <2>. QED  BY <1>7, <2>1 DEF ContinuationPush
  <1>8. CASE ContinuationPop
    BY <1>8 DEF ContinuationPop
  <1>. QED
    BY CalmOrNot, <1>1, <1>2, <1>3, <1>4, <1>5, <1>6, <1>7, <1>8

\* Nothing brings the task back.
LEMMA OverStays ==
  ASSUME IndInv, HeardInv, [Next]_vars, Over
  PROVE  Over'
  <1>. USE Actors DEF Over, IndInv, OwnerInv, Goto
  <1>1. CASE done
    BY <1>1 DEF Next, RunStep, CancelStep, ContinuationStep, Finished, RunExchange,
       RunPop, RunPopEmpty, RunCall, BodyPush, BodyPushed, BodyPop, RunSet, RunClear,
       RunDestroy, Drop, BreakPromise, BreakChain, GetToken, Request, CallOther,
       TryLock, DeadReturn, CancelExchange, CancelPop, CancelClear, CancelSet, Release,
       ContinuationPush, ContinuationPushed, ContinuationPop, taskVars, vars
  <1>2. CASE pc[Runner] = "dropped"
    BY <1>2 DEF Next, RunStep, CancelStep, ContinuationStep, Finished, RunExchange,
       RunPop, RunPopEmpty, RunCall, BodyPush, BodyPushed, BodyPop, RunSet, RunClear,
       RunDestroy, Drop, BreakPromise, BreakChain, GetToken, Request, CallOther,
       TryLock, DeadReturn, CancelExchange, CancelPop, CancelClear, CancelSet, Release,
       ContinuationPush, ContinuationPushed, ContinuationPop, threadVars, vars
  <1>. QED  BY <1>1, <1>2

\* Until the task is over its canceler is the top of the token.
LEMMA TopIsTask ==
  ASSUME IndInv, HeardInv, ~Over
  PROVE  Top(tokens["given"]) = "task"
  <1>1. ~TaskOff /\ ~BodyOn("given") /\ ~InnerOn
    BY Shape DEF Over, HeardInv, PlaceInv, BodyOn
  <1>2. tokens["given"].callbacks = Append(InitialStack, "task")
    BY <1>1 DEF HeardInv, StackInv, GivenStack, With
  <1>. QED  BY <1>2, OuterStack, Stacks, Popping DEF Callbacks

\* A request that returned has found the task, or it was over.
LEMMA ReturnStep ==
  ASSUME IndInv, HeardInv, [Next]_vars
  PROVE  ReturnInv'
  <1>. USE Actors DEF HeardInv, TypeOK, ReturnInv, Goto
  <1>1. CASE Over
    BY <1>1, OverStays
  <1>2. CASE ~Over
    <2>. USE <1>2
    <2>1. \A t \in Threads : pc[t] \notin {"release"}
      BY DEF PlaceInv, Over
    <2>2. /\ owners # {} /\ ptoken # "null"
          /\ pc[Runner] \notin {"gone", "scoped", "pushed", "popped"}
      BY DEF PlaceInv, Over, IndInv, OwnerInv, Owning, Taking, RunTaking
    <2>3. ASSUME NEW t \in Threads, Calm(t) PROVE ReturnInv'
      BY <2>1, <2>2, <2>3 DEF Calm, RunExchange, RunPopEmpty, RunCall, BodyPushed,
         RunClear, RunDestroy, RunSet, Drop, BreakPromise, BreakChain,
         ContinuationPushed, vars, GetToken, CallOther, TryLock, DeadReturn,
         CancelExchange, CancelClear, CancelSet, Release, threadVars, tokenVars,
         taskVars
    <2>4. ASSUME NEW t \in Threads, Request(t) PROVE ReturnInv'
      <3>1. tok[t] = "given" => cb'[t] = "task"
        BY <2>4, TopIsTask, Asking, Stacks DEF Request, UseToken, ToCall, RequestCancel,
           Token
      <3>. QED  BY <2>4, <3>1 DEF Request, UseToken, taskVars
    <2>5. ASSUME NEW t \in Threads, CancelPop(t) PROVE ReturnInv'
      BY <2>5 DEF CancelPop, UseToken
    <2>6. CASE RunPop \/ BodyPush \/ BodyPop \/ ContinuationPush \/ ContinuationPop
      BY <2>6, ActorsAssumption DEF RunPop, BodyPush, BodyPop, ContinuationPush,
         ContinuationPop, UseToken
    <2>. QED  BY CalmOrNot, <2>3, <2>4, <2>5, <2>6
  <1>. QED  BY <1>1, <1>2

\* Somebody has called callback c, or is to call it.
Reached(c) ==
  \/ c \in called
  \/ c = "task" /\ done
  \/ \E th \in Threads :
       cb[th] = c /\ pc[th] \in {"call", "popped", "pushed", "unscoped",
                                 "cancel_clear", "inner_pushed", "exchange"}

\* A thread that is to call a callback does.
LEMMA CalmReached ==
  ASSUME IndInv, HeardInv, NEW c, c # NoCallback, Reached(c), pc'[Runner] # "dropped",
         NEW t \in Threads, Calm(t)
  PROVE  Reached(c)'
  <1>. USE Actors DEF HeardInv, TypeOK, HolderInv, IndInv, OwnerInv, Goto, Reached,
           taskVars, tokenVars, threadVars, vars
  <1>1. CASE RunExchange
    BY <1>1 DEF RunExchange
  <1>2. CASE RunPopEmpty
    BY <1>2 DEF RunPopEmpty
  <1>3. CASE RunCall
    BY <1>3 DEF RunCall
  <1>4. CASE BodyPushed
    BY <1>4 DEF BodyPushed
  <1>5. CASE RunClear
    BY <1>5 DEF RunClear
  <1>6. CASE RunDestroy
    BY <1>6 DEF RunDestroy, Shared!Disown
  <1>7. ASSUME NEW v \in {"value", "exception"}, RunSet(v) PROVE Reached(c)'
    BY <1>7 DEF RunSet, Resolve, Shared!Fulfil
  <1>8. CASE Drop
    BY <1>8 DEF Drop, Shared!Disown
  <1>9. CASE BreakPromise
    BY <1>9 DEF BreakPromise, Shared!Abandon
  <1>10. CASE BreakChain
    BY <1>10 DEF BreakChain
  <1>11. CASE ContinuationPushed
    BY <1>11 DEF ContinuationPushed
  <1>12. CASE UNCHANGED vars
    BY <1>12
  <1>13. CASE GetToken(t)
    BY <1>13 DEF GetToken
  <1>14. CASE CallOther(t)
    BY <1>14 DEF CallOther
  <1>15. CASE TryLock(t)
    BY <1>15 DEF TryLock, Shared!Share, PlaceInv, Owning
  <1>16. CASE DeadReturn(t)
    BY <1>16 DEF DeadReturn
  <1>17. CASE CancelExchange(t)
    BY <1>17 DEF CancelExchange
  <1>18. CASE CancelClear(t)
    BY <1>18 DEF CancelClear
  <1>19. CASE CancelSet(t)
    BY <1>19 DEF CancelSet, Resolve, Shared!Fulfil
  <1>20. CASE Release(t)
    BY <1>20 DEF Release, Shared!Disown
  <1>. QED
    BY <1>1, <1>2, <1>3, <1>4, <1>5, <1>6, <1>7, <1>8, <1>9, <1>10, <1>11, <1>12,
       <1>13, <1>14, <1>15, <1>16, <1>17, <1>18, <1>19, <1>20 DEF Calm

\* A thread that has nothing to call may use the token.
LEMMA StackReached ==
  ASSUME IndInv, HeardInv, NEW c, c # NoCallback, Reached(c), NEW t \in Threads,
         \/ Request(t)
         \/ BodyPush \/ BodyPop
  PROVE  Reached(c)'
  BY Actors DEF HeardInv, TypeOK, IndInv, OwnerInv, Goto, Reached, Request, BodyPush,
     BodyPop, UseToken, taskVars

\* A dropped task stays so.
LEMMA Dropped ==
  ASSUME IndInv, HeardInv, [Next]_vars, pc[Runner] = "dropped"
  PROVE  pc'[Runner] = "dropped"
  BY Actors DEF IndInv, OwnerInv, Goto, Next, RunStep, CancelStep, ContinuationStep,
     Finished, RunExchange, RunPop, RunPopEmpty, RunCall, BodyPush, BodyPushed, BodyPop,
     RunSet, RunClear, RunDestroy, Drop, BreakPromise, BreakChain, GetToken, Request,
     CallOther, TryLock, DeadReturn, CancelExchange, CancelPop, CancelClear, CancelSet,
     Release, ContinuationPush, ContinuationPushed, ContinuationPop, threadVars, vars

\* Who changes the top of a canceled token, or cancels it, calls the top.
LEMMA ReachStep ==
  ASSUME IndInv, HeardInv, [Next]_vars
  PROVE  RequestReachesTop'
  <1>. DEFINE given == tokens["given"]
  <1>1. SUFFICES ASSUME given'.requested, Depth(given') > 0, pc'[Runner] # "dropped"
                 PROVE  Reached(Top(given))'
    BY DEF RequestReachesTop, Reached
  <1>2. pc[Runner] # "dropped"
    BY <1>1, Dropped
  <1>3. /\ given \in Token(Callbacks)
        /\ given' \in Token(Callbacks)
    BY Stacks, TypeStep DEF TypeInv, TypeOK
  <1>4. Top(given) # NoCallback <=> Depth(given) > 0
    BY <1>3 DEF Top, Depth, Token, Callbacks, NoCallback
  <1>5. given.requested /\ Depth(given) > 0 =>
          Reached(Top(given)) /\ Top(given) # NoCallback
    BY <1>2, <1>4 DEF HeardInv, RequestReachesTop, Reached
  <1>6. ASSUME NEW t \in Threads, Calm(t) PROVE Reached(Top(given))'
    <2>1. given' = given
      BY <1>6, CalmTokens
    <2>2. Reached(Top(given)) /\ Top(given) # NoCallback
      BY <1>1, <1>5, <2>1
    <2>3. \A c : c # NoCallback /\ Reached(c) => Reached(c)'
      BY <1>1, <1>6, CalmReached
    <2>. QED  BY <2>1, <2>2, <2>3 DEF Reached
  <1>7. ASSUME given' = given, Request(Runner) \/ BodyPush \/ BodyPop
        PROVE  Reached(Top(given))'
    <2>1. Reached(Top(given)) /\ Top(given) # NoCallback
      BY <1>1, <1>5, <1>7
    <2>3. \A c : c # NoCallback /\ Reached(c) => Reached(c)'
      BY <1>7, StackReached, Actors
    <2>. QED  BY <1>7, <2>1, <2>3 DEF Reached
  <1>8. ASSUME NEW t \in Threads, cb'[t] = ToCall(given'),
               pc'[t] \in {"call", "popped", "pushed", "unscoped", "cancel_clear",
                           "inner_pushed"}
        PROVE  Reached(Top(given))'
    BY <1>1, <1>8 DEF Reached, ToCall
  <1>. USE Actors DEF HeardInv, TypeOK, IndInv, OwnerInv, Goto, UseToken, taskVars
  <1>9. ASSUME NEW t \in Threads, Request(t) PROVE Reached(Top(given))'
    <2>1. tok[t] \in {"given", "fresh"}
      OBVIOUS
    <2>2. CASE tok[t] = "given"
      BY <1>8, <1>9, <2>2 DEF Request
    <2>3. CASE tok[t] = "fresh"
      <3>1. given' = given
        BY <1>9, <2>3 DEF Request
      <3>2. Reached(Top(given)) /\ Top(given) # NoCallback
        BY <1>1, <1>5, <3>1
      <3>3. \A c : c # NoCallback /\ Reached(c) => Reached(c)'
        BY <1>9, StackReached
      <3>. QED  BY <3>1, <3>2, <3>3 DEF Reached
    <2>. QED  BY <2>1, <2>2, <2>3
  <1>10. ASSUME NEW t \in Threads, CancelPop(t) PROVE Reached(Top(given))'
    BY <1>8, <1>10 DEF CancelPop
  <1>11. CASE RunPop
    BY <1>8, <1>11, RunPopStack DEF RunPop
  <1>12. CASE BodyPush
    <2>1. CASE tok[Runner] = "given"
      BY <1>8, <1>12, <2>1 DEF BodyPush
    <2>2. CASE tok[Runner] # "given"
      BY <1>7, <1>12, <2>2, BodyPushStack DEF BodyPush
    <2>. QED  BY <2>1, <2>2
  <1>13. CASE BodyPop
    <2>1. CASE tok[Runner] = "given"
      BY <1>8, <1>13, <2>1 DEF BodyPop
    <2>2. CASE tok[Runner] # "given"
      BY <1>7, <1>13, <2>2, BodyPopStack DEF BodyPop
    <2>. QED  BY <2>1, <2>2
  <1>14. CASE ContinuationPush
    BY <1>8, <1>14 DEF ContinuationPush
  <1>15. CASE ContinuationPop
    BY <1>8, <1>15 DEF ContinuationPop
  <1>. QED
    BY CalmOrNot, <1>6, <1>9, <1>10, <1>11, <1>12, <1>13, <1>14, <1>15

\* Every step keeps them all.
LEMMA HeardStep ==
  ASSUME IndInv, HeardInv, [Next]_vars
  PROVE  HeardInv'
  BY TypeStep, StackStep, PlaceStep, HolderStep, ReturnStep, ReachStep DEF HeardInv,
     TypeInv

\* What the tokens contain, and who calls what, hold throughout.
THEOREM Hearing == SafeSpec => []HeardInv
  <1>1. IndInv /\ HeardInv /\ [Next]_vars => HeardInv'
    BY HeardStep
  <1>. QED  BY InitHeard, <1>1, Invariance, PTL DEF SafeSpec

\* Everybody who pops a callback finds his own.
LEMMA Tops ==
  ASSUME IndInv, HeardInv
  PROVE  PopsItsOwn
  <1>. USE Stacks, Popping, Shape, Actors DEF HeardInv, StackInv, GivenStack,
     FreshStack, With, Callbacks
  <1>1. ASSUME NEW t \in Threads, pc[t] \in {"pop", "cancel_pop"}
        PROVE  Top(tokens["given"]) = "task"
    <2>1. tokens["given"].callbacks = Append(InitialStack, "task")
      BY <1>1
    <2>. QED  BY <2>1, OuterStack
  <1>2. ASSUME pc[Runner] = "scoped"
        PROVE  Top(tokens[tok[Runner]]) = "body"
    <2>1. TaskOff /\ ~InnerOn
      BY <1>2 DEF RunTaking
    <2>2. CASE tok[Runner] = "given"
      <3>1. tokens["given"].callbacks = Append(InitialStack, "body")
        BY <1>2, <2>1, <2>2 DEF BodyOn
      <3>. QED  BY <2>2, <3>1, OuterStack
    <2>3. CASE tok[Runner] = "fresh"
      <3>1. tokens["fresh"].callbacks = Append(<<>>, "body")
        BY <1>2, <2>3 DEF BodyOn
      <3>2. <<>> \in Seq(Callbacks)
        OBVIOUS
      <3>. QED  BY <2>3, <3>1, <3>2
    <2>. QED  BY <2>2, <2>3
  <1>3. ASSUME pc[Continuation] = "inner"
        PROVE  Top(tokens["given"]) = "inner"
    <2>1. InnerOn /\ ~BodyOn("given")
      BY <1>3 DEF InnerOn, PlaceInv
    <2>2. tokens["given"].callbacks = Append(With(InitialStack, ~TaskOff, "task"), "inner")
      BY <2>1
    <2>. QED  BY <2>2
  <1>. QED  BY <1>1, <1>2, <1>3 DEF PopsItsOwn

\* A request for cancelation reaches the task, its body or its continuation, which
\* come and go on the token, and returns when the task cannot begin any more.
THEOREM CancelReaches == SafeSpec => []CancelIsHeard
  <1>1. ASSUME IndInv, HeardInv PROVE CancelIsHeard
    BY <1>1, Tops DEF HeardInv, ReturnInv, CancelIsHeard, CanceledBeforeReturn, Over
  <1>. QED  BY Invariance, Hearing, <1>1, PTL

\* Every variable has its type.
THEOREM Typed == SafeSpec => []TypeOK
  <1>1. HeardInv => TypeOK
    BY DEF HeardInv
  <1>. QED  BY Hearing, <1>1, PTL
================================================================================
