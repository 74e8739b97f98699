------------------------------ MODULE SharedState ------------------------------
(***************************************************************************)
(* detail/shared_base.hpp: the state shared by the promises and the futures *)
(* of one result, and promise_ptr, the counting pointer a promise is.       *)
(*                                                                          *)
(* Threads are represented by what they operate on: a promise_ptr object is *)
(* used by one thread at a time, so the steps of the code that copies,      *)
(* sets or destroys it are the steps of that object; a call of then() is    *)
(* the continuation it attaches; a call of wait() or get() is its waiter.   *)
(* All of them interleave.  The grain is one step per access to an atomic,  *)
(* per critical section of _mutex, or per unlocked read of _r; finish()     *)
(* keeps _mutex over several steps because _r is read without it.           *)
(***************************************************************************)
EXTENDS Naturals, FiniteSets

CONSTANTS Promises,     \* promise_ptr objects
          Original,     \* the one make_shared() returned
          Conts,        \* calls of then(), each with its continuation
          Waiters,      \* calls of wait(), get(), get_exception(), wait_for()
          TimedWaiters  \* those of them that give up (wait_for)

ASSUME PromisesAssumption == IsFiniteSet(Promises) /\ Original \in Promises
ASSUME WaitersAssumption == TimedWaiters \subseteq Waiters

VARIABLES
  count,    \* _promise_count
  r,        \* _r: none, value, exception; the exception broken_promise apart
  then,     \* _then, the queued continuations
  locked,   \* _mutex is held by a finish() in progress
  token,    \* _cancelation_token is still there (PackagedTask tells what it is)
  pc,       \* where the thread that uses each promise_ptr is
  outcome,  \* what the finish() under way stores in _r
  batch,    \* finish()'s local `then`, the continuations it swapped out
  seen,     \* increment_promise()'s local `count`
  source,   \* the promise_ptr a copy under way is made from
  claimed,  \* the users' right to call set() or set_exception() was used
  reg,      \* how far each call of then() is
  posts,    \* how many times each continuation was posted on its executor
  wpc,      \* where each waiter is
  waitset   \* the threads blocked in _ready

promiseVars == <<count, pc, outcome, batch, seen, source, claimed>>
contVars == <<then, reg, posts>>
waitVars == <<wpc, waitset>>
vars == <<r, locked, token, promiseVars, contVars, waitVars>>

Results == {"none", "value", "exception", "broken"}

\* The pcs of a promise_ptr inside finish().
Finishing == {"finish", "setval", "swap", "notify", "post"}

PCs == Finishing \cup
       {"empty", "locking", "copying", "lending", "held", "check",
        "copy_failed", "gone"}

\* The promise_ptrs that count in _promise_count.  The finish() that stores
\* broken_promise runs when the count is already zero.
Owns(p) == \/ pc[p] \in {"held", "lending"}
           \/ pc[p] \in Finishing /\ outcome[p] # "broken"

Live == {p \in Promises : Owns(p)}

Init == /\ count = 1
        /\ r = "none"
        /\ then = {}
        /\ locked = FALSE
        /\ token = TRUE
        /\ pc = [p \in Promises |-> IF p = Original THEN "held" ELSE "empty"]
        /\ outcome = [p \in Promises |-> "none"]
        /\ batch = [p \in Promises |-> {}]
        /\ seen = [p \in Promises |-> 0]
        /\ source = [p \in Promises |-> p]
        /\ claimed = FALSE
        /\ reg = [c \in Conts |-> "idle"]
        /\ posts = [c \in Conts |-> 0]
        /\ wpc = [w \in Waiters |-> "idle"]
        /\ waitset = {}

--------------------------------------------------------------------------------
(* promise_ptr: copies and try_lock *)

\* promise_ptr(promise_ptr const&): increment_promise() on behalf of q starts
\* with a load of the counter, while p, the original, stays where it is.
CopyBegin(q, p) ==
  /\ pc[q] = "empty"
  /\ pc[p] = "held"
  /\ pc' = [pc EXCEPT ![q] = "copying", ![p] = "lending"]
  /\ seen' = [seen EXCEPT ![q] = count]
  /\ source' = [source EXCEPT ![q] = p]
  /\ UNCHANGED <<count, outcome, batch, claimed, r, locked, token, contVars,
                 waitVars>>

\* try_lock(): the same from a plain shared_ptr, with no promise held.
TryLockBegin(q) ==
  /\ pc[q] = "empty"
  /\ pc' = [pc EXCEPT ![q] = "locking"]
  /\ seen' = [seen EXCEPT ![q] = count]
  /\ UNCHANGED <<count, outcome, batch, source, claimed, r, locked, token,
                 contVars, waitVars>>

\* increment_promise() returns: q gets `mine`, and the original of a copy is
\* free again.
EndIncrement(q, mine) ==
  pc' = IF pc[q] = "copying"
          THEN [pc EXCEPT ![q] = mine, ![source[q]] = "held"]
          ELSE [pc EXCEPT ![q] = mine]

\* compare_exchange_weak succeeds.
IncrementDone(q) ==
  /\ pc[q] \in {"copying", "locking"}
  /\ seen[q] # 0
  /\ count = seen[q]
  /\ count' = count + 1
  /\ EndIncrement(q, "held")
  /\ UNCHANGED <<outcome, batch, seen, source, claimed, r, locked, token,
                 contVars, waitVars>>

\* compare_exchange_weak fails and reloads the counter.
IncrementRetry(q) ==
  /\ pc[q] \in {"copying", "locking"}
  /\ seen[q] # 0
  /\ count # seen[q]
  /\ seen' = [seen EXCEPT ![q] = count]
  /\ UNCHANGED <<count, pc, outcome, batch, source, claimed, r, locked, token,
                 contVars, waitVars>>

\* The counter was zero: try_lock returns an empty promise_ptr, the copy
\* constructor fails its assert.
IncrementFails(q) ==
  /\ pc[q] \in {"copying", "locking"}
  /\ seen[q] = 0
  /\ EndIncrement(q, IF pc[q] = "copying" THEN "copy_failed" ELSE "empty")
  /\ UNCHANGED <<count, outcome, batch, seen, source, claimed, r, locked,
                 token, contVars, waitVars>>

Increment(q) == IncrementDone(q) \/ IncrementRetry(q) \/ IncrementFails(q)

--------------------------------------------------------------------------------
(* set(), set_exception(), decrement_promise() and the finish() they share *)

\* set() and set_exception() have no guard of their own: at most one call is
\* the precondition ("state already set"), which their callers keep with an
\* atomic exchange (packaged_task, async_wait) or by construction (promise).
SetResult(p, v) ==
  /\ pc[p] = "held"
  /\ ~claimed
  /\ claimed' = TRUE
  /\ pc' = [pc EXCEPT ![p] = "finish"]
  /\ outcome' = [outcome EXCEPT ![p] = v]
  /\ UNCHANGED <<count, batch, seen, source, r, locked, token, contVars,
                 waitVars>>

\* MUTANT: nobody looks whether the last promise was broken.
Decrement_NoCheck(p) ==
  /\ pc[p] = "held"
  /\ count' = count - 1
  /\ pc' = [pc EXCEPT ![p] = "gone"]
  /\ UNCHANGED <<outcome, batch, seen, source, claimed, r, locked, token,
                 contVars, waitVars>>

\* MUTANT: the promise is broken one owner too early.
Decrement_OffByOne(p) ==
  /\ pc[p] = "held"
  /\ count' = count - 1
  /\ pc' = [pc EXCEPT ![p] = IF count = 2 THEN "check" ELSE "gone"]
  /\ UNCHANGED <<outcome, batch, seen, source, claimed, r, locked, token,
                 contVars, waitVars>>

\* --_promise_count, in the destructor or in an assignment over p.
Decrement(p) ==
  /\ pc[p] = "held"
  /\ count' = count - 1
  /\ pc' = [pc EXCEPT ![p] = IF count = 1 THEN "check" ELSE "gone"]
  /\ UNCHANGED <<outcome, batch, seen, source, claimed, r, locked, token,
                 contVars, waitVars>>

\* `&& _r.index() == 0`, read without _mutex: broken_promise.
CheckBroken(p) ==
  /\ pc[p] = "check"
  /\ IF r = "none"
       THEN /\ pc' = [pc EXCEPT ![p] = "finish"]
            /\ outcome' = [outcome EXCEPT ![p] = "broken"]
       ELSE /\ pc' = [pc EXCEPT ![p] = "gone"]
            /\ UNCHANGED outcome
  /\ UNCHANGED <<count, batch, seen, source, claimed, r, locked, token,
                 contVars, waitVars>>

FinishLock(p) ==
  /\ pc[p] = "finish"
  /\ ~locked
  /\ locked' = TRUE
  /\ pc' = [pc EXCEPT ![p] = "setval"]
  /\ UNCHANGED <<count, outcome, batch, seen, source, claimed, r, token,
                 contVars, waitVars>>

FinishSetVal(p) ==
  /\ pc[p] = "setval"
  /\ r' = outcome[p]
  /\ pc' = [pc EXCEPT ![p] = "swap"]
  /\ UNCHANGED <<count, outcome, batch, seen, source, claimed, locked, token,
                 contVars, waitVars>>

\* MUTANT: the queue is not taken out of the shared state.
FinishSwap_NoSwap(p) ==
  /\ pc[p] = "swap"
  /\ token' = FALSE
  /\ locked' = FALSE
  /\ pc' = [pc EXCEPT ![p] = "notify"]
  /\ UNCHANGED <<count, outcome, batch, seen, source, claimed, r, contVars,
                 waitVars>>

\* std::swap(_then, then), the token is dropped, _mutex is released.
FinishSwap(p) ==
  /\ pc[p] = "swap"
  /\ batch' = [batch EXCEPT ![p] = then]
  /\ then' = {}
  /\ token' = FALSE
  /\ locked' = FALSE
  /\ pc' = [pc EXCEPT ![p] = "notify"]
  /\ UNCHANGED <<count, outcome, seen, source, claimed, r, reg, posts,
                 waitVars>>

\* MUTANT: notify_one().
FinishNotify_One(p) ==
  /\ pc[p] = "notify"
  /\ waitset' \in IF waitset = {} THEN {{}} ELSE {waitset \ {w} : w \in waitset}
  /\ pc' = [pc EXCEPT ![p] = "post"]
  /\ UNCHANGED <<count, outcome, batch, seen, source, claimed, r, locked,
                 token, contVars, wpc>>

\* notify_all(), after the unlock.
FinishNotify(p) ==
  /\ pc[p] = "notify"
  /\ waitset' = {}
  /\ pc' = [pc EXCEPT ![p] = "post"]
  /\ UNCHANGED <<count, outcome, batch, seen, source, claimed, r, locked,
                 token, contVars, wpc>>

FinishPost(p) ==
  /\ pc[p] = "post"
  /\ \E c \in batch[p] :
       /\ posts' = [posts EXCEPT ![c] = @ + 1]
       /\ batch' = [batch EXCEPT ![p] = @ \ {c}]
  /\ UNCHANGED <<count, pc, outcome, seen, source, claimed, r, locked, token,
                 then, reg, waitVars>>

FinishReturn(p) ==
  /\ pc[p] = "post"
  /\ batch[p] = {}
  /\ pc' = [pc EXCEPT ![p] = IF outcome[p] = "broken" THEN "gone" ELSE "held"]
  /\ UNCHANGED <<count, outcome, batch, seen, source, claimed, r, locked,
                 token, contVars, waitVars>>

Finish(p) == \/ FinishLock(p) \/ FinishSetVal(p) \/ FinishSwap(p)
             \/ FinishNotify(p) \/ FinishPost(p) \/ FinishReturn(p)

--------------------------------------------------------------------------------
(* The futures' side: then() and the waits *)

\* MUTANT: then() has its test the wrong way round.
Then_Inverted(c) ==
  /\ reg[c] = "idle"
  /\ ~locked
  /\ IF r # "none"
       THEN /\ then' = then \cup {c}
            /\ reg' = [reg EXCEPT ![c] = "queued"]
       ELSE /\ reg' = [reg EXCEPT ![c] = "resolved"]
            /\ UNCHANGED then
  /\ UNCHANGED <<promiseVars, r, locked, token, posts, waitVars>>

\* then(): the critical section queues the continuation of an unresolved state.
Then(c) ==
  /\ reg[c] = "idle"
  /\ ~locked
  /\ IF r = "none"
       THEN /\ then' = then \cup {c}
            /\ reg' = [reg EXCEPT ![c] = "queued"]
       ELSE /\ reg' = [reg EXCEPT ![c] = "resolved"]
            /\ UNCHANGED then
  /\ UNCHANGED <<promiseVars, r, locked, token, posts, waitVars>>

\* then(): `if (resolved)`, after the unlock, posts it at once.
ThenPost(c) ==
  /\ reg[c] = "resolved"
  /\ reg' = [reg EXCEPT ![c] = "direct"]
  /\ posts' = [posts EXCEPT ![c] = @ + 1]
  /\ UNCHANGED <<promiseVars, r, locked, token, then, waitVars>>

\* wait(), get(), get_exception(): the loop on the predicate, under _mutex.
\* A waiter that was notified, or woke up for no reason, takes it again.
WaitTest(w) ==
  /\ \/ wpc[w] = "idle"
     \/ wpc[w] = "waiting" /\ w \notin waitset
  /\ ~locked
  /\ IF r = "none"
       THEN /\ wpc' = [wpc EXCEPT ![w] = "waiting"]
            /\ waitset' = waitset \cup {w}
       ELSE /\ wpc' = [wpc EXCEPT ![w] = "returned"]
            /\ UNCHANGED waitset
  /\ UNCHANGED <<promiseVars, r, locked, token, contVars>>

SpuriousWakeup(w) ==
  /\ w \in waitset
  /\ waitset' = waitset \ {w}
  /\ UNCHANGED <<promiseVars, r, locked, token, contVars, wpc>>

\* wait_for(): the delay is over; it returns whatever the predicate says.
WaitTimeout(w) ==
  /\ w \in TimedWaiters
  /\ wpc[w] = "waiting"
  /\ ~locked
  /\ waitset' = waitset \ {w}
  /\ wpc' = [wpc EXCEPT ![w] = "timed_out"]
  /\ UNCHANGED <<promiseVars, r, locked, token, contVars>>

--------------------------------------------------------------------------------

\* Everything was done: the shared state can be destroyed.
Finished == /\ \A p \in Promises : pc[p] \in {"empty", "gone"}
            /\ \A c \in Conts : reg[c] \in {"queued", "direct"}
            /\ \A w \in Waiters : wpc[w] \in {"returned", "timed_out"}
            /\ UNCHANGED vars

PromiseStep(p) == Increment(p) \/ CheckBroken(p) \/ Finish(p)

Next == \/ \E p, q \in Promises : CopyBegin(q, p)
        \/ \E p \in Promises : TryLockBegin(p) \/ Decrement(p) \/ PromiseStep(p)
        \/ \E p \in Promises, v \in {"value", "exception"} : SetResult(p, v)
        \/ \E c \in Conts : Then(c) \/ ThenPost(c)
        \/ \E w \in Waiters : WaitTest(w) \/ SpuriousWakeup(w) \/ WaitTimeout(w)
        \/ Finished

SafeSpec == Init /\ [][Next]_vars

\* A thread inside a call goes on; no thread has to start one.
Fairness ==
  /\ \A p \in Promises : WF_vars(PromiseStep(p))
  /\ \A c \in Conts : WF_vars(ThenPost(c))
  /\ \A w \in Waiters : WF_vars(wpc[w] = "waiting" /\ WaitTest(w))

Spec == SafeSpec /\ Fairness

--------------------------------------------------------------------------------
(* Properties *)

\* Every variable has its type.
TypeOK == /\ count \in Nat
          /\ r \in Results
          /\ then \subseteq Conts
          /\ locked \in BOOLEAN
          /\ token \in BOOLEAN
          /\ pc \in [Promises -> PCs]
          /\ outcome \in [Promises -> Results]
          /\ batch \in [Promises -> SUBSET Conts]
          /\ seen \in [Promises -> Nat]
          /\ source \in [Promises -> Promises]
          /\ claimed \in BOOLEAN
          /\ reg \in [Conts -> {"idle", "queued", "resolved", "direct"}]
          /\ posts \in [Conts -> Nat]
          /\ wpc \in [Waiters -> {"idle", "waiting", "returned", "timed_out"}]
          /\ waitset \subseteq Waiters

\* assert(_r.index() == 0 && "state already set") of finish(): no broken_promise
\* ever races a set(), and no thread stores a second result.
SetOnce == \A p \in Promises : pc[p] \in {"finish", "setval"} => r = "none"

\* assert(ok) of the copies: while a promise_ptr is being copied the counter
\* cannot reach zero, whatever the other promise_ptrs do.
CopyNeverFails == \A p \in Promises : pc[p] # "copy_failed"

\* The asserts of ~shared_base(): once no thread holds or destroys a promise,
\* the count is zero and the state has a result.
DestructorAsserts ==
  (\A p \in Promises : pc[p] \in {"empty", "locking", "gone"}) =>
     count = 0 /\ r # "none"

\* broken_promise is only stored when no promise is left, and never over a
\* result somebody set.
BrokenOnlyWhenAbandoned == r = "broken" => Live = {} /\ ~claimed

\* A continuation is posted at most once, and only after the result is there.
PostedOnceAfterResult ==
  \A c \in Conts : posts[c] <= 1 /\ (posts[c] = 1 => r # "none")

\* A queued continuation is never lost: it waits in _then for a result, or the
\* finish() under way has it or will swap it out, or it was posted.
NoContinuationLost ==
  \A c \in Conts :
    reg[c] = "queued" /\ posts[c] = 0 =>
      \/ c \in then /\ r = "none"
      \/ c \in then /\ \E p \in Promises : pc[p] = "swap"
      \/ \E p \in Promises : c \in batch[p] /\ pc[p] \in {"notify", "post"}

\* The asserts of the state, of the copies of its promises and of its destructor, in
\* whichever order the last promise goes, a set() and a try_lock() come.
AssertsNeverFail == SetOnce /\ CopyNeverFails /\ DestructorAsserts

\* A continuation is posted exactly once after the result, whether then() came before
\* the result, during finish() or after.
ContinuationsArePosted == PostedOnceAfterResult /\ NoContinuationLost

\* No lost wakeup: whoever is blocked in _ready while there is a result will be
\* notified by the finish() that has not reached its notify_all() yet.
NoLostWakeup ==
  r # "none" /\ waitset # {} =>
    \E p \in Promises : pc[p] \in {"swap", "notify"}

\* The counter never leaves zero: try_lock cannot revive an abandoned state,
\* so that broken_promise is final.
NeverRevived == [][count = 0 => count' = 0]_vars

\* A result is never replaced.
ResultStays == [][r # "none" => r' = r]_vars

\* Nobody blocks forever on a future that has a result.
WaitersReturn ==
  \A w \in Waiters :
    (wpc[w] = "waiting" /\ r # "none") ~> (wpc[w] \in {"returned", "timed_out"})

--------------------------------------------------------------------------------
(* The inductive invariant: why the properties hold *)

Busy == Finishing \cup {"check"}

\* _promise_count counts the promise_ptrs.
CountInv == count = Cardinality(Live)

\* A copy's original stays alive, so the copy never loads a zero.
CopyInv ==
  /\ \A q \in Promises :
       /\ pc[q] = "copying" => pc[source[q]] = "lending" /\ seen[q] # 0
       /\ pc[q] # "copy_failed"
  /\ \A p, q \in Promises :
       pc[p] = "copying" /\ pc[q] = "copying" /\ source[p] = source[q] => p = q

\* At most one thread at a time is in finish() or about to decide whether it
\* breaks the promise, and the latter only once nobody owns the state.
FinisherInv ==
  /\ \A p, q \in Promises : pc[p] \in Busy /\ pc[q] \in Busy => p = q
  /\ \A p \in Promises :
       pc[p] \in Busy /\ ~Owns(p) => Live = {}

\* The result against the finish() under way.
ResultInv ==
  /\ \A p \in Promises :
       /\ pc[p] \in Finishing =>
            outcome[p] # "none" /\ (claimed <=> outcome[p] # "broken")
       /\ pc[p] \in {"finish", "setval"} => r = "none"
       /\ pc[p] \in {"swap", "notify", "post"} => r = outcome[p]
  /\ r # "none" => claimed \/ Live = {}
  /\ r = "broken" => ~claimed /\ Live = {}
  /\ r = "none" /\ (claimed \/ Live = {}) =>
       \E p \in Promises : pc[p] \in {"check", "finish", "setval"}
  /\ r = "none" /\ claimed =>
       \A p \in Promises : pc[p] # "check"

LockInv == locked <=> \E p \in Promises : pc[p] \in {"setval", "swap"}

\* Where a continuation that is not posted yet can be.
QueueInv ==
  /\ \A c \in then : reg[c] = "queued" /\ posts[c] = 0
  /\ then # {} /\ r # "none" => \E p \in Promises : pc[p] = "swap"
  /\ \A p \in Promises :
       /\ batch[p] # {} => pc[p] \in {"notify", "post"}
       /\ \A c \in batch[p] :
            reg[c] = "queued" /\ posts[c] = 0 /\ c \notin then
  /\ \A c \in Conts :
       /\ posts[c] <= 1
       /\ posts[c] = 1 => r # "none" /\ reg[c] \in {"queued", "direct"}
       /\ reg[c] = "resolved" => r # "none"
       /\ reg[c] = "queued" /\ posts[c] = 0 =>
            c \in then \/ \E p \in Promises : c \in batch[p]

IndInv == /\ TypeOK /\ CountInv /\ CopyInv /\ FinisherInv /\ ResultInv
          /\ LockInv /\ QueueInv /\ NoLostWakeup

--------------------------------------------------------------------------------
Abstract == INSTANCE OneShot WITH
              Outcomes <- {"value", "exception"},
              owners <- Live,
              result <- r,
              registered <- {c \in Conts : reg[c] # "idle"},
              delivered <- posts

\* The shared state implements the one-shot result of OneShot.
ImplementsOneShot == Abstract!Spec
================================================================================
