------------------------------- MODULE Coroutine -------------------------------
(***************************************************************************)
(* include/tconcurrent/coroutine.hpp: the coroutines of the library, in the *)
(* implementation that the macro TCONCURRENT_COROUTINES_TS selects, and what*)
(* both of them promise.                                                    *)
(***************************************************************************)
EXTENDS Integers, Sequences, FiniteSets

CONSTANTS Coroutines,
          First,  \* the coroutine that is started first
          Null,   \* nullptr
          Steps,  \* how many things the code of each does before it ends
          Nesting \* how many cotasks are nested at most in a stackless one

ASSUME CoroutineAssumption == /\ IsFiniteSet(Coroutines) /\ First \in Coroutines
                              /\ {Null, "promise", "sender", "ready"} \cap Coroutines = {}
                              /\ Steps \in Nat /\ Nesting \in Nat

VARIABLES header, \* the header that is included: "stackful" or "stackless"
          co, left, no, on, result, slot, canceled, stack, queue,
          promises, senders, firing, gone, failed, \* of both, see there
          ptr, previous,                           \* of the stackful ones
          depth, linked, giving                    \* of the stackless ones

both == <<co, left, no, on, result, slot, canceled, stack, queue,
          promises, senders, firing, gone, failed>>
stackfulVars == <<ptr, previous>>
stacklessVars == <<depth, linked, giving>>
vars == <<header, both, stackfulVars, stacklessVars>>

Stackful == INSTANCE StackfulCoroutine
Stackless == INSTANCE StacklessCoroutine

Init == /\ header \in {"stackful", "stackless"}
        /\ Stackful!Init
        /\ depth = [c \in Coroutines |-> 0]
        /\ linked = [c \in Coroutines |-> {}]
        /\ giving = {}

\* A step of the thread that runs the coroutines, of a thread that runs a sender that
\* has fired, and of the rest.
Thread == \/ header = "stackful" /\ Stackful!Thread /\ UNCHANGED <<header, stacklessVars>>
          \/ header = "stackless" /\ Stackless!Thread /\ UNCHANGED <<header, stackfulVars>>

Sender == \/ header = "stackful" /\ Stackful!Sender /\ UNCHANGED <<header, stacklessVars>>
          \/ header = "stackless" /\ Stackless!Sender /\ UNCHANGED <<header, stackfulVars>>

Others == \/ header = "stackful" /\ Stackful!Others /\ UNCHANGED <<header, stacklessVars>>
          \/ header = "stackless" /\ Stackless!Others /\ UNCHANGED <<header, stackfulVars>>

Next == Thread \/ Sender \/ Others

SafeSpec == Init /\ [][Next]_vars

\* The thread of the executor runs on, and so does that of a sender once it fired.
\* A promise may never be resolved and a sender never fire.
Spec == SafeSpec /\ WF_vars(Thread) /\ WF_vars(Sender)

--------------------------------------------------------------------------------
(* Properties *)

Up == failed = ""

\* Once request_cancel() of a coroutine returns, its future is ready, whatever chain of
\* coroutines it awaits; only a coroutine whose code is on the stack of the thread may
\* outlive its cancelation.
CancelIsSynchronous ==
  \A c \in Coroutines :
    canceled[c] /\ (\A i \in DOMAIN stack : stack[i].of # c) => result[c] # "none" \/ ~Up

\* No continuation that was posted before a cancelation resumes a coroutine that is
\* freed, nor a later await of one that lives; no canceler destroys one that ended,
\* and none completes its future twice.
NeverTouchedDead == failed \notin {"freed", "result"}

\* Code that runs, or unwinds, finds its own coroutine as the current one, work that it
\* dispatched finds none, and so does a task of the executor: after nested cancelations
\* too.
CurrentIsInnermost ==
  header = "stackful" =>
    IF stack = <<>> THEN ptr = Null
    ELSE /\ Head(stack).frame \in {"run", "unwind"} => ptr = Head(stack).of
         /\ Head(stack).frame = "work" => ptr = Null

\* A coroutine whose awaited task has its result is resumed, or dies; no caller of a
\* nested cotask that ended, suspended or not, is left behind.
Answered(c) == /\ co[c] = "waiting"
               /\ <<c, no[c]>> \notin promises \cup senders
               /\ on[c] \in Coroutines => result[on[c]] # "none"
AnswersResume == \A c \in Coroutines : Answered(c) ~> (~Answered(c) \/ ~Up)
================================================================================
