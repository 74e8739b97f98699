---------------------------- MODULE CancelationToken ----------------------------
(***************************************************************************)
(* cancelation_token.hpp: one token, used by the chain of tasks it was      *)
(* handed to - one task at a time, which nests its callbacks with           *)
(* scope_cancelers - while other threads request the cancelation.  The      *)
(* callbacks run outside of the mutex, so a step separates the critical     *)
(* section that copies one and the call.                                    *)
(***************************************************************************)
EXTENDS TokenOps, FiniteSets

CONSTANTS Scopes,    \* the scope_cancelers opened, each with its callback
          Cancelers  \* the threads that call request_cancel()

ASSUME ScopesAssumption == NoCallback \notin Scopes

VARIABLES
  token,     \* the token
  opened,    \* the scopes that were opened
  running,   \* the callback the chain of tasks is about to run, or NoCallback
  pc,        \* where each canceler is
  copied,    \* the callback each canceler copied
  called     \* the callbacks that were run

tokenVars == <<token, opened, running, pc, copied, called>>

TokenInit == /\ token = NewToken
             /\ opened = {}
             /\ running = NoCallback
             /\ pc = [c \in Cancelers |-> "idle"]
             /\ copied = [c \in Cancelers |-> NoCallback]
             /\ called = {}

\* MUTANT: push_cancelation_callback() on a token that is already canceled
\* leaves it to the next request.
PushScope_Late(s) ==
  /\ running = NoCallback
  /\ s \in Scopes \ opened
  /\ token' = PushCallback(token, s)
  /\ opened' = opened \cup {s}
  /\ UNCHANGED <<running, pc, copied, called>>

\* make_scope_canceler(): push_cancelation_callback().
PushScope(s) ==
  /\ running = NoCallback
  /\ s \in Scopes \ opened
  /\ token' = PushCallback(token, s)
  /\ opened' = opened \cup {s}
  /\ running' = ToCall(token')
  /\ UNCHANGED <<pc, copied, called>>

\* MUTANT: pop_cancelation_callback() forgets the enclosing scope.
PopScope_Forget ==
  /\ running = NoCallback
  /\ Depth(token) > 0
  /\ token' = PopCallback(token)
  /\ UNCHANGED <<opened, running, pc, copied, called>>

\* ~scope_canceler(): pop_cancelation_callback() of the innermost scope.  The
\* callback of the enclosing one runs if a cancelation was requested.
PopScope ==
  /\ running = NoCallback
  /\ Depth(token) > 0
  /\ token' = PopCallback(token)
  /\ running' = ToCall(token')
  /\ UNCHANGED <<opened, pc, copied, called>>

RunCallback ==
  /\ running # NoCallback
  /\ called' = called \cup {running}
  /\ running' = NoCallback
  /\ UNCHANGED <<token, opened, pc, copied>>

\* request_cancel(), under the mutex.
Request(c) ==
  /\ pc[c] = "idle"
  /\ token' = RequestCancel(token)
  /\ copied' = [copied EXCEPT ![c] = ToCall(token')]
  /\ pc' = [pc EXCEPT ![c] = "call"]
  /\ UNCHANGED <<opened, running, called>>

\* request_cancel(), after the unlock.
CallCopied(c) ==
  /\ pc[c] = "call"
  /\ pc' = [pc EXCEPT ![c] = "idle"]
  /\ called' = called \cup ({copied[c]} \ {NoCallback})
  /\ UNCHANGED <<token, opened, running, copied>>

TokenNext == \/ \E s \in Scopes : PushScope(s)
             \/ PopScope
             \/ RunCallback
             \/ \E c \in Cancelers : Request(c) \/ CallCopied(c)

TokenSafeSpec == TokenInit /\ [][TokenNext]_tokenVars

\* A thread that copied a callback runs it.
TokenFairness == /\ WF_tokenVars(RunCallback)
                 /\ \A c \in Cancelers : WF_tokenVars(CallCopied(c))

TokenSpec == TokenSafeSpec /\ TokenFairness

--------------------------------------------------------------------------------
(* Properties *)

\* Every variable has its type.
TypeOK == /\ token \in Token(Scopes)
          /\ opened \subseteq Scopes
          /\ running \in Scopes \cup {NoCallback}
          /\ pc \in [Cancelers -> {"idle", "call"}]
          /\ copied \in [Cancelers -> Scopes \cup {NoCallback}]
          /\ called \subseteq Scopes

\* Some thread is about to run s.
InFlight(s) == \/ running = s
               \/ \E c \in Cancelers : pc[c] = "call" /\ copied[c] = s

\* A requested cancelation is never lost, however pushes, pops and requests
\* interleave: the innermost open scope was canceled or is about to be.
InnermostIsCanceled ==
  token.requested /\ Depth(token) > 0 =>
    Top(token) \in called \/ InFlight(Top(token))

\* The task inside an open scope hears of a cancelation, or ends its scope.
InnermostHears ==
  \A s \in Scopes :
    (token.requested /\ Top(token) = s) ~> (s \in called \/ Top(token) # s)
================================================================================
