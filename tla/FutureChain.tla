------------------------------ MODULE FutureChain ------------------------------
(***************************************************************************)
(* future.hpp: a user builds a chain                                        *)
(*                                                                          *)
(*    source.and_then(e, f1).unwrap().then(e, f2).unwrap() ...              *)
(*                                                                          *)
(* while it executes: the source resolves, the executor runs each callback, *)
(* the inner future that a callback returned ends, threads request the      *)
(* cancelation of any future of the chain, and the user may                 *)
(* break_cancelation_chain() the last one.  Future 0 is the source, and     *)
(* future k what step k returns: a then() or an and_then() on future k - 1, *)
(* and its unwrap().                                                        *)
(*                                                                          *)
(* Shared states are the one-shot results of OneShot; tokens are those of   *)
(* TokenOps.  A future has a token of its own apart from the one of its     *)
(* state, which is dropped when the state resolves.                         *)
(***************************************************************************)
EXTENDS TokenOps, FiniteSets

CONSTANTS Names,     \* the canceler of the inner future of each step
          Cancelers, \* the threads that call request_cancel(), once each
          Kinds,     \* what the user calls: "then", "and_then", "then_token"
          Breakable  \* the futures whose chain the user may break

Steps == 1..Len(Names)
Futures == 0..Len(Names)

ASSUME NamesAssumption ==
  /\ Len(Names) \in Nat
  /\ \A j, k \in Steps : Names[j] = Names[k] => j = k
  /\ \A k \in Steps : Names[k] # NoCallback
  /\ Breakable \subseteq Futures

\* The tokens there can be: that of the source, those that package() makes when
\* it is given none, and those of break_cancelation_chain().
Null == <<0, "null">>
Source == <<0, "source">>
TokenIds == {Source} \cup (Futures \X {"package", "break"})

VARIABLES
  built,     \* how many steps the user has the future of
  kind,      \* what each step is
  phase,     \* how far each step is
  result,    \* the result of each future
  inner,     \* the inner future of each step
  futToken,  \* _cancelation_token of each future
  stToken,   \* _cancelation_token of its shared state
  checks,    \* the token that the callback of each step is given
  linkedTo,  \* the token that unwrap() compared with the one of the inner future
  own,       \* the steps whose inner future has another token
  tokens,    \* the tokens
  copied,    \* the callback that a push or a pop copied, to run after the unlock
  pc, of, on, hit, \* where each canceler is, its future, token and copied callback
  asked,     \* the steps whose inner future was canceled
  broken,    \* the futures whose chain was broken
  requests,  \* the requests that returned, as the future and the token it had
  aborted    \* a null token was dereferenced

chainVars == <<built, kind, phase, result, inner>>
tokenVars == <<futToken, stToken, checks, linkedTo, own, tokens, copied>>
cancelerVars == <<pc, of, on, hit>>
pastVars == <<asked, broken, requests, aborted>>
vars == <<chainVars, tokenVars, cancelerVars, pastVars>>

\* The source is pending; or its future is taken from the promise (get_future())
\* after it was set, and its token is gone.
Init == /\ built = 0
        /\ kind = [k \in Steps |-> "none"]
        /\ phase = [k \in Steps |-> "unbuilt"]
        /\ inner = [k \in Steps |-> "none"]
        /\ \E late \in BOOLEAN :
             LET t == IF late THEN Null ELSE Source
                 r == IF late THEN "value" ELSE "none"
             IN /\ futToken = [k \in Futures |-> IF k = 0 THEN t ELSE Null]
                /\ stToken = [k \in Futures |-> IF k = 0 THEN t ELSE Null]
                /\ result = [k \in Futures |-> IF k = 0 THEN r ELSE "none"]
        /\ checks = [k \in Steps |-> Null]
        /\ linkedTo = [k \in Steps |-> Null]
        /\ own = {}
        /\ tokens = [t \in TokenIds |-> NewToken]
        /\ copied = [k \in Steps |-> NoCallback]
        /\ pc = [c \in Cancelers |-> "idle"]
        /\ of = [c \in Cancelers |-> 0]
        /\ on = [c \in Cancelers |-> Null]
        /\ hit = [c \in Cancelers |-> NoCallback]
        /\ asked = {} /\ broken = {} /\ requests = {}
        /\ aborted = FALSE

Goto(k, p) == phase' = [phase EXCEPT ![k] = p]

\* The steps, none or one, whose inner future the callback n cancels.
StepsOf(n) == {k \in Steps : Names[k] = n}

\* finish(): the state gets its result, forgets its token and posts the step that
\* waits for it.  The step that ends, if any, is over.
Resolve(k, v) ==
  /\ result' = [result EXCEPT ![k] = v]
  /\ stToken' = [stToken EXCEPT ![k] = Null]
  /\ phase' = [j \in Steps |-> IF j = k THEN "over"
                              ELSE IF j = k + 1 /\ phase[j] = "waiting" THEN "posted"
                              ELSE phase[j]]

--------------------------------------------------------------------------------
(* The user *)

UserIsFree == \A k \in Steps : k = built + 1 => phase[k] = "unbuilt"

\* MUTANT: package() does not share the token of the previous future.
Attach_OwnToken(k) ==
  /\ k = built + 1 /\ phase[k] = "unbuilt"
  /\ \E kd \in Kinds : kind' = [kind EXCEPT ![k] = kd]
  /\ checks' = [checks EXCEPT ![k] = futToken[k - 1]]
  /\ stToken' = [stToken EXCEPT ![k] = <<k, "package">>]
  /\ Goto(k, IF result[k - 1] = "none" THEN "waiting" ELSE "posted")
  /\ UNCHANGED <<built, result, inner, futToken, linkedTo, own, tokens, copied,
                 cancelerVars, pastVars>>

\* then() or and_then() on the previous future, and the shared state that unwrap()
\* makes: both share the token of that future, or the one that package() makes if
\* it has none.
Attach(k) ==
  /\ k = built + 1 /\ phase[k] = "unbuilt"
  /\ \E kd \in Kinds : kind' = [kind EXCEPT ![k] = kd]
  /\ LET t == futToken[k - 1]
     IN /\ checks' = [checks EXCEPT ![k] = t]
        /\ stToken' = [stToken EXCEPT ![k] = IF t = Null THEN <<k, "package">> ELSE t]
  /\ Goto(k, IF result[k - 1] = "none" THEN "waiting" ELSE "posted")
  /\ UNCHANGED <<built, result, inner, futToken, linkedTo, own, tokens, copied,
                 cancelerVars, pastVars>>

\* unwrap() makes the future that it returns: it has the token that its state has
\* now, that is, none if the state resolved meanwhile.
Return(k) ==
  /\ k = built + 1 /\ phase[k] # "unbuilt"
  /\ built' = k
  /\ futToken' = [futToken EXCEPT ![k] = stToken[k]]
  /\ UNCHANGED <<kind, phase, result, inner, stToken, checks, linkedTo, own, tokens,
                 copied, cancelerVars, pastVars>>

\* MUTANT: only the shared state gets the new token.
Break_StateOnly ==
  /\ UserIsFree
  /\ built \in Breakable \ broken
  /\ broken' = broken \cup {built}
  /\ stToken' = [stToken EXCEPT ![built] = <<built, "break">>]
  /\ UNCHANGED <<chainVars, futToken, checks, linkedTo, own, tokens, copied,
                 cancelerVars, asked, requests, aborted>>

\* break_cancelation_chain(), on the last future.
Break ==
  /\ UserIsFree
  /\ built \in Breakable \ broken
  /\ broken' = broken \cup {built}
  /\ stToken' = [stToken EXCEPT ![built] = <<built, "break">>]
  /\ futToken' = [futToken EXCEPT ![built] = <<built, "break">>]
  /\ UNCHANGED <<chainVars, checks, linkedTo, own, tokens, copied, cancelerVars,
                 asked, requests, aborted>>

--------------------------------------------------------------------------------
(* The source, the executor and the inner futures *)

SourceResolves(v) ==
  /\ result[0] = "none"
  /\ Resolve(0, v)
  /\ UNCHANGED <<built, kind, inner, futToken, checks, linkedTo, own, tokens, copied,
                 cancelerVars, pastVars>>

Canceled(t) == t # Null /\ tokens[t].requested

\* The callback of step k is due: that of then() always is, that of and_then() on a
\* value, unless the cancelation was requested (do_and_then_callback).
Due(k) == kind[k] = "and_then" => result[k - 1] = "value" /\ ~Canceled(checks[k])

\* MUTANT: and_then() does not look at the token.
Check_NoToken(k) ==
  /\ phase[k] = "posted"
  /\ kind[k] = "and_then" /\ result[k - 1] = "value"
  /\ Goto(k, "checked")
  /\ UNCHANGED <<built, kind, result, inner, tokenVars, cancelerVars, pastVars>>

\* The executor looks at the token of an and_then(), then, with no lock held...
Check(k) ==
  /\ phase[k] = "posted"
  /\ kind[k] = "and_then" /\ Due(k)
  /\ Goto(k, "checked")
  /\ UNCHANGED <<built, kind, result, inner, tokenVars, cancelerVars, pastVars>>

\* ... calls the callback, as it does at once that of a then()...
Call(k) ==
  /\ \/ phase[k] = "checked"
     \/ phase[k] = "posted" /\ kind[k] # "and_then"
  /\ kind[k] = "then_token" => checks[k] # Null
  /\ Goto(k, "running")
  /\ UNCHANGED <<built, kind, result, inner, tokenVars, cancelerVars, pastVars>>

\* ... or, if it takes the token, dereferences a null pointer first...
Abort(k) ==
  /\ phase[k] = "posted"
  /\ kind[k] = "then_token" /\ checks[k] = Null
  /\ aborted' = TRUE
  /\ UNCHANGED <<chainVars, tokenVars, cancelerVars, asked, broken, requests>>

\* ... or skips it: unwrap() passes on the error of the previous future, or
\* operation_canceled.
Skip(k) ==
  /\ phase[k] = "posted"
  /\ ~Due(k)
  /\ Resolve(k, "error")
  /\ UNCHANGED <<built, kind, inner, futToken, checks, linkedTo, own, tokens, copied,
                 cancelerVars, pastVars>>

\* The callback throws, or the executor discarded its queue (broken_promise).
Throw(k) ==
  /\ phase[k] \in {"running", "posted"}
  /\ Resolve(k, "error")
  /\ UNCHANGED <<built, kind, inner, futToken, checks, linkedTo, own, tokens, copied,
                 cancelerVars, pastVars>>

\* The callback returns an inner future, which may have the token of the chain if
\* the callback had it.  The continuation of unwrap() compares it with the token
\* that its state has now.
GetToken(k) ==
  /\ phase[k] = "running"
  /\ inner' = [inner EXCEPT ![k] = "pending"]
  /\ linkedTo' = [linkedTo EXCEPT ![k] = stToken[k]]
  /\ \/ Goto(k, "push") /\ own' = own \cup {k}
     \/ stToken[k] = checks[k] /\ Goto(k, "inner") /\ UNCHANGED own
  /\ UNCHANGED <<built, kind, result, futToken, stToken, checks, tokens, copied,
                 cancelerVars, pastVars>>

\* MUTANT: a push on a token that is already canceled calls nothing.
Push_Silent(k) ==
  /\ phase[k] = "push"
  /\ tokens' = [tokens EXCEPT ![linkedTo[k]] = PushCallback(@, Names[k])]
  /\ Goto(k, "pushed")
  /\ UNCHANGED <<built, kind, result, inner, futToken, stToken, checks, linkedTo, own,
                 copied, cancelerVars, pastVars>>

\* push_cancelation_callback(fut2.make_canceler())...
Push(k) ==
  /\ phase[k] = "push"
  /\ tokens' = [tokens EXCEPT ![linkedTo[k]] = PushCallback(@, Names[k])]
  /\ copied' = [copied EXCEPT ![k] = ToCall(tokens'[linkedTo[k]])]
  /\ Goto(k, "pushed")
  /\ UNCHANGED <<built, kind, result, inner, futToken, stToken, checks, linkedTo, own,
                 cancelerVars, pastVars>>

\* ... which may have to be called at once; then() on the inner future follows.
CallPushed(k) ==
  /\ phase[k] = "pushed"
  /\ asked' = asked \cup StepsOf(copied[k])
  /\ copied' = [copied EXCEPT ![k] = NoCallback]
  /\ Goto(k, "inner")
  /\ UNCHANGED <<built, kind, result, inner, futToken, stToken, checks, linkedTo, own,
                 tokens, cancelerVars, broken, requests, aborted>>

\* Whether the task behind the inner future was told to stop: through its canceler,
\* or through the token if it is the one of the chain.
Told(k) == k \in asked \/ (k \notin own /\ Canceled(linkedTo[k]))

InnerEnds(k, v) ==
  /\ inner[k] = "pending"
  /\ inner' = [inner EXCEPT ![k] = v]
  /\ UNCHANGED <<built, kind, phase, result, tokenVars, cancelerVars, pastVars>>

Heed(k) == Told(k) /\ InnerEnds(k, "error")

\* The inner future is ready: pop_cancelation_callback() if the canceler was pushed...
Pop(k) ==
  /\ phase[k] = "inner" /\ inner[k] # "pending"
  /\ IF k \in own
       THEN /\ tokens' = [tokens EXCEPT ![linkedTo[k]] = PopCallback(@)]
            /\ copied' = [copied EXCEPT ![k] = ToCall(tokens'[linkedTo[k]])]
       ELSE UNCHANGED <<tokens, copied>>
  /\ Goto(k, "popped")
  /\ UNCHANGED <<built, kind, result, inner, futToken, stToken, checks, linkedTo, own,
                 cancelerVars, pastVars>>

\* ... then the result is passed on, and the inner future and the canceler die.
Settle(k) ==
  /\ phase[k] = "popped"
  /\ asked' = (asked \cup StepsOf(copied[k])) \ {k}
  /\ copied' = [copied EXCEPT ![k] = NoCallback]
  /\ Resolve(k, inner[k])
  /\ inner' = [inner EXCEPT ![k] = "none"]
  /\ linkedTo' = [linkedTo EXCEPT ![k] = Null]
  /\ own' = own \ {k}
  /\ UNCHANGED <<built, kind, futToken, checks, tokens, cancelerVars, broken, requests,
                 aborted>>

--------------------------------------------------------------------------------
(* The cancelers: request_cancel() on a future the user has *)

\* get_cancelation_token(): a state that resolved has none.
Ask(c) ==
  /\ pc[c] = "idle"
  /\ \E k \in 0..built :
       IF stToken[k] = Null
         THEN pc' = [pc EXCEPT ![c] = "returned"] /\ UNCHANGED <<of, on>>
         ELSE /\ of' = [of EXCEPT ![c] = k]
              /\ on' = [on EXCEPT ![c] = stToken[k]]
              /\ pc' = [pc EXCEPT ![c] = "request"]
  /\ UNCHANGED <<chainVars, tokenVars, hit, pastVars>>

Request(c) ==
  /\ pc[c] = "request"
  /\ tokens' = [tokens EXCEPT ![on[c]] = RequestCancel(@)]
  /\ hit' = [hit EXCEPT ![c] = ToCall(tokens'[on[c]])]
  /\ pc' = [pc EXCEPT ![c] = "call"]
  /\ UNCHANGED <<chainVars, futToken, stToken, checks, linkedTo, own, copied, of, on,
                 pastVars>>

CallHit(c) ==
  /\ pc[c] = "call"
  /\ asked' = asked \cup (StepsOf(hit[c]) \cap own)
  /\ requests' = requests \cup {<<of[c], on[c]>>}
  /\ pc' = [pc EXCEPT ![c] = "returned"]
  /\ of' = [of EXCEPT ![c] = 0]
  /\ on' = [on EXCEPT ![c] = Null]
  /\ hit' = [hit EXCEPT ![c] = NoCallback]
  /\ UNCHANGED <<chainVars, tokenVars, broken, aborted>>

--------------------------------------------------------------------------------

ExecutorStep(k) == \/ Check(k) \/ Call(k) \/ Abort(k) \/ Skip(k) \/ Throw(k)
                   \/ GetToken(k)
UnwrapStep(k) == Push(k) \/ CallPushed(k) \/ Pop(k) \/ Settle(k)
CancelStep(c) == Request(c) \/ CallHit(c)

\* The chain is over, or the program is.
Finished == /\ aborted \/ (\A k \in Futures : result[k] # "none")
            /\ UNCHANGED vars

Step == \/ \E k \in Steps : Attach(k) \/ Return(k) \/ ExecutorStep(k) \/ UnwrapStep(k)
        \/ Break
        \/ \E v \in {"value", "error"} : \/ SourceResolves(v)
                                         \/ \E k \in Steps : InnerEnds(k, v)
        \/ \E c \in Cancelers : Ask(c) \/ CancelStep(c)

Next == (~aborted /\ Step) \/ Finished

SafeSpec == Init /\ [][Next]_vars

\* The executor runs what it is given, callbacks return, whoever is inside a function
\* of the library goes on, and a task that is told to stop ends.  The source and the
\* inner tasks are not obliged to end otherwise.
Fairness == /\ \A k \in Steps : WF_vars(~aborted /\ ExecutorStep(k))
            /\ \A k \in Steps : WF_vars(~aborted /\ UnwrapStep(k))
            /\ \A k \in Steps : WF_vars(~aborted /\ Heed(k))
            /\ \A c \in Cancelers : WF_vars(~aborted /\ CancelStep(c))

Spec == SafeSpec /\ Fairness

--------------------------------------------------------------------------------
(* Properties *)

Results == {"none", "value", "error"}

Phases == {"unbuilt", "waiting", "posted", "checked", "running", "push", "pushed",
           "inner", "popped", "over"}

Callbacks == {Names[k] : k \in Steps}

\* Every variable has its type, and a token that a thread uses is there.
TypeOK == /\ built \in Futures
          /\ kind \in [Steps -> Kinds \cup {"none"}]
          /\ phase \in [Steps -> Phases]
          /\ result \in [Futures -> Results]
          /\ inner \in [Steps -> Results \cup {"pending"}]
          /\ futToken \in [Futures -> TokenIds \cup {Null}]
          /\ stToken \in [Futures -> TokenIds \cup {Null}]
          /\ checks \in [Steps -> TokenIds \cup {Null}]
          /\ linkedTo \in [Steps -> TokenIds \cup {Null}]
          /\ own \subseteq Steps /\ asked \subseteq Steps
          /\ tokens \in [TokenIds -> Token(Callbacks)]
          /\ copied \in [Steps -> Callbacks \cup {NoCallback}]
          /\ pc \in [Cancelers -> {"idle", "request", "call", "returned"}]
          /\ of \in [Cancelers -> Futures]
          /\ on \in [Cancelers -> TokenIds \cup {Null}]
          /\ \A c \in Cancelers : pc[c] = "request" => on[c] # Null
          /\ hit \in [Cancelers -> Callbacks \cup {NoCallback}]
          /\ broken \subseteq Futures
          /\ requests \subseteq Futures \X TokenIds
          /\ aborted \in BOOLEAN

\* unwrap() pops by position from a token that the whole chain shares: while its
\* canceler is pushed, it is the one on the top, whatever the other steps do.
UnwrapsNest ==
  \A k \in own : phase[k] \in {"pushed", "inner"} => Top(tokens[linkedTo[k]]) = Names[k]

\* The inner future that a step waits for hears of a request on the token that
\* unwrap() linked it to, whichever came first: it was canceled or is about to be.
InnerHears ==
  \A k \in own :
    phase[k] \in {"pushed", "inner"} /\ tokens[linkedTo[k]].requested =>
      \/ k \in asked
      \/ copied[k] = Names[k]
      \/ \E c \in Cancelers : pc[c] = "call" /\ hit[c] = Names[k]

\* The chain was not broken from step j to future k.
Unbroken(j, k) == \A b \in broken : b < j \/ b > k

\* Once request_cancel() on a future returned, no and_then() before it in the chain
\* finds its callback due any more, unless the chain is broken in between or began
\* with a future that had no token.  The one callback that was found due before may
\* still begin: nothing is promised about it.
NoCallbackDueAfterCancel ==
  [][\A j \in Steps :
       phase[j] = "posted" /\ phase'[j] = "checked" /\ checks[j] # Null =>
         ~\E r \in requests : r[1] >= j /\ Unbroken(j, r[1])]_vars

\* break_cancelation_chain(): a request on a future before the break, or on the
\* broken future with the token it had, never cancels what follows the break.
BreakIsolates ==
  \A r \in requests, b \in broken, k \in Steps :
    r[1] <= b /\ r[2] # <<b, "break">> /\ b < k =>
      r[2] # linkedTo[k] /\ r[2] # checks[k]

\* A request on a future of a chain that is not broken ends it, whatever it is doing,
\* provided that its source resolved and that the tasks that are told to stop do.
CanceledChainEnds ==
  \A k \in Steps :
    (result[0] # "none" /\ broken = {} /\ (\E r \in requests : r[1] = k))
      ~> (result[k] # "none" \/ broken # {} \/ aborted)

\* Not so (README, Known disagreements): "It will receive *this as an argument and
\* optionally the cancelation_token", for the callbacks of then(): the token exists.
NoNullToken == ~aborted

--------------------------------------------------------------------------------
(* The inductive invariant *)

\* One step of the chain is in progress at a time: a step that is past waiting comes
\* after steps that are over.
ChainInv ==
  /\ \A k \in Steps : /\ result[k] = "none" <=> phase[k] # "over"
                      /\ k <= built => phase[k] # "unbuilt"
                      /\ k > built + 1 => phase[k] = "unbuilt"
                      /\ phase[k] \in {"push", "pushed", "inner"} => inner[k] # "none"
                      /\ phase[k] = "popped" => inner[k] \in {"value", "error"}
  /\ \A j, k \in Steps :
       j < k /\ phase[k] \notin {"unbuilt", "waiting"} => phase[j] = "over"

\* Step k has its canceler on the token it is linked to.
Linked(k) == k \in own /\ phase[k] \in {"pushed", "inner"}

\* The tokens have the canceler of the step in progress and nothing else.
LinkInv ==
  /\ \A k \in Steps : phase[k] \notin {"unbuilt", "over"} => stToken[k] # Null
  /\ \A k \in own : phase[k] \in {"push", "pushed", "inner", "popped"} /\ linkedTo[k] # Null
  /\ \A k \in Steps : phase[k] \in {"push", "pushed"} => k \in own
  /\ \A k \in Steps : Linked(k) => tokens[linkedTo[k]].callbacks = <<Names[k]>>
  /\ \A t \in TokenIds :
       (\A k \in Steps : Linked(k) => linkedTo[k] # t) => tokens[t].callbacks = <<>>

\* Token t was made by the break of future b, or after it.
After(b, t) == b < t[1] \/ t = <<b, "break">>

\* A token was made at or before the futures that have it, and by the last break or
\* after it.
BreakInv ==
  /\ \A k \in Futures : futToken[k][1] <= k /\ stToken[k][1] <= k
  /\ \A k \in Steps : /\ phase[k] = "unbuilt" => checks[k] = Null /\ stToken[k] = Null
                      /\ k > built => futToken[k] = Null
                      /\ phase[k] \in {"unbuilt", "waiting"} => linkedTo[k] = Null
  /\ \A c \in Cancelers :
       pc[c] \in {"request", "call"} => on[c] # Null /\ on[c][1] <= of[c] /\ of[c] <= built
  /\ \A r \in requests : r[2][1] <= r[1] /\ r[1] <= built
  /\ \A b \in broken :
       /\ b <= built
       /\ \A k \in Steps : b < k =>
            \A t \in {checks[k], linkedTo[k], stToken[k]} : t = Null \/ After(b, t)
       /\ \A k \in Futures : b <= k => futToken[k] = Null \/ After(b, futToken[k])

\* A step that is not over shares its token with the futures after it, down to a
\* break, and that token is the one that a request on them finds.
ShareInv ==
  /\ \A k \in Steps : /\ phase[k] # "unbuilt" => checks[k] = futToken[k - 1]
                      /\ /\ phase[k] \notin {"unbuilt", "over"}
                         /\ k \notin broken /\ checks[k] # Null
                         => stToken[k] = checks[k]
                      /\ phase[k] # "over" /\ k <= built => futToken[k] = stToken[k]
  /\ \A j \in Steps, k \in Futures :
       /\ j <= k /\ k <= built
       /\ phase[j] # "over" /\ checks[j] # Null /\ Unbroken(j, k)
       => futToken[k] = checks[j]

\* A step before a future that was canceled, and not over, has a canceled token.
CancelInv ==
  /\ \A c \in Cancelers, j \in Steps :
       /\ pc[c] \in {"request", "call"}
       /\ j <= of[c] /\ phase[j] # "over" /\ checks[j] # Null /\ Unbroken(j, of[c])
       => on[c] = checks[j]
  /\ \A c \in Cancelers : pc[c] = "call" => tokens[on[c]].requested
  /\ \A r \in requests, j \in Steps :
       /\ j <= r[1] /\ phase[j] # "over" /\ checks[j] # Null /\ Unbroken(j, r[1])
       => tokens[checks[j]].requested

IndInv == /\ TypeOK /\ ChainInv /\ LinkInv /\ InnerHears /\ BreakInv
          /\ ShareInv /\ CancelInv
================================================================================
