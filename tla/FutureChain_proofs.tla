--------------------------- MODULE FutureChain_proofs ---------------------------
(* Theorems about FutureChain, for a chain of any length and any number of threads. *)
EXTENDS FutureChain, TLAPS

\* What push, pop and request_cancel() make of a token with at most one callback.
LEMMA PushFacts ==
  ASSUME NEW S, NEW t \in Token(S), NEW n \in S, t.callbacks = <<>>
  PROVE  /\ PushCallback(t, n) \in Token(S)
         /\ PushCallback(t, n).requested = t.requested
         /\ PushCallback(t, n).callbacks = <<n>>
  <1>. USE DEF Token
  <1>1. t.callbacks \in Seq(S) /\ t.requested \in BOOLEAN
    OBVIOUS
  <1>2. Append(t.callbacks, n) \in Seq(S) /\ Append(t.callbacks, n) = <<n>>
    BY <1>1
  <1>. QED  BY <1>1, <1>2 DEF PushCallback

LEMMA PopFacts ==
  ASSUME NEW S, NEW t \in Token(S), NEW n \in S, t.callbacks = <<n>>
  PROVE  /\ PopCallback(t) \in Token(S)
         /\ PopCallback(t).requested = t.requested
         /\ PopCallback(t).callbacks = <<>>
         /\ ToCall(PopCallback(t)) = NoCallback
  <1>. USE DEF Token
  <1>1. SubSeq(t.callbacks, 1, Len(t.callbacks) - 1) = <<>>
    OBVIOUS
  <1>2. PopCallback(t) \in Token(S) /\ PopCallback(t).requested = t.requested
        /\ PopCallback(t).callbacks = <<>>
    BY <1>1 DEF PopCallback
  <1>3. ToCall(PopCallback(t)) = NoCallback
    BY <1>2 DEF ToCall, Top, Depth
  <1>. QED  BY <1>2, <1>3

LEMMA RequestFacts ==
  ASSUME NEW S, NEW t \in Token(S)
  PROVE  /\ RequestCancel(t) \in Token(S)
         /\ RequestCancel(t).requested = TRUE
         /\ RequestCancel(t).callbacks = t.callbacks
  BY DEF Token, RequestCancel

\* The callback they copy.
LEMMA CallFacts ==
  ASSUME NEW S, NEW t \in Token(S), NEW n \in S
  PROVE  /\ ToCall(t) \in S \cup {NoCallback}
         /\ t.callbacks = <<n>> => ToCall(t) = IF t.requested THEN n ELSE NoCallback
  <1>1. t.callbacks \in Seq(S)
    BY DEF Token
  <1>2. Top(t) \in S \cup {NoCallback}
    BY <1>1 DEF Top, Depth
  <1>3. t.callbacks = <<n>> => Top(t) = n
    BY DEF Top, Depth
  <1>. QED  BY <1>2, <1>3 DEF ToCall

\* Where a token was made.
LEMMA IdFacts ==
  /\ Null \notin TokenIds /\ Null[1] = 0
  /\ \A t \in TokenIds : t[1] \in Futures
  /\ \A k \in Futures : /\ <<k, "package">> \in TokenIds /\ <<k, "package">>[1] = k
                        /\ <<k, "break">> \in TokenIds /\ <<k, "break">>[1] = k
  /\ Source \in TokenIds /\ Source[1] = 0
  /\ 0 \in Futures /\ Len(Names) \in Nat
  /\ \A k \in Steps : k \in Futures /\ k - 1 \in Futures /\ k \in Nat /\ k > 0
  <1>1. Len(Names) \in Nat  BY NamesAssumption
  <1>. QED  BY <1>1 DEF Null, TokenIds, Source, Futures, Steps

\* The first state.
LEMMA InitInv == Init => IndInv
  <1>. SUFFICES ASSUME Init PROVE IndInv
    OBVIOUS
  <1>. USE IdFacts
  <1>1. /\ futToken \in [Futures -> TokenIds \cup {Null}]
        /\ stToken \in [Futures -> TokenIds \cup {Null}]
        /\ result \in [Futures -> Results]
        /\ \A k \in Futures :
             /\ futToken[k][1] <= k /\ stToken[k][1] <= k
             /\ k # 0 => futToken[k] = Null /\ stToken[k] = Null /\ result[k] = "none"
    <2>1. PICK late \in BOOLEAN :
            LET t == IF late THEN Null ELSE Source
                r == IF late THEN "value" ELSE "none"
            IN /\ futToken = [k \in Futures |-> IF k = 0 THEN t ELSE Null]
               /\ stToken = [k \in Futures |-> IF k = 0 THEN t ELSE Null]
               /\ result = [k \in Futures |-> IF k = 0 THEN r ELSE "none"]
      BY DEF Init
    <2>2. \A k \in Futures : k \in Nat
      BY DEF Futures
    <2>3. CASE late
      BY <2>1, <2>2, <2>3 DEF Results
    <2>4. CASE ~late
      BY <2>1, <2>2, <2>4 DEF Results
    <2>. QED  BY <2>3, <2>4
  <1>2. TypeOK
    <2>1. NewToken \in Token(Callbacks)  BY DEF NewToken, Token
    <2>. QED  BY <1>1, <2>1 DEF Init, TypeOK, Results, Phases
  <1>3. ChainInv  BY <1>1 DEF Init, ChainInv
  <1>4. LinkInv /\ InnerHears
    BY DEF Init, LinkInv, InnerHears, NewToken, Linked
  <1>5. BreakInv /\ ShareInv /\ CancelInv
    BY <1>1 DEF Init, BreakInv, ShareInv, CancelInv, Steps, Futures
  <1>. QED  BY <1>2, <1>3, <1>4, <1>5 DEF IndInv

--------------------------------------------------------------------------------
(* What a step that does not touch a part of the invariant has to keep *)

\* No canceler is pushed or popped.
LEMMA LinkFrame ==
  ASSUME LinkInv, own' = own, linkedTo' = linkedTo,
         \A t \in TokenIds : tokens'[t].callbacks = tokens[t].callbacks,
         \A k \in own : linkedTo[k] \in TokenIds,
         own \subseteq Steps,
         \A k \in Steps : /\ phase'[k] \notin {"unbuilt", "over"} => stToken'[k] # Null
                          /\ k \in own => phase'[k] \in {"push", "pushed", "inner", "popped"}
                          /\ phase'[k] \in {"push", "pushed"} => k \in own
                          /\ Linked(k)' <=> Linked(k)
  PROVE  LinkInv'
  <1>1. \A k \in Steps : Linked(k) => tokens'[linkedTo[k]].callbacks = <<Names[k]>>
    BY DEF LinkInv, Linked
  <1>2. \A t \in TokenIds :
          (\A k \in Steps : Linked(k)' => linkedTo'[k] # t) => tokens'[t].callbacks = <<>>
    BY DEF LinkInv
  <1>3. \A k \in Steps : Linked(k)' => tokens'[linkedTo'[k]].callbacks = <<Names[k]>>
    BY <1>1
  <1>4. \A k \in own' : /\ phase'[k] \in {"push", "pushed", "inner", "popped"}
                        /\ linkedTo'[k] # Null
    BY DEF LinkInv
  <1>. QED  BY <1>2, <1>3, <1>4 DEF LinkInv

\* Nobody waits who did not.
LEMMA HearFrame ==
  ASSUME InnerHears, own' \subseteq own, UNCHANGED <<pc, hit>>,
         \A k \in own' : phase'[k] \in {"pushed", "inner"} =>
           /\ phase[k] \in {"pushed", "inner"}
           /\ linkedTo'[k] = linkedTo[k]
           /\ tokens'[linkedTo[k]].requested = tokens[linkedTo[k]].requested
           /\ k \in asked => k \in asked'
           /\ copied[k] = Names[k] => copied'[k] = Names[k] \/ k \in asked'
  PROVE  InnerHears'
  BY DEF InnerHears

\* Tokens are dropped, or taken by a step from its own state.
LEMMA BreakFrame ==
  ASSUME TypeOK, BreakInv, UNCHANGED <<checks, futToken, built, broken, requests, pc, of, on>>,
         \A k \in Futures : stToken'[k] = stToken[k] \/ stToken'[k] = Null,
         \A k \in Steps :
           /\ linkedTo'[k] \in {linkedTo[k], stToken[k], Null}
           /\ phase'[k] = "unbuilt" => phase[k] = "unbuilt"
           /\ phase'[k] = "waiting" => phase[k] = "waiting"
           /\ phase'[k] \in {"unbuilt", "waiting"} => linkedTo'[k] = linkedTo[k]
  PROVE  BreakInv'
  <1>. USE DEF BreakInv
  <1>1. \A k \in Steps : k \in Futures  BY IdFacts
  <1>2. \A k \in Futures : futToken'[k][1] <= k /\ stToken'[k][1] <= k
    BY IdFacts DEF Futures
  <1>3. \A k \in Steps : /\ phase'[k] = "unbuilt" => checks'[k] = Null /\ stToken'[k] = Null
                         /\ k > built' => futToken'[k] = Null
                         /\ phase'[k] \in {"unbuilt", "waiting"} => linkedTo'[k] = Null
    BY <1>1
  <1>4. \A b \in broken' :
          /\ b <= built'
          /\ \A k \in Steps : b < k =>
               \A t \in {checks'[k], linkedTo'[k], stToken'[k]} : t = Null \/ After(b, t)
          /\ \A k \in Futures : b <= k => futToken'[k] = Null \/ After(b, futToken'[k])
    BY <1>1
  <1>. QED  BY <1>2, <1>3, <1>4

\* Futures are not made, and only the states of steps that are over lose their token.
LEMMA ShareFrame ==
  ASSUME TypeOK, ShareInv, UNCHANGED <<checks, futToken, built, broken>>,
         \A k \in Steps : /\ phase'[k] = "unbuilt" <=> phase[k] = "unbuilt"
                          /\ phase[k] = "over" => phase'[k] = "over"
                          /\ phase'[k] # "over" => stToken'[k] = stToken[k]
  PROVE  ShareInv'
  <1>1. \A j, k : Unbroken(j, k)' <=> Unbroken(j, k)  BY DEF Unbroken
  <1>2. \A j \in Steps, k \in Futures :
          /\ j <= k /\ k <= built'
          /\ phase'[j] # "over" /\ checks'[j] # Null /\ Unbroken(j, k)'
          => futToken'[k] = checks'[j]
    BY <1>1 DEF ShareInv
  <1>3. \A k \in Steps : /\ phase'[k] # "unbuilt" => checks'[k] = futToken'[k - 1]
                         /\ /\ phase'[k] \notin {"unbuilt", "over"}
                            /\ k \notin broken' /\ checks'[k] # Null
                            => stToken'[k] = checks'[k]
                         /\ phase'[k] # "over" /\ k <= built' => futToken'[k] = stToken'[k]
    BY DEF ShareInv
  <1>. QED  BY <1>2, <1>3 DEF ShareInv

\* Nobody requests a cancelation.
LEMMA CancelFrame ==
  ASSUME TypeOK, BreakInv, CancelInv, UNCHANGED <<checks, requests, pc, of, on>>,
         broken \subseteq broken',
         \A t \in TokenIds : tokens'[t].requested = tokens[t].requested,
         \A k \in Steps : phase[k] = "over" => phase'[k] = "over"
  PROVE  CancelInv'
  <1>1. \A j, k : Unbroken(j, k)' => Unbroken(j, k)  BY DEF Unbroken
  <1>2. \A c \in Cancelers : pc[c] = "call" => on[c] \in TokenIds
    BY DEF BreakInv, TypeOK
  <1>3. \A j \in Steps : checks[j] # Null => checks[j] \in TokenIds
    BY DEF TypeOK
  <1>. QED  BY <1>1, <1>2, <1>3 DEF CancelInv

--------------------------------------------------------------------------------
(* The user *)

LEMMA AttachStep ==
  ASSUME IndInv, NEW k \in Steps, Attach(k)
  PROVE  IndInv'
  <1>. USE IdFacts DEF IndInv
  <1>1. /\ k = built + 1 /\ phase[k] = "unbuilt"
        /\ phase' = [phase EXCEPT ![k] = IF result[k - 1] = "none" THEN "waiting" ELSE "posted"]
        /\ checks' = [checks EXCEPT ![k] = futToken[k - 1]]
        /\ stToken' = [stToken EXCEPT ![k] = IF futToken[k - 1] = Null
                                                THEN <<k, "package">> ELSE futToken[k - 1]]
        /\ UNCHANGED <<built, result, inner, futToken, linkedTo, own, tokens, copied, asked,
                       pc, of, on, hit, broken, requests, aborted>>
        /\ built \in Nat
    BY DEF Attach, Goto, cancelerVars, pastVars, TypeOK, Futures
  <1>2. /\ phase'[k] \in {"waiting", "posted"}
        /\ checks'[k] = futToken[k - 1]
        /\ stToken'[k] = IF futToken[k - 1] = Null THEN <<k, "package">> ELSE futToken[k - 1]
        /\ \A i \in Steps : i # k => phase'[i] = phase[i] /\ checks'[i] = checks[i]
        /\ \A i \in Futures : i # k => stToken'[i] = stToken[i]
    BY <1>1 DEF TypeOK
  <1>3. TypeOK'
    <2>1. kind' \in [Steps -> Kinds \cup {"none"}]
      BY DEF Attach, TypeOK
    <2>. QED  BY <1>1, <2>1 DEF TypeOK, Phases
  <1>4. ChainInv'
    <2>1. \A j \in Steps : j < k /\ phase'[k] = "posted" => phase[j] = "over"
      <3>. SUFFICES ASSUME NEW j \in Steps, j < k, phase'[k] = "posted"
                    PROVE  phase[j] = "over"
        OBVIOUS
      <3>1. result[k - 1] # "none" /\ k - 1 \in Steps
        BY <1>1 DEF TypeOK, Steps
      <3>2. phase[k - 1] = "over"
        BY <3>1 DEF ChainInv
      <3>3. j = k - 1 \/ j < k - 1
        BY DEF Steps
      <3>. QED  BY <3>1, <3>2, <3>3 DEF ChainInv
    <2>2. \A i \in Steps : i > k => phase[i] = "unbuilt"
      BY <1>1 DEF ChainInv, Steps
    <2>3. \A j, i \in Steps :
            j < i /\ phase'[i] \notin {"unbuilt", "waiting"} => phase'[j] = "over"
      <3>. SUFFICES ASSUME NEW j \in Steps, NEW i \in Steps, j < i,
                           phase'[i] \notin {"unbuilt", "waiting"}
                    PROVE  phase'[j] = "over"
        OBVIOUS
      <3>1. CASE i = k  BY <1>2, <2>1, <3>1 DEF Steps
      <3>2. CASE i # k
        <4>1. phase[i] \notin {"unbuilt", "waiting"}  BY <1>2, <3>2
        <4>2. phase[j] = "over"  BY <4>1 DEF ChainInv
        <4>. QED  BY <1>1, <1>2, <4>2
      <3>. QED  BY <3>1, <3>2
    <2>4. \A i \in Steps : /\ result'[i] = "none" <=> phase'[i] # "over"
                           /\ i <= built' => phase'[i] # "unbuilt"
                           /\ i > built' + 1 => phase'[i] = "unbuilt"
                           /\ phase'[i] \in {"push", "pushed", "inner"} => inner'[i] # "none"
                           /\ phase'[i] = "popped" => inner'[i] \in {"value", "error"}
      BY <1>1, <1>2 DEF ChainInv
    <2>. QED  BY <2>3, <2>4 DEF ChainInv
  <1>5. LinkInv' /\ InnerHears'
    <2>1. k \notin own /\ \A i \in own : linkedTo[i] \in TokenIds
      BY <1>1 DEF LinkInv, TypeOK
    <2>2. \A i \in Steps : /\ phase'[i] \notin {"unbuilt", "over"} => stToken'[i] # Null
                           /\ i \in own => phase'[i] \in {"push", "pushed", "inner", "popped"}
                           /\ phase'[i] \in {"push", "pushed"} => i \in own
                           /\ Linked(i)' <=> Linked(i)
      BY <1>1, <1>2, <2>1 DEF LinkInv, Linked, TypeOK
    <2>3. LinkInv'
      BY <1>1, <2>1, <2>2, LinkFrame DEF TypeOK
    <2>4. InnerHears'
      BY <1>1, <1>2, <2>1, HearFrame DEF TypeOK
    <2>. QED  BY <2>3, <2>4
  <1>6. BreakInv'
    <2>1. \A i \in Futures : futToken'[i][1] <= i /\ stToken'[i][1] <= i
      <3>1. futToken[k - 1][1] \in Nat /\ futToken[k - 1][1] <= k - 1
        BY DEF BreakInv, Futures, TypeOK
      <3>2. stToken'[k][1] <= k
        BY <1>2, <3>1
      <3>. QED  BY <1>1, <1>2, <3>2 DEF BreakInv
    <2>2. \A i \in Steps : /\ phase'[i] = "unbuilt" => checks'[i] = Null /\ stToken'[i] = Null
                           /\ i > built' => futToken'[i] = Null
                           /\ phase'[i] \in {"unbuilt", "waiting"} => linkedTo'[i] = Null
      BY <1>1, <1>2 DEF BreakInv
    <2>3. \A b \in broken, i \in Steps : b < i =>
            \A t \in {checks'[i], linkedTo'[i], stToken'[i]} : t = Null \/ After(b, t)
      <3>. SUFFICES ASSUME NEW b \in broken, NEW i \in Steps, b < i,
                           NEW t \in {checks'[i], linkedTo'[i], stToken'[i]}
                    PROVE  t = Null \/ After(b, t)
        OBVIOUS
      <3>1. CASE i # k
        <4>1. /\ checks'[i] = checks[i] /\ linkedTo'[i] = linkedTo[i]
              /\ stToken'[i] = stToken[i]
          BY ONLY <1>1, <1>2, <3>1, IdFacts
        <4>2. \A u \in {checks[i], linkedTo[i], stToken[i]} : u = Null \/ After(b, u)
          BY DEF BreakInv
        <4>. QED  BY ONLY <4>1, <4>2
      <3>2. CASE i = k
        <4>1. b <= k - 1 /\ b <= k  BY <1>1, <3>2 DEF BreakInv, Steps, TypeOK, Futures
        <4>2. futToken[k - 1] = Null \/ After(b, futToken[k - 1])
          BY <4>1 DEF BreakInv
        <4>3. linkedTo'[k] = Null
          BY <1>1 DEF BreakInv
        <4>4. After(b, <<k, "package">>)  BY <3>2 DEF After
        <4>. QED  BY <1>2, <3>2, <4>1, <4>2, <4>3, <4>4
      <3>. QED  BY <3>1, <3>2
    <2>. QED  BY <1>1, <2>1, <2>2, <2>3 DEF BreakInv
  <1>7. ShareInv' /\ CancelInv'
    <2>1. \A i, j : Unbroken(i, j)' <=> Unbroken(i, j)  BY <1>1 DEF Unbroken
    <2>2. \A i \in Steps : i <= built => i # k
      BY <1>1 DEF Steps
    <2>3. \A i \in Steps :
            /\ phase'[i] # "unbuilt" => checks'[i] = futToken'[i - 1]
            /\ /\ phase'[i] \notin {"unbuilt", "over"}
               /\ i \notin broken' /\ checks'[i] # Null
               => stToken'[i] = checks'[i]
            /\ phase'[i] # "over" /\ i <= built' => futToken'[i] = stToken'[i]
      BY <1>1, <1>2, <2>2 DEF ShareInv
    <2>4. \A j \in Steps, i \in Futures :
            /\ j <= i /\ i <= built'
            /\ phase'[j] # "over" /\ checks'[j] # Null /\ Unbroken(j, i)'
            => futToken'[i] = checks'[j]
      <3>1. \A j \in Steps, i \in Futures : j <= i /\ i <= built => j # k
        BY <1>1 DEF Steps, Futures
      <3>. QED  BY <1>1, <1>2, <2>1, <3>1 DEF ShareInv
    <2>5. CancelInv'
      <3>1. \A c \in Cancelers, j \in Steps :
              pc[c] \in {"request", "call"} /\ j <= of[c] => j # k
        BY <1>1 DEF BreakInv, Steps, TypeOK, Futures
      <3>2. \A r \in requests, j \in Steps : j <= r[1] => j # k
        BY <1>1 DEF BreakInv, Steps, TypeOK, Futures
      <3>. QED  BY <1>1, <1>2, <2>1, <3>1, <3>2 DEF CancelInv
    <2>. QED  BY <2>3, <2>4, <2>5 DEF ShareInv
  <1>. QED  BY <1>3, <1>4, <1>5, <1>6, <1>7

LEMMA ReturnStep ==
  ASSUME IndInv, NEW k \in Steps, Return(k)
  PROVE  IndInv'
  <1>. USE IdFacts DEF IndInv
  <1>1. /\ k = built + 1 /\ built' = k /\ phase[k] # "unbuilt"
        /\ futToken' = [futToken EXCEPT ![k] = stToken[k]]
        /\ UNCHANGED <<kind, phase, result, inner, stToken, checks, linkedTo, own, tokens,
                       copied, asked, pc, of, on, hit, broken, requests, aborted>>
        /\ built \in Nat
    BY DEF Return, cancelerVars, pastVars, TypeOK, Futures
  <1>2. /\ futToken'[k] = stToken[k]
        /\ \A i \in Futures : i # k => futToken'[i] = futToken[i]
    BY <1>1 DEF TypeOK
  <1>3. TypeOK'  BY <1>1 DEF TypeOK
  <1>4. ChainInv'
    <2>1. \A i \in Steps : /\ i <= built' => phase'[i] # "unbuilt"
                           /\ i > built' + 1 => phase'[i] = "unbuilt"
      BY <1>1 DEF ChainInv, Steps
    <2>. QED  BY <1>1, <2>1 DEF ChainInv
  <1>5. LinkInv' /\ InnerHears'
    <2>1. LinkInv'  BY <1>1 DEF LinkInv, Linked
    <2>2. InnerHears'  BY <1>1 DEF InnerHears
    <2>. QED  BY <2>1, <2>2
  <1>6. BreakInv'
    <2>1. \A b \in broken : b <= built' /\ b < k
      BY <1>1 DEF BreakInv, TypeOK, Futures
    <2>2. \A b \in broken, i \in Futures :
            b <= i => futToken'[i] = Null \/ After(b, futToken'[i])
      BY <1>2, <2>1 DEF BreakInv
    <2>3. \A i \in Steps : i > built' => futToken'[i] = Null
      BY <1>1, <1>2 DEF BreakInv, Steps
    <2>4. \A i \in Futures : futToken'[i][1] <= i /\ stToken'[i][1] <= i
      BY <1>1, <1>2 DEF BreakInv
    <2>5. /\ \A c \in Cancelers :
               pc[c] \in {"request", "call"} =>
                 on[c] # Null /\ on[c][1] <= of[c] /\ of[c] <= built'
          /\ \A r \in requests : r[2][1] <= r[1] /\ r[1] <= built'
      BY <1>1 DEF BreakInv, TypeOK, Futures
    <2>. QED  BY <1>1, <2>1, <2>2, <2>3, <2>4, <2>5 DEF BreakInv
  <1>7. ShareInv'
    <2>1. \A i, j : Unbroken(i, j)' <=> Unbroken(i, j)  BY <1>1 DEF Unbroken
    <2>2. k \notin broken
      BY <1>1 DEF BreakInv, Steps
    <2>3. \A i \in Steps :
            /\ phase'[i] # "unbuilt" => checks'[i] = futToken'[i - 1]
            /\ /\ phase'[i] \notin {"unbuilt", "over"}
               /\ i \notin broken' /\ checks'[i] # Null
               => stToken'[i] = checks'[i]
            /\ phase'[i] # "over" /\ i <= built' => futToken'[i] = stToken'[i]
      <3>1. \A i \in Steps : phase[i] # "unbuilt" => i - 1 # k
        BY <1>1 DEF ChainInv, Steps
      <3>2. \A i \in Steps : i <= built' => i = k \/ i <= built
        BY <1>1 DEF Steps
      <3>. QED  BY <1>1, <1>2, <3>1, <3>2 DEF ShareInv
    <2>4. \A j \in Steps, i \in Futures :
            /\ j <= i /\ i <= built'
            /\ phase'[j] # "over" /\ checks'[j] # Null /\ Unbroken(j, i)'
            => futToken'[i] = checks'[j]
      <3>. SUFFICES ASSUME NEW j \in Steps, NEW i \in Futures, j <= i, i <= built',
                           phase[j] # "over", checks[j] # Null, Unbroken(j, i)
                    PROVE  futToken'[i] = checks[j]
        BY <1>1, <2>1
      <3>1. CASE i <= built
        BY <1>1, <1>2, <3>1 DEF ShareInv, Steps
      <3>2. CASE i = k /\ j = k
        BY <1>1, <1>2, <2>2, <3>2 DEF ShareInv
      <3>3. CASE i = k /\ j < k
        <4>1. j <= k - 1 /\ k - 1 <= built /\ k - 1 \in Futures
          BY <1>1, <3>3 DEF Steps
        <4>2. Unbroken(j, k - 1)
          BY <3>3, <4>1 DEF Unbroken, TypeOK, Futures, Steps
        <4>3. futToken[k - 1] = checks[j]
          BY <4>1, <4>2 DEF ShareInv
        <4>4. checks[k] = checks[j] /\ checks[k] # Null
          BY <1>1, <4>3 DEF ShareInv
        <4>5. phase[k] # "over"
          BY <3>3 DEF ChainInv
        <4>. QED  BY <1>1, <1>2, <2>2, <3>3, <4>4, <4>5 DEF ShareInv
      <3>. QED  BY <1>1, <3>1, <3>2, <3>3 DEF Steps, Futures
    <2>. QED  BY <2>3, <2>4 DEF ShareInv
  <1>8. CancelInv'
    BY <1>1, CancelFrame
  <1>. QED  BY <1>3, <1>4, <1>5, <1>6, <1>7, <1>8

LEMMA BreakStep ==
  ASSUME IndInv, Break
  PROVE  IndInv'
  <1>. USE IdFacts DEF IndInv
  <1>1. /\ UserIsFree /\ built \notin broken
        /\ broken' = broken \cup {built}
        /\ stToken' = [stToken EXCEPT ![built] = <<built, "break">>]
        /\ futToken' = [futToken EXCEPT ![built] = <<built, "break">>]
        /\ UNCHANGED <<built, kind, phase, result, inner, checks, linkedTo, own, tokens,
                       copied, asked, pc, of, on, hit, requests, aborted>>
        /\ built \in Futures /\ built \in Nat
    BY DEF Break, cancelerVars, chainVars, TypeOK, Futures
  <1>2. /\ stToken'[built] = <<built, "break">> /\ futToken'[built] = <<built, "break">>
        /\ \A i \in Futures : i # built => stToken'[i] = stToken[i] /\ futToken'[i] = futToken[i]
    BY <1>1 DEF TypeOK
  <1>3. \A i \in Steps : i > built => phase[i] = "unbuilt"
    BY <1>1 DEF UserIsFree, ChainInv, Steps
  <1>4. TypeOK'
    BY <1>1 DEF TypeOK
  <1>5. ChainInv'
    BY <1>1 DEF ChainInv
  <1>6. LinkInv' /\ InnerHears'
    <2>1. \A i \in Steps : phase[i] \notin {"unbuilt", "over"} => stToken'[i] # Null
      BY <1>1, <1>2 DEF LinkInv
    <2>. QED  BY <1>1, <2>1 DEF LinkInv, Linked, InnerHears
  <1>7. BreakInv'
    <2>1. \A b \in broken' : b <= built
      BY <1>1 DEF BreakInv
    <2>2. \A b \in broken', i \in Futures :
            b <= i => futToken'[i] = Null \/ After(b, futToken'[i])
      <3>. SUFFICES ASSUME NEW b \in broken', NEW i \in Futures, b <= i
                    PROVE  futToken'[i] = Null \/ After(b, futToken'[i])
        OBVIOUS
      <3>1. CASE i = built
        <4>1. b \in Nat /\ b <= built  BY <1>1, <2>1 DEF TypeOK, Futures
        <4>2. b = built \/ b < built  BY <1>1, <4>1
        <4>. QED  BY <1>2, <3>1, <4>2 DEF After
      <3>2. CASE i # built /\ b # built  BY <1>1, <1>2, <3>2 DEF BreakInv
      <3>3. CASE i # built /\ b = built
        BY <1>1, <1>2, <3>3 DEF BreakInv, Futures, Steps
      <3>. QED  BY <3>1, <3>2, <3>3
    <2>3. \A b \in broken', i \in Steps : b < i =>
            \A t \in {checks'[i], linkedTo'[i], stToken'[i]} : t = Null \/ After(b, t)
      <3>. SUFFICES ASSUME NEW b \in broken', NEW i \in Steps, b < i,
                           NEW t \in {checks'[i], linkedTo'[i], stToken'[i]}
                    PROVE  t = Null \/ After(b, t)
        OBVIOUS
      <3>1. CASE b = built
        BY <1>1, <1>2, <1>3, <3>1 DEF BreakInv, Steps
      <3>2. CASE b # built /\ t = stToken'[i]
        <4>1. i = built => After(b, t)
          <5>1. b \in Nat /\ b < built
            BY <1>1, <2>1, <3>2 DEF TypeOK, Futures
          <5>. QED  BY <1>2, <3>2, <5>1 DEF After
        <4>2. i # built => t = stToken[i] /\ b \in broken
          BY <1>1, <1>2, <3>2
        <4>. QED  BY <4>1, <4>2 DEF BreakInv
      <3>3. CASE b # built /\ t # stToken'[i]
        BY <1>1, <3>3 DEF BreakInv
      <3>. QED  BY <3>1, <3>2, <3>3
    <2>4. \A i \in Futures : futToken'[i][1] <= i /\ stToken'[i][1] <= i
      BY <1>1, <1>2 DEF BreakInv
    <2>5. \A i \in Steps : /\ phase'[i] = "unbuilt" => checks'[i] = Null /\ stToken'[i] = Null
                           /\ i > built' => futToken'[i] = Null
                           /\ phase'[i] \in {"unbuilt", "waiting"} => linkedTo'[i] = Null
      BY <1>1, <1>2 DEF BreakInv, ChainInv, Steps
    <2>6. /\ \A c \in Cancelers :
               pc'[c] \in {"request", "call"} =>
                 on'[c] # Null /\ on'[c][1] <= of'[c] /\ of'[c] <= built'
          /\ \A r \in requests' : r[2][1] <= r[1] /\ r[1] <= built'
      BY <1>1 DEF BreakInv
    <2>. QED  BY <1>1, <2>1, <2>2, <2>3, <2>4, <2>5, <2>6 DEF BreakInv
  <1>8. ShareInv'
    <2>1. \A i, j : Unbroken(i, j)' => Unbroken(i, j)  BY <1>1 DEF Unbroken
    <2>2. \A j \in Steps : j <= built => ~Unbroken(j, built)'
      BY <1>1 DEF Unbroken, Steps
    <2>3. \A i \in Steps :
            /\ phase'[i] # "unbuilt" => checks'[i] = futToken'[i - 1]
            /\ /\ phase'[i] \notin {"unbuilt", "over"}
               /\ i \notin broken' /\ checks'[i] # Null
               => stToken'[i] = checks'[i]
            /\ phase'[i] # "over" /\ i <= built' => futToken'[i] = stToken'[i]
      <3>1. \A i \in Steps : phase[i] # "unbuilt" => i - 1 # built
        BY <1>1, <1>3 DEF Steps
      <3>. QED  BY <1>1, <1>2, <3>1 DEF ShareInv
    <2>4. \A j \in Steps, i \in Futures :
            /\ j <= i /\ i <= built'
            /\ phase'[j] # "over" /\ checks'[j] # Null /\ Unbroken(j, i)'
            => futToken'[i] = checks'[j]
      BY <1>1, <1>2, <2>1, <2>2 DEF ShareInv
    <2>. QED  BY <2>3, <2>4 DEF ShareInv
  <1>9. CancelInv'
    BY <1>1, CancelFrame
  <1>. QED  BY <1>4, <1>5, <1>6, <1>7, <1>8, <1>9

--------------------------------------------------------------------------------
(* The executor *)

\* Whose inner future has another token, and the tokens that are there.
LEMMA OwnFacts ==
  ASSUME TypeOK, LinkInv
  PROVE  /\ \A i \in own : /\ i \in Steps /\ linkedTo[i] \in TokenIds
                           /\ phase[i] \in {"push", "pushed", "inner", "popped"}
         /\ \A i \in Steps : phase[i] \notin {"unbuilt", "over"} => stToken[i] \in TokenIds
         /\ tokens \in [TokenIds -> Token(Callbacks)]
  <1>1. own \subseteq Steps
    BY DEF TypeOK
  <1>2. \A i \in Steps : linkedTo[i] \in TokenIds \cup {Null}
    BY DEF TypeOK
  <1>3. \A i \in Steps : stToken[i] \in TokenIds \cup {Null}
    BY IdFacts DEF TypeOK
  <1>4. \A i \in own : /\ phase[i] \in {"push", "pushed", "inner", "popped"}
                       /\ linkedTo[i] # Null
    BY DEF LinkInv
  <1>5. \A i \in Steps : phase[i] \notin {"unbuilt", "over"} => stToken[i] # Null
    BY DEF LinkInv
  <1>. QED  BY <1>1, <1>2, <1>3, <1>4, <1>5 DEF TypeOK

\* The step in progress goes on.
LEMMA ChainFrame ==
  ASSUME TypeOK, ChainInv, NEW k \in Steps,
         NEW p \in {"checked", "running", "push", "pushed", "inner", "popped"},
         phase[k] \in {"posted", "checked", "running", "push", "pushed", "inner"},
         Goto(k, p), UNCHANGED <<built, result>>,
         \A i \in Steps : i # k => inner'[i] = inner[i],
         p \in {"push", "pushed", "inner"} => inner'[k] # "none",
         p = "popped" => inner'[k] \in {"value", "error"}
  PROVE  /\ ChainInv'
         /\ phase'[k] = p
         /\ \A i \in Steps : i # k => phase'[i] = phase[i]
         /\ phase' \in [Steps -> Phases]
  <1>1. /\ phase'[k] = p
        /\ \A i \in Steps : i # k => phase'[i] = phase[i]
        /\ phase' \in [Steps -> Phases]
    BY DEF Goto, TypeOK, Phases
  <1>2. \A i \in Steps : phase'[i] = "over" <=> phase[i] = "over"
    BY <1>1
  <1>3. \A j, i \in Steps :
          j < i /\ phase'[i] \notin {"unbuilt", "waiting"} => phase'[j] = "over"
    BY <1>1, <1>2 DEF ChainInv
  <1>4. \A i \in Steps : /\ result'[i] = "none" <=> phase'[i] # "over"
                         /\ i <= built' => phase'[i] # "unbuilt"
                         /\ i > built' + 1 => phase'[i] = "unbuilt"
                         /\ phase'[i] \in {"push", "pushed", "inner"} => inner'[i] # "none"
                         /\ phase'[i] = "popped" => inner'[i] \in {"value", "error"}
    BY <1>1, <1>2 DEF ChainInv
  <1>. QED  BY <1>1, <1>3, <1>4 DEF ChainInv

\* finish(): the step is over, and the one that waits for it is posted.
LEMMA ResolveFacts ==
  ASSUME TypeOK, ChainInv, NEW k \in Futures, NEW v \in {"value", "error"}, Resolve(k, v),
         k \in Steps => phase[k] \in {"posted", "running", "popped"},
         built' = built,
         \A i \in Steps : i # k => inner'[i] = inner[i]
  PROVE  /\ ChainInv'
         /\ result' \in [Futures -> Results]
         /\ stToken' \in [Futures -> TokenIds \cup {Null}]
         /\ phase' \in [Steps -> Phases]
         /\ k \in Steps => phase'[k] = "over"
         /\ \A i \in Steps : i # k => \/ phase'[i] = phase[i]
                                      \/ phase[i] = "waiting" /\ phase'[i] = "posted"
         /\ stToken'[k] = Null
         /\ \A i \in Futures : i # k => stToken'[i] = stToken[i]
  <1>. USE IdFacts
  <1>1. /\ result'[k] = v /\ \A i \in Futures : i # k => result'[i] = result[i]
        /\ stToken'[k] = Null /\ \A i \in Futures : i # k => stToken'[i] = stToken[i]
        /\ result' \in [Futures -> Results]
        /\ stToken' \in [Futures -> TokenIds \cup {Null}]
    BY DEF Resolve, TypeOK, Results
  <1>2. /\ phase' \in [Steps -> Phases]
        /\ k \in Steps => phase'[k] = "over"
        /\ \A i \in Steps : i # k =>
             phase'[i] = IF i = k + 1 /\ phase[i] = "waiting" THEN "posted" ELSE phase[i]
    BY DEF Resolve, TypeOK, Phases
  <1>3. \A j, i \in Steps :
          j < i /\ phase'[i] \notin {"unbuilt", "waiting"} => phase'[j] = "over"
    <2>. SUFFICES ASSUME NEW j \in Steps, NEW i \in Steps, j < i,
                         phase'[i] \notin {"unbuilt", "waiting"}
                  PROVE  phase'[j] = "over"
      OBVIOUS
    <2>1. phase[j] = "over" => phase'[j] = "over"
      BY <1>2
    <2>2. CASE i = k
      BY <1>2, <2>1, <2>2 DEF ChainInv
    <2>3. CASE i # k /\ phase[i] \notin {"unbuilt", "waiting"}
      BY <2>1, <2>3 DEF ChainInv
    <2>4. CASE i = k + 1 /\ phase[i] = "waiting"
      <3>1. k \in Steps /\ (j = k \/ j < k)
        BY <2>4 DEF Steps, Futures
      <3>. QED  BY <1>2, <2>1, <3>1 DEF ChainInv
    <2>. QED  BY <1>2, <2>2, <2>3, <2>4
  <1>4. \A i \in Steps : /\ result'[i] = "none" <=> phase'[i] # "over"
                         /\ i <= built' => phase'[i] # "unbuilt"
                         /\ i > built' + 1 => phase'[i] = "unbuilt"
                         /\ phase'[i] \in {"push", "pushed", "inner"} => inner'[i] # "none"
                         /\ phase'[i] = "popped" => inner'[i] \in {"value", "error"}
    <2>. SUFFICES ASSUME NEW i \in Steps
                  PROVE  /\ result'[i] = "none" <=> phase'[i] # "over"
                         /\ i <= built' => phase'[i] # "unbuilt"
                         /\ i > built' + 1 => phase'[i] = "unbuilt"
                         /\ phase'[i] \in {"push", "pushed", "inner"} => inner'[i] # "none"
                         /\ phase'[i] = "popped" => inner'[i] \in {"value", "error"}
      OBVIOUS
    <2>1. CASE i = k
      BY <1>1, <1>2, <2>1 DEF ChainInv
    <2>2. CASE i # k
      BY <1>1, <1>2, <2>2 DEF ChainInv
    <2>. QED  BY <2>1, <2>2
  <1>. QED  BY <1>1, <1>2, <1>3, <1>4 DEF ChainInv

\* The source, or a step whose callback returned no inner future, resolves.
LEMMA EndStep ==
  ASSUME IndInv, NEW k \in Futures, NEW v \in {"value", "error"}, Resolve(k, v),
         k \in Steps => phase[k] \in {"posted", "running"},
         UNCHANGED <<built, kind, inner, futToken, checks, linkedTo, own, tokens, copied,
                     cancelerVars, pastVars>>
  PROVE  IndInv'
  <1>. USE IdFacts DEF IndInv, cancelerVars, pastVars
  <1>1. /\ ChainInv'
        /\ result' \in [Futures -> Results]
        /\ stToken' \in [Futures -> TokenIds \cup {Null}]
        /\ phase' \in [Steps -> Phases]
        /\ k \in Steps => phase'[k] = "over"
        /\ \A i \in Steps : i # k => \/ phase'[i] = phase[i]
                                     \/ phase[i] = "waiting" /\ phase'[i] = "posted"
        /\ stToken'[k] = Null
        /\ \A i \in Futures : i # k => stToken'[i] = stToken[i]
    BY ResolveFacts
  <1>2. TypeOK'
    BY <1>1 DEF TypeOK
  <1>3. k \notin own /\ \A i \in own : i \in Steps /\ linkedTo[i] \in TokenIds
    BY OwnFacts
  <1>4. LinkInv'
    <2>1. \A i \in Steps : /\ phase'[i] \notin {"unbuilt", "over"} => stToken'[i] # Null
                           /\ i \in own => phase'[i] \in {"push", "pushed", "inner", "popped"}
                           /\ phase'[i] \in {"push", "pushed"} => i \in own
                           /\ Linked(i)' <=> Linked(i)
      <3>. SUFFICES ASSUME NEW i \in Steps
                    PROVE  /\ phase'[i] \notin {"unbuilt", "over"} => stToken'[i] # Null
                           /\ i \in own => phase'[i] \in {"push", "pushed", "inner", "popped"}
                           /\ phase'[i] \in {"push", "pushed"} => i \in own
                           /\ Linked(i)' <=> Linked(i)
        OBVIOUS
      <3>1. CASE i = k  BY <1>1, <1>3, <3>1 DEF Linked
      <3>2. CASE i # k  BY <1>1, <1>3, <3>2 DEF LinkInv, Linked
      <3>. QED  BY <3>1, <3>2
    <2>. QED  BY <1>3, <2>1, LinkFrame DEF TypeOK
  <1>5. InnerHears'
    <2>1. /\ own' \subseteq own /\ UNCHANGED <<pc, hit, linkedTo, tokens, asked, copied>>
          /\ InnerHears
          /\ \A i \in own' : phase'[i] = phase[i]
      BY <1>1, <1>3 DEF LinkInv
    <2>. QED  BY <2>1 DEF InnerHears
  <1>6. BreakInv'
    <2>1. \A i \in Steps :
            /\ phase'[i] = "unbuilt" => phase[i] = "unbuilt"
            /\ phase'[i] = "waiting" => phase[i] = "waiting"
      BY <1>1
    <2>. QED  BY <1>1, <2>1, BreakFrame
  <1>7. ShareInv'
    <2>1. \A i \in Steps : /\ phase'[i] = "unbuilt" <=> phase[i] = "unbuilt"
                           /\ phase[i] = "over" => phase'[i] = "over"
                           /\ phase'[i] # "over" => stToken'[i] = stToken[i]
      BY <1>1
    <2>. QED  BY <2>1, ShareFrame
  <1>8. CancelInv'
    <2>1. \A i \in Steps : phase[i] = "over" => phase'[i] = "over"
      BY <1>1
    <2>. QED  BY <2>1, CancelFrame
  <1>. QED  BY <1>1, <1>2, <1>4, <1>5, <1>6, <1>7, <1>8

\* The executor finds the callback due, calls it, and it returns an inner future.
LEMMA CallStep ==
  ASSUME IndInv, NEW k \in Steps, Check(k) \/ Call(k) \/ GetToken(k)
  PROVE  IndInv'
  <1>. USE IdFacts DEF IndInv, cancelerVars, pastVars, tokenVars
  <1>1. PICK p \in {"checked", "running", "push", "inner"} :
          /\ phase[k] \in {"posted", "checked", "running"} /\ Goto(k, p)
          /\ p \in {"checked", "running"} => UNCHANGED <<inner, linkedTo, own>>
          /\ p \in {"push", "inner"} =>
               /\ inner' = [inner EXCEPT ![k] = "pending"]
               /\ linkedTo' = [linkedTo EXCEPT ![k] = stToken[k]]
          /\ p = "push" => own' = own \cup {k}
          /\ p = "inner" => own' = own
    BY DEF Check, Call, GetToken
  <1>2. UNCHANGED <<built, kind, result, futToken, stToken, checks, tokens, copied, asked,
                    pc, of, on, hit, broken, requests, aborted>>
    BY DEF Check, Call, GetToken
  <1>3. /\ k \notin own /\ stToken[k] \in TokenIds
        /\ \A i \in own : i \in Steps /\ linkedTo[i] \in TokenIds
    BY <1>1, OwnFacts
  <1>4. /\ ChainInv'
        /\ phase'[k] = p
        /\ \A i \in Steps : i # k => phase'[i] = phase[i]
        /\ phase' \in [Steps -> Phases]
    <2>1. /\ \A i \in Steps : i # k => inner'[i] = inner[i]
          /\ p \in {"push", "pushed", "inner"} => inner'[k] # "none"
      BY <1>1 DEF TypeOK
    <2>. QED  BY <1>1, <1>2, <2>1, ChainFrame
  <1>5. /\ \A i \in Steps : i # k => linkedTo'[i] = linkedTo[i]
        /\ linkedTo'[k] \in {linkedTo[k], stToken[k]}
        /\ p \in {"push", "inner"} => linkedTo'[k] = stToken[k]
        /\ own \subseteq own' /\ own' \subseteq own \cup {k}
    BY <1>1 DEF TypeOK
  <1>6. TypeOK'
    <2>1. /\ inner' \in [Steps -> Results \cup {"pending"}]
          /\ linkedTo' \in [Steps -> TokenIds \cup {Null}]
      BY <1>1, <1>3 DEF TypeOK
    <2>2. own' \subseteq Steps
      BY <1>5 DEF TypeOK
    <2>. QED  BY <1>2, <1>4, <2>1, <2>2 DEF TypeOK
  <1>7. \A i \in Steps : Linked(i)' <=> Linked(i)
    <2>1. ~Linked(k)  BY <1>3 DEF Linked
    <2>2. ~Linked(k)'  BY <1>1, <1>3, <1>4 DEF Linked
    <2>3. \A i \in Steps : i # k => (Linked(i)' <=> Linked(i))
      BY <1>4, <1>5 DEF Linked
    <2>. QED  BY <2>1, <2>2, <2>3
  <1>8. LinkInv'
    <2>1. \A i \in own' : /\ phase'[i] \in {"push", "pushed", "inner", "popped"}
                          /\ linkedTo'[i] # Null
      BY <1>1, <1>3, <1>4, <1>5 DEF LinkInv
    <2>2. \A i \in Steps : /\ phase'[i] \notin {"unbuilt", "over"} => stToken'[i] # Null
                           /\ phase'[i] \in {"push", "pushed"} => i \in own'
      BY <1>1, <1>2, <1>3, <1>4, <1>5 DEF LinkInv
    <2>3. \A i \in Steps : Linked(i) => i # k /\ linkedTo'[i] = linkedTo[i]
      BY <1>3, <1>5 DEF Linked
    <2>4. \A i \in Steps : Linked(i)' => tokens'[linkedTo'[i]].callbacks = <<Names[i]>>
      BY <1>2, <1>7, <2>3 DEF LinkInv
    <2>5. \A t \in TokenIds :
            (\A i \in Steps : Linked(i)' => linkedTo'[i] # t) => tokens'[t].callbacks = <<>>
      BY <1>2, <1>7, <2>3 DEF LinkInv
    <2>. QED  BY <2>1, <2>2, <2>4, <2>5 DEF LinkInv
  <1>9. InnerHears'
    <2>1. \A i \in own' : phase'[i] \in {"pushed", "inner"} =>
            i \in own /\ phase[i] = phase'[i] /\ linkedTo'[i] = linkedTo[i]
      BY <1>1, <1>3, <1>4, <1>5
    <2>. QED  BY <1>2, <2>1 DEF InnerHears
  <1>10. BreakInv'
    <2>1. \A i \in Steps :
            /\ linkedTo'[i] \in {linkedTo[i], stToken[i], Null}
            /\ phase'[i] = "unbuilt" => phase[i] = "unbuilt"
            /\ phase'[i] = "waiting" => phase[i] = "waiting"
            /\ phase'[i] \in {"unbuilt", "waiting"} => linkedTo'[i] = linkedTo[i]
      BY <1>4, <1>5
    <2>. QED  BY <1>2, <2>1, BreakFrame
  <1>11. ShareInv' /\ CancelInv'
    <2>1. \A i \in Steps : /\ phase'[i] = "unbuilt" <=> phase[i] = "unbuilt"
                           /\ phase[i] = "over" => phase'[i] = "over"
                           /\ phase'[i] # "over" => stToken'[i] = stToken[i]
      BY <1>1, <1>2, <1>4
    <2>. QED  BY <1>2, <2>1, ShareFrame, CancelFrame
  <1>. QED  BY <1>4, <1>6, <1>8, <1>9, <1>10, <1>11
--------------------------------------------------------------------------------
(* unwrap() *)

\* One step of the chain is in progress.
LEMMA OnlyStep ==
  ASSUME TypeOK, ChainInv, LinkInv, NEW k \in Steps,
         phase[k] \notin {"unbuilt", "waiting", "over"}
  PROVE  /\ own \subseteq {k}
         /\ \A i \in Steps : i # k => ~Linked(i)
  <1>1. \A i \in Steps : i # k => phase[i] \in {"unbuilt", "waiting", "over"}
    BY DEF ChainInv, Steps
  <1>2. own \subseteq {k}
    BY <1>1, OwnFacts
  <1>. QED  BY <1>2 DEF Linked

\* The token that a step in progress is linked to, before its push and while its
\* canceler is there.
LEMMA LinkedToken ==
  ASSUME IndInv, NEW k \in own
  PROVE  /\ phase[k] = "push" => tokens[linkedTo[k]].callbacks = <<>>
         /\ phase[k] \in {"pushed", "inner"} => tokens[linkedTo[k]].callbacks = <<Names[k]>>
         /\ tokens[linkedTo[k]] \in Token(Callbacks)
         /\ linkedTo[k] \in TokenIds /\ k \in Steps /\ Names[k] \in Callbacks
  <1>. USE DEF IndInv
  <1>1. k \in Steps /\ linkedTo[k] \in TokenIds /\ tokens[linkedTo[k]] \in Token(Callbacks)
    BY OwnFacts
  <1>2. phase[k] = "push" => \A i \in Steps : ~Linked(i)
    BY <1>1, OnlyStep DEF Linked
  <1>3. phase[k] = "push" => tokens[linkedTo[k]].callbacks = <<>>
    BY <1>1, <1>2 DEF LinkInv
  <1>4. phase[k] \in {"pushed", "inner"} => tokens[linkedTo[k]].callbacks = <<Names[k]>>
    BY <1>1 DEF LinkInv, Linked
  <1>. QED  BY <1>1, <1>3, <1>4 DEF Callbacks

\* What a step of unwrap() leaves alone, apart from its step and the callbacks of one
\* token.
LEMMA UnwrapFrame ==
  ASSUME IndInv, NEW k \in Steps, NEW p \in {"pushed", "inner", "popped"}, Goto(k, p),
         phase[k] \in {"push", "pushed", "inner"},
         p = "popped" => inner[k] # "pending",
         UNCHANGED <<built, result, inner, futToken, stToken, checks, linkedTo, own,
                     pc, of, on, hit, broken, requests>>,
         \A t \in TokenIds : tokens'[t].requested = tokens[t].requested
  PROVE  /\ ChainInv' /\ BreakInv' /\ ShareInv' /\ CancelInv'
         /\ phase'[k] = p
         /\ \A i \in Steps : i # k => phase'[i] = phase[i]
         /\ phase' \in [Steps -> Phases]
  <1>. USE DEF IndInv
  <1>1. inner[k] # "none" /\ (p = "popped" => inner[k] \in {"value", "error"})
    BY DEF ChainInv, TypeOK, Results
  <1>2. /\ ChainInv'
        /\ phase'[k] = p
        /\ \A i \in Steps : i # k => phase'[i] = phase[i]
        /\ phase' \in [Steps -> Phases]
    BY <1>1, ChainFrame
  <1>3. \A i \in Steps : /\ phase'[i] = "unbuilt" <=> phase[i] = "unbuilt"
                         /\ phase'[i] = "waiting" <=> phase[i] = "waiting"
                         /\ phase'[i] = "over" <=> phase[i] = "over"
    BY <1>2
  <1>4. BreakInv'
    BY <1>3, BreakFrame
  <1>5. ShareInv'
    BY <1>3, ShareFrame
  <1>6. CancelInv'
    BY <1>3, CancelFrame
  <1>. QED  BY <1>2, <1>4, <1>5, <1>6

\* The canceler is pushed.
LEMMA PushStep ==
  ASSUME IndInv, NEW k \in Steps, Push(k)
  PROVE  IndInv'
  <1>. USE IdFacts DEF IndInv
  <1>. DEFINE t == linkedTo[k]
  <1>1. /\ phase[k] = "push" /\ k \in own /\ Goto(k, "pushed")
        /\ tokens' = [tokens EXCEPT ![t] = PushCallback(@, Names[k])]
        /\ copied' = [copied EXCEPT ![k] = ToCall(tokens'[t])]
        /\ UNCHANGED <<built, kind, result, inner, futToken, stToken, checks, linkedTo, own,
                       pc, of, on, hit, asked, broken, requests, aborted>>
    BY DEF Push, LinkInv, cancelerVars, pastVars
  <1>2. /\ tokens[t].callbacks = <<>> /\ tokens[t] \in Token(Callbacks)
        /\ t \in TokenIds /\ Names[k] \in Callbacks
    BY <1>1, LinkedToken
  <1>3. /\ tokens'[t] \in Token(Callbacks)
        /\ tokens'[t].requested = tokens[t].requested
        /\ tokens'[t].callbacks = <<Names[k]>>
        /\ \A u \in TokenIds : u # t => tokens'[u] = tokens[u]
    <2>1. tokens'[t] = PushCallback(tokens[t], Names[k])
          /\ \A u \in TokenIds : u # t => tokens'[u] = tokens[u]
      BY <1>1, <1>2 DEF TypeOK
    <2>. QED  BY <1>2, <2>1, PushFacts
  <1>4. /\ ToCall(tokens'[t]) = IF tokens'[t].requested THEN Names[k] ELSE NoCallback
        /\ ToCall(tokens'[t]) \in Callbacks \cup {NoCallback}
    BY <1>2, <1>3, CallFacts
  <1>5. /\ ChainInv' /\ BreakInv' /\ ShareInv' /\ CancelInv'
        /\ phase'[k] = "pushed"
        /\ \A i \in Steps : i # k => phase'[i] = phase[i]
        /\ phase' \in [Steps -> Phases]
    BY <1>1, <1>3, UnwrapFrame
  <1>6. TypeOK'
    <2>1. tokens' \in [TokenIds -> Token(Callbacks)]
      BY <1>1, <1>2, <1>3 DEF TypeOK
    <2>2. copied' \in [Steps -> Callbacks \cup {NoCallback}]
      BY <1>1, <1>4 DEF TypeOK
    <2>. QED  BY <1>1, <1>5, <2>1, <2>2 DEF TypeOK
  <1>7. /\ own' \subseteq {k} /\ Linked(k)'
        /\ \A i \in Steps : i # k => ~Linked(i)' /\ ~Linked(i)
        /\ ~Linked(k)
    BY <1>1, <1>5, OnlyStep DEF Linked
  <1>8. LinkInv'
    <2>1. \A i \in own' : /\ phase'[i] \in {"push", "pushed", "inner", "popped"}
                          /\ linkedTo'[i] # Null
      BY <1>1, <1>2, <1>5, <1>7
    <2>2. \A i \in Steps : /\ phase'[i] \notin {"unbuilt", "over"} => stToken'[i] # Null
                           /\ phase'[i] \in {"push", "pushed"} => i \in own'
      BY <1>1, <1>5 DEF LinkInv
    <2>3. \A i \in Steps : Linked(i)' => tokens'[linkedTo'[i]].callbacks = <<Names[i]>>
      BY <1>1, <1>3, <1>7
    <2>4. \A u \in TokenIds :
            (\A i \in Steps : Linked(i)' => linkedTo'[i] # u) => tokens'[u].callbacks = <<>>
      <3>1. \A u \in TokenIds : tokens[u].callbacks = <<>>
        BY <1>7 DEF LinkInv
      <3>. QED  BY <1>1, <1>3, <1>7, <3>1
    <2>. QED  BY <2>1, <2>2, <2>3, <2>4 DEF LinkInv
  <1>9. InnerHears'
    <2>1. tokens'[t].requested => copied'[k] = Names[k]
      BY <1>1, <1>4 DEF TypeOK
    <2>. QED  BY <1>1, <1>7, <2>1 DEF InnerHears
  <1>. QED  BY <1>5, <1>6, <1>8, <1>9

\* The canceler is called at once if it was copied.
LEMMA CallPushedStep ==
  ASSUME IndInv, NEW k \in Steps, CallPushed(k)
  PROVE  IndInv'
  <1>. USE IdFacts DEF IndInv
  <1>1. /\ phase[k] = "pushed" /\ Goto(k, "inner")
        /\ asked' = asked \cup StepsOf(copied[k])
        /\ copied' = [copied EXCEPT ![k] = NoCallback]
        /\ UNCHANGED <<built, kind, result, inner, futToken, stToken, checks, linkedTo, own,
                       tokens, pc, of, on, hit, broken, requests, aborted>>
    BY DEF CallPushed, cancelerVars
  <1>2. /\ ChainInv' /\ BreakInv' /\ ShareInv' /\ CancelInv'
        /\ phase'[k] = "inner"
        /\ \A i \in Steps : i # k => phase'[i] = phase[i]
        /\ phase' \in [Steps -> Phases]
    BY <1>1, UnwrapFrame
  <1>3. TypeOK'
    <2>1. asked' \subseteq Steps
      BY <1>1 DEF TypeOK, StepsOf
    <2>. QED  BY <1>1, <1>2, <2>1 DEF TypeOK
  <1>4. LinkInv'
    <2>1. \A i \in Steps : /\ phase'[i] \notin {"unbuilt", "over"} => stToken'[i] # Null
                           /\ i \in own => phase'[i] \in {"push", "pushed", "inner", "popped"}
                           /\ phase'[i] \in {"push", "pushed"} => i \in own
                           /\ Linked(i)' <=> Linked(i)
      BY <1>1, <1>2 DEF LinkInv, Linked
    <2>. QED  BY <1>1, <2>1, OwnFacts, LinkFrame
  <1>5. InnerHears'
    <2>1. own \subseteq {k}
      BY <1>1, OnlyStep
    <2>2. copied[k] = Names[k] => k \in asked'
      BY <1>1 DEF StepsOf
    <2>. QED  BY <1>1, <2>1, <2>2 DEF InnerHears
  <1>. QED  BY <1>2, <1>3, <1>4, <1>5

\* The inner future ends.
LEMMA InnerEndsStep ==
  ASSUME IndInv, NEW k \in Steps, NEW v \in {"value", "error"}, InnerEnds(k, v)
  PROVE  IndInv'
  <1>. USE IdFacts DEF IndInv
  <1>1. /\ inner[k] = "pending" /\ inner' = [inner EXCEPT ![k] = v]
        /\ UNCHANGED <<built, kind, phase, result, futToken, stToken, checks, linkedTo, own,
                       tokens, copied, pc, of, on, hit, asked, broken, requests, aborted>>
    BY DEF InnerEnds, tokenVars, cancelerVars, pastVars
  <1>2. inner'[k] = v /\ \A i \in Steps : i # k => inner'[i] = inner[i]
    BY <1>1 DEF TypeOK
  <1>3. TypeOK'
    BY <1>1 DEF TypeOK, Results
  <1>4. ChainInv'
    BY <1>1, <1>2 DEF ChainInv
  <1>5. LinkInv' /\ InnerHears'
    BY <1>1 DEF LinkInv, Linked, InnerHears
  <1>6. BreakInv'
    BY <1>1, BreakFrame
  <1>7. ShareInv' /\ CancelInv'
    BY <1>1, ShareFrame, CancelFrame
  <1>. QED  BY <1>3, <1>4, <1>5, <1>6, <1>7

\* The canceler is popped, if it was pushed.
LEMMA PopStep ==
  ASSUME IndInv, NEW k \in Steps, Pop(k)
  PROVE  IndInv'
  <1>. USE IdFacts DEF IndInv
  <1>. DEFINE t == linkedTo[k]
  <1>1. /\ phase[k] = "inner" /\ inner[k] # "pending" /\ Goto(k, "popped")
        /\ UNCHANGED <<built, kind, result, inner, futToken, stToken, checks, linkedTo, own,
                       pc, of, on, hit, asked, broken, requests, aborted>>
    BY DEF Pop, cancelerVars, pastVars
  <1>2. /\ \A u \in TokenIds : tokens'[u].requested = tokens[u].requested
        /\ \A u \in TokenIds : tokens'[u].callbacks = <<>>
        /\ tokens' \in [TokenIds -> Token(Callbacks)]
        /\ copied' \in [Steps -> Callbacks \cup {NoCallback}]
    <2>1. CASE k \in own
      <3>1. /\ tokens' = [tokens EXCEPT ![t] = PopCallback(@)]
            /\ copied' = [copied EXCEPT ![k] = ToCall(tokens'[t])]
        BY <2>1 DEF Pop
      <3>2. /\ tokens[t].callbacks = <<Names[k]>> /\ tokens[t] \in Token(Callbacks)
            /\ t \in TokenIds /\ Names[k] \in Callbacks
        BY <1>1, <2>1, LinkedToken
      <3>3. /\ tokens'[t] = PopCallback(tokens[t])
            /\ \A u \in TokenIds : u # t => tokens'[u] = tokens[u]
        BY <3>1, <3>2 DEF TypeOK
      <3>4. /\ tokens'[t] \in Token(Callbacks)
            /\ tokens'[t].requested = tokens[t].requested
            /\ tokens'[t].callbacks = <<>>
            /\ ToCall(tokens'[t]) = NoCallback
        BY <3>2, <3>3, PopFacts
      <3>5. \A u \in TokenIds : u # t => tokens[u].callbacks = <<>>
        BY <1>1, OnlyStep DEF LinkInv
      <3>6. /\ tokens' \in [TokenIds -> Token(Callbacks)]
            /\ copied' \in [Steps -> Callbacks \cup {NoCallback}]
        BY <3>1, <3>2, <3>4 DEF TypeOK
      <3>. QED  BY <3>3, <3>4, <3>5, <3>6
    <2>2. CASE k \notin own
      <3>1. tokens' = tokens /\ copied' = copied
        BY <2>2 DEF Pop
      <3>2. \A i \in Steps : ~Linked(i)
        BY <1>1, <2>2, OnlyStep DEF Linked
      <3>3. \A u \in TokenIds : tokens[u].callbacks = <<>>
        BY <3>2 DEF LinkInv
      <3>. QED  BY <3>1, <3>3 DEF TypeOK
    <2>. QED  BY <2>1, <2>2
  <1>3. /\ ChainInv' /\ BreakInv' /\ ShareInv' /\ CancelInv'
        /\ phase'[k] = "popped"
        /\ \A i \in Steps : i # k => phase'[i] = phase[i]
        /\ phase' \in [Steps -> Phases]
    BY <1>1, <1>2, UnwrapFrame
  <1>4. TypeOK'
    BY <1>1, <1>2, <1>3 DEF TypeOK
  <1>5. own' \subseteq {k} /\ \A i \in Steps : ~Linked(i)'
    BY <1>1, <1>3, OnlyStep DEF Linked
  <1>6. LinkInv'
    <2>1. \A i \in own' : /\ phase'[i] \in {"push", "pushed", "inner", "popped"}
                          /\ linkedTo'[i] # Null
      BY <1>1, <1>3, <1>5 DEF LinkInv
    <2>2. \A i \in Steps : /\ phase'[i] \notin {"unbuilt", "over"} => stToken'[i] # Null
                           /\ phase'[i] \in {"push", "pushed"} => i \in own'
      BY <1>1, <1>3 DEF LinkInv
    <2>. QED  BY <1>2, <1>5, <2>1, <2>2 DEF LinkInv
  <1>7. InnerHears'
    BY <1>3, <1>5 DEF InnerHears
  <1>. QED  BY <1>3, <1>4, <1>6, <1>7

\* The result of the inner future is passed on.
LEMMA SettleStep ==
  ASSUME IndInv, NEW k \in Steps, Settle(k)
  PROVE  IndInv'
  <1>. USE IdFacts DEF IndInv
  <1>1. /\ phase[k] = "popped" /\ Resolve(k, inner[k])
        /\ asked' = (asked \cup StepsOf(copied[k])) \ {k}
        /\ copied' = [copied EXCEPT ![k] = NoCallback]
        /\ inner' = [inner EXCEPT ![k] = "none"]
        /\ linkedTo' = [linkedTo EXCEPT ![k] = Null]
        /\ own' = own \ {k}
        /\ UNCHANGED <<built, kind, futToken, checks, tokens, pc, of, on, hit, broken,
                       requests, aborted>>
    BY DEF Settle, cancelerVars
  <1>2. inner[k] \in {"value", "error"} /\ \A i \in Steps : i # k => inner'[i] = inner[i]
    BY <1>1 DEF ChainInv, TypeOK
  <1>3. /\ ChainInv'
        /\ result' \in [Futures -> Results]
        /\ stToken' \in [Futures -> TokenIds \cup {Null}]
        /\ phase' \in [Steps -> Phases]
        /\ phase'[k] = "over"
        /\ \A i \in Steps : i # k => \/ phase'[i] = phase[i]
                                     \/ phase[i] = "waiting" /\ phase'[i] = "posted"
        /\ stToken'[k] = Null
        /\ \A i \in Futures : i # k => stToken'[i] = stToken[i]
    BY <1>1, <1>2, ResolveFacts
  <1>4. TypeOK'
    <2>1. asked' \subseteq Steps
      BY <1>1 DEF TypeOK, StepsOf
    <2>2. inner' \in [Steps -> Results \cup {"pending"}]
      BY <1>1 DEF TypeOK, Results
    <2>. QED  BY <1>1, <1>3, <2>1, <2>2 DEF TypeOK
  <1>5. own' = {} /\ \A i \in Steps : ~Linked(i)
    BY <1>1, OnlyStep DEF Linked
  <1>6. LinkInv' /\ InnerHears'
    <2>1. \A i \in Steps : phase'[i] \notin {"unbuilt", "over"} => stToken'[i] # Null
      <3>1. \A i \in Steps : phase[i] \notin {"unbuilt", "over"} => stToken[i] # Null
        BY DEF LinkInv
      <3>2. \A i \in Steps : i \in Futures
        OBVIOUS
      <3>. QED  BY ONLY <1>3, <3>1, <3>2
    <2>2. \A i \in Steps : phase'[i] \notin {"push", "pushed"}
      <3>1. \A i \in Steps : i # k => phase[i] \notin {"push", "pushed"}
        BY <1>1, OnlyStep DEF LinkInv
      <3>. QED  BY <1>3, <3>1
    <2>3. \A u \in TokenIds : tokens'[u].callbacks = <<>>
      BY <1>1, <1>5 DEF LinkInv
    <2>4. \A i \in Steps : ~Linked(i)'
      BY <1>5 DEF Linked
    <2>. QED  BY <1>5, <2>1, <2>2, <2>3, <2>4 DEF LinkInv, InnerHears
  <1>7. BreakInv'
    <2>1. \A i \in Steps :
            /\ linkedTo'[i] \in {linkedTo[i], stToken[i], Null}
            /\ phase'[i] = "unbuilt" => phase[i] = "unbuilt"
            /\ phase'[i] = "waiting" => phase[i] = "waiting"
            /\ phase'[i] \in {"unbuilt", "waiting"} => linkedTo'[i] = linkedTo[i]
      BY <1>1, <1>3 DEF TypeOK
    <2>2. \A i \in Futures : stToken'[i] = stToken[i] \/ stToken'[i] = Null
      BY <1>3
    <2>. QED  BY <1>1, <2>1, <2>2, BreakFrame
  <1>8. ShareInv' /\ CancelInv'
    <2>1. \A i \in Steps : /\ phase'[i] = "unbuilt" <=> phase[i] = "unbuilt"
                           /\ phase[i] = "over" => phase'[i] = "over"
                           /\ phase'[i] # "over" => stToken'[i] = stToken[i]
      BY <1>1, <1>3
    <2>. QED  BY <1>1, <2>1, ShareFrame, CancelFrame
  <1>. QED  BY <1>3, <1>4, <1>6, <1>7, <1>8

--------------------------------------------------------------------------------
(* The cancelers *)

\* request_cancel() reads the token of the shared state.
LEMMA AskStep ==
  ASSUME IndInv, NEW c \in Cancelers, Ask(c)
  PROVE  IndInv'
  <1>. USE IdFacts DEF IndInv
  <1>1. /\ pc[c] = "idle"
        /\ UNCHANGED <<built, kind, phase, result, inner, futToken, stToken, checks,
                       linkedTo, own, tokens, copied, hit, asked, broken, requests, aborted>>
    BY DEF Ask, chainVars, tokenVars, pastVars
  <1>2. PICK k \in 0..built :
          IF stToken[k] = Null
            THEN pc' = [pc EXCEPT ![c] = "returned"] /\ UNCHANGED <<of, on>>
            ELSE /\ of' = [of EXCEPT ![c] = k]
                 /\ on' = [on EXCEPT ![c] = stToken[k]]
                 /\ pc' = [pc EXCEPT ![c] = "request"]
    BY DEF Ask
  <1>3. k \in Futures /\ k <= built
    BY <1>2 DEF TypeOK, Futures
  <1>4. /\ \A d \in Cancelers : d # c => pc'[d] = pc[d] /\ of'[d] = of[d] /\ on'[d] = on[d]
        /\ pc'[c] \in {"request", "returned"}
        /\ pc'[c] = "request" => /\ stToken[k] # Null /\ of'[c] = k /\ on'[c] = stToken[k]
    BY <1>2 DEF TypeOK
  <1>5. TypeOK'
    <2>1. stToken[k] \in TokenIds \cup {Null}
      BY <1>3 DEF TypeOK
    <2>2. /\ pc' \in [Cancelers -> {"idle", "request", "call", "returned"}]
          /\ of' \in [Cancelers -> Futures]
          /\ on' \in [Cancelers -> TokenIds \cup {Null}]
      <3>1. /\ pc \in [Cancelers -> {"idle", "request", "call", "returned"}]
            /\ of \in [Cancelers -> Futures]
            /\ on \in [Cancelers -> TokenIds \cup {Null}]
        BY DEF TypeOK
      <3>2. /\ pc' \in {[pc EXCEPT ![c] = "returned"], [pc EXCEPT ![c] = "request"]}
            /\ of' \in {of, [of EXCEPT ![c] = k]}
            /\ on' \in {on, [on EXCEPT ![c] = stToken[k]]}
        BY <1>2
      <3>3. pc' \in [Cancelers -> {"idle", "request", "call", "returned"}]
        BY <3>1, <3>2
      <3>4. of' \in [Cancelers -> Futures]
        BY <1>3, <3>1, <3>2
      <3>5. on' \in [Cancelers -> TokenIds \cup {Null}]
        BY <2>1, <3>1, <3>2
      <3>. QED  BY <3>3, <3>4, <3>5
    <2>3. \A d \in Cancelers : pc'[d] = "request" => on'[d] # Null
      BY <1>4 DEF TypeOK
    <2>. QED  BY <1>1, <2>2, <2>3 DEF TypeOK
  <1>6. ChainInv' /\ LinkInv'
    BY <1>1 DEF ChainInv, LinkInv, Linked
  <1>7. InnerHears'
    BY <1>1, <1>4 DEF InnerHears
  <1>8. BreakInv'
    <2>1. \A d \in Cancelers :
            pc'[d] \in {"request", "call"} =>
              on'[d] # Null /\ on'[d][1] <= of'[d] /\ of'[d] <= built'
      BY <1>1, <1>3, <1>4 DEF BreakInv
    <2>. QED  BY <1>1, <2>1 DEF BreakInv
  <1>9. ShareInv'
    BY <1>1, ShareFrame
  <1>10. CancelInv'
    <2>1. \A i, j : Unbroken(i, j)' <=> Unbroken(i, j)
      BY <1>1 DEF Unbroken
    <2>2. \A j \in Steps :
            /\ pc'[c] \in {"request", "call"}
            /\ j <= of'[c] /\ phase[j] # "over" /\ checks[j] # Null /\ Unbroken(j, of'[c])
            => on'[c] = checks[j]
      <3>. SUFFICES ASSUME NEW j \in Steps, pc'[c] = "request",
                           j <= k, phase[j] # "over", checks[j] # Null, Unbroken(j, k)
                    PROVE  stToken[k] = checks[j]
        BY <1>4
      <3>1. futToken[k] = checks[j]
        BY <1>3 DEF ShareInv
      <3>2. k \in Steps
        BY <1>3 DEF Steps, Futures
      <3>3. phase[k] # "over"
        <4>1. j < k => phase[k] \in {"unbuilt", "waiting"}
          BY <3>2 DEF ChainInv
        <4>2. j = k \/ j < k
          BY <1>3 DEF Steps, Futures
        <4>. QED  BY <4>1, <4>2
      <3>. QED  BY <1>3, <3>1, <3>2, <3>3 DEF ShareInv
    <2>. QED  BY <1>1, <1>4, <2>1, <2>2 DEF CancelInv
  <1>. QED  BY <1>5, <1>6, <1>7, <1>8, <1>9, <1>10

\* request_cancel() sets the flag and copies the canceler on the top.
LEMMA RequestStep ==
  ASSUME IndInv, NEW c \in Cancelers, Request(c)
  PROVE  IndInv'
  <1>. USE IdFacts DEF IndInv
  <1>. DEFINE t == on[c]
  <1>1. /\ pc[c] = "request"
        /\ tokens' = [tokens EXCEPT ![t] = RequestCancel(@)]
        /\ hit' = [hit EXCEPT ![c] = ToCall(tokens'[t])]
        /\ pc' = [pc EXCEPT ![c] = "call"]
        /\ UNCHANGED <<built, kind, phase, result, inner, futToken, stToken, checks, linkedTo,
                       own, copied, of, on, asked, broken, requests, aborted>>
    BY DEF Request, chainVars, pastVars
  <1>2. t \in TokenIds /\ tokens[t] \in Token(Callbacks)
    BY <1>1 DEF TypeOK
  <1>3. /\ tokens'[t] = RequestCancel(tokens[t])
        /\ \A u \in TokenIds : u # t => tokens'[u] = tokens[u]
    BY <1>1, <1>2 DEF TypeOK
  <1>4. /\ tokens'[t] \in Token(Callbacks)
        /\ tokens'[t].requested = TRUE
        /\ tokens'[t].callbacks = tokens[t].callbacks
    BY <1>2, <1>3, RequestFacts
  <1>5. /\ pc'[c] = "call" /\ \A d \in Cancelers : d # c => pc'[d] = pc[d] /\ hit'[d] = hit[d]
        /\ hit'[c] = ToCall(tokens'[t])
    BY <1>1 DEF TypeOK
  <1>6. TypeOK'
    <2>1. tokens' \in [TokenIds -> Token(Callbacks)]
      BY <1>1, <1>2, <1>4 DEF TypeOK
    <2>2. ToCall(tokens'[t]) \in Callbacks \cup {NoCallback}
      <3>1. CASE Callbacks = {}
        <4>1. tokens'[t].callbacks \in Seq({})
          BY <1>4, <3>1 DEF Token
        <4>2. Len(tokens'[t].callbacks) = 0
          BY <4>1
        <4>. QED  BY <4>2 DEF ToCall, Top, Depth
      <3>2. CASE Callbacks # {}
        BY <1>4, <3>2, CallFacts
      <3>. QED  BY <3>1, <3>2
    <2>3. hit' \in [Cancelers -> Callbacks \cup {NoCallback}]
      BY <1>1, <2>2 DEF TypeOK
    <2>4. pc' \in [Cancelers -> {"idle", "request", "call", "returned"}]
      BY <1>1 DEF TypeOK
    <2>5. \A d \in Cancelers : pc'[d] = "request" => on'[d] # Null
      BY <1>1, <1>5 DEF TypeOK
    <2>. QED  BY <1>1, <2>1, <2>3, <2>4, <2>5 DEF TypeOK
  <1>7. ChainInv'
    BY <1>1 DEF ChainInv
  <1>8. LinkInv'
    <2>1. \A u \in TokenIds : tokens'[u].callbacks = tokens[u].callbacks
      BY <1>3, <1>4
    <2>2. \A i \in Steps : Linked(i)' <=> Linked(i)
      BY <1>1 DEF Linked
    <2>3. \A i \in own : linkedTo[i] \in TokenIds
      BY OwnFacts
    <2>. QED  BY <1>1, <2>1, <2>2, <2>3 DEF LinkInv, Linked
  <1>9. InnerHears'
    <2>. SUFFICES ASSUME NEW i \in own, phase[i] \in {"pushed", "inner"},
                         tokens'[linkedTo[i]].requested
                  PROVE  \/ i \in asked
                         \/ copied[i] = Names[i]
                         \/ \E d \in Cancelers : pc'[d] = "call" /\ hit'[d] = Names[i]
      BY <1>1 DEF InnerHears
    <2>1. CASE linkedTo[i] = t
      <3>1. tokens[t].callbacks = <<Names[i]>> /\ Names[i] \in Callbacks
        BY <2>1, LinkedToken
      <3>2. ToCall(tokens'[t]) = Names[i]
        BY <1>4, <3>1, CallFacts
      <3>. QED  BY <1>5, <3>2
    <2>2. CASE linkedTo[i] # t
      <3>1. tokens[linkedTo[i]].requested
        BY <1>3, <2>2, OwnFacts
      <3>2. \A d \in Cancelers : pc[d] = "call" => d # c
        BY <1>1
      <3>. QED  BY <1>5, <3>1, <3>2 DEF InnerHears
    <2>. QED  BY <2>1, <2>2
  <1>10. BreakInv'
    <2>1. \A d \in Cancelers :
            pc'[d] \in {"request", "call"} =>
              on[d] # Null /\ on[d][1] <= of[d] /\ of[d] <= built
      BY <1>1, <1>5 DEF BreakInv
    <2>. QED  BY <1>1, <2>1 DEF BreakInv
  <1>11. ShareInv'
    BY <1>1, ShareFrame
  <1>12. CancelInv'
    <2>1. \A i, j : Unbroken(i, j)' <=> Unbroken(i, j)
      BY <1>1 DEF Unbroken
    <2>2. \A u \in TokenIds : tokens[u].requested => tokens'[u].requested
      BY <1>3, <1>4
    <2>3. \A d \in Cancelers : pc'[d] = "call" => tokens'[on[d]].requested
      <3>1. \A d \in Cancelers : d # c /\ pc'[d] = "call" =>
              on[d] \in TokenIds /\ tokens[on[d]].requested
        BY <1>5 DEF TypeOK, BreakInv, CancelInv
      <3>. QED  BY <1>4, <2>2, <3>1
    <2>4. \A d \in Cancelers, j \in Steps :
            /\ pc'[d] \in {"request", "call"}
            /\ j <= of[d] /\ phase[j] # "over" /\ checks[j] # Null /\ Unbroken(j, of[d])
            => on[d] = checks[j]
      BY <1>1, <1>5 DEF CancelInv
    <2>5. \A j \in Steps : checks[j] # Null => checks[j] \in TokenIds
      BY DEF TypeOK
    <2>6. \A r \in requests, j \in Steps :
            /\ j <= r[1] /\ phase[j] # "over" /\ checks[j] # Null /\ Unbroken(j, r[1])
            => tokens'[checks[j]].requested
      BY <2>2, <2>5 DEF CancelInv
    <2>. QED  BY <1>1, <2>1, <2>3, <2>4, <2>6 DEF CancelInv
  <1>. QED  BY <1>6, <1>7, <1>8, <1>9, <1>10, <1>11, <1>12

\* The canceler that was copied is called, if it is still there, and the request returns.
LEMMA CallHitStep ==
  ASSUME IndInv, NEW c \in Cancelers, CallHit(c)
  PROVE  IndInv'
  <1>. USE IdFacts DEF IndInv
  <1>1. /\ pc[c] = "call"
        /\ asked' = asked \cup (StepsOf(hit[c]) \cap own)
        /\ requests' = requests \cup {<<of[c], on[c]>>}
        /\ pc' = [pc EXCEPT ![c] = "returned"]
        /\ of' = [of EXCEPT ![c] = 0]
        /\ on' = [on EXCEPT ![c] = Null]
        /\ hit' = [hit EXCEPT ![c] = NoCallback]
        /\ UNCHANGED <<built, kind, phase, result, inner, futToken, stToken, checks, linkedTo,
                       own, tokens, copied, broken, aborted>>
    BY DEF CallHit, chainVars, tokenVars
  <1>2. /\ pc'[c] = "returned"
        /\ \A d \in Cancelers : d # c => /\ pc'[d] = pc[d] /\ of'[d] = of[d]
                                         /\ on'[d] = on[d] /\ hit'[d] = hit[d]
    BY <1>1 DEF TypeOK
  <1>3. on[c] \in TokenIds /\ of[c] \in Futures
    BY <1>1 DEF TypeOK, BreakInv
  <1>4. TypeOK'
    <2>1. asked' \subseteq Steps
      BY <1>1 DEF TypeOK, StepsOf
    <2>2. requests' \subseteq Futures \X TokenIds
      BY <1>1, <1>3 DEF TypeOK
    <2>3. /\ pc' \in [Cancelers -> {"idle", "request", "call", "returned"}]
          /\ of' \in [Cancelers -> Futures]
          /\ on' \in [Cancelers -> TokenIds \cup {Null}]
          /\ hit' \in [Cancelers -> Callbacks \cup {NoCallback}]
      BY <1>1 DEF TypeOK
    <2>4. \A d \in Cancelers : pc'[d] = "request" => on'[d] # Null
      BY <1>2 DEF TypeOK
    <2>. QED  BY <1>1, <2>1, <2>2, <2>3, <2>4 DEF TypeOK
  <1>5. ChainInv' /\ LinkInv'
    BY <1>1 DEF ChainInv, LinkInv, Linked
  <1>6. InnerHears'
    <2>. SUFFICES ASSUME NEW i \in own, phase[i] \in {"pushed", "inner"},
                         tokens[linkedTo[i]].requested
                  PROVE  \/ i \in asked'
                         \/ copied[i] = Names[i]
                         \/ \E d \in Cancelers : pc'[d] = "call" /\ hit'[d] = Names[i]
      BY <1>1 DEF InnerHears
    <2>1. hit[c] = Names[i] => i \in asked'
      BY <1>1, OwnFacts DEF StepsOf
    <2>. QED  BY <1>1, <1>2, <2>1 DEF InnerHears
  <1>7. BreakInv'
    <2>1. \A d \in Cancelers :
            pc'[d] \in {"request", "call"} =>
              on'[d] # Null /\ on'[d][1] <= of'[d] /\ of'[d] <= built
      BY <1>2 DEF BreakInv
    <2>2. \A r \in requests' : r[2][1] <= r[1] /\ r[1] <= built
      BY <1>1 DEF BreakInv
    <2>. QED  BY <1>1, <2>1, <2>2 DEF BreakInv
  <1>8. ShareInv'
    BY <1>1, ShareFrame
  <1>9. CancelInv'
    <2>1. \A i, j : Unbroken(i, j)' <=> Unbroken(i, j)
      BY <1>1 DEF Unbroken
    <2>2. \A r \in requests', j \in Steps :
            /\ j <= r[1] /\ phase[j] # "over" /\ checks[j] # Null /\ Unbroken(j, r[1])
            => tokens[checks[j]].requested
      BY <1>1 DEF CancelInv
    <2>3. \A d \in Cancelers, j \in Steps :
            /\ pc'[d] \in {"request", "call"}
            /\ j <= of'[d] /\ phase[j] # "over" /\ checks[j] # Null /\ Unbroken(j, of'[d])
            => on'[d] = checks[j]
      BY <1>2 DEF CancelInv
    <2>4. \A d \in Cancelers : pc'[d] = "call" => tokens[on'[d]].requested
      BY <1>2 DEF CancelInv
    <2>. QED  BY <1>1, <2>1, <2>2, <2>3, <2>4 DEF CancelInv
  <1>. QED  BY <1>4, <1>5, <1>6, <1>7, <1>8, <1>9

\* A null token is dereferenced.
LEMMA AbortStep ==
  ASSUME IndInv, NEW k \in Steps, Abort(k)
  PROVE  IndInv'
  <1>1. aborted' = TRUE /\ UNCHANGED <<chainVars, tokenVars, cancelerVars, asked, broken, requests>>
    BY DEF Abort
  <1>. USE <1>1 DEF IndInv, chainVars, tokenVars, cancelerVars
  <1>2. TypeOK'
    BY DEF TypeOK
  <1>3. ChainInv' /\ LinkInv' /\ InnerHears'
    BY DEF ChainInv, LinkInv, Linked, InnerHears
  <1>4. BreakInv'
    BY DEF BreakInv
  <1>5. ShareInv' /\ CancelInv'
    BY DEF ShareInv, CancelInv, Unbroken
  <1>. QED  BY <1>2, <1>3, <1>4, <1>5

--------------------------------------------------------------------------------
(* The specification *)

LEMMA StepInv == IndInv /\ [Next]_vars => IndInv'
  <1>. SUFFICES ASSUME IndInv, [Next]_vars PROVE IndInv'
    OBVIOUS
  <1>1. CASE UNCHANGED vars
    BY <1>1 DEF vars, chainVars, tokenVars, cancelerVars, pastVars, IndInv, TypeOK, ChainInv,
                LinkInv, Linked, InnerHears, BreakInv, ShareInv, CancelInv, Unbroken
  <1>2. ASSUME NEW k \in Steps, Attach(k) \/ Return(k)
        PROVE  IndInv'
    BY <1>2, AttachStep, ReturnStep
  <1>3. ASSUME NEW k \in Steps, ExecutorStep(k)
        PROVE  IndInv'
    <2>1. CASE Check(k) \/ Call(k) \/ GetToken(k)  BY <2>1, CallStep
    <2>2. CASE Abort(k)  BY <2>2, AbortStep
    <2>3. CASE Skip(k)  BY <2>3, EndStep, IdFacts DEF Skip
    <2>4. CASE Throw(k)  BY <2>4, EndStep, IdFacts DEF Throw
    <2>. QED  BY <1>3, <2>1, <2>2, <2>3, <2>4 DEF ExecutorStep
  <1>4. ASSUME NEW k \in Steps, UnwrapStep(k)
        PROVE  IndInv'
    BY <1>4, PushStep, CallPushedStep, PopStep, SettleStep DEF UnwrapStep
  <1>5. CASE Break
    BY <1>5, BreakStep
  <1>6. ASSUME NEW v \in {"value", "error"}, SourceResolves(v)
        PROVE  IndInv'
    <2>1. 0 \notin Steps
      BY DEF Steps
    <2>. QED  BY <1>6, <2>1, EndStep, IdFacts DEF SourceResolves
  <1>7. ASSUME NEW v \in {"value", "error"}, NEW k \in Steps, InnerEnds(k, v)
        PROVE  IndInv'
    BY <1>7, InnerEndsStep
  <1>8. ASSUME NEW c \in Cancelers, Ask(c) \/ CancelStep(c)
        PROVE  IndInv'
    BY <1>8, AskStep, RequestStep, CallHitStep DEF CancelStep
  <1>. QED  BY <1>1, <1>2, <1>3, <1>4, <1>5, <1>6, <1>7, <1>8 DEF Next, Step, Finished

\* The strengthening of the invariants that follow holds of every execution.
THEOREM Invariance == SafeSpec => []IndInv
  BY InitInv, StepInv, PTL DEF SafeSpec

\* Every variable of a chain has its type.
THEOREM TypeCorrect == SafeSpec => []TypeOK
  <1>1. IndInv => TypeOK
    BY DEF IndInv
  <1>. QED  BY <1>1, Invariance, PTL

\* Pops by position remove the canceler of the step that pops: while an unwrap() has
\* its canceler on the token that the whole chain shares, it is the one on the top.
THEOREM Nesting == SafeSpec => []UnwrapsNest
  <1>1. IndInv => UnwrapsNest
    <2>. SUFFICES ASSUME IndInv, NEW k \in own, phase[k] \in {"pushed", "inner"}
                  PROVE  Top(tokens[linkedTo[k]]) = Names[k]
      BY DEF UnwrapsNest
    <2>1. tokens[linkedTo[k]].callbacks = <<Names[k]>>
      BY LinkedToken
    <2>. QED  BY <2>1 DEF Top, Depth
  <1>. QED  BY <1>1, Invariance, PTL

\* No request on the token of a chain is lost on the inner future that a step waits
\* for, whether it came before the canceler was pushed, during the push or after.
THEOREM Hearing == SafeSpec => []InnerHears
  <1>1. IndInv => InnerHears
    BY DEF IndInv
  <1>. QED  BY <1>1, Invariance, PTL

\* break_cancelation_chain() keeps the requests before it, on the broken future too,
\* from what comes after it, when the user breaks the last future of the chain.
THEOREM Isolation == SafeSpec => []BreakIsolates
  <1>1. IndInv => BreakIsolates
    <2>. SUFFICES ASSUME IndInv, NEW r \in requests, NEW b \in broken, NEW k \in Steps,
                         r[1] <= b, r[2] # <<b, "break">>, b < k
                  PROVE  r[2] # linkedTo[k] /\ r[2] # checks[k]
      BY DEF BreakIsolates
    <2>1. /\ r[1] \in Nat /\ r[2] \in TokenIds /\ r[2][1] \in Nat /\ b \in Nat
      BY IdFacts DEF IndInv, TypeOK, Futures
    <2>2. r[2][1] <= r[1]
      BY DEF IndInv, BreakInv
    <2>3. \A t \in {checks[k], linkedTo[k]} : t = Null \/ After(b, t)
      BY DEF IndInv, BreakInv
    <2>. QED  BY <2>1, <2>2, <2>3, IdFacts DEF After
  <1>. QED  BY <1>1, Invariance, PTL

\* There is one way for the callback of a step to be found due.
LEMMA OnlyCheck ==
  ASSUME IndInv, [Next]_vars, NEW j \in Steps, phase[j] = "posted", phase'[j] = "checked"
  PROVE  Check(j)
  <1>. USE DEF IndInv
  <1>1. \A k, v : Resolve(k, v) => phase'[j] # "checked"
    BY DEF Resolve
  <1>2. ASSUME NEW k \in Steps, Goto(k, "checked") PROVE k = j
    BY <1>2 DEF Goto, TypeOK
  <1>3. ASSUME NEW k \in Steps, NEW p, Goto(k, p), p # "checked" PROVE FALSE
    BY <1>3 DEF Goto, TypeOK
  <1>4. phase' # phase
    OBVIOUS
  <1>5. ASSUME NEW k \in Steps, ExecutorStep(k) PROVE Check(j)
    <2>1. CASE Check(k)  BY <1>2, <2>1 DEF Check
    <2>6. CASE Call(k)  BY <1>3, <2>6 DEF Call
    <2>2. CASE Abort(k)  BY <1>4, <2>2 DEF Abort, chainVars
    <2>3. CASE Skip(k)  BY <1>1, <2>3 DEF Skip
    <2>4. CASE Throw(k)  BY <1>1, <2>4 DEF Throw
    <2>5. CASE GetToken(k)  BY <1>3, <2>5 DEF GetToken
    <2>. QED  BY <1>5, <2>1, <2>2, <2>3, <2>4, <2>5, <2>6 DEF ExecutorStep
  <1>6. ASSUME NEW k \in Steps, UnwrapStep(k) PROVE FALSE
    <2>1. CASE Push(k)  BY <1>3, <2>1 DEF Push
    <2>2. CASE CallPushed(k)  BY <1>3, <2>2 DEF CallPushed
    <2>3. CASE Pop(k)  BY <1>3, <2>3 DEF Pop
    <2>4. CASE Settle(k)  BY <1>1, <2>4 DEF Settle
    <2>. QED  BY <1>6, <2>1, <2>2, <2>3, <2>4 DEF UnwrapStep
  <1>7. ASSUME NEW k \in Steps, Attach(k) PROVE FALSE
    BY <1>3, <1>7 DEF Attach
  <1>8. ASSUME NEW k \in Steps, Return(k) PROVE FALSE
    BY <1>4, <1>8 DEF Return
  <1>9. ~Break
    BY <1>4 DEF Break, chainVars
  <1>10. \A v : ~SourceResolves(v)
    BY <1>1 DEF SourceResolves
  <1>11. \A k, v : ~InnerEnds(k, v)
    BY <1>4 DEF InnerEnds
  <1>12. \A c : ~Ask(c) /\ ~CancelStep(c)
    BY <1>4 DEF Ask, CancelStep, Request, CallHit, chainVars
  <1>13. ~UNCHANGED vars
    BY <1>4 DEF vars, chainVars
  <1>. QED  BY <1>5, <1>6, <1>7, <1>8, <1>9, <1>10, <1>11, <1>12, <1>13
            DEF Next, Step, Finished

\* Once request_cancel() on a future returned, no and_then() that leads to it finds its
\* callback due, unless the chain is broken in between or began without a token.
THEOREM CancelFirst == SafeSpec => NoCallbackDueAfterCancel
  <1>1. IndInv /\ [Next]_vars =>
          [\A j \in Steps :
             phase[j] = "posted" /\ phase'[j] = "checked" /\ checks[j] # Null =>
               ~\E r \in requests : r[1] >= j /\ Unbroken(j, r[1])]_vars
    <2>. SUFFICES ASSUME IndInv, [Next]_vars, NEW j \in Steps,
                         phase[j] = "posted", phase'[j] = "checked", checks[j] # Null,
                         NEW r \in requests, r[1] >= j, Unbroken(j, r[1])
                  PROVE  FALSE
      OBVIOUS
    <2>1. Check(j)
      BY OnlyCheck
    <2>2. ~Canceled(checks[j])
      BY <2>1 DEF Check, Due
    <2>3. j <= r[1]
      BY DEF IndInv, TypeOK, Steps, Futures
    <2>4. tokens[checks[j]].requested
      BY <2>3 DEF IndInv, CancelInv
    <2>. QED  BY <2>2, <2>4 DEF Canceled
  <1>. QED  BY <1>1, Invariance, PTL DEF SafeSpec, NoCallbackDueAfterCancel
================================================================================
