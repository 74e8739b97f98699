-------------------------------- MODULE OneShot --------------------------------
(***************************************************************************)
(* What a promise / future pair of tconcurrent promises to its users,      *)
(* whatever the threads do: one result, given once, by an owner or - when  *)
(* every owner is gone - by the library itself (broken_promise); and every *)
(* continuation attached to the future delivered exactly once, after the   *)
(* result.  SharedState is the implementation.                             *)
(***************************************************************************)
EXTENDS Naturals

CONSTANTS Promises,   \* the promise_ptr objects that may own the shared state
          Conts,      \* the continuations that may be attached with then()
          Outcomes    \* what an owner can set

VARIABLES owners,     \* the promises that own the shared state
          result,     \* "none", or the result
          registered, \* the continuations attached so far
          delivered   \* how many times each continuation was handed over

vars == <<owners, result, registered, delivered>>

Init == /\ \E p \in Promises : owners = {p}
        /\ result = "none"
        /\ registered = {}
        /\ delivered = [c \in Conts |-> 0]

\* An ownership is only ever shared by somebody who has it: a state without
\* owners never gets one again.
Share(p) == /\ owners # {}
            /\ p \notin owners
            /\ owners' = owners \cup {p}
            /\ UNCHANGED <<result, registered, delivered>>

Disown(p) == /\ p \in owners
             /\ owners' = owners \ {p}
             /\ UNCHANGED <<result, registered, delivered>>

Fulfil(v) == /\ result = "none"
             /\ owners # {}
             /\ result' = v
             /\ UNCHANGED <<owners, registered, delivered>>

Abandon == /\ result = "none"
           /\ owners = {}
           /\ result' = "broken"
           /\ UNCHANGED <<owners, registered, delivered>>

Register(c) == /\ c \notin registered
               /\ registered' = registered \cup {c}
               /\ UNCHANGED <<owners, result, delivered>>

Deliver(c) == /\ c \in registered
              /\ result # "none"
              /\ delivered[c] = 0
              /\ delivered' = [delivered EXCEPT ![c] = 1]
              /\ UNCHANGED <<owners, result, registered>>

Next == \/ \E p \in Promises : Share(p) \/ Disown(p)
        \/ \E v \in Outcomes : Fulfil(v)
        \/ Abandon
        \/ \E c \in Conts : Register(c) \/ Deliver(c)

SafeSpec == Init /\ [][Next]_vars

Spec == SafeSpec /\ WF_vars(Abandon) /\ \A c \in Conts : WF_vars(Deliver(c))
================================================================================
