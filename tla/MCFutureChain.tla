----------------------------- MODULE MCFutureChain -----------------------------
(***************************************************************************)
(* A chain of two steps.                                                    *)
(***************************************************************************)
EXTENDS FutureChain

\* The cancelers of the two inner futures.
TwoSteps == <<"first", "second">>
================================================================================
