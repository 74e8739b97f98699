----------------------------- MODULE MCPackagedTask -----------------------------
(* The instances of PackagedTask that TLC checks. *)
EXTENDS PackagedTask

\* async(): the task has a token of its own.
OwnToken == <<>>

\* package_cancelable() with a token that its caller pushed a callback on.
CallersToken == <<"outer">>
================================================================================
