---------------------------- MODULE MCBootstrap -----------------------------
(* Model-checking instance of Bootstrap: three ranks that may split into   *)
(* two groups, with equal keys in one of them, or into one in the reverse  *)
(* order that a rank stays out of.                                         *)
EXTENDS Bootstrap, TLC

Asks(r, color, key) == r :> [color |-> color, key |-> key]

CheckedSplits ==
  {Asks(0, 1, 0) @@ Asks(1, 0, 5) @@ Asks(2, 0, 5),
   Asks(0, 7, 1) @@ Asks(1, -1, 0) @@ Asks(2, 7, 0)}
============================================================================
