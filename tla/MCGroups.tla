------------------------------ MODULE MCGroups ------------------------------
(* Model-checking instance of Groups.                                      *)
EXTENDS Groups, TLC

CONSTANTS c1, c2
TwoComms == {c1, c2}
============================================================================
