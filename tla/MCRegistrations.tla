-------------------------- MODULE MCRegistrations --------------------------
(* Model-checking instances of Registrations: a block of two pages that    *)
(* collectives also use in part, one that may later be mapped over its     *)
(* first page, and another page.                                           *)
EXTENDS Registrations

ThreeBlocks == {<<0, 2>>, <<0, 1>>, <<2, 1>>}
ThreeRanges == {<<0, 2>>, <<0, 1>>, <<2, 1>>}
============================================================================
