------------------------------ MODULE Filters ------------------------------
(***************************************************************************)
(* What a loop over a list keeps: the elements of s that are in A, in      *)
(* their order.                                                            *)
(***************************************************************************)
EXTENDS Integers, Sequences

Filter(s, A) ==
  LET kept[i \in 0 .. Len(s)] ==
        IF i = 0 THEN <<>>
        ELSE IF s[i] \in A THEN Append(kept[i - 1], s[i]) ELSE kept[i - 1]
  IN kept[Len(s)]

============================================================================
