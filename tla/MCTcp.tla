------------------------------- MODULE MCTcp -------------------------------
(* Model-checking instances of TcpTransport: calls as the collectives and  *)
(* groups make them, with messages longer than the kernel's buffers.       *)
EXTENDS TcpTransport, TLC

CONSTANT N  \* number of ranks

Ranks == 0 .. N - 1

None == [p \in Ranks |-> 0]
To(p, n) == p :> n @@ None

\* A step of a ring: n bytes to the next rank and from the one before.
RingStep(r, n) == [op |-> "sendRecv", out |-> To((r + 1) % N, n),
                   in |-> To((r - 1) % N, n)]

\* Everyone exchanges with everyone, in one group.
Exchange(r) == [op |-> "batch", out |-> [p \in Ranks |-> IF p = r THEN 0 ELSE 1],
                in |-> [p \in Ranks |-> IF p = r THEN 0 ELSE 1]]

Rings == [r \in Ranks |-> <<RingStep(r, 2), Exchange(r)>>]

\* Rank 0 sends to rank 1, then all exchange.
Chain ==
  [r \in Ranks |->
     (CASE r = 0 -> <<[op |-> "send", out |-> To(1, 2), in |-> None]>>
        [] r = 1 -> <<[op |-> "recv", out |-> None, in |-> To(0, 2)]>>
        [] OTHER -> <<>>) \o <<Exchange(r)>>]

\* Ranks 0 and 1 exchange two bytes, in a group.
Pair ==
  [r \in Ranks |->
     IF r = 2 THEN <<>>
     ELSE <<[op |-> "batch", out |-> To(1 - r, 2), in |-> To(1 - r, 2)]>>]

OneRing == [r \in Ranks |-> <<RingStep(r, 2)>>]

\* Each program with what may go wrong while it runs.
CheckedFaults ==
  Rings :> {}
    @@ Chain :> ({"timeout"} \X Ranks) \cup {<<"vanish", 1>>, <<"exit", 0>>}
    @@ OneRing :> {<<"abort", 0>>, <<"vanish", 2>>}
    @@ Pair :> {<<"abort", 0>>, <<"vanish", 1>>}
CheckedPrograms == DOMAIN CheckedFaults

============================================================================
