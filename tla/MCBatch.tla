------------------------------ MODULE MCBatch -------------------------------
(* Model-checking instances of VerbsBatch: groups of sends and receives    *)
(* among three ranks whose queues hold two work requests.                  *)
EXTENDS VerbsBatch, TLC

Ranks == 0 .. 2

Send(p, n) == [op |-> "xfer", to |-> p, s |-> n, from |-> p, r |-> 0]
Recv(p, n) == [op |-> "xfer", to |-> p, s |-> 0, from |-> p, r |-> n]

ForAll(prog) == prog @@ [r \in Ranks |-> <<>>]

\* Three exchanges of two ranks, pair by pair: two waves.
Exchange ==
  ForAll([r \in {0, 1} |->
    LET p == 1 - r IN
    <<Send(p, 1), Recv(p, 1), Recv(p, 1), Send(p, 1), Send(p, 1), Recv(p, 1)>>])

\* Two waves again: a message of two segments, one of none and one of one.
Segments ==
  ForAll([r \in {0, 1} |->
    LET p == 1 - r IN
    <<Send(p, 2), Recv(p, 2), Send(p, 0), Recv(p, 0), Recv(p, 1), Send(p, 1)>>])

\* The first rank with the two others: one wave, two peers.
Star ==
  (0 :> <<Send(1, 1), Send(2, 1), Recv(1, 1), Recv(2, 1)>>)
    @@ [r \in {1, 2} |-> <<Send(0, 1), Recv(0, 1)>>]

\* All sends first, then all receives, and more of them than a queue holds.
SendsFirst ==
  ForAll([r \in {0, 1} |->
    LET p == 1 - r IN
    <<Send(p, 1), Send(p, 1), Send(p, 1), Recv(p, 1), Recv(p, 1), Recv(p, 1)>>])

\* An exchange the other rank takes no part in.
Alone == ForAll(0 :> <<Send(1, 1), Recv(1, 1)>>)

\* The waves of the first three pair; those of SendsFirst do not.
ASSUME PairedPrograms ==
  \A prog \in {Exchange, Segments, Star} : WavesPair(prog)

CheckedFaults ==
  Star :> {} @@ Exchange :> {}
    @@ Segments :> {<<"asyncFatal", 1>>, <<"post", 0>>, <<"crash", 1>>}
    @@ Alone :> {<<"abort", 0>>, <<"asyncFatal", 0>>}
    @@ SendsFirst :> ({"timeout"} \X Ranks) \cup {<<"crash", 0>>}
CheckedPrograms == DOMAIN CheckedFaults

SendsFirstFaults == SendsFirst :> {}
SendsFirstPrograms == {SendsFirst}
============================================================================
