------------------------------ MODULE MCVerbs ------------------------------
(* Model-checking instances of VerbsTransport: the transport calls of the  *)
(* collectives of module Schedules, one WR per block.                      *)
EXTENDS PostingDiscipline, VerbsImplements, TLC

CONSTANT N  \* number of ranks

S == INSTANCE Schedules

Ranks == 0 .. N - 1

BeginCall == [op |-> "begin", to |-> 0, s |-> 0, from |-> 0, r |-> 0]

CallOf(i, segs) == [op |-> i.op, to |-> i.to, s |-> segs * Len(i.src),
                    from |-> i.from, r |-> segs * Len(i.dst)]

\* A collective as the transport sees it, when a block takes segs segments.
Segmented(prog, segs) ==
  LET IsCall(i) == i.op \in {"post", "xfer"}
      tr == SelectSeq(prog, IsCall)
  IN <<BeginCall>> \o [k \in DOMAIN tr |-> CallOf(tr[k], segs)]

CallsOf(prog) == Segmented(prog, 1)

\* All chunks have a block; or the last is empty, as makeChunks leaves it for
\* n - 1 elements.
Full(n) == [i \in 0 .. n - 1 |-> 1]
Ragged(n) == [i \in 0 .. n - 1 |-> S!makeChunks(n - 1, n, i)]

\* A program for all ranks; those prog says nothing of make no call.
ForAll(prog) == prog @@ [r \in Ranks |-> <<>>]

RingAllGather ==
  ForAll([r \in Ranks |-> CallsOf(S!ringAllGather(N, r, Full(N), 0))])

RaggedAllGather ==
  ForAll([r \in Ranks |-> CallsOf(S!ringAllGather(N, r, Ragged(N), 0))])

\* All-gather of two-segment messages among the first two ranks.
PairAllGather ==
  ForAll([r \in {0, 1} |-> Segmented(S!ringAllGather(2, r, Full(2), 0), 2)])

\* Two operations in a row: all-reduce, then all-gather.
RingTwice ==
  ForAll([r \in Ranks |->
            CallsOf(S!ringReduceScatter(N, r, Ragged(N))
                    \o S!ringAllGather(N, r, Ragged(N), 1))
            \o CallsOf(S!ringAllGather(N, r, Ragged(N), 0))])

BruckAllGather == ForAll([r \in Ranks |-> CallsOf(S!bruckAllGather(N, r))])

Pow2ElimAllReduce ==
  ForAll([r \in Ranks |-> CallsOf(S!pow2ElimAllReduce(N, r))])

\* The FIFOs of a program, call by call.
FifoOf(prog) ==
  [r \in Ranks |->
     LET fifos[i \in 1 .. Len(prog[r]) + 1] ==
           [p \in Ranks |-> IF i = 1 THEN <<>>
                            ELSE AfterCall(fifos[i - 1][p], prog[r][i - 1], p)]
     IN fifos]

\* The hypothesis of the theorems of VerbsProofs is one the ring and
\* elimination collectives meet.  bruckAllGather does not, for some N.
ASSUME RingsFollow ==
  \A prog \in {PairAllGather, RingTwice, RingAllGather, RaggedAllGather,
               Pow2ElimAllReduce} :
    Follows(prog, FifoOf(prog))

\* Each operation with what may go wrong while it runs.
CheckedFaults ==
  RingTwice :> {}
    @@ RaggedAllGather :> {<<"crash", 0>>} \cup ({"timeout"} \X Ranks)
    @@ PairAllGather :> {<<"abort", 0>>, <<"asyncFatal", 0>>, <<"post", 0>>,
                        <<"post", 1>>, <<"crash", 1>>}
CheckedPrograms == DOMAIN CheckedFaults

BruckPrograms == {BruckAllGather}
BruckFaults == BruckAllGather :> {}

GatherPrograms == {RingAllGather}
GatherFaults == RingAllGather :> ({"abort"} \X Ranks)

============================================================================
