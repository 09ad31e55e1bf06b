--------------------------- MODULE MCCollectives ---------------------------
(* Model-checking instances of Collectives: every algorithm, from the one  *)
(* rank that has nobody to talk to up to the first number of ranks with    *)
(* more than one step of each kind, in and out of place.                   *)
EXTENDS Collectives

Reductions == {"sum", "avg", "premul"}

\* n elements fill the chunks of the ring, n - 1 leave the last one empty.
AllReduces(ns, smalls, ops, places) ==
  {Op("allReduce", n, small, op, 0, ip, n - short) :
     n \in ns, small \in smalls, op \in ops, ip \in places,
     short \in {0, 1}}

ReduceScatters(ns, places) ==
  {Op("reduceScatter", n, FALSE, op, 0, ip, 1) :
     n \in ns, op \in Reductions, ip \in places}

Reduces(ns) ==
  {Op("reduce", n, FALSE, op, n - 1, ip, 2) :
     n \in ns, op \in Reductions, ip \in BOOLEAN}

\* No receive of a bounced buffer is posted ahead while another is waited for.
Stageable(op) ==
  \/ op.kind \notin {"allGather", "allReduce"} \/ op.n <= 2
  \/ op.kind = "allReduce" /\ op.small /\ IsPow2(op.n)

\* The largest instances, which pre-post the most, run over verbs only.
CasesOf(ops) ==
  LET big == {op \in ops : op.kind = "allReduce" /\ op.n > 3} IN
  ops \X {"verbs"} \cup (ops \ big) \X {"tcp"}
  \cup {op \in ops \ big : Stageable(op)} \X {"staged"}

ReducingOps ==
  {op \in AllReduces({2, 3}, BOOLEAN, Reductions, BOOLEAN)
        \cup AllReduces({4}, BOOLEAN, {"avg"}, {TRUE})
        \cup AllReduces({5}, {TRUE}, {"premul"}, {FALSE}) :
     op.small \/ op.n = 4 => op.size = op.n - 1}
  \cup ReduceScatters({1, 2, 3}, BOOLEAN)
  \cup ReduceScatters({4}, {TRUE})
  \cup Reduces({1, 2, 3, 4})

AllGathers(ns, smalls, places) ==
  {Op("allGather", n, small, "sum", 0, ip, 1) :
     n \in ns, small \in smalls, ip \in places}

Rooted(ns, pieces) ==
  {Op(kind, n, FALSE, "sum", n - 1, ip, pieces) :
     kind \in {"broadcast", "gather", "scatter"}, n \in ns, ip \in BOOLEAN}

AllToAlls(ns) ==
  {Op(kind, n, FALSE, "sum", 0, FALSE, 1) :
     kind \in {"allToAll", "allToAllv"}, n \in ns}

MovingOps ==
  AllGathers({1, 2, 3}, BOOLEAN, BOOLEAN)
  \cup AllGathers({4}, BOOLEAN, {FALSE})
  \cup AllGathers({5}, {TRUE}, {TRUE})
  \cup Rooted({1, 2, 3, 4}, 3)
  \cup AllToAlls({1, 2, 3, 4})

CheckedCases == CasesOf(ReducingOps) \cup CasesOf(MovingOps)
StagedCases == AllGathers({3}, {FALSE}, {FALSE}) \X {"staged"}

============================================================================
