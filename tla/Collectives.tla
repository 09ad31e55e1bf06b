----------------------------- MODULE Collectives -----------------------------
(***************************************************************************)
(* The collectives of src/core/collectives.cc run by all the ranks of a    *)
(* communicator over what src/transport/transport.h promises: messages     *)
(* between two ranks arrive in the order sent, a send returns when its     *)
(* buffer may be reused, a receive when its data is there.  The programs   *)
(* are those of module Schedules.                                          *)
(*                                                                         *)
(* The contents of a block say where they come from.  A value is the tree  *)
(* of the reductions that made it, written as the family of the leaf sets  *)
(* of its nodes, so that a op b and b op a are one value and (a op b) op c *)
(* and a op (b op c) are two.  A leaf is <<rank, block, times it was       *)
(* multiplied by the PreMulSum scalar>>.                                   *)
(***************************************************************************)
EXTENDS Integers, Sequences, FiniteSets, Schedules

CONSTANT Cases  \* <<operation (see Op), transport>>; a transport is "verbs",
                \* "staged" (verbs through bounce buffers) or "tcp"

\* An operation on n ranks; the fields it has no use for are constant.
Op(kind, n, small, op, root, inPlace, size) ==
  [kind |-> kind, n |-> n, small |-> small, op |-> op, root |-> root,
   inPlace |-> inPlace, size |-> size]

VARIABLES
  o,         \* the operation
  transport, \* what it runs over
  prog,      \* the program of each rank
  pc,        \* the next or current instruction
  sending,   \* the send of the current call: "none", "posted", "done"
  recvs,     \* per peer, the receives posted and not yet filled
  ahead,     \* per peer, how many of the receives posted belong to no call yet
  filled,    \* per peer, receives filled whose call has not returned
  wire,      \* per peer, payloads sent to this rank and not yet received
  mem,       \* the contents of each block
  staging,   \* its bounce buffer, where the RDMA device cannot reach it
  pendingCopyback_ \* the blocks to copy back from there

bounce == <<staging, pendingCopyback_>>
vars == <<o, transport, prog, pc, sending, recvs, ahead, filled, wire, mem,
          bounce>>

----------------------------------------------------------------------------
(* Values.                                                                 *)

Nothing == [tree |-> {}, avg |-> 0]

Leaf(r, b) == [tree |-> {{<<r, b, 0>>}}, avg |-> 0]

Leaves(v) == UNION v.tree

\* v op w.  Two operands with a common leaf count a contribution twice: the
\* empty set marks the tree.
Combine(v, w) ==
  [tree |-> v.tree \cup w.tree \cup {Leaves(v) \cup Leaves(w)}
            \cup (IF Leaves(v) \cap Leaves(w) = {} THEN {} ELSE {{}}),
   avg |-> v.avg + w.avg]

Scaled(v) ==
  [v EXCEPT !.tree = {{<<x[1], x[2], x[3] + 1>> : x \in s} : s \in v.tree}]

\* What a local operation leaves in a block holding d, given s.
Apply(op, d, s) ==
  CASE op = "copy"         -> s
    [] op = "reduce"       -> Combine(d, s)
    [] op = "scale"        -> Scaled(d)
    [] op = "scaleCopy"    -> Scaled(s)
    [] op = "scaledReduce" -> Combine(d, Scaled(s))
    [] op = "average"      -> [d EXCEPT !.avg = @ + 1]

\* The buffers of the caller are dmabufs the device does not support
\* (regDmaBuf); the scratch is ordinary memory.
Bounced(l) == transport = "staged" /\ l[1] # "tmp"

\* m with the values of payload at the blocks of dst in where.
Store(m, dst, payload, where) ==
  [l \in DOMAIN m |-> IF l \in where /\ \E k \in DOMAIN dst : dst[k] = l
                      THEN payload[CHOOSE k \in DOMAIN dst : dst[k] = l]
                      ELSE m[l]]

\* What the adapter of rank r reads.
Load(r, src) == [k \in DOMAIN src |-> IF Bounced(src[k]) THEN staging[r][src[k]]
                                      ELSE mem[r][src[k]]]

----------------------------------------------------------------------------
(* Inputs.                                                                 *)

Rank == 0 .. o.n - 1

\* Which messages an all-to-all carries: all, or none to oneself and none
\* from rank 0 to the last.
Sent(op) ==
  {pq \in (0 .. op.n - 1) \X (0 .. op.n - 1) :
     op.kind = "allToAll" \/ (pq[1] # pq[2] /\ pq # <<0, op.n - 1>>)}

Program(op, r) ==
  CASE op.kind = "allGather"  -> doAllGather(op.n, r, op.small, op.inPlace)
    [] op.kind = "allReduce"  ->
         doAllReduce(op.n, r, op.small, op.op, op.inPlace, op.size)
    [] op.kind = "reduceScatter" ->
         doReduceScatter(op.n, r, op.op, op.inPlace)
    [] op.kind = "reduce"     ->
         doReduce(op.n, r, op.op, op.root, op.inPlace /\ r = op.root, op.size)
    [] op.kind = "broadcast"  ->
         doBroadcast(op.n, r, op.root, op.inPlace, op.size)
    [] op.kind = "gather"     -> doGather(op.n, r, op.root, op.inPlace)
    [] op.kind = "scatter"    -> doScatter(op.n, r, op.root, op.inPlace)
    [] op.kind \in {"allToAll", "allToAllv"} -> doAllToAllv(op.n, r, Sent(op))

Width(op) == IF op.size > op.n THEN op.size ELSE op.n

Locations(op) == {"in", "out", "tmp"} \X (0 .. Width(op))

\* Where rank r's contribution is when the operation is in place: the place
\* include/vccl.h names.  <<location, block of the contribution>>.
InPlaceInput(op, r) ==
  CASE op.kind = "allGather" -> {<<Out(r), 0>>}
    [] op.kind = "gather" /\ r = op.root -> {<<Out(r), 0>>}
    [] op.kind \in {"allReduce", "broadcast"} ->
         {<<Out(i), i>> : i \in 0 .. Width(op) - 1}
    [] OTHER -> {}

Input(op, r) ==
  LET place == IF op.inPlace THEN InPlaceInput(op, r) ELSE {} IN
  [l \in Locations(op) |->
     IF \E x \in place : x[1] = l
     THEN Leaf(r, (CHOOSE x \in place : x[1] = l)[2])
     ELSE IF l[1] = "in" THEN Leaf(r, l[2]) ELSE Nothing]

PerPeer(n, v) == [r \in 0 .. n - 1 |-> [p \in 0 .. n - 1 |-> v]]

Init ==
  /\ \E x \in Cases : o = x[1] /\ transport = x[2]
  /\ prog = [r \in 0 .. o.n - 1 |-> Program(o, r)]
  /\ pc = [r \in 0 .. o.n - 1 |-> 1]
  /\ sending = [r \in 0 .. o.n - 1 |-> "none"]
  /\ recvs = PerPeer(o.n, <<>>)
  /\ ahead = PerPeer(o.n, 0)
  /\ filled = PerPeer(o.n, 0)
  /\ wire = PerPeer(o.n, <<>>)
  /\ mem = [r \in 0 .. o.n - 1 |-> Input(o, r)]
  /\ staging = [r \in 0 .. o.n - 1 |-> [l \in Locations(o) |-> Nothing]]
  /\ pendingCopyback_ = [r \in 0 .. o.n - 1 |-> {}]

----------------------------------------------------------------------------
(* A rank.                                                                 *)

Returned(r) == pc[r] > Len(prog[r])

Cur(r) == prog[r][pc[r]]

At(r, ops) == ~Returned(r) /\ Cur(r).op \in ops

Advance(r) == pc' = [pc EXCEPT ![r] = @ + 1]

Compute(r) ==
  /\ At(r, {"copy", "reduce", "scale", "scaleCopy", "scaledReduce", "average"})
  /\ LET c == Cur(r)
         result == [k \in DOMAIN c.dst |->
                      Apply(c.op, mem[r][c.dst[k]], mem[r][c.src[k]])]
     IN mem' = [mem EXCEPT ![r] = Store(@, c.dst, result, DOMAIN @)]
  /\ Advance(r)
  /\ UNCHANGED <<o, transport, prog, sending, recvs, ahead, filled, wire,
                 bounce>>

\* postRecv of the current receive.
postRecv(r) ==
  LET c == Cur(r) IN
  /\ recvs' = [recvs EXCEPT ![r][c.from] = Append(@, c.dst)]
  /\ pendingCopyback_' = [pendingCopyback_ EXCEPT
                            ![r] = @ \cup {l \in ToSet(c.dst) : Bounced(l)}]

\* The copy to the bounce buffer in postSend.
Stage(r) ==
  LET src == Cur(r).src IN
  staging' = [staging EXCEPT
                ![r] = Store(@, src, [k \in DOMAIN src |-> mem[r][src[k]]],
                             {l \in ToSet(src) : Bounced(l)})]

\* postRecvs: a hint that only the RDMA transport takes.
postRecvs(r) ==
  /\ At(r, {"post"})
  /\ LET c == Cur(r) IN
     IF transport # "tcp" /\ c.dst # <<>>
     THEN /\ postRecv(r)
          /\ ahead' = [ahead EXCEPT ![r][c.from] = @ + 1]
     ELSE UNCHANGED <<recvs, pendingCopyback_, ahead>>
  /\ Advance(r)
  /\ UNCHANGED <<o, transport, prog, sending, filled, wire, mem, staging>>

\* sendRecv starts; it takes the oldest receive posted ahead for the peer or
\* posts its own.
Start(r) ==
  /\ At(r, {"xfer"}) /\ sending[r] = "none"
  /\ LET c == Cur(r) IN
     /\ sending' = [sending EXCEPT ![r] = IF c.src = <<>> THEN "done"
                                          ELSE "posted"]
     /\ Stage(r)
     /\ \/ c.dst = <<>> /\ UNCHANGED <<recvs, pendingCopyback_, ahead>>
        \/ /\ c.dst # <<>> /\ ahead[r][c.from] > 0
           /\ ahead' = [ahead EXCEPT ![r][c.from] = @ - 1]
           /\ UNCHANGED <<recvs, pendingCopyback_>>
        \/ /\ c.dst # <<>> /\ ahead[r][c.from] = 0
           /\ postRecv(r)
           /\ UNCHANGED ahead
  /\ UNCHANGED <<o, transport, prog, pc, filled, wire, mem>>

\* All that was received into the bounce buffer, or was to be, is copied out.
\* The temporary regions, which it also releases, have no state here.
drainCompleted(r) ==
  /\ mem' = [mem EXCEPT ![r] = [l \in DOMAIN @ |->
                                  IF l \in pendingCopyback_[r]
                                  THEN staging[r][l] ELSE @[l]]]
  /\ pendingCopyback_' = [pendingCopyback_ EXCEPT ![r] = {}]
  /\ UNCHANGED staging

\* sendRecv returns.
Return(r) ==
  /\ At(r, {"xfer"}) /\ sending[r] = "done"
  /\ LET c == Cur(r) IN
     \/ c.dst = <<>> /\ UNCHANGED filled
     \/ /\ c.dst # <<>> /\ filled[r][c.from] > 0
        /\ filled' = [filled EXCEPT ![r][c.from] = @ - 1]
  /\ sending' = [sending EXCEPT ![r] = "none"]
  /\ drainCompleted(r)
  /\ Advance(r)
  /\ UNCHANGED <<o, transport, prog, recvs, ahead, wire>>

----------------------------------------------------------------------------
(* The transport.                                                          *)

Posted(p, r) == sending[p] = "posted" /\ Cur(p).to = r

\* TCP: the kernel takes a message the peer has not asked for yet.
Buffer(p, r) ==
  /\ transport = "tcp" /\ Posted(p, r)
  /\ wire' = [wire EXCEPT ![r][p] = Append(@, Load(p, Cur(p).src))]
  /\ sending' = [sending EXCEPT ![p] = "done"]
  /\ UNCHANGED <<o, transport, prog, pc, recvs, ahead, filled, mem, bounce>>

\* A payload arrives in the oldest receive r has posted for p.
Land(p, r, payload) ==
  LET dst == Head(recvs[r][p])
      far == {l \in ToSet(dst) : Bounced(l)} IN
  /\ mem' = [mem EXCEPT ![r] = Store(@, dst, payload, ToSet(dst) \ far)]
  /\ staging' = [staging EXCEPT ![r] = Store(@, dst, payload, far)]
  /\ recvs' = [recvs EXCEPT ![r][p] = Tail(@)]
  /\ filled' = [filled EXCEPT ![r][p] = @ + 1]

\* The oldest message from p fills the oldest receive posted for it.  It is
\* read from p's memory only now unless it was buffered.
Deliver(p, r) ==
  /\ recvs[r][p] # <<>>
  /\ \/ /\ wire[r][p] # <<>>
        /\ Land(p, r, Head(wire[r][p]))
        /\ wire' = [wire EXCEPT ![r][p] = Tail(@)]
        /\ UNCHANGED sending
     \/ /\ wire[r][p] = <<>> /\ Posted(p, r)
        /\ Land(p, r, Load(p, Cur(p).src))
        /\ sending' = [sending EXCEPT ![p] = "done"]
        /\ UNCHANGED wire
  /\ UNCHANGED <<o, transport, prog, pc, ahead, pendingCopyback_>>

Step(r) == Compute(r) \/ postRecvs(r) \/ Start(r) \/ Return(r)

Next == \/ \E r \in Rank : Step(r)
        \/ \E p, r \in Rank : Buffer(p, r) \/ Deliver(p, r)

Spec == Init /\ [][Next]_vars

\* Ranks run and messages two ranks have agreed on are moved.  Nothing is
\* assumed of the kernel's buffers: Buffer may never happen.
FairSpec == /\ Spec
            /\ WF_vars(\E r \in Rank : Step(r))
            /\ WF_vars(\E p, r \in Rank : Deliver(p, r))

----------------------------------------------------------------------------
(* What the header promises.                                               *)

\* The contributions the result must be made of, each once, and how often
\* the sum must have been divided by the number of ranks.
Sum(op, b) ==
  [leaves |-> {<<p, b, IF op.op = "premul" THEN 1 ELSE 0>> :
                 p \in 0 .. op.n - 1},
   avg |-> IF op.op = "avg" /\ op.n > 1 THEN 1 ELSE 0]

From(p, b) == [leaves |-> {<<p, b, 0>>}, avg |-> 0]

\* The non-empty blocks of an all-reduce.
ReducedBlocks(op) ==
  IF op.small THEN {0}
  ELSE {i \in 0 .. op.n - 1 : makeChunks(op.size, op.n, i) > 0}

\* <<location, promised contents>> of rank r when the operation returns.
Promise(op, r) ==
  CASE op.kind = "allGather" -> {<<Out(i), From(i, 0)>> : i \in 0 .. op.n - 1}
    [] op.kind = "allReduce" -> {<<Out(i), Sum(op, i)>> : i \in ReducedBlocks(op)}
    [] op.kind = "reduceScatter" ->
         {<<IF op.inPlace THEN In(r) ELSE Out(0), Sum(op, r)>>}
    [] op.kind = "reduce" /\ r = op.root ->
         {<<IF op.inPlace THEN In(i) ELSE Out(i), Sum(op, i)>> :
            i \in 0 .. op.size - 1}
    [] op.kind = "broadcast" ->
         {<<Out(i), From(op.root, i)>> : i \in 0 .. op.size - 1}
    [] op.kind = "gather" /\ r = op.root ->
         {<<Out(i), From(i, 0)>> : i \in 0 .. op.n - 1}
    [] op.kind = "scatter" ->
         {<<IF op.inPlace /\ r = op.root THEN In(r) ELSE Out(0),
            From(op.root, r)>>}
    [] op.kind \in {"allToAll", "allToAllv"} ->
         {<<Out(p), From(p, r)>> : p \in {q \in 0 .. op.n - 1 : <<q, r>> \in Sent(op)}}
    [] OTHER -> {}

Holds(v, w) == Leaves(v) = w.leaves /\ {} \notin v.tree /\ v.avg = w.avg

----------------------------------------------------------------------------
(* Properties.                                                             *)

\* When a collective returns at a rank, its buffer holds what include/vccl.h
\* promises, every contribution once, and no later message disturbs it.
ResultRight ==
  \A r \in Rank : Returned(r) =>
    \A x \in Promise(o, r) : Holds(mem[r][x[1]], x[2])

\* An all-reduce reduces in one order for all: two ranks never end with
\* differently rounded sums.
SameEverywhere ==
  o.kind = "allReduce" =>
    \A p, q \in Rank : Returned(p) /\ Returned(q) =>
      \A b \in ReducedBlocks(o) : mem[p][Out(b)] = mem[q][Out(b)]

\* A message has the size of the receive it fills.
SizesAgree ==
  \A p, r \in Rank : recvs[r][p] # <<>> =>
    LET room == Len(Head(recvs[r][p])) IN
    IF wire[r][p] # <<>> THEN Len(Head(wire[r][p])) = room
    ELSE Posted(p, r) => Len(Cur(p).src) = room

\* The blocks rank r is reading or writing itself: the buffer of an open send
\* or the operands of a local operation.
Busy(r) ==
  IF Returned(r) \/ Cur(r).op = "post" THEN {}
  ELSE IF Cur(r).op = "xfer"
  THEN {l \in ToSet(Cur(r).src) : sending[r] = "posted"}
  ELSE ToSet(Cur(r).src) \cup ToSet(Cur(r).dst)

\* A message never lands in a block its receiver is using: a receive posted
\* ahead may name such a block, but its message is not under way yet.
NoRace ==
  \A p, r \in Rank :
    recvs[r][p] # <<>> /\ (wire[r][p] # <<>> \/ Posted(p, r)) =>
      ToSet(Head(recvs[r][p])) \cap Busy(r) = {}

\* An operation leaves the transport as it found it: no receive posted ahead
\* and no message is left for the next operation.
NothingLeft ==
  (\A r \in Rank : Returned(r)) =>
    \A p, r \in Rank : /\ recvs[r][p] = <<>> /\ wire[r][p] = <<>>
                       /\ ahead[r][p] = 0 /\ filled[r][p] = 0

\* Every rank's call returns, however long the ranks make each other wait.
AllReturn == <>(\A r \in Rank : Returned(r))

============================================================================
