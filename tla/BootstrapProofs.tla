-------------------------- MODULE BootstrapProofs ---------------------------
(***************************************************************************)
(* The bootstrap connections of Bootstrap, for any number of ranks, of     *)
(* clients of other jobs, of crashes and of ways to split: the root's      *)
(* slots are right, all-gathers are never mixed, and two ranks that are    *)
(* done with the TCP mesh hold the two ends of one connection.             *)
(***************************************************************************)
EXTENDS Bootstrap, TLAPS

\* Zenon proves the leaves that name no prover.
USE Zenon

----------------------------------------------------------------------------
(* The invariant.  Each rank but the root has one connection to it, which  *)
(* holds at most one message in each direction.                            *)

Peer == 1 .. N - 1

boot(p) == <<p, 0, "boot">>
ToRoot(p) == wire[boot(p)][2]
ToRank(p) == wire[boot(p)][1]

Hello(p) == [job |-> "this", nranks |-> N, rank |-> p]

\* What all ranks publish in the k-th all-gather.
Full(k) == {<<q, k>> : q \in Rank}

\* The root has p's entry of its current all-gather.
Consumed(p) == <<p, round[0]>> \in buf

Stuck == {"failed", "crashed", "splitFailed"}
Early == {"connect", "greet", "reply"}
RootEarly == {"bind", "accept", "hello"}

\* Before the root has given p its slot.
Waits(p) ==
  /\ peerFds[p] = None /\ round[p] = 1 /\ round[0] = 1 /\ buf = {}
  /\ ToRank(p) \in {<<>>, <<0>>}
  /\ ToRoot(p) \in {<<>>, <<Hello(p)>>}
  /\ pc[p] \in Early \cup {"failed", "crashed"}
  /\ pc[p] \in {"connect", "greet"} => ToRoot(p) = <<>>
  /\ pc[p] = "connect" => ToRank(p) = <<>>

\* After: it has not read the answer, ...
Answered(p) ==
  /\ round[0] = 1 /\ round[p] = 1 /\ ~Consumed(p)
  /\ ToRoot(p) = <<>> /\ ToRank(p) = <<1>>
  /\ pc[p] \in {"reply"} \cup Stuck

\* ... or has not published its entry of round k, or has, and the root has not
\* read it, ...
Ahead(p, k) ==
  /\ round[p] = k /\ ToRank(p) = <<>>
  /\ \/ ToRoot(p) = <<>> /\ pc[p] \notin Early \cup {"table"}
     \/ ToRoot(p) = <<<<p, k>>>> /\ pc[p] \in {"table"} \cup Stuck

\* ... or the root has, ...
Read(p) ==
  /\ round[p] = round[0] /\ Consumed(p)
  /\ ToRoot(p) = <<>> /\ ToRank(p) = <<>>
  /\ pc[p] \in {"table"} \cup Stuck

\* ... or has sent the table of round k, and p has not taken it.
Sends(p, k) ==
  /\ round[p] = k
  /\ ToRoot(p) = <<>> /\ ToRank(p) = <<Full(k)>>
  /\ pc[p] \in {"table"} \cup Stuck

\* The root has sent p the table of its current all-gather.
Served(p) ==
  buf = Full(round[0]) /\ (Sends(p, round[0]) \/ Ahead(p, round[0] + 1))

Behind(p) == ~Consumed(p) /\ (Sends(p, round[0] - 1) \/ Ahead(p, round[0]))

Admitted(p) ==
  /\ peerFds[p] = boot(p)
  /\ Answered(p) \/ Behind(p) \/ Read(p) \/ Served(p)

\* Where the root is.
RootInv ==
  /\ pc[0] \notin RootEarly \cup Stuck => \A p \in Peer : Admitted(p)
  /\ pc[0] \in RootEarly => round[0] = 1 /\ buf = {}
  /\ pc[0] = "gather" =>
       /\ i[0] \in Peer
       /\ buf = {<<q, round[0]>> : q \in 0 .. i[0] - 1}
  /\ pc[0] = "scatter" =>
       /\ i[0] \in 1 .. N /\ buf = Full(round[0])
       /\ \A p \in Peer : IF p < i[0] THEN Served(p) ELSE Read(p)
  /\ pc[0] \notin {"gather", "scatter"} \cup Stuck =>
       \A q \in Rank : <<q, round[0]>> \notin buf

\* The connections the root has not answered.
Queue == backlog[<<0, "boot">>]

Queued(c) == \/ pc[0] = "hello" /\ cur[0] = c
             \/ \E j \in DOMAIN Queue : Queue[j] = c

QueueInv ==
  /\ \A j \in DOMAIN Queue : Queue[j] \in {boot(q) : q \in Client}
  /\ \A j, k \in DOMAIN Queue : j # k /\ Queue[j] = Queue[k] => Queue[j][1] >= N
  /\ pc[0] = "hello" =>
       /\ cur[0] \in {boot(q) : q \in Client}
       /\ \A j \in DOMAIN Queue : Queue[j] = cur[0] => cur[0][1] >= N
  /\ \A p \in Peer : Queued(boot(p)) =>
       peerFds[p] = None /\ ToRank(p) = <<>> /\ pc[p] # "connect"

\* Clients of other jobs.
OthersInv ==
  \A q \in Client \ Rank :
    ToRoot(q) \in {<<>>} \cup {<<hello>> : hello \in OtherHello}

\* The TCP mesh has connections of its own.
MeshInv ==
  /\ \A r \in Rank : pc[r] = "whois" => cur[r] \notin {boot(q) : q \in Client}
  /\ \A r \in Rank : \A j \in DOMAIN backlog[<<r, "data">>] :
       backlog[<<r, "data">>][j] \notin {boot(q) : q \in Client}

TableInv ==
  \A r \in Rank : /\ table[r] \in Seq(SUBSET (Rank \X Nat))
                  /\ Len(table[r]) = round[r] - 1
                  /\ \A k \in DOMAIN table[r] : table[r][k] = Full(k)

Types ==
  /\ i \in [Rank -> Nat] /\ round \in [Rank -> Nat \ {0}]
  /\ DOMAIN pc = Rank /\ DOMAIN cur = Rank
  /\ DOMAIN peerFds = Rank /\ DOMAIN table = Rank
  /\ DOMAIN wire = Conn /\ \A c \in Conn : DOMAIN wire[c] = 1 .. 2
  /\ backlog \in [Rank \X {"boot", "data"} -> Seq(Nat \X Nat \X {"boot", "data"})]

Slots == peerFds[0] = None /\ \A p \in Peer : Waits(p) \/ Admitted(p)

IInv == /\ Types /\ Slots /\ RootInv /\ QueueInv /\ OthersInv /\ MeshInv
        /\ TableInv

----------------------------------------------------------------------------
(* Numbers, and the wire.                                                  *)

LEMMA Numbers ==
  /\ 0 \in Rank /\ 0 \notin Peer /\ 0 \notin Client
  /\ Peer \subseteq Rank /\ Peer \subseteq Client /\ Rank = {0} \cup Peer
  /\ Client \cap Rank = Peer /\ Client \subseteq Nat /\ Rank \subseteq Nat
  /\ \A p \in Client : boot(p) \in Conn
BY SMT, SizeAssumption DEF Rank, Peer, Client, Conn, boot

\* Streams of one message.
LEMMA OneMessage ==
  ASSUME NEW m
  PROVE  /\ Append(<<>>, m) = <<m>> /\ Tail(<<m>>) = <<>> /\ <<m>>[1] = m
         /\ <<m>> # <<>>
BY SMT

\* The streams of the other boot connections, and all of them.
OtherBoots(p) ==
  \A q \in Client \ {p} : ToRoot(q)' = ToRoot(q) /\ ToRank(q)' = ToRank(q)
SameBoots ==
  \A q \in Client : ToRoot(q)' = ToRoot(q) /\ ToRank(q)' = ToRank(q)

\* Two conjuncts of Types.
BacklogTypes ==
  backlog \in [Rank \X {"boot", "data"} -> Seq(Nat \X Nat \X {"boot", "data"})]
WireTypes == DOMAIN wire = Conn /\ \A c \in Conn : DOMAIN wire[c] = 1 .. 2

\* What a send and a receive do to the boot connection of p.
LEMMA BootSent ==
  ASSUME Types, NEW p \in Client, NEW m, wire' = Sent(boot(p), p, m)
  PROVE  /\ WireTypes' /\ OtherBoots(p)
         /\ ToRoot(p)' = Append(ToRoot(p), m) /\ ToRank(p)' = ToRank(p)
<1>0. WireTypes
  BY DEF Types, WireTypes
<1>1. boot(p)[1] = p /\ boot(p) \in Conn /\ \A q \in Client : boot(q) \in Conn
  BY Numbers DEF boot
<1>2. wire' = [wire EXCEPT ![boot(p)][2] = Append(ToRoot(p), m)]
  BY <1>1 DEF Sent, ToRoot
<1>3. \A q \in Client \ {p} : boot(q) # boot(p)
  BY DEF boot
<1>4. /\ DOMAIN wire' = Conn /\ \A d \in Conn : DOMAIN wire'[d] = 1 .. 2
      /\ wire'[boot(p)][2] = Append(ToRoot(p), m)
      /\ \A d \in Conn, l \in 1 .. 2 :
           d # boot(p) \/ l # 2 => wire'[d][l] = wire[d][l]
  <2> DEFINE v == Append(ToRoot(p), m)
  <2>1. wire' = [wire EXCEPT ![boot(p)][2] = v]
    BY <1>2
  <2> HIDE DEF v
  <2>2. /\ DOMAIN wire' = Conn /\ \A d \in Conn : DOMAIN wire'[d] = 1 .. 2
        /\ wire'[boot(p)][2] = v
        /\ \A d \in Conn, l \in 1 .. 2 :
             d # boot(p) \/ l # 2 => wire'[d][l] = wire[d][l]
    BY SMT, <1>0, <1>1, <2>1 DEF WireTypes
  <2> QED
    BY <2>2 DEF v
<1>5. wire'[boot(p)][1] = wire[boot(p)][1]
  BY SMT, <1>1, <1>4
<1>6. \A q \in Client \ {p} : /\ wire'[boot(q)][1] = wire[boot(q)][1]
                             /\ wire'[boot(q)][2] = wire[boot(q)][2]
  BY SMT, <1>1, <1>3, <1>4
<1> QED
  BY <1>4, <1>5, <1>6 DEF OtherBoots, ToRoot, ToRank, WireTypes

LEMMA BootAnswered ==
  ASSUME Types, NEW p \in Client, NEW m, wire' = Sent(boot(p), 0, m)
  PROVE  /\ WireTypes' /\ OtherBoots(p)
         /\ ToRoot(p)' = ToRoot(p) /\ ToRank(p)' = Append(ToRank(p), m)
<1>0. WireTypes
  BY DEF Types, WireTypes
<1>1. boot(p)[1] # 0 /\ boot(p) \in Conn /\ \A q \in Client : boot(q) \in Conn
  BY Numbers DEF boot
<1>2. wire' = [wire EXCEPT ![boot(p)][1] = Append(ToRank(p), m)]
  BY <1>1 DEF Sent, ToRank
<1>3. \A q \in Client \ {p} : boot(q) # boot(p)
  BY DEF boot
<1>4. /\ DOMAIN wire' = Conn /\ \A d \in Conn : DOMAIN wire'[d] = 1 .. 2
      /\ wire'[boot(p)][1] = Append(ToRank(p), m)
      /\ \A d \in Conn, l \in 1 .. 2 :
           d # boot(p) \/ l # 1 => wire'[d][l] = wire[d][l]
  <2> DEFINE v == Append(ToRank(p), m)
  <2>1. wire' = [wire EXCEPT ![boot(p)][1] = v]
    BY <1>2
  <2> HIDE DEF v
  <2>2. /\ DOMAIN wire' = Conn /\ \A d \in Conn : DOMAIN wire'[d] = 1 .. 2
        /\ wire'[boot(p)][1] = v
        /\ \A d \in Conn, l \in 1 .. 2 :
             d # boot(p) \/ l # 1 => wire'[d][l] = wire[d][l]
    BY SMT, <1>0, <1>1, <2>1 DEF WireTypes
  <2> QED
    BY <2>2 DEF v
<1>5. wire'[boot(p)][2] = wire[boot(p)][2]
  BY SMT, <1>1, <1>4
<1>6. \A q \in Client \ {p} : /\ wire'[boot(q)][1] = wire[boot(q)][1]
                             /\ wire'[boot(q)][2] = wire[boot(q)][2]
  BY SMT, <1>1, <1>3, <1>4
<1> QED
  BY <1>4, <1>5, <1>6 DEF OtherBoots, ToRoot, ToRank, WireTypes

LEMMA BootRead ==
  ASSUME Types, NEW p \in Client, wire' = Taken(boot(p), 0)
  PROVE  /\ WireTypes' /\ OtherBoots(p)
         /\ ToRoot(p)' = Tail(ToRoot(p)) /\ ToRank(p)' = ToRank(p)
<1>0. WireTypes
  BY DEF Types, WireTypes
<1>1. boot(p)[1] # 0 /\ boot(p) \in Conn /\ \A q \in Client : boot(q) \in Conn
  BY Numbers DEF boot
<1>2. wire' = [wire EXCEPT ![boot(p)][2] = Tail(ToRoot(p))]
  BY <1>1 DEF Taken, ToRoot
<1>3. \A q \in Client \ {p} : boot(q) # boot(p)
  BY DEF boot
<1>4. /\ DOMAIN wire' = Conn /\ \A d \in Conn : DOMAIN wire'[d] = 1 .. 2
      /\ wire'[boot(p)][2] = Tail(ToRoot(p))
      /\ \A d \in Conn, l \in 1 .. 2 :
           d # boot(p) \/ l # 2 => wire'[d][l] = wire[d][l]
  <2> DEFINE v == Tail(ToRoot(p))
  <2>1. wire' = [wire EXCEPT ![boot(p)][2] = v]
    BY <1>2
  <2> HIDE DEF v
  <2>2. /\ DOMAIN wire' = Conn /\ \A d \in Conn : DOMAIN wire'[d] = 1 .. 2
        /\ wire'[boot(p)][2] = v
        /\ \A d \in Conn, l \in 1 .. 2 :
             d # boot(p) \/ l # 2 => wire'[d][l] = wire[d][l]
    BY SMT, <1>0, <1>1, <2>1 DEF WireTypes
  <2> QED
    BY <2>2 DEF v
<1>5. wire'[boot(p)][1] = wire[boot(p)][1]
  BY SMT, <1>1, <1>4
<1>6. \A q \in Client \ {p} : /\ wire'[boot(q)][1] = wire[boot(q)][1]
                             /\ wire'[boot(q)][2] = wire[boot(q)][2]
  BY SMT, <1>1, <1>3, <1>4
<1> QED
  BY <1>4, <1>5, <1>6 DEF OtherBoots, ToRoot, ToRank, WireTypes

LEMMA BootTaken ==
  ASSUME Types, NEW p \in Client, wire' = Taken(boot(p), p)
  PROVE  /\ WireTypes' /\ OtherBoots(p)
         /\ ToRoot(p)' = ToRoot(p) /\ ToRank(p)' = Tail(ToRank(p))
<1>0. WireTypes
  BY DEF Types, WireTypes
<1>1. boot(p)[1] = p /\ boot(p) \in Conn /\ \A q \in Client : boot(q) \in Conn
  BY Numbers DEF boot
<1>2. wire' = [wire EXCEPT ![boot(p)][1] = Tail(ToRank(p))]
  BY <1>1 DEF Taken, ToRank
<1>3. \A q \in Client \ {p} : boot(q) # boot(p)
  BY DEF boot
<1>4. /\ DOMAIN wire' = Conn /\ \A d \in Conn : DOMAIN wire'[d] = 1 .. 2
      /\ wire'[boot(p)][1] = Tail(ToRank(p))
      /\ \A d \in Conn, l \in 1 .. 2 :
           d # boot(p) \/ l # 1 => wire'[d][l] = wire[d][l]
  <2> DEFINE v == Tail(ToRank(p))
  <2>1. wire' = [wire EXCEPT ![boot(p)][1] = v]
    BY <1>2
  <2> HIDE DEF v
  <2>2. /\ DOMAIN wire' = Conn /\ \A d \in Conn : DOMAIN wire'[d] = 1 .. 2
        /\ wire'[boot(p)][1] = v
        /\ \A d \in Conn, l \in 1 .. 2 :
             d # boot(p) \/ l # 1 => wire'[d][l] = wire[d][l]
    BY SMT, <1>0, <1>1, <2>1 DEF WireTypes
  <2> QED
    BY <2>2 DEF v
<1>5. wire'[boot(p)][2] = wire[boot(p)][2]
  BY SMT, <1>1, <1>4
<1>6. \A q \in Client \ {p} : /\ wire'[boot(q)][1] = wire[boot(q)][1]
                             /\ wire'[boot(q)][2] = wire[boot(q)][2]
  BY SMT, <1>1, <1>3, <1>4
<1> QED
  BY <1>4, <1>5, <1>6 DEF OtherBoots, ToRoot, ToRank, WireTypes

\* Reading the Hello and answering it, in one step.
LEMMA BootAdmitted ==
  ASSUME Types, NEW p \in Client,
         wire' = [Taken(boot(p), 0) EXCEPT ![boot(p)][1] = Append(@, 1)]
  PROVE  /\ WireTypes' /\ OtherBoots(p)
         /\ ToRoot(p)' = Tail(ToRoot(p)) /\ ToRank(p)' = Append(ToRank(p), 1)
<1>1. boot(p)[1] # 0 /\ boot(p) \in Conn /\ \A q \in Client : boot(q) \in Conn
  BY Numbers DEF boot
<1>2. Taken(boot(p), 0) = [wire EXCEPT ![boot(p)][2] = Tail(ToRoot(p))]
  BY <1>1 DEF Taken, ToRoot
<1>3. \A q \in Client \ {p} : boot(q) # boot(p)
  BY DEF boot
<1>4. DOMAIN wire' = Conn /\ \A d \in Conn : DOMAIN wire'[d] = 1 .. 2
  BY <1>1, <1>2 DEF Types
<1>5. /\ wire'[boot(p)][2] = Tail(ToRoot(p))
      /\ wire'[boot(p)][1] = Append(wire[boot(p)][1], 1)
      /\ \A d \in Conn : d # boot(p) => wire'[d] = wire[d]
  <2> DEFINE w == Taken(boot(p), 0)
  <2>1. /\ DOMAIN w = Conn /\ DOMAIN w[boot(p)] = 1 .. 2
        /\ w[boot(p)][2] = Tail(ToRoot(p)) /\ w[boot(p)][1] = wire[boot(p)][1]
        /\ \A d \in Conn : d # boot(p) => w[d] = wire[d]
    BY SMT, <1>1, <1>2 DEF Types
  <2>2. wire' = [w EXCEPT ![boot(p)][1] = Append(@, 1)]
    OBVIOUS
  <2> HIDE DEF w
  <2> QED
    BY SMT, <1>1, <2>1, <2>2
<1> QED
  BY <1>1, <1>3, <1>4, <1>5 DEF OtherBoots, ToRoot, ToRank, WireTypes

----------------------------------------------------------------------------
(* Steps that do not touch the boot connections.                           *)

\* Where a rank is between two messages of the bootstrap.
Places == {"publish", "mesh", "introduce", "whois", "ready", "connectQp", "elect", "join",
           "split"}

\* A rank moves among these places, or stops.
CalmMove(r, place) ==
  /\ pc' = [pc EXCEPT ![r] = place]
  /\ \/ pc[r] \in Places /\ place \in Places
     \/ place \in {"failed", "crashed"}
     \/ place = "splitFailed" /\ pc[r] \in Places \cup {"table", "gather", "scatter"}

\* All that the slots of the root depend on, but pc.
SameSlot(p) ==
  /\ peerFds'[p] = peerFds[p] /\ ToRoot(p)' = ToRoot(p) /\ ToRank(p)' = ToRank(p)
  /\ round'[p] = round[p] /\ round'[0] = round[0] /\ buf' = buf

LEMMA SlotFrame ==
  ASSUME NEW p \in Peer, SameSlot(p), NEW r \in Rank, NEW place, Types,
         CalmMove(r, place) \/ pc'[p] = pc[p]
  PROVE  /\ Waits(p) => Waits(p)'
         /\ Answered(p) => Answered(p)'
         /\ Read(p) => Read(p)'
         /\ Served(p) => Served(p)'
         /\ Behind(p) => Behind(p)'
         /\ Admitted(p) => Admitted(p)'
<1>1. \/ pc'[p] = pc[p]
      \/ pc[p] \in Places /\ pc'[p] \in Places
      \/ pc'[p] \in {"failed", "crashed"}
      \/ pc'[p] = "splitFailed" /\ pc[p] \in Places \cup {"table", "gather", "scatter"}
  BY Numbers DEF CalmMove, Types
<1>2. Consumed(p)' = Consumed(p)
  BY DEF SameSlot, Consumed
<1>3. Waits(p) => Waits(p)'
  BY <1>1 DEF SameSlot, Waits, Early, Places
<1>4. Answered(p) => Answered(p)'
  BY <1>1, <1>2 DEF SameSlot, Answered, Stuck, Places
<1>5. Read(p) => Read(p)'
  BY <1>1, <1>2 DEF SameSlot, Read, Stuck, Places
<1>6. ASSUME NEW k PROVE Sends(p, k) => Sends(p, k)'
  BY <1>1 DEF SameSlot, Sends, Stuck, Places
<1>7. ASSUME NEW k PROVE Ahead(p, k) => Ahead(p, k)'
  BY <1>1 DEF SameSlot, Ahead, Stuck, Places, Early
<1>8. Served(p) => Served(p)'
  BY <1>6, <1>7 DEF SameSlot, Served
<1>9. Behind(p) => Behind(p)'
  BY <1>2, <1>6, <1>7 DEF SameSlot, Behind
<1> QED
  BY <1>3, <1>4, <1>5, <1>8, <1>9 DEF Admitted, SameSlot

\* What the step lemmas show of a step.
Core == Slots /\ RootInv /\ QueueInv /\ OthersInv

LEMMA CalmStep ==
  ASSUME IInv, NEW r \in Rank, NEW place, CalmMove(r, place),
         SameBoots, peerFds' = peerFds, round' = round, buf' = buf,
         Queue' = Queue \/ Queue' = <<>>,
         r # 0 => cur'[0] = cur[0] /\ i'[0] = i[0]
  PROVE  Core'
<1> USE DEF IInv
<1>1. ASSUME NEW p \in Peer
      PROVE  /\ Waits(p) => Waits(p)'
             /\ Admitted(p) => Admitted(p)'
             /\ Read(p) => Read(p)'
             /\ Served(p) => Served(p)'
  BY Numbers, SlotFrame DEF SameSlot, SameBoots
<1>2. Slots'
  BY <1>1, Numbers DEF Slots
<1>3. \/ pc'[0] = pc[0] /\ cur'[0] = cur[0] /\ i'[0] = i[0]
      \/ pc[0] \in Places /\ pc'[0] \in Places
      \/ pc'[0] \in Stuck
  BY Numbers DEF CalmMove, Types, Stuck
<1>4. RootInv'
  BY <1>1, <1>3 DEF RootInv, RootEarly, Stuck, Places
<1>5. QueueInv'
  <2>1. \A p \in Peer : pc'[p] = "connect" => pc[p] = "connect"
    BY Numbers DEF CalmMove, Types, Places
  <2>2. pc'[0] = "hello" => pc[0] = "hello" /\ cur'[0] = cur[0]
    BY <1>3 DEF Places, Stuck
  <2>3. ASSUME NEW c, Queued(c)' PROVE Queued(c)
    BY SMT, <2>2, <2>3 DEF Queued
  <2>4. \A p \in Peer : ToRank(p)' = ToRank(p)
    BY Numbers DEF SameBoots
  <2> QED
    BY SMT, <2>1, <2>2, <2>3, <2>4 DEF QueueInv
<1>6. OthersInv'
  BY DEF OthersInv, SameBoots
<1> QED
  BY <1>2, <1>4, <1>5, <1>6 DEF Core

----------------------------------------------------------------------------
(* Steps of a rank on its boot connection.                                 *)

LEMMA RankStep ==
  ASSUME IInv, NEW p \in Peer, NEW place, pc' = [pc EXCEPT ![p] = place],
         OtherBoots(p), peerFds' = peerFds, buf' = buf,
         \A q \in Rank \ {p} : round'[q] = round[q] /\ i'[q] = i[q],
         cur' = cur, Queue' = Queue,
         Waits(p) => Waits(p)', Admitted(p) => Admitted(p)',
         Served(p) => Served(p)', Read(p) => Read(p)',
         Queued(boot(p)) => ToRank(p)' = <<>> /\ place # "connect"
  PROVE  Core'
<1> USE DEF IInv
<1>1. ASSUME NEW q \in Peer
      PROVE  /\ Waits(q) => Waits(q)'
             /\ Admitted(q) => Admitted(q)'
             /\ Read(q) => Read(q)'
             /\ Served(q) => Served(q)'
  <2>1. CASE q = p
    BY <2>1
  <2>2. CASE q # p
    <3>1. SameSlot(q) /\ pc'[q] = pc[q]
      BY <2>2, Numbers DEF SameSlot, OtherBoots, Types
    <3> QED
      BY <3>1, SlotFrame, Numbers
  <2> QED
    BY <2>1, <2>2
<1>2. Slots'
  BY <1>1, Numbers DEF Slots
<1>3. pc'[0] = pc[0] /\ i'[0] = i[0] /\ round'[0] = round[0]
  BY Numbers DEF Types
<1>4. RootInv'
  BY <1>1, <1>3 DEF RootInv
<1>5. QueueInv'
  <2>1. \A c : Queued(c)' <=> Queued(c)
    BY <1>3 DEF Queued
  <2>2. ASSUME NEW q \in Peer, Queued(boot(q))
        PROVE  peerFds'[q] = None /\ ToRank(q)' = <<>> /\ pc'[q] # "connect"
    <3>1. CASE q = p
      BY <3>1, <2>2, Numbers DEF QueueInv, Types
    <3>2. CASE q # p
      BY <3>2, <2>2, Numbers DEF QueueInv, Types, OtherBoots
    <3> QED
      BY <3>1, <3>2
  <2> QED
    BY <1>3, <2>1, <2>2 DEF QueueInv
<1>6. OthersInv'
  BY Numbers DEF OthersInv, OtherBoots
<1> QED
  BY <1>2, <1>4, <1>5, <1>6 DEF Core

LEMMA SendHelloStep ==
  ASSUME IInv, NEW p \in Peer, SendHello(p), pc'[p] = "reply"
  PROVE  Core'
<1> USE DEF IInv
<1>1. /\ pc[p] = "greet" /\ pc' = [pc EXCEPT ![p] = "reply"]
      /\ wire' = Sent(boot(p), p, Hello(p))
      /\ UNCHANGED <<backlog, i, cur, peerFds, round, buf>>
  BY Numbers DEF SendHello, Goto, Fail, CloseAll, Types, boot, Hello, gather
<1>2. /\ OtherBoots(p) /\ ToRoot(p)' = Append(ToRoot(p), Hello(p))
      /\ ToRank(p)' = ToRank(p)
  BY <1>1, BootSent, Numbers
<1>3. ~Admitted(p) /\ ~Served(p) /\ ~Read(p)
  BY <1>1 DEF Admitted, Answered, Behind, Read, Served, Sends, Ahead, Stuck, Early
<1>4. Waits(p)'
  <2>1. Waits(p)
    BY <1>3 DEF Slots
  <2>2. ToRoot(p)' = <<Hello(p)>>
    BY <1>1, <1>2, <2>1, OneMessage DEF Waits
  <2> QED
    BY <1>1, <1>2, <2>1, <2>2, Numbers DEF Waits, Early, Types, Hello
<1>5. Queued(boot(p)) => ToRank(p)' = <<>>
  BY <1>2 DEF QueueInv
<1>6. Queue' = Queue
  BY <1>1 DEF Queue
<1> QED
  BY <1>1, <1>2, <1>3, <1>4, <1>5, <1>6, RankStep

LEMMA GetReplyStep ==
  ASSUME IInv, NEW p \in Peer, GetReply(p), pc'[p] = "publish"
  PROVE  Core'
<1> USE DEF IInv
<1>1. /\ pc[p] = "reply" /\ pc' = [pc EXCEPT ![p] = "publish"]
      /\ ToRank(p) # <<>> /\ ToRank(p)[1] = 1
      /\ wire' = Taken(boot(p), p)
      /\ UNCHANGED <<backlog, i, cur, peerFds, round, buf>>
  BY Numbers DEF GetReply, Goto, Fail, CloseAll, Types, boot, ToRank, gather, Arrived, Inbox
<1>2. /\ OtherBoots(p) /\ ToRank(p)' = Tail(ToRank(p))
      /\ ToRoot(p)' = ToRoot(p)
  BY <1>1, BootTaken, Numbers
<1>3. ~Waits(p) /\ ~Served(p) /\ ~Read(p) /\ ~Behind(p)
  BY SMT, <1>1, OneMessage
  DEF Waits, Behind, Read, Served, Sends, Ahead, Stuck, Early
<1>4. Admitted(p) /\ Answered(p)
  BY <1>3 DEF Slots, Admitted
<1>5. Admitted(p)'
  <2>1. ToRank(p)' = <<>> /\ ToRoot(p)' = <<>>
    BY <1>2, <1>4, OneMessage DEF Answered
  <2>2. Ahead(p, round[0])'
    BY <1>1, <1>4, <2>1, Numbers DEF Answered, Ahead, Early, Types
  <2>3. ~Consumed(p)'
    BY <1>1, <1>4 DEF Answered, Consumed
  <2> QED
    BY <1>1, <1>4, <2>2, <2>3 DEF Admitted, Behind
<1>5a. ~Queued(boot(p))
  BY SMT, <1>4 DEF QueueInv, Admitted, boot, None
<1>6. Queue' = Queue
  BY <1>1 DEF Queue
<1> QED
  BY <1>1, <1>2, <1>3, <1>5, <1>5a, <1>6, RankStep

LEMMA PublishStep ==
  ASSUME IInv, NEW p \in Peer, Publish(p), pc'[p] = "table"
  PROVE  Core'
<1> USE DEF IInv
<1>1. /\ pc[p] = "publish" /\ pc' = [pc EXCEPT ![p] = "table"]
      /\ wire' = Sent(boot(p), p, <<p, round[p]>>)
      /\ UNCHANGED <<backlog, i, cur, peerFds, round, buf>>
  BY Numbers DEF Publish, Broken, Fail, CloseAll, Goto, Types, boot, gather
<1>2. /\ OtherBoots(p) /\ ToRoot(p)' = Append(ToRoot(p), <<p, round[p]>>)
      /\ ToRank(p)' = ToRank(p)
  BY <1>1, BootSent, Numbers
<1>3. ~Waits(p) /\ ~Read(p) /\ ~Answered(p)
  BY <1>1 DEF Waits, Answered, Read, Stuck, Early
<1>3a. ASSUME NEW k PROVE ~Sends(p, k)
  BY <1>1 DEF Sends, Stuck
<1>4. ASSUME NEW k, Ahead(p, k)
      PROVE  Ahead(p, k)'
  <2>1. ToRoot(p) = <<>> /\ Ahead(p, k)
    BY <1>1, <1>4 DEF Ahead, Stuck
  <2>2. ToRoot(p)' = <<<<p, k>>>>
    BY <1>2, <2>1, OneMessage DEF Ahead
  <2> QED
    BY <1>1, <1>2, <2>1, <2>2, Numbers DEF Ahead, Types
<1>5. Served(p) => Served(p)'
  BY <1>1, <1>3a, <1>4 DEF Served
<1>6. Behind(p) => Behind(p)'
  BY <1>1, <1>3a, <1>4 DEF Behind, Consumed
<1>7. Admitted(p)' /\ Admitted(p)
  BY <1>1, <1>3, <1>5, <1>6 DEF Slots, Admitted
<1>8. ~Queued(boot(p))
  BY SMT, <1>7 DEF QueueInv, Admitted, boot, None
<1>9. Queue' = Queue
  BY <1>1 DEF Queue
<1> QED
  BY <1>1, <1>2, <1>3, <1>5, <1>7, <1>8, <1>9, RankStep

LEMMA GetTableStep ==
  ASSUME IInv, NEW p \in Peer, GetTable(p), Gathered(p, Inbox(boot(p), p)[1]),
         wire' = Taken(boot(p), p), UNCHANGED <<backlog, cur, peerFds, buf>>
  PROVE  Core' /\ Inbox(boot(p), p)[1] = Full(round[p])
<1> USE DEF IInv
<1>1. /\ pc[p] = "table" /\ pc' = [pc EXCEPT ![p] = After(p)]
      /\ round' = [round EXCEPT ![p] = @ + 1] /\ i' = [i EXCEPT ![p] = 0]
      /\ After(p) \in Places
  BY DEF GetTable, Gathered, Goto, After, Places
<1>2. /\ OtherBoots(p) /\ ToRank(p)' = Tail(ToRank(p))
      /\ ToRoot(p)' = ToRoot(p)
  BY BootTaken, Numbers
<1>3. ToRank(p) # <<>> /\ Inbox(boot(p), p) = ToRank(p)
  <2>1. boot(p)[1] = p
    BY DEF boot
  <2>2. Inbox(boot(p), p) = ToRank(p)
    BY <2>1 DEF Inbox, ToRank
  <2>3. Inbox(boot(p), p) # <<>>
    <3>1. ASSUME Broken(p) PROVE FALSE
      BY <1>1, <3>1, Numbers DEF Types, Places, Broken, Fail, CloseAll, Goto
    <3> QED
      BY <3>1 DEF GetTable, Arrived, boot
  <2> QED
    BY <2>2, <2>3
<1>4. ~Waits(p) /\ ~Read(p) /\ ~Answered(p)
  BY <1>1, <1>3 DEF Waits, Answered, Read, Stuck, Early
<1>5. ASSUME NEW k, Sends(p, k)
      PROVE  Ahead(p, k + 1)' /\ ToRank(p)[1] = Full(round[p])
  <2>1. ToRank(p)' = <<>> /\ ToRank(p)[1] = Full(k)
    BY <1>2, <1>5, OneMessage DEF Sends
  <2>2. round[p] = k /\ ToRoot(p) = <<>>
    BY <1>5 DEF Sends
  <2>3. round'[p] = k + 1 /\ pc'[p] \in Places
    BY <1>1, <2>2, Numbers DEF Types
  <2>4. Ahead(p, k + 1)'
    BY <1>2, <2>1, <2>2, <2>3 DEF Ahead, Places, Early
  <2> QED
    BY <2>1, <2>2, <2>4
<1>6. ASSUME NEW k PROVE ~Ahead(p, k)
  BY <1>1, <1>3 DEF Ahead, Stuck
<1>7. round'[0] = round[0] /\ round[0] \in Nat /\ \A q \in Rank \ {p} : round'[q] = round[q] /\ i'[q] = i[q]
  BY <1>1, Numbers DEF Types
<1>8. Served(p) => Served(p)' /\ ToRank(p)[1] = Full(round[p])
  BY <1>5, <1>6, <1>7 DEF Served
<1>9. Behind(p) => Behind(p)' /\ ToRank(p)[1] = Full(round[p])
  <2>1. ASSUME Sends(p, round[0] - 1)
        PROVE  Ahead(p, round[0])' /\ ToRank(p)[1] = Full(round[p])
    <3>1. Ahead(p, round[0] - 1 + 1)' /\ ToRank(p)[1] = Full(round[p])
      BY <1>5, <1>7, <2>1
    <3>2. round'[0] - 1 + 1 = round'[0]
      BY SMT, <1>7
    <3> QED
      BY <3>1, <3>2
  <2> QED
    BY <1>6, <1>7, <2>1 DEF Behind, Consumed
<1>10. Admitted(p)' /\ Admitted(p) /\ ToRank(p)[1] = Full(round[p])
  BY <1>4, <1>8, <1>9 DEF Slots, Admitted
<1>11. ~Queued(boot(p))
  BY SMT, <1>10 DEF QueueInv, Admitted, boot, None
<1>12. Queue' = Queue
  BY DEF Queue
<1>13. Core'
  BY <1>1, <1>2, <1>4, <1>7, <1>8, <1>10, <1>11, <1>12, RankStep
<1> QED
  BY <1>3, <1>10, <1>13

----------------------------------------------------------------------------
(* Steps on the root's queue of connections.                               *)

LEMMA Appended ==
  ASSUME NEW T, NEW s \in Seq(T), NEW c \in T
  PROVE  \A j \in DOMAIN Append(s, c) :
           \/ j = Len(s) + 1 /\ Append(s, c)[j] = c
           \/ j \in DOMAIN s /\ j # Len(s) + 1 /\ Append(s, c)[j] = s[j]
BY SMT

LEMMA Removed ==
  ASSUME NEW T, NEW s \in Seq(T), s # <<>>
  PROVE  /\ 1 \in DOMAIN s
         /\ \A j \in DOMAIN Tail(s) :
              j + 1 \in DOMAIN s /\ j + 1 # 1 /\ Tail(s)[j] = s[j + 1]
         /\ \A j, k \in DOMAIN Tail(s) : j # k => j + 1 # k + 1
BY SMT

\* The slots and the root are as they were, but for where the root is before it
\* has all ranks, and where ranks are on their way to it.
LEMMA QueueStep ==
  ASSUME IInv, SameBoots, peerFds' = peerFds, round' = round, buf' = buf,
         \/ pc'[0] = pc[0] /\ i'[0] = i[0]
         \/ pc[0] \in RootEarly /\ pc'[0] \in RootEarly,
         \A p \in Peer : \/ pc'[p] = pc[p]
                         \/ pc[p] = "connect" /\ pc'[p] = "greet"
  PROVE  Slots' /\ RootInv' /\ OthersInv'
<1> USE DEF IInv
<1>1. ASSUME NEW p \in Peer
      PROVE  /\ Waits(p) => Waits(p)'
             /\ Admitted(p) => Admitted(p)'
             /\ Read(p) => Read(p)'
             /\ Served(p) => Served(p)'
  <2>1. SameSlot(p)
    BY Numbers DEF SameSlot, SameBoots
  <2>2. CASE pc'[p] = pc[p]
    BY <2>1, <2>2, SlotFrame, Numbers
  <2>3. CASE pc[p] = "connect" /\ pc'[p] = "greet"
    BY <2>1, <2>3
    DEF Waits, Early, SameSlot, Admitted, Answered, Behind, Read, Served, Sends,
        Ahead, Stuck
  <2> QED
    BY <2>2, <2>3
<1>2. Slots'
  BY <1>1, Numbers DEF Slots
<1>3. RootInv'
  BY <1>1 DEF RootInv, RootEarly, Stuck
<1>4. OthersInv'
  BY DEF OthersInv, SameBoots
<1> QED
  BY <1>2, <1>3, <1>4

LEMMA BindStep ==
  ASSUME IInv, Bind
  PROVE  Core'
<1> USE DEF IInv
<1>1. /\ pc[0] = "bind" /\ pc'[0] = "accept" /\ \A p \in Peer : pc'[p] = pc[p]
      /\ UNCHANGED <<backlog, wire, peerFds, round, buf>>
  BY Numbers DEF Bind, Goto, Types, gather
<1>2. SameBoots /\ Queue' = Queue /\ \A p \in Peer : ToRank(p)' = ToRank(p)
  BY <1>1 DEF SameBoots, Queue, ToRoot, ToRank
<1>3. Slots' /\ RootInv' /\ OthersInv'
  BY <1>1, <1>2, QueueStep DEF RootEarly
<1>4. QueueInv'
  BY <1>1, <1>2 DEF QueueInv, Queued
<1> QED
  BY <1>3, <1>4 DEF Core

LEMMA RootAcceptStep ==
  ASSUME IInv, RootAccept
  PROVE  Core'
<1> USE DEF IInv
<1>1. /\ pc[0] = "accept" /\ pc'[0] = "hello" /\ \A p \in Peer : pc'[p] = pc[p]
      /\ UNCHANGED <<wire, peerFds, round, buf>>
  BY Numbers DEF RootAccept, Goto, Types, gather
<1>2. SameBoots /\ \A p \in Peer : ToRank(p)' = ToRank(p)
  BY <1>1 DEF SameBoots, ToRoot, ToRank
<1>3. Slots' /\ RootInv' /\ OthersInv'
  BY <1>1, <1>2, QueueStep DEF RootEarly
<1>4. QueueInv'
  <2>1. Queue \in Seq(Nat \X Nat \X {"boot", "data"}) /\ Queue # <<>>
    BY Numbers DEF RootAccept, acceptOne, Queue, Types
  <2>2. Queue' = Tail(Queue) /\ cur'[0] = Queue[1]
    BY Numbers DEF RootAccept, acceptOne, Queue, Types
  <2>3. /\ 1 \in DOMAIN Queue
        /\ \A j \in DOMAIN Queue' :
             j + 1 \in DOMAIN Queue /\ j + 1 # 1 /\ Queue'[j] = Queue[j + 1]
        /\ \A j, k \in DOMAIN Queue' : j # k => j + 1 # k + 1
    BY <2>1, <2>2, Removed
  <2>4. /\ \A j \in DOMAIN Queue' : Queue'[j] \in {boot(q) : q \in Client}
        /\ cur'[0] \in {boot(q) : q \in Client}
    BY <2>2, <2>3 DEF QueueInv
  <2>5. /\ \A j, k \in DOMAIN Queue' :
             j # k /\ Queue'[j] = Queue'[k] => Queue'[j][1] >= N
        /\ \A j \in DOMAIN Queue' : Queue'[j] = cur'[0] => cur'[0][1] >= N
    BY SMT, <2>2, <2>3 DEF QueueInv
  <2>6. ASSUME NEW c, Queued(c)' PROVE Queued(c)
    BY <2>2, <2>3, <2>6 DEF Queued
  <2> QED
    BY <1>1, <1>2, <2>4, <2>5, <2>6 DEF QueueInv
<1> QED
  BY <1>3, <1>4 DEF Core

\* A connection that is not queued, or is of another job, is appended.
LEMMA QueueGrows ==
  ASSUME IInv, NEW q \in Client, Queue' = Append(Queue, boot(q)),
         pc'[0] = pc[0], cur' = cur, peerFds' = peerFds,
         \A p \in Peer : ToRank(p)' = ToRank(p),
         \A p \in Peer : pc'[p] = "connect" => pc[p] = "connect" /\ p # q,
         q \in Peer => /\ ~Queued(boot(q))
                       /\ peerFds[q] = None /\ ToRank(q) = <<>>
  PROVE  QueueInv'
<1> USE DEF IInv
<1> DEFINE T == Nat \X Nat \X {"boot", "data"}
<1>1. Queue \in Seq(T) /\ boot(q) \in T
  BY Numbers DEF Queue, Types, boot
<1>2. \A j \in DOMAIN Queue' :
        \/ j = Len(Queue) + 1 /\ Queue'[j] = boot(q)
        \/ j \in DOMAIN Queue /\ j # Len(Queue) + 1 /\ Queue'[j] = Queue[j]
  BY SMT, <1>1, Appended
<1>3. q \notin Peer => boot(q)[1] >= N
  BY SMT, SizeAssumption DEF boot, Peer, Client
<1>4. \A j \in DOMAIN Queue : Queue[j] = boot(q) => q \notin Peer
  BY DEF Queued
<1>5. pc[0] = "hello" /\ cur[0] = boot(q) => q \notin Peer
  BY DEF Queued
<1>6. \A j \in DOMAIN Queue' : Queue'[j] \in {boot(p) : p \in Client}
  BY <1>2 DEF QueueInv
<1>7. \A j, k \in DOMAIN Queue' : j # k /\ Queue'[j] = Queue'[k] => Queue'[j][1] >= N
  BY SMT, <1>2, <1>3, <1>4 DEF QueueInv
<1>8. pc'[0] = "hello" =>
       /\ cur'[0] \in {boot(p) : p \in Client}
       /\ \A j \in DOMAIN Queue' : Queue'[j] = cur'[0] => cur'[0][1] >= N
  BY <1>2, <1>3, <1>5 DEF QueueInv
<1>9. ASSUME NEW p \in Peer, Queued(boot(p))'
      PROVE  peerFds'[p] = None /\ ToRank(p)' = <<>> /\ pc'[p] # "connect"
  <2>1. Queued(boot(p)) \/ boot(p) = boot(q)
    BY <1>2, <1>9 DEF Queued
  <2>2. CASE Queued(boot(p))
    BY <2>2 DEF QueueInv
  <2>3. CASE boot(p) = boot(q)
    <3>1. p = q
      BY <2>3 DEF boot
    <3> QED
      BY <3>1
  <2> QED
    BY <2>1, <2>2, <2>3
<1> QED
  BY <1>6, <1>7, <1>8, <1>9 DEF QueueInv

LEMMA ConnectRootStep ==
  ASSUME IInv, NEW p \in Peer, ConnectRoot(p)
  PROVE  Core'
<1> USE DEF IInv
<1>1. /\ pc[p] = "connect" /\ pc'[p] = "greet"
      /\ \A q \in Rank \ {p} : pc'[q] = pc[q]
      /\ UNCHANGED <<wire, i, cur, peerFds, round, buf>>
  BY Numbers DEF ConnectRoot, Goto, Types, gather
<1>2. Queue' = Append(Queue, boot(p))
  <2>1. boot(p)[2] = 0 /\ boot(p)[3] = "boot"
    BY DEF boot
  <2> QED
    BY <2>1, Numbers DEF ConnectRoot, Connect, Queue, Types, boot
<1>3. SameBoots /\ \A q \in Peer : ToRank(q)' = ToRank(q)
  BY <1>1 DEF SameBoots, ToRoot, ToRank
<1>4. Slots' /\ RootInv' /\ OthersInv'
  BY <1>1, <1>3, QueueStep, Numbers
<1>5. Waits(p)
  BY <1>1
  DEF Slots, Admitted, Answered, Behind, Read, Served, Sends, Ahead, Stuck, Early
<1>6. ~Queued(boot(p)) /\ peerFds[p] = None /\ ToRank(p) = <<>>
  BY <1>1, <1>5 DEF QueueInv, Waits
<1>7. QueueInv'
  BY <1>1, <1>2, <1>3, <1>6, Numbers, QueueGrows
<1> QED
  BY <1>4, <1>7 DEF Core

LEMMA OtherClientStep ==
  ASSUME IInv, NEW q \in N .. N + Others - 1, OtherClient(q)
  PROVE  Core'
<1> USE DEF IInv
<1>1. q \in Client /\ q \notin Rank /\ q \notin Peer /\ 0 \notin {q}
  BY SMT, SizeAssumption DEF Client, Rank, Peer
<1>2. UNCHANGED <<pc, i, cur, peerFds, round, buf>>
  BY DEF OtherClient, local, gather
<1>3. Queue' = Append(Queue, boot(q))
  BY Numbers DEF OtherClient, Queue, Types, boot
<1>4. /\ OtherBoots(q)
      /\ ToRoot(q)' \in {<<>>} \cup {<<hello>> : hello \in OtherHello}
  <2>1. ToRoot(q) = <<>>
    BY DEF OtherClient, ToRoot, boot
  <2>2. ASSUME NEW m \in OtherHello, wire' = Sent(boot(q), q, m)
        PROVE  OtherBoots(q) /\ ToRoot(q)' = <<m>>
    <3>1. OtherBoots(q) /\ ToRoot(q)' = Append(ToRoot(q), m)
      BY <1>1, <2>2, BootSent
    <3> QED
      BY <2>1, <3>1, OneMessage
  <2>3. CASE UNCHANGED wire
    BY <2>1, <2>3 DEF OtherBoots, ToRoot, ToRank
  <2> QED
    BY <2>2, <2>3 DEF OtherClient, boot
<1>5. ASSUME NEW p \in Peer
      PROVE  /\ ToRank(p)' = ToRank(p)
             /\ Waits(p) => Waits(p)'
             /\ Admitted(p) => Admitted(p)'
             /\ Read(p) => Read(p)'
             /\ Served(p) => Served(p)'
  <2>1. SameSlot(p)
    BY <1>1, <1>2, <1>4, Numbers DEF SameSlot, OtherBoots
  <2> QED
    BY <1>2, <2>1, SlotFrame, Numbers DEF SameSlot
<1>6. Slots'
  BY <1>2, <1>5, Numbers DEF Slots
<1>7. RootInv'
  BY <1>2, <1>5 DEF RootInv
<1>8. OthersInv'
  BY <1>4 DEF OthersInv, OtherBoots
<1>9. \A p \in Peer : p # q
  BY <1>1
<1>10. QueueInv'
  BY <1>1, <1>2, <1>3, <1>5, <1>9, QueueGrows
<1> QED
  BY <1>6, <1>7, <1>8, <1>10 DEF Core

----------------------------------------------------------------------------
(* The root's answer to a Hello.                                           *)

\* The connection that the root has accepted is no longer queued, if it is of
\* a rank.
LEMMA Answering ==
  ASSUME IInv, pc[0] = "hello", NEW q \in Client, cur[0] = boot(q),
         \A p \in Peer : pc'[p] = pc[p], pc'[0] # "hello",
         OtherBoots(q), Queue' = Queue \/ Queue' = <<>>,
         \A p \in Peer \ {q} : peerFds'[p] = peerFds[p]
  PROVE  QueueInv'
<1> USE DEF IInv
<1>1. \A j \in DOMAIN Queue' : j \in DOMAIN Queue /\ Queue'[j] = Queue[j]
  BY SMT
<1>2. ASSUME NEW p \in Peer, Queued(boot(p))'
      PROVE  p # q /\ Queued(boot(p))
  <2>1. PICK j \in DOMAIN Queue : Queue[j] = boot(p)
    BY <1>1, <1>2 DEF Queued
  <2>2. p = q => boot(q)[1] >= N
    BY <2>1 DEF QueueInv
  <2>3. boot(q)[1] = q
    BY DEF boot
  <2>4. p # q
    BY SMT, <2>2, <2>3, SizeAssumption DEF Peer
  <2> QED
    BY <2>1, <2>4 DEF Queued
<1>3. ASSUME NEW p \in Peer, Queued(boot(p))'
      PROVE  peerFds'[p] = None /\ ToRank(p)' = <<>> /\ pc'[p] # "connect"
  BY <1>2, <1>3, Numbers DEF QueueInv, OtherBoots
<1>4. \A j, k \in DOMAIN Queue' : j # k /\ Queue'[j] = Queue'[k] => Queue'[j][1] >= N
  BY SMT, <1>1 DEF QueueInv
<1>5. \A j \in DOMAIN Queue' : Queue'[j] \in {boot(p) : p \in Client}
  BY <1>1 DEF QueueInv
<1> QED
  BY <1>3, <1>4, <1>5 DEF QueueInv

LEMMA AdmitStep ==
  ASSUME IInv, pc[0] = "hello", NEW q \in Client, cur[0] = boot(q),
         Arrived(boot(q), 0), HelloOk(Inbox(boot(q), 0)[1]),
         Admit(boot(q), Inbox(boot(q), 0)[1].rank),
         UNCHANGED <<i, cur, gather>>
  PROVE  Core'
<1> USE DEF IInv
<1>1. Inbox(boot(q), 0) = ToRoot(q) /\ ToRoot(q) # <<>>
  <2>1. boot(q)[1] # 0
    BY Numbers DEF boot
  <2> QED
    BY <2>1 DEF Inbox, ToRoot, Arrived
<1>2. q \in Peer
  <2>1. ASSUME q \notin Rank PROVE FALSE
    <3>1. PICK m \in OtherHello : ToRoot(q) = <<m>>
      BY <1>1, <2>1 DEF OthersInv
    <3>2. HelloOk(m)
      BY <1>1, <3>1, OneMessage
    <3> QED
      BY SMT, <3>1, <3>2, SizeAssumption DEF HelloOk, OtherHello
  <2> QED
    BY <2>1, Numbers
<1>3. Queued(boot(q)) /\ peerFds[q] = None /\ ToRank(q) = <<>>
  BY <1>2 DEF Queued, QueueInv
<1>4. Waits(q)
  <2>1. boot(q) # None
    BY SMT DEF boot, None
  <2> QED
    BY <1>2, <1>3, <2>1 DEF Slots, Admitted
<1>5. ToRoot(q) = <<Hello(q)>> /\ Inbox(boot(q), 0)[1].rank = q
  <2>1. ToRoot(q) = <<Hello(q)>>
    BY <1>1, <1>4 DEF Waits
  <2> QED
    BY SMT, <1>1, <2>1, OneMessage DEF Hello
<1>6. /\ peerFds' = [peerFds EXCEPT ![q] = boot(q)]
      /\ wire' = [Taken(boot(q), 0) EXCEPT ![boot(q)][1] = Append(@, 1)]
      /\ UNCHANGED <<i, cur, round, buf>>
      /\ \/ Missing = {q} /\ pc' = [pc EXCEPT ![0] = "publish"]
         \/ pc' = [pc EXCEPT ![0] = "accept"]
  BY <1>5 DEF Admit, gather, Goto
<1>7. Queue' = Queue \/ Queue' = <<>>
  BY Numbers DEF Admit, Queue, Types
<1>8. OtherBoots(q) /\ ToRoot(q)' = <<>> /\ ToRank(q)' = <<1>>
  BY <1>3, <1>5, <1>6, BootAdmitted, OneMessage
<1>9. /\ pc'[0] \in {"publish", "accept"} /\ \A p \in Peer : pc'[p] = pc[p]
      /\ pc'[0] = "publish" => Missing = {q}
      /\ peerFds'[q] = boot(q) /\ \A p \in Rank \ {q} : peerFds'[p] = peerFds[p]
  BY <1>2, <1>6, Numbers DEF Types
<1>10. Admitted(q)'
  <2>1. Answered(q)'
    BY <1>1, <1>2, <1>4, <1>6, <1>8, <1>9
    DEF Waits, Answered, Consumed, Early, Stuck
  <2> QED
    BY <1>9, <2>1 DEF Admitted
<1>11. ASSUME NEW p \in Peer \ {q}
       PROVE  (Waits(p) => Waits(p)') /\ (Admitted(p) => Admitted(p)')
  <2>1. SameSlot(p)
    BY <1>6, <1>8, <1>9, Numbers DEF SameSlot, OtherBoots
  <2> QED
    BY <1>9, <2>1, SlotFrame, Numbers
<1>12. Slots'
  BY <1>2, <1>9, <1>10, <1>11, Numbers DEF Slots
<1>13. RootInv'
  <2>1. round'[0] = 1 /\ buf' = {}
    BY <1>4, <1>6 DEF Waits
  <2>2. pc'[0] = "publish" => \A p \in Peer : Admitted(p)'
    <3>1. ASSUME NEW p \in Peer \ {q}, Missing = {q} PROVE ~Waits(p)
      BY <3>1 DEF Missing, Waits, Peer
    <3> QED
      BY <1>9, <1>10, <1>11, <3>1 DEF Slots
  <2> QED
    BY <1>9, <2>1, <2>2 DEF RootInv, RootEarly
<1>14. OthersInv'
  BY <1>2, <1>8, Numbers DEF OthersInv, OtherBoots
<1>15. QueueInv'
  BY <1>2, <1>7, <1>8, <1>9, Numbers, Answering
<1> QED
  BY <1>12, <1>13, <1>14, <1>15 DEF Core

LEMMA RejectStep ==
  ASSUME IInv, pc[0] = "hello", NEW q \in Client, cur[0] = boot(q),
         Reject(boot(q))
  PROVE  Core'
<1> USE DEF IInv
<1>1. /\ pc'[0] = "accept" /\ \A p \in Peer : pc'[p] = pc[p]
      /\ UNCHANGED <<backlog, i, cur, peerFds, round, buf>>
  BY Numbers DEF Reject, Goto, Types, gather
<1>2. /\ OtherBoots(q) /\ ToRoot(q)' = ToRoot(q)
      /\ ToRank(q)' = Append(ToRank(q), 0)
  BY BootAnswered DEF Reject
<1>3. ASSUME q \in Peer PROVE Waits(q) /\ Waits(q)'
  <2>1. Queued(boot(q)) /\ peerFds[q] = None /\ ToRank(q) = <<>> /\ pc[q] # "connect"
    BY <1>3 DEF Queued, QueueInv
  <2>2. Waits(q)
    BY SMT, <1>3, <2>1 DEF Slots, Admitted, boot, None
  <2>3. ToRank(q)' = <<0>>
    BY <1>2, <2>1, OneMessage
  <2> QED
    BY <1>1, <1>2, <1>3, <2>1, <2>2, <2>3 DEF Waits
<1>4. ASSUME NEW p \in Peer \ {q}
      PROVE  (Waits(p) => Waits(p)') /\ (Admitted(p) => Admitted(p)')
  <2>1. SameSlot(p)
    BY <1>1, <1>2, Numbers DEF SameSlot, OtherBoots
  <2> QED
    BY <1>1, <2>1, SlotFrame, Numbers
<1>5. Slots'
  BY <1>1, <1>3, <1>4, Numbers DEF Slots
<1>6. RootInv'
  BY <1>1 DEF RootInv, RootEarly
<1>7. OthersInv'
  BY <1>2, Numbers DEF OthersInv, OtherBoots
<1>8. QueueInv'
  <2>1. Queue' = Queue
    BY <1>1 DEF Queue
  <2> QED
    BY <1>1, <1>2, <2>1, Answering
<1> QED
  BY <1>5, <1>6, <1>7, <1>8 DEF Core

----------------------------------------------------------------------------
(* The root's side of an all-gather.                                       *)

\* By then no connection of a rank is queued.
LEMMA GatherQueue ==
  ASSUME IInv, pc[0] \notin RootEarly \cup Stuck, Queue' = Queue, pc'[0] # "hello"
  PROVE  QueueInv' /\ \A p \in Peer : Admitted(p) /\ peerFds[p] = boot(p)
<1> USE DEF IInv
<1>1. \A p \in Peer : Admitted(p) /\ peerFds[p] = boot(p)
  BY DEF RootInv, Admitted
<1>2. \A p \in Peer : ~Queued(boot(p)) /\ ~Queued(boot(p))'
  BY SMT, <1>1 DEF QueueInv, Queued, boot, None
<1> QED
  BY <1>1, <1>2 DEF QueueInv

LEMMA FullFacts ==
  ASSUME NEW k \in Nat, NEW p \in Rank
  PROVE  <<p, k>> \in Full(k) /\ <<p, k + 1>> \notin Full(k)
BY SMT DEF Full

LEMMA PublishRootStep ==
  ASSUME IInv, PublishRoot
  PROVE  Core'
<1> USE DEF IInv
<1>1. /\ pc[0] = "publish" /\ pc'[0] = "gather" /\ \A p \in Peer : pc'[p] = pc[p]
      /\ i'[0] = 1 /\ buf' = {<<0, round[0]>>}
      /\ UNCHANGED <<backlog, wire, cur, peerFds, round>>
  BY Numbers DEF PublishRoot, Goto, Types
<1>2. QueueInv' /\ \A p \in Peer : Admitted(p)
  <2>1. Queue' = Queue
    BY <1>1 DEF Queue
  <2> QED
    BY <1>1, <2>1, GatherQueue DEF RootEarly, Stuck
<1>3. ASSUME NEW p \in Peer PROVE Admitted(p)'
  <2>1. ~Consumed(p) /\ ~Consumed(p)' /\ ~Served(p)
    <3>1. ~Consumed(p) /\ ~Consumed(p)'
      BY <1>1, Numbers DEF RootInv, Consumed, Stuck
    <3>2. <<p, round[0]>> \in Full(round[0])
      BY FullFacts, Numbers DEF Types
    <3> QED
      BY <3>1, <3>2 DEF Consumed, Served
  <2>2. Answered(p) => Answered(p)'
    BY <1>1, <2>1 DEF Answered, ToRoot, ToRank
  <2>3. ASSUME NEW k PROVE /\ Sends(p, k) => Sends(p, k)'
                           /\ Ahead(p, k) => Ahead(p, k)'
    BY <1>1 DEF Sends, Ahead, ToRoot, ToRank
  <2>4. Behind(p) => Behind(p)'
    BY <1>1, <2>1, <2>3 DEF Behind
  <2> QED
    BY <1>1, <1>2, <2>1, <2>2, <2>4 DEF Admitted, Read
<1>4. Slots'
  BY <1>1, <1>3 DEF Slots
<1>5. RootInv'
  <2>1. i'[0] \in Peer /\ buf' = {<<q, round'[0]>> : q \in 0 .. i'[0] - 1}
    BY SMT, <1>1, SizeAssumption DEF Peer
  <2> QED
    BY <1>1, <1>3, <2>1 DEF RootInv, RootEarly
<1>6. OthersInv'
  BY <1>1 DEF OthersInv, ToRoot
<1> QED
  BY <1>2, <1>4, <1>5, <1>6 DEF Core

LEMMA GatherStep ==
  ASSUME IInv, pc[0] = "gather", NEW k \in Peer, k = i[0],
         Arrived(boot(k), 0), buf' = buf \cup {Inbox(boot(k), 0)[1]},
         wire' = Taken(boot(k), 0),
         IF k = N - 1 THEN Goto(0, "scatter") /\ i' = [i EXCEPT ![0] = 1]
         ELSE i' = [i EXCEPT ![0] = @ + 1] /\ UNCHANGED pc,
         UNCHANGED <<backlog, cur, peerFds, round>>
  PROVE  Core'
<1> USE DEF IInv
<1> DEFINE R == round[0]
<1>0. R \in Nat /\ round'[0] = R /\ k \in Rank /\ k \in Client
  BY Numbers DEF Types
<1>1. /\ \A p \in Peer : pc'[p] = pc[p]
      /\ \/ k = N - 1 /\ pc'[0] = "scatter" /\ i'[0] = 1
         \/ k # N - 1 /\ pc'[0] = "gather" /\ i'[0] = k + 1
  BY Numbers DEF Goto, Types
<1>2. QueueInv' /\ \A p \in Peer : Admitted(p) /\ peerFds[p] = boot(p)
  <2>1. Queue' = Queue
    BY DEF Queue
  <2> QED
    BY <1>1, <2>1, GatherQueue DEF RootEarly, Stuck
<1>3. Inbox(boot(k), 0) = ToRoot(k) /\ ToRoot(k) # <<>>
  <2>1. boot(k)[1] # 0
    BY <1>0, Numbers DEF boot
  <2> QED
    BY <2>1 DEF Inbox, ToRoot, Arrived
<1>4. buf = {<<q, R>> : q \in 0 .. k - 1} /\ ~Consumed(k) /\ buf # Full(R)
  <2>1. buf = {<<q, R>> : q \in 0 .. k - 1}
    BY DEF RootInv
  <2>2. k \notin 0 .. k - 1
    BY SMT DEF Peer
  <2>3. ~Consumed(k)
    BY <2>1, <2>2 DEF Consumed
  <2> QED
    BY <1>0, <2>1, <2>3, FullFacts DEF Consumed
<1>5. /\ ToRoot(k) = <<<<k, R>>>> /\ round[k] = R /\ ToRank(k) = <<>>
      /\ pc[k] \in {"table"} \cup Stuck
  BY <1>2, <1>3, <1>4
  DEF Admitted, Answered, Behind, Read, Served, Sends, Ahead
<1>6. /\ OtherBoots(k) /\ ToRoot(k)' = <<>> /\ ToRank(k)' = <<>>
      /\ buf' = buf \cup {<<k, R>>}
  <2>1. /\ OtherBoots(k) /\ ToRoot(k)' = Tail(ToRoot(k)) /\ ToRank(k)' = ToRank(k)
    BY <1>0, BootRead
  <2> QED
    BY <1>3, <1>5, <2>1, OneMessage
<1>7. Read(k)'
  BY <1>0, <1>1, <1>5, <1>6 DEF Read, Consumed
<1>8. ASSUME NEW p \in Peer \ {k}
      PROVE  /\ Admitted(p)'
             /\ <<p, R>> \in buf => Read(p)'
  <2>1. Consumed(p)' = Consumed(p)
    BY SMT, <1>0, <1>6 DEF Consumed
  <2>2. /\ ToRoot(p)' = ToRoot(p) /\ ToRank(p)' = ToRank(p) /\ pc'[p] = pc[p]
    BY <1>1, <1>6, Numbers DEF OtherBoots
  <2>3. ~Served(p)
    BY <1>4 DEF Served
  <2>4. Answered(p) => Answered(p)'
    BY <2>1, <2>2 DEF Answered
  <2>5. Read(p) => Read(p)'
    BY <2>1, <2>2 DEF Read
  <2>6. ASSUME NEW n PROVE /\ Sends(p, n) => Sends(p, n)'
                           /\ Ahead(p, n) => Ahead(p, n)'
    BY <2>2 DEF Sends, Ahead
  <2>7. Behind(p) => Behind(p)'
    BY <2>1, <2>6 DEF Behind
  <2>8. Consumed(p) => Read(p)
    BY <1>2, <2>3 DEF Admitted, Answered, Behind
  <2> QED
    BY <1>2, <2>3, <2>4, <2>5, <2>7, <2>8 DEF Admitted, Consumed
<1>9. \A p \in Peer : Admitted(p)'
  BY <1>2, <1>7, <1>8 DEF Admitted
<1>10. Slots'
  BY <1>9 DEF Slots
<1>11. buf' = {<<q, R>> : q \in 0 .. k}
  <2>1. 0 .. k = (0 .. k - 1) \cup {k}
    BY SMT DEF Peer
  <2> QED
    BY <1>4, <1>6, <2>1
<1>12. RootInv'
  <2>1. CASE k = N - 1
    <3>1. buf' = Full(round'[0]) /\ \A p \in Peer \ {k} : <<p, R>> \in buf
      <4>1. 0 .. k = Rank /\ \A p \in Peer \ {k} : p \in 0 .. k - 1
        BY SMT, <2>1, SizeAssumption DEF Rank, Peer
      <4>2. buf' = {<<q, round'[0]>> : q \in Rank}
        BY <1>0, <1>11, <4>1
      <4>3. \A p \in Peer \ {k} : <<p, R>> \in buf
        BY <1>4, <4>1
      <4> QED
        BY <4>2, <4>3 DEF Full
    <3>2. \A p \in Peer : Read(p)'
      BY <1>7, <1>8, <3>1
    <3>3. pc'[0] = "scatter" /\ i'[0] = 1 /\ i'[0] \in 1 .. N
      BY SMT, <1>1, <2>1, SizeAssumption
    <3>4. \A p \in Peer : IF p < i'[0] THEN Served(p)' ELSE Read(p)'
      BY SMT, <3>2, <3>3 DEF Peer
    <3> QED
      BY <1>9, <3>1, <3>3, <3>4 DEF RootInv, RootEarly
  <2>2. CASE k # N - 1
    <3>1. i'[0] \in Peer /\ i'[0] - 1 = k /\ pc'[0] = "gather"
      BY SMT, <1>1, <2>2, SizeAssumption DEF Peer
    <3> QED
      BY <1>0, <1>9, <1>11, <3>1 DEF RootInv, RootEarly
  <2> QED
    BY <2>1, <2>2
<1>13. OthersInv'
  BY <1>0, <1>6 DEF OthersInv, OtherBoots
<1> QED
  BY <1>2, <1>10, <1>12, <1>13 DEF Core

LEMMA ScatterStep ==
  ASSUME IInv, pc[0] = "scatter", NEW k \in Peer, k = i[0],
         wire' = Sent(boot(k), 0, buf), i' = [i EXCEPT ![0] = @ + 1],
         UNCHANGED <<backlog, pc, cur, peerFds, round, buf>>
  PROVE  Core'
<1> USE DEF IInv
<1>1. i'[0] = k + 1 /\ k \in Rank /\ k \in Client
  BY Numbers DEF Types
<1>2. QueueInv' /\ \A p \in Peer : Admitted(p)
  <2>1. Queue' = Queue
    BY DEF Queue
  <2> QED
    BY <2>1, GatherQueue DEF RootEarly, Stuck
<1>3. Read(k) /\ buf = Full(round[0])
  BY SMT DEF RootInv, Peer
<1>4. /\ OtherBoots(k) /\ ToRoot(k)' = <<>> /\ ToRank(k)' = <<Full(round[0])>>
  <2>1. /\ OtherBoots(k) /\ ToRoot(k)' = ToRoot(k)
        /\ ToRank(k)' = Append(ToRank(k), buf)
    BY <1>1, BootAnswered
  <2> QED
    BY <1>3, <2>1, OneMessage DEF Read
<1>5. Served(k)'
  <2>1. Sends(k, round[0])'
    BY <1>3, <1>4 DEF Sends, Read, Full
  <2> QED
    BY <1>3, <2>1 DEF Served, Full
<1>6. ASSUME NEW p \in Peer \ {k}
      PROVE  /\ Admitted(p)' /\ (Served(p) => Served(p)') /\ (Read(p) => Read(p)')
  <2>1. SameSlot(p)
    BY <1>4, Numbers DEF SameSlot, OtherBoots
  <2> QED
    BY <1>2, <2>1, SlotFrame, Numbers
<1>7. \A p \in Peer : Admitted(p)'
  BY <1>2, <1>5, <1>6 DEF Admitted
<1>8. Slots'
  BY <1>7 DEF Slots
<1>9. RootInv'
  <2>1. i'[0] \in 1 .. N
    BY SMT, <1>1, SizeAssumption DEF Peer
  <2>2. ASSUME NEW p \in Peer
        PROVE  IF p < i'[0] THEN Served(p)' ELSE Read(p)'
    <3>1. CASE p = k
      BY SMT, <1>1, <1>5, <3>1 DEF Peer
    <3>2. CASE p < k
      BY SMT, <1>1, <1>6, <3>2 DEF Peer, RootInv
    <3>3. CASE p > k
      BY SMT, <1>1, <1>6, <3>3 DEF Peer, RootInv
    <3> QED
      BY SMT, <3>1, <3>2, <3>3 DEF Peer
  <2>3. buf' = Full(round'[0])
    BY <1>3
  <2> QED
    BY <1>7, <2>1, <2>2, <2>3 DEF RootInv, RootEarly
<1>10. OthersInv'
  BY <1>1, <1>4 DEF OthersInv, OtherBoots
<1> QED
  BY <1>2, <1>8, <1>9, <1>10 DEF Core

LEMMA ScatteredStep ==
  ASSUME IInv, pc[0] = "scatter", i[0] = N, Gathered(0, buf),
         UNCHANGED <<backlog, wire, cur, peerFds, buf>>
  PROVE  Core' /\ buf = Full(round[0])
<1> USE DEF IInv
<1> DEFINE R == round[0]
<1>1. /\ R \in Nat /\ round'[0] = R + 1 /\ pc'[0] \in Places
      /\ \A p \in Peer : pc'[p] = pc[p] /\ round'[p] = round[p]
  <2>1. After(0) \in Places
    BY DEF After, Places
  <2> QED
    BY <2>1, Numbers DEF Gathered, Goto, Types
<1>2. QueueInv' /\ \A p \in Peer : Admitted(p)
  <2>1. Queue' = Queue
    BY DEF Queue
  <2> QED
    BY <1>1, <2>1, GatherQueue DEF RootEarly, Stuck, Places
<1>3. buf = Full(R) /\ \A p \in Peer : Served(p)
  BY SMT, SizeAssumption DEF RootInv, Peer
<1>4. \A q \in Rank : <<q, round'[0]>> \notin buf'
  BY <1>1, <1>3, FullFacts
<1>5. ASSUME NEW p \in Peer PROVE Admitted(p)'
  <2>1. ASSUME NEW k PROVE /\ Sends(p, k) => Sends(p, k)'
                           /\ Ahead(p, k) => Ahead(p, k)'
    BY <1>1 DEF Sends, Ahead, ToRoot, ToRank
  <2>1a. PICK n \in Nat : n = R
    BY <1>1
  <2>2. Sends(p, n)' \/ Ahead(p, n + 1)'
    BY <1>3, <2>1, <2>1a DEF Served
  <2>3. n = round'[0] - 1 /\ n + 1 = round'[0]
    BY SMT, <1>1, <2>1a
  <2>4. ~Consumed(p)'
    BY <1>4, Numbers DEF Consumed
  <2>5. Behind(p)'
    BY <2>2, <2>3, <2>4 DEF Behind
  <2> QED
    BY <1>2, <2>5 DEF Admitted
<1>6. Slots'
  BY <1>5 DEF Slots
<1>7. RootInv'
  BY <1>1, <1>4, <1>5 DEF RootInv, RootEarly, Places, Stuck
<1>8. OthersInv'
  BY DEF OthersInv, ToRoot
<1> QED
  BY <1>2, <1>3, <1>6, <1>7, <1>8 DEF Core

----------------------------------------------------------------------------
(* The rest of the invariant.                                              *)

Boots == {boot(q) : q \in Client}

\* The data listeners' queues are as they were, or closed.
DataQuiet ==
  \A q \in Rank : backlog'[<<q, "data">>] \in {backlog[<<q, "data">>], <<>>}

LEMMA QuietMove ==
  ASSUME IInv, NEW r \in Rank, NEW place, pc' = [pc EXCEPT ![r] = place],
         place # "whois", \A q \in Rank \ {r} : cur'[q] = cur[q], DataQuiet
  PROVE  MeshInv'
<1> USE DEF IInv
<1>1. \A q \in Rank : IF q = r THEN pc'[q] = place ELSE pc'[q] = pc[q]
  BY DEF Types
<1>2. \A q \in Rank : pc'[q] = "whois" => cur'[q] \notin {boot(p) : p \in Client}
  BY <1>1 DEF MeshInv
<1>3. \A q \in Rank : \A j \in DOMAIN backlog'[<<q, "data">>] :
        backlog'[<<q, "data">>][j] \notin {boot(p) : p \in Client}
  <2> SUFFICES ASSUME NEW q \in Rank, NEW j \in DOMAIN backlog'[<<q, "data">>]
               PROVE  backlog'[<<q, "data">>][j] \notin {boot(p) : p \in Client}
    OBVIOUS
  <2>1. backlog'[<<q, "data">>] = backlog[<<q, "data">>]
    BY SMT DEF DataQuiet
  <2> QED
    BY <2>1 DEF MeshInv
<1> QED
  BY <1>2, <1>3 DEF MeshInv

LEMMA OtherWire ==
  ASSUME Types, NEW c, c \notin Boots, NEW r, NEW m,
         wire' = Sent(c, r, m) \/ wire' = Taken(c, r)
  PROVE  WireTypes' /\ SameBoots
<1>1. PICK k, v : wire' = [wire EXCEPT ![c][k] = v]
  BY DEF Sent, Taken
<1>2. DOMAIN wire' = Conn /\ \A d \in Conn : DOMAIN wire'[d] = 1 .. 2
  BY <1>1 DEF Types
<1>3. \A d \in Conn : d # c => wire'[d] = wire[d]
  BY <1>1 DEF Types
<1> QED
  BY <1>2, <1>3, Numbers DEF WireTypes, SameBoots, ToRoot, ToRank, Boots

\* A process whose sockets are closed.
LEMMA CloseAllInv ==
  ASSUME IInv, NEW r \in Rank, NEW outcome \in {"failed", "crashed"},
         CloseAll(r, outcome)
  PROVE  IInv'
<1> USE DEF IInv
<1>1. /\ pc' = [pc EXCEPT ![r] = outcome]
      /\ backlog' = [l \in DOMAIN backlog |-> IF l[1] = r THEN <<>> ELSE backlog[l]]
      /\ UNCHANGED <<transport, wire, i, cur, peerFds, round, buf, table>>
  BY DEF CloseAll, gather, given
<1>2. Types'
  BY SMT, <1>1 DEF Types
<1>3. DataQuiet /\ (Queue' = Queue \/ Queue' = <<>>)
  BY <1>1, Numbers DEF DataQuiet, Queue, Types
<1>4. MeshInv'
  BY <1>1, <1>3, QuietMove
<1>5. Core'
  <2>1. CalmMove(r, outcome) /\ SameBoots
    BY <1>1 DEF CalmMove, SameBoots, ToRoot, ToRank
  <2> QED
    BY <1>1, <1>3, <2>1, CalmStep
<1>6. TableInv'
  BY <1>1 DEF TableInv
<1> QED
  BY <1>2, <1>4, <1>5, <1>6 DEF Core

LEMMA FailInv ==
  ASSUME IInv, NEW r \in Rank, Fail(r)
  PROVE  IInv'
BY CloseAllInv DEF Fail

\* Steps of pc alone: an all-gather of vcclCommSplit that fails, a call of it,
\* and what it and VerbsTransport::create do between and after all-gathers.
LEMMA MoveInv ==
  ASSUME IInv, NEW r \in Rank, NEW place \in {"splitFailed", "publish", "split"},
         pc' = [pc EXCEPT ![r] = place],
         place = "splitFailed" => pc[r] \in Places \cup {"table", "gather", "scatter"},
         place # "splitFailed" => pc[r] \in Places,
         UNCHANGED <<transport, backlog, wire, i, cur, peerFds, gather>>
  PROVE  IInv'
<1> USE DEF IInv
<1>1. UNCHANGED <<round, buf, table>>
  BY DEF gather
<1>2. Types'
  BY <1>1 DEF Types
<1>3. DataQuiet /\ Queue' = Queue
  BY DEF DataQuiet, Queue
<1>4. MeshInv'
  BY <1>1, <1>3, QuietMove
<1>5. Core'
  <2>1. CalmMove(r, place) /\ SameBoots
    BY DEF CalmMove, SameBoots, ToRoot, ToRank, Places
  <2> QED
    BY <1>1, <1>3, <2>1, CalmStep
<1>6. TableInv'
  BY <1>1 DEF TableInv
<1> QED
  BY <1>2, <1>4, <1>5, <1>6 DEF Core

LEMMA BrokenInv ==
  ASSUME IInv, NEW r \in Rank, pc[r] \in {"publish", "table", "gather", "scatter"},
         Broken(r)
  PROVE  IInv'
<1>1. CASE Fail(r)
  BY <1>1, FailInv
<1>2. CASE Goto(r, "splitFailed") /\ UNCHANGED <<given, net, i, cur, peerFds, fds, gather>>
  <2>1. UNCHANGED <<transport, backlog, wire, i, cur, peerFds, gather>>
    BY <1>2 DEF given, net
  <2> QED
    BY <1>2, <2>1, MoveInv DEF Goto, Places
<1> QED
  BY <1>1, <1>2 DEF Broken

----------------------------------------------------------------------------
(* Each action keeps the invariant.                                        *)

LEMMA Assemble ==
  ASSUME IInv, NEW r \in Rank, NEW place, pc' = [pc EXCEPT ![r] = place],
         place \notin {"mesh", "introduce", "whois", "ready"},
         transport' = transport, round' = round, table' = table,
         WireTypes', BacklogTypes', DataQuiet, i' \in [Rank -> Nat],
         DOMAIN cur' = Rank, \A q \in Rank \ {r} : cur'[q] = cur[q],
         DOMAIN peerFds' = Rank, Core'
  PROVE  IInv'
<1>1. Types'
  BY DEF IInv, Types, WireTypes, BacklogTypes
<1>2. MeshInv'
  BY QuietMove
<1>3. TableInv'
  BY DEF IInv, TableInv
<1> QED
  BY <1>1, <1>2, <1>3 DEF IInv, Core

\* For a step that leaves all ranks where they are.
LEMMA AssembleHere ==
  ASSUME IInv, pc' = pc, cur' = cur, transport' = transport, round' = round,
         table' = table, WireTypes', BacklogTypes', DataQuiet,
         i' \in [Rank -> Nat], DOMAIN peerFds' = Rank, Core'
  PROVE  IInv'
<1>1. Types'
  BY DEF IInv, Types, WireTypes, BacklogTypes
<1>2. MeshInv'
  <2>1. \A q \in Rank : \A j \in DOMAIN backlog'[<<q, "data">>] :
          backlog'[<<q, "data">>] = backlog[<<q, "data">>]
    BY SMT DEF DataQuiet
  <2> QED
    BY <2>1 DEF IInv, MeshInv
<1>3. TableInv'
  BY DEF IInv, TableInv
<1> QED
  BY <1>1, <1>2, <1>3 DEF IInv, Core

\* What a step that leaves the queues, or the wire, alone need not show.
LEMMA Unchanged ==
  ASSUME IInv
  PROVE  /\ BacklogTypes /\ WireTypes
         /\ i \in [Rank -> Nat] /\ DOMAIN cur = Rank /\ DOMAIN peerFds = Rank
         /\ backlog' = backlog => BacklogTypes' /\ DataQuiet
         /\ wire' = wire => WireTypes'
BY DEF IInv, Types, BacklogTypes, WireTypes, DataQuiet

LEMMA BindInv ==
  ASSUME IInv, Bind
  PROVE  IInv'
<1>1. /\ pc' = [pc EXCEPT ![0] = "accept"]
      /\ UNCHANGED <<transport, backlog, wire, i, cur, peerFds, round, table>>
  BY DEF Bind, Goto, given, gather
<1> QED
  BY <1>1, Numbers, Unchanged, BindStep, Assemble

LEMMA BootQueue ==
  ASSUME IInv, NEW s \in Seq(Nat \X Nat \X {"boot", "data"}),
         backlog' = [backlog EXCEPT ![<<0, "boot">>] = s]
  PROVE  BacklogTypes' /\ DataQuiet
BY Numbers DEF IInv, Types, BacklogTypes, DataQuiet

LEMMA RootAcceptInv ==
  ASSUME IInv, RootAccept
  PROVE  IInv'
<1>1. /\ pc' = [pc EXCEPT ![0] = "hello"]
      /\ cur' = [cur EXCEPT ![0] = Queue[1]]
      /\ backlog' = [backlog EXCEPT ![<<0, "boot">>] = Tail(Queue)]
      /\ Queue # <<>>
      /\ UNCHANGED <<transport, wire, i, peerFds, round, table>>
  BY DEF RootAccept, acceptOne, Queue, Goto, given, gather
<1>2. Tail(Queue) \in Seq(Nat \X Nat \X {"boot", "data"})
  <2>1. Queue \in Seq(Nat \X Nat \X {"boot", "data"})
    BY Numbers DEF IInv, Types, Queue
  <2> QED
    BY SMT, <1>1, <2>1
<1>3. BacklogTypes' /\ DataQuiet
  BY <1>1, <1>2, BootQueue
<1>4. DOMAIN cur' = Rank /\ \A q \in Rank \ {0} : cur'[q] = cur[q]
  BY <1>1, Unchanged
<1> QED
  BY <1>1, <1>3, <1>4, Numbers, Unchanged, RootAcceptStep, Assemble

LEMMA RootHelloInv ==
  ASSUME IInv, RootHello
  PROVE  IInv'
<1>1. PICK q \in Client : cur[0] = boot(q)
  BY DEF RootHello, IInv, QueueInv
<1>2. CASE /\ Arrived(boot(q), 0) /\ HelloOk(Inbox(boot(q), 0)[1])
           /\ Admit(boot(q), Inbox(boot(q), 0)[1].rank)
           /\ UNCHANGED <<given, i, cur, fds, gather>>
  <2>1. /\ UNCHANGED <<transport, i, cur, round, table, gather>>
        /\ peerFds' = [peerFds EXCEPT ![Inbox(boot(q), 0)[1].rank] = boot(q)]
        /\ wire' = [Taken(boot(q), 0) EXCEPT ![boot(q)][1] = Append(@, 1)]
    BY <1>2 DEF Admit, given, gather
  <2>2. PICK place \in {"publish", "accept"} : pc' = [pc EXCEPT ![0] = place]
    BY <1>2 DEF Admit, Goto
  <2>3. WireTypes'
    BY <2>1, BootAdmitted DEF IInv
  <2>4. BacklogTypes' /\ DataQuiet
    <3>1. CASE backlog' = backlog
      BY <3>1, Unchanged
    <3>2. CASE backlog' = [backlog EXCEPT ![<<0, "boot">>] = <<>>]
      <4>1. <<>> \in Seq(Nat \X Nat \X {"boot", "data"})
        BY SMT
      <4> QED
        BY <3>2, <4>1, BootQueue
    <3> QED
      BY <1>2, <3>1, <3>2 DEF Admit
  <2>5. Core'
    BY <1>1, <1>2, <2>1, AdmitStep DEF RootHello
  <2>6. DOMAIN peerFds' = Rank
    BY <2>1, Unchanged
  <2> QED
    BY <2>1, <2>2, <2>3, <2>4, <2>5, <2>6, Numbers, Unchanged, Assemble
<1>3. CASE Reject(boot(q))
  <2>1. /\ UNCHANGED <<transport, backlog, i, cur, peerFds, round, table>>
        /\ wire' = Sent(boot(q), 0, 0) /\ pc' = [pc EXCEPT ![0] = "accept"]
    BY <1>3 DEF Reject, Goto, given, gather
  <2>2. WireTypes'
    BY <2>1, BootAnswered DEF IInv
  <2>3. Core'
    BY <1>1, <1>3, RejectStep DEF RootHello
  <2> QED
    BY <2>1, <2>2, <2>3, Numbers, Unchanged, Assemble
<1> QED
  BY <1>1, <1>2, <1>3 DEF RootHello

LEMMA ConnectRootInv ==
  ASSUME IInv, NEW p \in Peer, ConnectRoot(p)
  PROVE  IInv'
<1>1. boot(p)[2] = 0 /\ boot(p)[3] = "boot"
  BY DEF boot
<1>2. /\ pc' = [pc EXCEPT ![p] = "greet"]
      /\ backlog' = [backlog EXCEPT ![<<0, "boot">>] = Append(Queue, boot(p))]
      /\ UNCHANGED <<transport, wire, i, cur, peerFds, round, table>>
  BY <1>1 DEF ConnectRoot, Connect, Queue, Goto, given, gather, boot
<1>3. Append(Queue, boot(p)) \in Seq(Nat \X Nat \X {"boot", "data"})
  <2>1. /\ Queue \in Seq(Nat \X Nat \X {"boot", "data"})
        /\ boot(p) \in Nat \X Nat \X {"boot", "data"}
    BY Numbers DEF IInv, Types, Queue, boot
  <2> QED
    BY SMT, <2>1
<1>4. BacklogTypes' /\ DataQuiet
  BY <1>2, <1>3, BootQueue
<1> QED
  BY <1>2, <1>4, Numbers, Unchanged, ConnectRootStep, Assemble

LEMMA SendHelloInv ==
  ASSUME IInv, NEW p \in Peer, SendHello(p)
  PROVE  IInv'
<1>1. CASE Fail(p)
  BY <1>1, FailInv, Numbers
<1>2. CASE /\ wire' = Sent(boot(p), p, Hello(p)) /\ Goto(p, "reply")
           /\ UNCHANGED <<given, listening, backlog, ends, i, cur, peerFds, fds, gather>>
  <2>1. /\ pc' = [pc EXCEPT ![p] = "reply"]
        /\ UNCHANGED <<transport, backlog, i, cur, peerFds, round, table>>
    BY <1>2 DEF Goto, given, gather
  <2>2. WireTypes'
    BY <1>2, BootSent, Numbers DEF IInv
  <2>3. pc'[p] = "reply"
    BY <2>1, Numbers DEF IInv, Types
  <2> QED
    BY <2>1, <2>2, <2>3, Numbers, Unchanged, SendHelloStep, Assemble
<1> QED
  BY <1>1, <1>2 DEF SendHello, boot, Hello

LEMMA GetReplyInv ==
  ASSUME IInv, NEW p \in Peer, GetReply(p)
  PROVE  IInv'
<1>1. CASE Fail(p)
  BY <1>1, FailInv, Numbers
<1>2. CASE /\ wire' = Taken(boot(p), p) /\ Goto(p, "publish")
           /\ UNCHANGED <<given, listening, backlog, ends, i, cur, peerFds, fds, gather>>
  <2>1. /\ pc' = [pc EXCEPT ![p] = "publish"]
        /\ UNCHANGED <<transport, backlog, i, cur, peerFds, round, table>>
    BY <1>2 DEF Goto, given, gather
  <2>2. WireTypes'
    BY <1>2, BootTaken, Numbers DEF IInv
  <2>3. pc'[p] = "publish"
    BY <2>1, Numbers DEF IInv, Types
  <2> QED
    BY <2>1, <2>2, <2>3, Numbers, Unchanged, GetReplyStep, Assemble
<1> QED
  BY <1>1, <1>2 DEF GetReply, boot

LEMMA PublishInv ==
  ASSUME IInv, NEW p \in Peer, Publish(p)
  PROVE  IInv'
<1>1. CASE Broken(p)
  BY <1>1, BrokenInv, Numbers DEF Publish
<1>2. CASE /\ wire' = Sent(boot(p), p, <<p, round[p]>>) /\ Goto(p, "table")
           /\ UNCHANGED <<given, backlog, ends, i, cur, peerFds, fds, gather>>
  <2>1. /\ pc' = [pc EXCEPT ![p] = "table"]
        /\ UNCHANGED <<transport, backlog, i, cur, peerFds, round, table>>
    BY <1>2 DEF Goto, given, gather
  <2>2. WireTypes'
    BY <1>2, BootSent, Numbers DEF IInv
  <2>3. pc'[p] = "table"
    BY <2>1, Numbers DEF IInv, Types
  <2> QED
    BY <2>1, <2>2, <2>3, Numbers, Unchanged, PublishStep, Assemble
<1> QED
  BY <1>1, <1>2 DEF Publish, boot

LEMMA PublishRootInv ==
  ASSUME IInv, PublishRoot
  PROVE  IInv'
<1>1. /\ pc' = [pc EXCEPT ![0] = "gather"] /\ i' = [i EXCEPT ![0] = 1]
      /\ UNCHANGED <<transport, backlog, wire, cur, peerFds, round, table>>
  BY DEF PublishRoot, Goto, given
<1>2. i' \in [Rank -> Nat]
  BY <1>1, Unchanged
<1> QED
  BY <1>1, <1>2, Numbers, Unchanged, PublishRootStep, Assemble

LEMMA GatherInv ==
  ASSUME IInv, Gather
  PROVE  IInv'
<1>1. CASE Broken(0)
  BY <1>1, BrokenInv, Numbers DEF Gather
<1>2. CASE ~Broken(0)
  <2>1. PICK k \in Peer : k = i[0]
    BY DEF Gather, IInv, RootInv
  <2>2. peerFds[i[0]] = boot(k)
    BY <2>1 DEF Gather, IInv, RootInv, RootEarly, Stuck, Admitted
  <2>3. /\ pc[0] = "gather"
        /\ Arrived(boot(k), 0) /\ buf' = buf \cup {Inbox(boot(k), 0)[1]}
        /\ wire' = Taken(boot(k), 0)
        /\ IF k = N - 1 THEN Goto(0, "scatter") /\ i' = [i EXCEPT ![0] = 1]
           ELSE i' = [i EXCEPT ![0] = @ + 1] /\ UNCHANGED pc
        /\ UNCHANGED <<transport, backlog, cur, peerFds, round, table>>
    BY <1>2, <2>1, <2>2 DEF Gather, given
  <2>4. Core'
    BY <2>1, <2>3, GatherStep
  <2>5. WireTypes'
    BY <2>3, BootRead, Numbers DEF IInv
  <2>7. i' \in [Rank -> Nat]
    BY SMT, <2>3, Unchanged
  <2>6. CASE pc' = [pc EXCEPT ![0] = "scatter"]
    BY <2>3, <2>4, <2>5, <2>6, <2>7, Numbers, Unchanged, Assemble
  <2>8. CASE pc' = pc
    BY <2>3, <2>4, <2>5, <2>8, <2>7, Unchanged, AssembleHere
  <2> QED
    BY <2>3, <2>6, <2>8 DEF Goto
<1> QED
  BY <1>1, <1>2

LEMMA OtherClientInv ==
  ASSUME IInv, NEW q \in N .. N + Others - 1, OtherClient(q)
  PROVE  IInv'
<1>1. q \in Client
  BY SMT, SizeAssumption DEF Client
<1>2. /\ backlog' = [backlog EXCEPT ![<<0, "boot">>] = Append(Queue, boot(q))]
      /\ UNCHANGED <<transport, pc, i, cur, peerFds, round, table>>
  BY DEF OtherClient, Queue, boot, given, gather, local
<1>3. Append(Queue, boot(q)) \in Seq(Nat \X Nat \X {"boot", "data"})
  <2>1. /\ Queue \in Seq(Nat \X Nat \X {"boot", "data"})
        /\ boot(q) \in Nat \X Nat \X {"boot", "data"}
    BY <1>1, Numbers DEF IInv, Types, Queue, boot
  <2> QED
    BY SMT, <2>1
<1>4. BacklogTypes' /\ DataQuiet
  BY <1>2, <1>3, BootQueue
<1>5. WireTypes'
  <2>1. CASE wire' = wire
    BY <2>1, Unchanged
  <2>2. ASSUME NEW m, wire' = Sent(boot(q), q, m) PROVE WireTypes'
    BY <1>1, <2>2, BootSent DEF IInv
  <2> QED
    BY <2>1, <2>2 DEF OtherClient, boot
<1>6. Core'
  BY OtherClientStep
<1> QED
  BY <1>2, <1>4, <1>5, <1>6, Unchanged, AssembleHere

\* An all-gather returns to r what all ranks have published in it.
LEMMA GatheredInv ==
  ASSUME IInv, NEW r \in Rank, Gathered(r, Full(round[r])), Core', WireTypes',
         pc[r] \in {"scatter", "table"},
         UNCHANGED <<transport, backlog, cur, peerFds>>
  PROVE  IInv'
<1> USE DEF IInv
<1>1. /\ round[r] \in Nat \ {0}
      /\ table' = [table EXCEPT ![r] = Append(table[r], Full(round[r]))]
      /\ round' = [round EXCEPT ![r] = round[r] + 1]
      /\ pc' = [pc EXCEPT ![r] = After(r)]
      /\ i' = [i EXCEPT ![r] = 0]
  BY DEF Gathered, Goto, Types
<1>2. Types'
  BY SMT, <1>1 DEF Types, WireTypes
<1>3. \A q \in Rank \ {r} : /\ table'[q] = table[q] /\ round'[q] = round[q]
                           /\ pc'[q] = pc[q]
  BY <1>1 DEF Types
<1>4. round'[r] = round[r] + 1 /\ pc'[r] = After(r)
  BY <1>1 DEF Types
<1>5. TableInv'
  <2> DEFINE T == SUBSET (Rank \X Nat)
             s == table[r]
             e == Full(round[r])
  <2>1. s \in Seq(T) /\ e \in T /\ Len(s) = round[r] - 1
    BY SMT, <1>1 DEF TableInv, Full
  <2>2. table'[r] = Append(s, e)
    BY <1>1 DEF Types
  <2>3. \A k \in DOMAIN s : s[k] = Full(k)
    BY DEF TableInv
  <2>4. e = Full(Len(s) + 1)
    <3>1. Len(s) + 1 = round[r]
      BY SMT, <1>1, <2>1
    <3> QED
      BY <3>1
  <2> HIDE DEF T, s, e
  <2>5. /\ Append(s, e) \in Seq(T) /\ Len(Append(s, e)) = Len(s) + 1
    BY SMT, <2>1
  <2>6. \A k \in DOMAIN Append(s, e) : Append(s, e)[k] = Full(k)
    BY SMT, <2>1, <2>3, <2>4, Appended
  <2>7. Len(s) + 1 = round'[r] - 1
    BY SMT, <1>1, <1>4, <2>1
  <2> QED
    BY <1>3, <2>2, <2>5, <2>6, <2>7 DEF TableInv, T
<1>6. MeshInv'
  BY <1>3, <1>4 DEF MeshInv, After
<1> QED
  BY <1>2, <1>5, <1>6 DEF Core

LEMMA ScatterInv ==
  ASSUME IInv, Scatter
  PROVE  IInv'
<1>0. pc[0] = "scatter" /\ i[0] \in 1 .. N
  BY DEF Scatter, IInv, RootInv
<1>1. CASE Broken(0)
  BY <1>0, <1>1, BrokenInv, Numbers
<1>2. CASE /\ i[0] < N /\ wire' = Sent(peerFds[i[0]], 0, buf)
           /\ i' = [i EXCEPT ![0] = @ + 1]
           /\ UNCHANGED <<given, listening, backlog, ends, pc, cur, peerFds, fds, gather>>
  <2>1. PICK k \in Peer : k = i[0]
    BY SMT, <1>0, <1>2, SizeAssumption DEF Peer
  <2>2. peerFds[i[0]] = boot(k)
    BY <1>0, <2>1 DEF IInv, RootInv, RootEarly, Stuck, Admitted
  <2>3. /\ wire' = Sent(boot(k), 0, buf)
        /\ UNCHANGED <<transport, backlog, pc, cur, peerFds, round, table, buf>>
    BY <1>2, <2>2 DEF given, gather
  <2>4. Core'
    BY <1>0, <1>2, <2>1, <2>3, ScatterStep
  <2>5. WireTypes'
    BY <2>3, BootAnswered, Numbers DEF IInv
  <2>6. i' \in [Rank -> Nat]
    <3>1. i' = [i EXCEPT ![0] = @ + 1] /\ i \in [Rank -> Nat]
      BY <1>2 DEF IInv, Types
    <3> QED
      BY SMT, <3>1, Numbers
  <2> QED
    BY <2>3, <2>4, <2>5, <2>6, Unchanged, AssembleHere
<1>3. CASE i[0] = N /\ Gathered(0, buf) /\ UNCHANGED <<given, net, cur, peerFds, fds, buf>>
  <2>1. UNCHANGED <<transport, backlog, wire, cur, peerFds, buf>>
    BY <1>3 DEF given, net
  <2>2. Core' /\ buf = Full(round[0])
    BY <1>0, <1>3, <2>1, ScatteredStep
  <2>3. WireTypes'
    BY <2>1, Unchanged
  <2>4. Gathered(0, Full(round[0]))
    BY <1>3, <2>2
  <2> QED
    BY <1>0, <2>1, <2>2, <2>3, <2>4, Numbers, GatheredInv
<1> QED
  BY <1>1, <1>2, <1>3 DEF Scatter

LEMMA GetTableInv ==
  ASSUME IInv, NEW p \in Peer, GetTable(p)
  PROVE  IInv'
<1>1. CASE Broken(p)
  BY <1>1, BrokenInv, Numbers DEF GetTable
<1>2. CASE /\ Gathered(p, Inbox(boot(p), p)[1]) /\ wire' = Taken(boot(p), p)
           /\ UNCHANGED <<given, listening, backlog, ends, cur, peerFds, fds, buf>>
  <2>1. UNCHANGED <<transport, backlog, cur, peerFds, buf>>
    BY <1>2 DEF given
  <2>2. Core' /\ Inbox(boot(p), p)[1] = Full(round[p])
    BY <1>2, <2>1, GetTableStep
  <2>3. WireTypes'
    BY <1>2, BootTaken, Numbers DEF IInv
  <2>4. Gathered(p, Full(round[p]))
    BY <1>2, <2>2
  <2> QED
    BY <2>1, <2>2, <2>3, <2>4, Numbers, GatheredInv DEF GetTable
<1> QED
  BY <1>1, <1>2 DEF GetTable, boot

\* A step of the mesh: its connections are not those of the bootstrap.
LEMMA MeshStepInv ==
  ASSUME IInv, NEW r \in Rank, pc[r] \in {"mesh", "introduce", "whois"},
         NEW place \in {"mesh", "introduce", "whois", "ready"},
         pc' = [pc EXCEPT ![r] = place],
         UNCHANGED <<transport, peerFds, gather>>,
         SameBoots, WireTypes', BacklogTypes', Queue' = Queue,
         i' \in [Rank -> Nat], \A q \in Rank \ {r} : i'[q] = i[q],
         DOMAIN cur' = Rank, \A q \in Rank \ {r} : cur'[q] = cur[q],
         place = "whois" => cur'[r] \notin Boots,
         \A q \in Rank : \A j \in DOMAIN backlog'[<<q, "data">>] :
           backlog'[<<q, "data">>][j] \notin Boots
  PROVE  IInv'
<1> USE DEF IInv
<1>1. UNCHANGED <<round, buf, table>>
  BY DEF gather
<1>2. Types'
  BY <1>1 DEF Types, WireTypes, BacklogTypes
<1>3. CalmMove(r, place)
  BY DEF CalmMove, Places
<1>4. Core'
  BY <1>1, <1>3, Numbers, CalmStep
<1>5. TableInv'
  BY <1>1 DEF TableInv
<1>6. MeshInv'
  <2>1. \A q \in Rank : IF q = r THEN pc'[q] = place ELSE pc'[q] = pc[q]
    BY DEF Types
  <2>2. \A q \in Rank : pc'[q] = "whois" => cur'[q] \notin Boots
    BY <2>1 DEF MeshInv, Boots
  <2> QED
    BY <2>2 DEF MeshInv, Boots
<1> QED
  BY <1>2, <1>4, <1>5, <1>6 DEF Core

LEMMA DataQueue ==
  ASSUME IInv, NEW k \in Rank, NEW s \in Seq(Nat \X Nat \X {"boot", "data"}),
         \A j \in DOMAIN s : s[j] \notin Boots,
         backlog' = [backlog EXCEPT ![<<k, "data">>] = s]
  PROVE  /\ BacklogTypes' /\ Queue' = Queue
         /\ \A q \in Rank : \A j \in DOMAIN backlog'[<<q, "data">>] :
              backlog'[<<q, "data">>][j] \notin Boots
<1>1. BacklogTypes' /\ Queue' = Queue
  BY Numbers DEF IInv, Types, BacklogTypes, Queue
<1>2. \A q \in Rank : backlog'[<<q, "data">>] = IF q = k THEN s ELSE backlog[<<q, "data">>]
  BY DEF IInv, Types
<1> QED
  BY <1>1, <1>2 DEF IInv, MeshInv, Boots

LEMMA DialInv ==
  ASSUME IInv, NEW r \in Rank, Dial(r)
  PROVE  IInv'
<1> DEFINE c == <<r, i[r], "data">>
           T == Nat \X Nat \X {"boot", "data"}
           s == backlog[<<i[r], "data">>]
<1>1. i[r] \in Rank /\ c \in T /\ c \notin Boots
  BY SMT, Numbers, SizeAssumption DEF Dial, IInv, Types, Rank, Boots, boot
<1>2. s \in Seq(T) /\ \A j \in DOMAIN s : s[j] \notin Boots
  BY <1>1 DEF IInv, Types, MeshInv, Boots
<1>3. Append(s, c) \in Seq(T) /\ \A j \in DOMAIN Append(s, c) : Append(s, c)[j] \notin Boots
  <2> HIDE DEF T, s, c
  <2> QED
    BY SMT, <1>1, <1>2, Appended
<1>4. backlog' = [backlog EXCEPT ![<<i[r], "data">>] = Append(s, c)]
  BY DEF Dial, Connect
<1>5. /\ BacklogTypes' /\ Queue' = Queue
      /\ \A q \in Rank : \A j \in DOMAIN backlog'[<<q, "data">>] :
           backlog'[<<q, "data">>][j] \notin Boots
  <2> HIDE DEF s, c
  <2> QED
    BY <1>1, <1>3, <1>4, DataQueue
<1>6. /\ pc[r] = "mesh" /\ pc' = [pc EXCEPT ![r] = "introduce"]
      /\ UNCHANGED <<transport, wire, i, cur, peerFds, gather>>
  BY DEF Dial, Goto, given
<1>7. SameBoots /\ WireTypes'
  BY <1>6, Unchanged DEF SameBoots, ToRoot, ToRank
<1>8. i' \in [Rank -> Nat] /\ DOMAIN cur' = Rank
  BY <1>6, Unchanged
<1> QED
  BY <1>5, <1>6, <1>7, <1>8, MeshStepInv

LEMMA IntroduceInv ==
  ASSUME IInv, NEW r \in Rank, Introduce(r)
  PROVE  IInv'
<1> DEFINE c == <<r, i[r], "data">>
<1>1. CASE Fail(r)
  BY <1>1, FailInv
<1>2. CASE /\ wire' = Sent(c, r, r) /\ Goto(r, "mesh")
           /\ fds' = [fds EXCEPT ![r][i[r]] = c] /\ i' = [i EXCEPT ![r] = @ + 1]
           /\ UNCHANGED <<given, listening, backlog, ends, cur, peerFds, gather>>
  <2>1. c \notin Boots
    BY DEF Boots, boot
  <2>2. SameBoots /\ WireTypes'
    BY <1>2, <2>1, OtherWire DEF IInv
  <2>3. /\ pc' = [pc EXCEPT ![r] = "mesh"] /\ i' = [i EXCEPT ![r] = @ + 1]
        /\ UNCHANGED <<transport, backlog, cur, peerFds, gather>>
    BY <1>2 DEF Goto, given
  <2>4. i' \in [Rank -> Nat] /\ \A q \in Rank \ {r} : i'[q] = i[q]
    <3>1. i \in [Rank -> Nat]
      BY DEF IInv, Types
    <3> QED
      BY SMT, <2>3, <3>1
  <2>5. /\ BacklogTypes' /\ Queue' = Queue /\ DOMAIN cur' = Rank
        /\ \A q \in Rank : \A j \in DOMAIN backlog'[<<q, "data">>] :
             backlog'[<<q, "data">>][j] \notin Boots
    BY <2>3, Unchanged DEF Queue, IInv, MeshInv, Boots
  <2> QED
    BY <2>2, <2>3, <2>4, <2>5, MeshStepInv DEF Introduce
<1> QED
  BY <1>1, <1>2 DEF Introduce

LEMMA AcceptPeerInv ==
  ASSUME IInv, NEW r \in Rank, AcceptPeer(r)
  PROVE  IInv'
<1> DEFINE T == Nat \X Nat \X {"boot", "data"}
           s == backlog[<<r, "data">>]
<1>1. s \in Seq(T) /\ s # <<>> /\ \A j \in DOMAIN s : s[j] \notin Boots
  BY DEF AcceptPeer, acceptOne, IInv, Types, MeshInv, Boots
<1>2. /\ Tail(s) \in Seq(T) /\ \A j \in DOMAIN Tail(s) : Tail(s)[j] \notin Boots
      /\ s[1] \notin Boots
  <2> HIDE DEF T, s
  <2> QED
    BY SMT, <1>1, Removed
<1>3. /\ pc[r] = "mesh" /\ pc' = [pc EXCEPT ![r] = "whois"]
      /\ cur' = [cur EXCEPT ![r] = s[1]]
      /\ backlog' = [backlog EXCEPT ![<<r, "data">>] = Tail(s)]
      /\ UNCHANGED <<transport, wire, i, peerFds, gather>>
  BY DEF AcceptPeer, acceptOne, Goto, given
<1>4. /\ BacklogTypes' /\ Queue' = Queue
      /\ \A q \in Rank : \A j \in DOMAIN backlog'[<<q, "data">>] :
           backlog'[<<q, "data">>][j] \notin Boots
  <2> HIDE DEF s
  <2> QED
    BY <1>2, <1>3, DataQueue
<1>5. /\ DOMAIN cur' = Rank /\ cur'[r] \notin Boots
      /\ \A q \in Rank \ {r} : cur'[q] = cur[q]
  BY <1>2, <1>3, Unchanged
<1>6. SameBoots /\ WireTypes' /\ i' \in [Rank -> Nat]
  BY <1>3, Unchanged DEF SameBoots, ToRoot, ToRank
<1> QED
  BY <1>3, <1>4, <1>5, <1>6, MeshStepInv

LEMMA WhoIsInv ==
  ASSUME IInv, NEW r \in Rank, WhoIs(r)
  PROVE  IInv'
<1>1. CASE Fail(r)
  BY <1>1, FailInv
<1>2. CASE ~Fail(r)
  <2>1. /\ pc[r] = "whois" /\ pc' = [pc EXCEPT ![r] = "mesh"]
        /\ wire' = Taken(cur[r], r) /\ i' = [i EXCEPT ![r] = @ + 1]
        /\ UNCHANGED <<transport, backlog, cur, peerFds, gather>>
    BY <1>2 DEF WhoIs, Goto, given
  <2>2. cur[r] \notin Boots
    BY <2>1 DEF IInv, MeshInv, Boots
  <2>3. SameBoots /\ WireTypes'
    BY <2>1, <2>2, OtherWire DEF IInv
  <2>4. i' \in [Rank -> Nat] /\ \A q \in Rank \ {r} : i'[q] = i[q]
    <3>1. i \in [Rank -> Nat]
      BY DEF IInv, Types
    <3> QED
      BY SMT, <2>1, <3>1
  <2>5. /\ BacklogTypes' /\ Queue' = Queue /\ DOMAIN cur' = Rank
        /\ \A q \in Rank : \A j \in DOMAIN backlog'[<<q, "data">>] :
             backlog'[<<q, "data">>][j] \notin Boots
    BY <2>1, Unchanged DEF Queue, IInv, MeshInv, Boots
  <2> QED
    BY <2>1, <2>3, <2>4, <2>5, MeshStepInv
<1> QED
  BY <1>1, <1>2

LEMMA MeshDoneInv ==
  ASSUME IInv, NEW r \in Rank, MeshDone(r)
  PROVE  IInv'
<1>1. /\ pc[r] = "mesh" /\ pc' = [pc EXCEPT ![r] = "ready"]
      /\ backlog' = [backlog EXCEPT ![<<r, "data">>] = <<>>]
      /\ UNCHANGED <<transport, wire, i, cur, peerFds, gather>>
  BY DEF MeshDone, Goto, given
<1>2. <<>> \in Seq(Nat \X Nat \X {"boot", "data"}) /\ DOMAIN <<>> = {}
  BY SMT
<1>3. /\ BacklogTypes' /\ Queue' = Queue
      /\ \A q \in Rank : \A j \in DOMAIN backlog'[<<q, "data">>] :
           backlog'[<<q, "data">>][j] \notin Boots
  BY <1>1, <1>2, DataQueue
<1>4. SameBoots /\ WireTypes' /\ i' \in [Rank -> Nat] /\ DOMAIN cur' = Rank
  BY <1>1, Unchanged DEF SameBoots, ToRoot, ToRank
<1> QED
  BY <1>1, <1>3, <1>4, MeshStepInv

LEMMA SplitInv ==
  ASSUME IInv, NEW r \in Rank,
         connectQp(r) \/ vcclCommSplit(r) \/ Elect(r) \/ Join(r)
  PROVE  IInv'
<1>1. CASE vcclCommSplit(r)
  <2>1. /\ pc[r] = "ready" /\ pc' = [pc EXCEPT ![r] = "publish"]
        /\ UNCHANGED <<transport, backlog, wire, i, cur, peerFds, gather>>
    BY <1>1 DEF vcclCommSplit, Goto, net
  <2> QED
    BY <2>1, MoveInv DEF Places
<1>2. CASE Elect(r)
  <2>1. PICK place \in {"publish", "splitFailed"} :
          /\ pc[r] = "elect" /\ pc' = [pc EXCEPT ![r] = place]
          /\ UNCHANGED <<transport, backlog, wire, i, cur, peerFds, gather>>
    BY <1>2 DEF Elect, Goto, net
  <2> QED
    BY <2>1, MoveInv DEF Places
<1>3. CASE Join(r)
  <2>1. /\ pc[r] = "join" /\ pc' = [pc EXCEPT ![r] = "split"]
        /\ UNCHANGED <<transport, backlog, wire, i, cur, peerFds, gather>>
    BY <1>3 DEF Join, Goto, net
  <2> QED
    BY <2>1, MoveInv DEF Places
<1>4. CASE connectQp(r)
  <2>1. /\ pc[r] = "connectQp" /\ pc' = [pc EXCEPT ![r] = "publish"]
        /\ UNCHANGED <<transport, backlog, wire, i, cur, peerFds, gather>>
    BY <1>4 DEF connectQp, Goto, net
  <2> QED
    BY <2>1, MoveInv DEF Places
<1> QED
  BY <1>1, <1>2, <1>3, <1>4

LEMMA InitInv ==
  ASSUME Init
  PROVE  IInv
<1>1. /\ backlog = [l \in Rank \X {"boot", "data"} |-> <<>>]
      /\ wire = [c \in Conn |-> [to \in 1 .. 2 |-> <<>>]]
      /\ i = [r \in Rank |-> 0] /\ cur = [r \in Rank |-> None]
      /\ peerFds = [r \in Rank |-> None]
      /\ round = [r \in Rank |-> 1] /\ buf = {}
      /\ table = [r \in Rank |-> <<>>]
      /\ DOMAIN pc = Rank /\ pc[0] \in RootEarly /\ pc[0] # "hello"
      /\ \A p \in Peer : pc[p] = "connect"
      /\ \A r \in Rank : pc[r] \notin {"mesh", "introduce", "whois", "ready"}
  <2>1. \A p \in Peer : p > 0 /\ p \in Rank
    BY SMT, SizeAssumption DEF Peer, Rank
  <2> QED
    BY SMT, <2>1, Numbers DEF Init, RootEarly
<1>2. Types
  BY SMT, <1>1 DEF Types
<1>3. \A q \in Client : ToRoot(q) = <<>> /\ ToRank(q) = <<>>
  BY SMT, <1>1, Numbers DEF ToRoot, ToRank
<1>4. Slots
  BY <1>1, <1>3, Numbers DEF Slots, Waits, Early
<1>5. RootInv
  BY <1>1, Numbers DEF RootInv, RootEarly
<1>6. QueueInv
  <2>1. Queue = <<>>
    BY <1>1, Numbers DEF Queue
  <2> QED
    BY SMT, <1>1, <2>1 DEF QueueInv, Queued
<1>7. OthersInv
  BY <1>3 DEF OthersInv
<1>8. MeshInv
  <2>1. \A r \in Rank : backlog[<<r, "data">>] = <<>>
    BY <1>1
  <2> QED
    BY SMT, <1>1, <2>1 DEF MeshInv
<1>9. TableInv
  BY SMT, <1>1 DEF TableInv
<1> QED
  BY <1>2, <1>4, <1>5, <1>6, <1>7, <1>8, <1>9 DEF IInv

LEMMA NextInv ==
  ASSUME IInv, [Next]_vars
  PROVE  IInv'
<1>1. ASSUME NEW r \in Rank, Proceed(r) PROVE IInv'
  <2>1. CASE r = 0 /\ Root
    BY <2>1, BindInv, RootAcceptInv, RootHelloInv, PublishRootInv, GatherInv,
       ScatterInv DEF Root
  <2>2. CASE r > 0 /\ (ConnectRoot(r) \/ SendHello(r) \/ GetReply(r) \/ Publish(r)
                         \/ GetTable(r))
    <3>1. r \in Peer
      BY SMT, <2>2, SizeAssumption DEF Peer, Rank
    <3> QED
      BY <2>2, <3>1, ConnectRootInv, SendHelloInv, GetReplyInv, PublishInv, GetTableInv
  <2>3. CASE Dial(r) \/ Introduce(r) \/ AcceptPeer(r) \/ WhoIs(r) \/ MeshDone(r)
    BY <2>3, DialInv, IntroduceInv, AcceptPeerInv, WhoIsInv, MeshDoneInv
  <2>4. CASE connectQp(r) \/ vcclCommSplit(r) \/ Elect(r) \/ Join(r)
    BY <2>4, SplitInv
  <2> QED
    BY <1>1, <2>1, <2>2, <2>3, <2>4 DEF Proceed
<1>2. ASSUME NEW r \in Rank, vcclCommSplit(r) PROVE IInv'
  BY <1>2, SplitInv
<1>3. ASSUME NEW r \in Rank, vcclCommDestroy(r) \/ Expired(r) \/ Crash(r) PROVE IInv'
  BY <1>3, CloseAllInv DEF vcclCommDestroy, Expired, Crash, Fail
<1>4. ASSUME NEW q \in N .. N + Others - 1, OtherClient(q) PROVE IInv'
  BY <1>4, OtherClientInv
<1>5. CASE UNCHANGED vars
  <2>1. UNCHANGED <<transport, backlog, wire, pc, i, cur, peerFds, round, buf, table>>
    BY <1>5 DEF vars, given, net, local, gather
  <2>2. Types' /\ MeshInv' /\ TableInv'
    BY <2>1 DEF IInv, Types, MeshInv, TableInv
  <2>3. SameBoots /\ Queue' = Queue
    BY <2>1 DEF SameBoots, ToRoot, ToRank, Queue
  <2>4. Slots' /\ RootInv' /\ OthersInv'
    BY <2>1, <2>3, QueueStep
  <2>5. QueueInv'
    BY <2>1 DEF IInv, QueueInv, Queued, Queue, ToRank
  <2> QED
    BY <2>2, <2>4, <2>5 DEF IInv
<1> QED
  BY <1>1, <1>2, <1>3, <1>4, <1>5 DEF Next

----------------------------------------------------------------------------
(* The theorems.                                                           *)

LEMMA Invariance == Spec => []IInv
<1>1. Init => IInv
  BY InitInv
<1>2. IInv /\ [Next]_vars => IInv'
  BY NextInv
<1> QED
  BY <1>1, <1>2, PTL DEF Spec

\* Whatever clients reach the root's port and whatever ranks crash, a slot of
\* Bootstrap::init's peerFds_ holds the connection of that rank, or nothing.
THEOREM SlotsKept == Spec => []SlotsRight
<1>1. IInv => SlotsRight
  BY Numbers DEF IInv, Slots, Waits, Admitted, SlotsRight, boot
<1> QED
  BY <1>1, Invariance, PTL

\* Every all-gather of every rank returns the entries of all ranks of that
\* all-gather: Bootstrap::allGather needs no tags on its streams.
THEOREM GathersNeverMixed == Spec => []TableComplete
<1>1. IInv => TableComplete
  BY DEF IInv, TableInv, TableComplete, Full
<1> QED
  BY <1>1, Invariance, PTL

----------------------------------------------------------------------------
(* The TCP mesh: a rank dials the lower ranks in order and then takes the  *)
(* higher ones as they come.                                               *)

Linking == {"mesh", "introduce", "whois"}
Apart == Linking \cup {"ready", "elect", "join"}
Unlinked ==
  RootEarly \cup Early \cup {"publish", "gather", "scatter", "table", "connectQp"}

Higher(r) == r + 1 .. N - 1

\* The connection of two ranks, and those that reach the listener of r.
Link(r, p) == IF p < r THEN <<r, p, "data">> ELSE <<p, r, "data">>
DialsTo(r) == {<<p, r, "data">> : p \in Higher(r)}

\* The higher ranks that r has a connection for.
Above(r) == {p \in Higher(r) : fds[r][p] # None}

\* All that the rank that dials ever says is who it is.
Streams == \A r \in Rank : \A p \in Higher(r) : wire[<<p, r, "data">>][2] \in Seq({p})

Dialled == \A r \in Rank : /\ backlog[<<r, "data">>] \in Seq(DialsTo(r))
                           /\ pc[r] = "whois" => cur[r] \in DialsTo(r)

\* The loop counter of r is the number of connections it has.
Linked(r) ==
  /\ \A p \in Rank : fds[r][p] \in {None, Link(r, p)}
  /\ r \notin splitting /\ pc[r] \in Unlinked => \A p \in Rank : fds[r][p] = None
  /\ pc[r] \in Linking =>
       /\ i[r] <= N - 1
       /\ pc[r] = "introduce" => i[r] < r
       /\ pc[r] = "whois" => r <= i[r] /\ i[r] < N - 1
       /\ \A p \in Rank : p < r /\ p < i[r] => fds[r][p] # None
       /\ i[r] < r => Cardinality(Above(r)) = 0
       /\ i[r] >= r => Cardinality(Above(r)) = i[r] - r
  /\ pc[r] = "ready" /\ transport = "tcp" => \A p \in Rank \ {r} : fds[r][p] # None
  /\ pc[r] \in {"elect", "join"} => r \in splitting

LInv == /\ DOMAIN fds = Rank /\ \A r \in Rank : DOMAIN fds[r] = Rank
        /\ Streams /\ Dialled /\ \A r \in Rank : Linked(r)

LEMMA LinkFacts ==
  ASSUME NEW r \in Rank, NEW p \in Rank, p # r
  PROVE  /\ Link(r, p) # None /\ Link(r, p) = Link(p, r)
         /\ p < r => Link(r, p) = <<r, p, "data">> /\ r \in Higher(p)
         /\ p > r => Link(r, p) = <<p, r, "data">> /\ p \in Higher(r)
<1>1. r \in Nat /\ p \in Nat /\ N \in Nat /\ r <= N - 1 /\ p <= N - 1
  BY SMT, SizeAssumption DEF Rank
<1>2. Link(r, p) # None
  BY DEF Link, None
<1>3. p < r \/ p > r
  BY SMT, <1>1
<1> QED
  BY SMT, <1>1, <1>2, <1>3 DEF Link, Higher

LEMMA HigherFacts ==
  ASSUME NEW r \in Rank, NEW p \in Higher(r)
  PROVE  /\ p \in Rank /\ p > r /\ p # r /\ <<p, r, "data">> \in Conn
         /\ <<p, r, "data">> \notin Boots
<1>1. r \in Nat /\ p \in Nat /\ N \in Nat /\ r < p /\ p <= N - 1
  BY SMT, SizeAssumption DEF Rank, Higher
<1>2. p \in Rank
  BY SMT, <1>1 DEF Rank
<1>3. <<p, r, "data">> \in Conn
  BY <1>1, <1>2 DEF Conn
<1>4. <<p, r, "data">> \notin Boots
  BY DEF Boots, boot
<1> QED
  BY SMT, <1>1, <1>2, <1>3, <1>4

\* A rank that no step touches.
LEMMA LinkedFrame ==
  ASSUME NEW q \in Rank, Linked(q), transport' = transport, fds'[q] = fds[q],
         pc'[q] = pc[q], i'[q] = i[q], q \in splitting' <=> q \in splitting
  PROVE  Linked(q)'
<1>1. Above(q)' = Above(q)
  BY DEF Above
<1> QED
  BY <1>1 DEF Linked

\* A step of r outside the mesh.
DataSame == \A r \in Rank : \A p \in Higher(r) : wire'[<<p, r, "data">>] = wire[<<p, r, "data">>]

Off(r) ==
  /\ fds' = fds /\ transport' = transport
  /\ \A q \in Rank \ {r} : /\ pc'[q] = pc[q] /\ i'[q] = i[q] /\ cur'[q] = cur[q]
                           /\ q \in splitting' <=> q \in splitting
  /\ pc'[r] \notin Linking /\ (pc'[r] = "ready" => transport # "tcp")
  /\ pc'[r] \in {"elect", "join"} => r \in splitting'
  /\ r \notin splitting' /\ pc'[r] \in Unlinked => r \notin splitting /\ pc[r] \in Unlinked
  /\ DataSame /\ DataQuiet

LEMMA QueuesQuiet ==
  ASSUME LInv, DataQuiet, NEW q \in Rank
  PROVE  backlog'[<<q, "data">>] \in Seq(DialsTo(q))
<1>1. <<>> \in Seq(DialsTo(q))
  BY SMT
<1> QED
  BY <1>1 DEF LInv, Dialled, DataQuiet

LEMMA OffInv ==
  ASSUME LInv, NEW r \in Rank, Off(r)
  PROVE  LInv'
<1>1. DOMAIN fds' = Rank /\ \A q \in Rank : DOMAIN fds'[q] = Rank
  BY DEF LInv, Off
<1>2. Streams'
  BY DEF LInv, Streams, Off, DataSame
<1>3. Dialled'
  BY QueuesQuiet DEF LInv, Dialled, Off, Linking
<1>4. ASSUME NEW q \in Rank PROVE Linked(q)'
  <2>1. CASE q # r
    BY <2>1, LinkedFrame DEF LInv, Off
  <2>2. CASE q = r
    BY <2>2 DEF LInv, Off, Linked
  <2> QED
    BY <2>1, <2>2
<1> QED
  BY <1>1, <1>2, <1>3, <1>4 DEF LInv

----------------------------------------------------------------------------
(* Steps outside the mesh.                                                 *)

\* The bootstrap's connections are not the mesh's.
LEMMA BootWire ==
  ASSUME IInv, NEW c \in Boots, NEW k, NEW v, wire' = [wire EXCEPT ![c][k] = v]
  PROVE  DataSame
<1>1. DOMAIN wire = Conn
  BY DEF IInv, Types
<1> QED
  BY <1>1, HigherFacts DEF DataSame

LEMMA BootWires ==
  ASSUME IInv, NEW c \in Boots, NEW r, NEW m,
         wire' = Sent(c, r, m) \/ wire' = Taken(c, r)
  PROVE  DataSame
<1>1. PICK k, v : wire' = [wire EXCEPT ![c][k] = v]
  BY DEF Sent, Taken
<1> QED
  BY <1>1, BootWire

LEMMA Stays ==
  ASSUME IInv
  PROVE  /\ wire' = wire => DataSame
         /\ backlog' = backlog => DataQuiet
         /\ \A s : backlog' = [backlog EXCEPT ![<<0, "boot">>] = s] => DataQuiet
<1>1. DOMAIN backlog = Rank \X {"boot", "data"}
  BY DEF IInv, Types
<1> QED
  BY <1>1 DEF DataSame, DataQuiet

LEMMA Moves ==
  ASSUME IInv, NEW r \in Rank, NEW place, pc' = [pc EXCEPT ![r] = place]
  PROVE  pc'[r] = place /\ \A q \in Rank \ {r} : pc'[q] = pc[q]
BY DEF IInv, Types

\* The step moves r and only r.
LEMMA OffMove ==
  ASSUME IInv, LInv, NEW r \in Rank, NEW place, pc' = [pc EXCEPT ![r] = place],
         place \notin Apart, UNCHANGED <<fds, transport, splitting>>,
         place \in Unlinked => pc[r] \in Unlinked,
         \A q \in Rank \ {r} : i'[q] = i[q] /\ cur'[q] = cur[q],
         DataSame, DataQuiet
  PROVE  LInv'
<1>1. pc'[r] = place /\ \A q \in Rank \ {r} : pc'[q] = pc[q]
  BY Moves
<1>2. Off(r)
  BY <1>1 DEF Off, Apart
<1> QED
  BY <1>2, OffInv

LEMMA CloseAllLinks ==
  ASSUME IInv, LInv, NEW r \in Rank, NEW outcome \in {"failed", "crashed"},
         CloseAll(r, outcome)
  PROVE  LInv'
<1>1. /\ pc' = [pc EXCEPT ![r] = outcome]
      /\ backlog' = [l \in DOMAIN backlog |-> IF l[1] = r THEN <<>> ELSE backlog[l]]
      /\ UNCHANGED <<transport, splitting, wire, i, cur, fds>>
  BY DEF CloseAll, given
<1>2. DataQuiet
  BY <1>1 DEF DataQuiet, IInv, Types
<1>3. DataSame
  BY <1>1, Stays
<1>4. outcome \notin Unlinked \cup Apart
  BY DEF Unlinked, Apart, Linking, RootEarly, Early
<1> QED
  BY <1>1, <1>2, <1>3, <1>4, OffMove

LEMMA BrokenLinks ==
  ASSUME IInv, LInv, NEW r \in Rank, Broken(r)
  PROVE  LInv'
<1>1. CASE Fail(r)
  BY <1>1, CloseAllLinks DEF Fail
<1>2. CASE Goto(r, "splitFailed") /\ UNCHANGED <<given, net, i, cur, peerFds, fds, gather>>
  <2>1. /\ pc' = [pc EXCEPT ![r] = "splitFailed"]
        /\ UNCHANGED <<transport, splitting, backlog, wire, i, cur, fds>>
    BY <1>2 DEF Goto, given, net
  <2>2. "splitFailed" \notin Unlinked \cup Apart
    BY DEF Unlinked, Apart, Linking, RootEarly, Early
  <2>3. DataSame /\ DataQuiet
    BY <2>1, Stays
  <2> QED
    BY <2>1, <2>2, <2>3, OffMove
<1> QED
  BY <1>1, <1>2 DEF Broken

\* The root at its port.
LEMMA BindLinks ==
  ASSUME IInv, LInv, Bind \/ RootAccept
  PROVE  LInv'
<1>1. PICK place \in {"accept", "hello"} :
        /\ pc[0] \in {"bind", "accept"} /\ pc' = [pc EXCEPT ![0] = place]
        /\ UNCHANGED <<transport, splitting, wire, i, fds>>
        /\ \A q \in Rank \ {0} : cur'[q] = cur[q]
  BY DEF Bind, RootAccept, acceptOne, Goto, given, IInv, Types
<1>2. DataQuiet
  BY Stays DEF Bind, RootAccept, acceptOne
<1>3. DataSame
  BY <1>1, Stays
<1>4. place \in Unlinked /\ pc[0] \in Unlinked /\ place \notin Apart
  BY <1>1 DEF Unlinked, Apart, Linking, RootEarly
<1> QED
  BY <1>1, <1>2, <1>3, <1>4, Numbers, OffMove

LEMMA RootHelloLinks ==
  ASSUME IInv, LInv, RootHello
  PROVE  LInv'
<1>1. pc[0] = "hello" /\ cur[0] \in Boots
  BY DEF RootHello, IInv, QueueInv, Boots
<1>2. CASE \E p : Admit(cur[0], p) /\ UNCHANGED <<given, i, cur, fds, gather>>
  <2>1. PICK p : Admit(cur[0], p) /\ UNCHANGED <<given, i, cur, fds, gather>>
    BY <1>2
  <2>2. PICK place \in {"publish", "accept"} : pc' = [pc EXCEPT ![0] = place]
    BY <2>1 DEF Admit, Goto
  <2>3. backlog' = backlog \/ backlog' = [backlog EXCEPT ![<<0, "boot">>] = <<>>]
    BY <2>1 DEF Admit
  <2>4. UNCHANGED <<transport, splitting, i, cur, fds>>
    BY <2>1 DEF given
  <2>5. DataSame
    <3>1. wire' = [Taken(cur[0], 0) EXCEPT ![cur[0]][1] = Append(@, 1)]
      BY <2>1 DEF Admit
    <3>2. PICK k, v : Taken(cur[0], 0) = [wire EXCEPT ![cur[0]][k] = v]
      BY DEF Taken
    <3>3. DOMAIN wire = Conn
      BY DEF IInv, Types
    <3> QED
      BY <1>1, <3>1, <3>2, <3>3, HigherFacts DEF DataSame
  <2>6. DataQuiet
    BY <2>3, Stays
  <2>7. place \in Unlinked /\ pc[0] \in Unlinked /\ place \notin Apart
    BY <1>1 DEF Unlinked, Apart, Linking, RootEarly
  <2> QED
    BY <2>2, <2>4, <2>5, <2>6, <2>7, Numbers, OffMove
<1>3. CASE Reject(cur[0])
  <2>1. /\ pc' = [pc EXCEPT ![0] = "accept"] /\ wire' = Sent(cur[0], 0, 0)
        /\ UNCHANGED <<transport, splitting, backlog, i, cur, fds>>
    BY <1>3 DEF Reject, Goto, given
  <2>2. DataSame /\ DataQuiet
    BY <1>1, <2>1, Stays, BootWires
  <2>3. "accept" \in Unlinked /\ pc[0] \in Unlinked /\ "accept" \notin Apart
    BY <1>1 DEF Unlinked, Apart, Linking, RootEarly
  <2> QED
    BY <2>1, <2>2, <2>3, Numbers, OffMove
<1> QED
  BY <1>2, <1>3 DEF RootHello

LEMMA ConnectLinks ==
  ASSUME IInv, LInv, NEW p \in Peer, ConnectRoot(p) \/ SendHello(p) \/ GetReply(p)
  PROVE  LInv'
<1>0. p \in Rank /\ boot(p) \in Boots
  BY Numbers DEF Boots
<1>1. CASE Fail(p)
  BY <1>0, <1>1, CloseAllLinks DEF Fail
<1>2. CASE ~Fail(p)
  <2>1. PICK place \in {"greet", "reply", "publish"} :
          /\ pc' = [pc EXCEPT ![p] = place] /\ pc[p] \in Early
          /\ UNCHANGED <<transport, splitting, i, cur, fds>>
    BY <1>2 DEF ConnectRoot, SendHello, GetReply, Goto, given, Early
  <2>2. \/ wire' = wire \/ wire' = Taken(boot(p), p)
        \/ wire' = Sent(boot(p), p, Hello(p))
    BY <1>2 DEF ConnectRoot, SendHello, GetReply, boot, Hello
  <2>3. DataSame
    BY <1>0, <2>2, Stays, BootWires
  <2>4. DataQuiet
    BY <1>2, Stays DEF ConnectRoot, SendHello, GetReply, Connect
  <2>5. place \notin Apart /\ pc[p] \in Unlinked
    BY <2>1 DEF Unlinked, Apart, Linking
  <2> QED
    BY <1>0, <2>1, <2>3, <2>4, <2>5, OffMove
<1> QED
  BY <1>1, <1>2

LEMMA IdleLinks ==
  ASSUME IInv, LInv, UNCHANGED <<transport, splitting, pc, i, cur, fds>>, DataSame, DataQuiet
  PROVE  LInv'
<1>1. DOMAIN fds' = Rank /\ (\A q \in Rank : DOMAIN fds'[q] = Rank) /\ Streams'
  BY DEF LInv, Streams, DataSame
<1>2. Dialled'
  BY QueuesQuiet DEF LInv, Dialled
<1>3. \A q \in Rank : Linked(q)'
  BY LinkedFrame DEF LInv
<1> QED
  BY <1>1, <1>2, <1>3 DEF LInv

LEMMA OtherClientLinks ==
  ASSUME IInv, LInv, NEW q \in N .. N + Others - 1, OtherClient(q)
  PROVE  LInv'
<1>1. q \in Client /\ boot(q) \in Boots
  BY SMT, SizeAssumption DEF Client, Boots
<1>2. UNCHANGED <<transport, splitting, pc, i, cur, fds>>
  BY DEF OtherClient, given, local
<1>3. DataQuiet
  BY Stays DEF OtherClient
<1>4. DataSame
  <2>1. wire' = wire \/ \E m : wire' = Sent(boot(q), q, m)
    BY DEF OtherClient, boot
  <2> QED
    BY <1>1, <2>1, Stays, BootWires
<1> QED
  BY <1>2, <1>3, <1>4, IdleLinks

----------------------------------------------------------------------------
(* The all-gather.                                                         *)

LEMMA PublishLinks ==
  ASSUME IInv, LInv, NEW p \in Peer, Publish(p)
  PROVE  LInv'
<1>0. p \in Rank /\ boot(p) \in Boots
  BY Numbers DEF Boots
<1>1. CASE Broken(p)
  BY <1>0, <1>1, BrokenLinks
<1>2. CASE /\ wire' = Sent(boot(p), p, <<p, round[p]>>) /\ Goto(p, "table")
           /\ UNCHANGED <<given, backlog, ends, i, cur, peerFds, fds, gather>>
  <2>1. /\ pc[p] = "publish" /\ pc' = [pc EXCEPT ![p] = "table"]
        /\ UNCHANGED <<transport, splitting, backlog, i, cur, fds>>
    BY <1>2 DEF Publish, Goto, given
  <2>2. DataSame /\ DataQuiet
    BY <1>0, <1>2, <2>1, Stays, BootWires
  <2>3. "table" \notin Apart /\ pc[p] \in Unlinked
    BY <2>1 DEF Unlinked, Apart, Linking
  <2> QED
    BY <1>0, <2>1, <2>2, <2>3, OffMove
<1> QED
  BY <1>1, <1>2 DEF Publish, boot

LEMMA PublishRootLinks ==
  ASSUME IInv, LInv, PublishRoot
  PROVE  LInv'
<1>1. /\ pc[0] = "publish" /\ pc' = [pc EXCEPT ![0] = "gather"]
      /\ i' = [i EXCEPT ![0] = 1]
      /\ UNCHANGED <<transport, splitting, backlog, wire, cur, fds>>
  BY DEF PublishRoot, Goto, given
<1>2. \A q \in Rank \ {0} : i'[q] = i[q] /\ cur'[q] = cur[q]
  BY <1>1 DEF IInv, Types
<1>3. DataSame /\ DataQuiet
  BY <1>1, Stays
<1>4. "gather" \notin Apart /\ pc[0] \in Unlinked
  BY <1>1 DEF Unlinked, Apart, Linking
<1> QED
  BY <1>1, <1>2, <1>3, <1>4, Numbers, OffMove

LEMMA GatherLinks ==
  ASSUME IInv, LInv, Gather
  PROVE  LInv'
<1>1. CASE Broken(0)
  BY <1>1, BrokenLinks, Numbers
<1>2. CASE ~Broken(0)
  <2>1. PICK k \in Peer : k = i[0]
    BY DEF Gather, IInv, RootInv
  <2>2. peerFds[i[0]] = boot(k) /\ boot(k) \in Boots
    BY <2>1, Numbers DEF Gather, IInv, RootInv, RootEarly, Stuck, Admitted, Boots
  <2>3. /\ pc[0] = "gather" /\ wire' = Taken(boot(k), 0)
        /\ UNCHANGED <<transport, splitting, backlog, cur, fds>>
    BY <1>2, <2>2 DEF Gather, given
  <2>4. PICK place \in {"gather", "scatter"} :
          pc'[0] = place /\ \A q \in Rank \ {0} : pc'[q] = pc[q]
    BY <1>2, <2>3, Numbers, Moves DEF Gather, Goto
  <2>5. \A q \in Rank \ {0} : i'[q] = i[q] /\ cur'[q] = cur[q]
    BY <1>2, <2>3 DEF Gather, IInv, Types
  <2>6. DataSame /\ DataQuiet
    BY <2>2, <2>3, Stays, BootWires
  <2>7. place \notin Apart /\ pc[0] \in Unlinked
    BY <2>3 DEF Unlinked, Apart, Linking
  <2>8. Off(0)
    BY <2>3, <2>4, <2>5, <2>6, <2>7 DEF Off, Apart
  <2> QED
    BY <2>8, Numbers, OffInv
<1> QED
  BY <1>1, <1>2

LEMMA SplitLinks ==
  ASSUME IInv, LInv, NEW r \in Rank, vcclCommSplit(r) \/ Elect(r) \/ Join(r)
  PROVE  LInv'
<1>1. PICK place \in {"publish", "splitFailed", "split"} :
        /\ pc' = [pc EXCEPT ![r] = place]
        /\ UNCHANGED <<transport, backlog, wire, i, cur, fds>>
  BY DEF vcclCommSplit, Elect, Join, Goto, net
<1>2. pc'[r] = place /\ \A q \in Rank \ {r} : pc'[q] = pc[q]
  BY <1>1, Moves
<1>3. DataSame /\ DataQuiet
  BY <1>1, Stays
<1>4. /\ \A q \in Rank \ {r} : q \in splitting' <=> q \in splitting
      /\ r \in splitting' \/ (splitting' = splitting /\ pc[r] \in {"elect", "join"})
  BY DEF vcclCommSplit, Elect, Join
<1>5. pc[r] \in {"elect", "join"} => r \in splitting
  BY DEF LInv, Linked
<1>6. Off(r)
  BY <1>1, <1>2, <1>3, <1>4, <1>5 DEF Off, Linking
<1> QED
  BY <1>6, OffInv

LEMMA ConnectQpLinks ==
  ASSUME IInv, LInv, NEW r \in Rank, connectQp(r)
  PROVE  LInv'
<1>1. /\ pc[r] = "connectQp" /\ pc' = [pc EXCEPT ![r] = "publish"]
      /\ UNCHANGED <<transport, splitting, backlog, wire, i, cur, fds>>
  BY DEF connectQp, Goto, net
<1>2. DataSame /\ DataQuiet
  BY <1>1, Stays
<1>3. "publish" \notin Apart /\ pc[r] \in Unlinked
  BY <1>1 DEF Unlinked, Apart, Linking
<1> QED
  BY <1>1, <1>2, <1>3, OffMove

----------------------------------------------------------------------------
(* Steps of the mesh.                                                      *)

LEMMA LinkStep ==
  ASSUME LInv, NEW r \in Rank, UNCHANGED <<transport, splitting>>,
         DOMAIN fds' = Rank, \A q \in Rank : DOMAIN fds'[q] = Rank,
         \A q \in Rank \ {r} : /\ pc'[q] = pc[q] /\ i'[q] = i[q]
                               /\ cur'[q] = cur[q] /\ fds'[q] = fds[q],
         Streams', \A q \in Rank : backlog'[<<q, "data">>] \in Seq(DialsTo(q)),
         pc'[r] = "whois" => cur'[r] \in DialsTo(r), Linked(r)'
  PROVE  LInv'
<1>1. Dialled'
  BY DEF LInv, Dialled
<1>2. \A q \in Rank : Linked(q)'
  BY LinkedFrame DEF LInv
<1> QED
  BY <1>1, <1>2 DEF LInv

LEMMA LinkQueue ==
  ASSUME IInv, LInv, NEW k \in Rank, NEW s \in Seq(DialsTo(k)),
         backlog' = [backlog EXCEPT ![<<k, "data">>] = s]
  PROVE  \A q \in Rank : backlog'[<<q, "data">>] \in Seq(DialsTo(q))
<1>1. \A q \in Rank : backlog'[<<q, "data">>] = IF q = k THEN s ELSE backlog[<<q, "data">>]
  BY DEF IInv, Types
<1> QED
  BY <1>1 DEF LInv, Dialled

LEMMA DialLinks ==
  ASSUME IInv, LInv, NEW r \in Rank, Dial(r)
  PROVE  LInv'
<1>1. /\ pc[r] = "mesh" /\ pc' = [pc EXCEPT ![r] = "introduce"]
      /\ UNCHANGED <<transport, splitting, wire, i, cur, fds>>
  BY DEF Dial, Goto, given
<1>2. pc'[r] = "introduce" /\ \A q \in Rank \ {r} : pc'[q] = pc[q]
  BY <1>1, Moves
<1>3. PICK k \in Rank : k = i[r] /\ k < r
  BY SMT, SizeAssumption DEF Dial, IInv, Types, Rank
<1>4. PICK s \in Seq(DialsTo(k)) : s = backlog[<<k, "data">>]
  BY DEF LInv, Dialled
<1>5. PICK c \in DialsTo(k) : c = <<r, k, "data">>
  <2>1. r \in Higher(k)
    BY SMT, <1>3, LinkFacts, Numbers
  <2> QED
    BY <2>1 DEF DialsTo
<1>6. Append(s, c) \in Seq(DialsTo(k))
  BY SMT, <1>4, <1>5
<1>7. \A q \in Rank : backlog'[<<q, "data">>] \in Seq(DialsTo(q))
  <2>1. backlog' = [backlog EXCEPT ![<<k, "data">>] = Append(s, c)]
    BY <1>3, <1>4, <1>5 DEF Dial, Connect
  <2> QED
    BY <1>6, <2>1, LinkQueue
<1>8. Above(r)' = Above(r)
  BY <1>1 DEF Above
<1>9. Linked(r)'
  BY <1>1, <1>2, <1>3, <1>8 DEF LInv, Linked, Linking, Unlinked, RootEarly, Early
<1>10. Streams' /\ DOMAIN fds' = Rank /\ \A q \in Rank : DOMAIN fds'[q] = Rank
  BY <1>1 DEF LInv, Streams
<1> QED
  BY <1>1, <1>2, <1>7, <1>9, <1>10, LinkStep

\* What is sent to, or read by, the rank that was dialled.
LEMMA LinkWire ==
  ASSUME IInv, LInv, NEW r \in Rank, NEW p \in Higher(r), NEW v \in Seq({p}),
         wire' = [wire EXCEPT ![<<p, r, "data">>][2] = v]
  PROVE  Streams'
<1> SUFFICES ASSUME NEW q \in Rank, NEW t \in Higher(q)
             PROVE  wire'[<<t, q, "data">>][2] \in Seq({t})
  BY DEF Streams
<1>1. /\ DOMAIN wire = Conn /\ <<p, r, "data">> \in Conn /\ <<t, q, "data">> \in Conn
      /\ DOMAIN wire[<<p, r, "data">>] = 1 .. 2
  BY HigherFacts DEF IInv, Types
<1>2. CASE t = p /\ q = r
  BY SMT, <1>1, <1>2
<1>3. CASE ~(t = p /\ q = r)
  <2>1. <<t, q, "data">> # <<p, r, "data">>
    BY <1>3
  <2>2. wire'[<<t, q, "data">>] = wire[<<t, q, "data">>]
    BY <1>1, <2>1
  <2> QED
    BY <2>2 DEF LInv, Streams
<1> QED
  BY <1>2, <1>3

\* r gets its connection for p.
LEMMA FdStep ==
  ASSUME LInv, NEW r \in Rank, NEW p \in Rank, p # r, NEW c, c = Link(r, p),
         fds' = [fds EXCEPT ![r][p] = c]
  PROVE  /\ DOMAIN fds' = Rank /\ \A q \in Rank : DOMAIN fds'[q] = Rank
         /\ \A q \in Rank \ {r} : fds'[q] = fds[q]
         /\ fds'[r][p] = Link(r, p) /\ fds'[r][p] # None
         /\ \A q \in Rank \ {p} : fds'[r][q] = fds[r][q]
         /\ \A q \in Rank : fds'[r][q] \in {None, Link(r, q)}
<1>1. /\ DOMAIN fds' = Rank /\ \A q \in Rank : DOMAIN fds'[q] = Rank
      /\ \A q \in Rank \ {r} : fds'[q] = fds[q]
      /\ fds'[r][p] = c
      /\ \A q \in Rank \ {p} : fds'[r][q] = fds[r][q]
  BY DEF LInv
<1>2. \A q \in Rank : fds[r][q] \in {None, Link(r, q)}
  BY DEF LInv, Linked
<1> QED
  BY SMT, <1>1, <1>2, LinkFacts

LEMMA IntroduceLinks ==
  ASSUME IInv, LInv, NEW r \in Rank, Introduce(r)
  PROVE  LInv'
<1>1. CASE Fail(r)
  BY <1>1, CloseAllLinks DEF Fail
<1>2. CASE ~Fail(r)
  <2>1. /\ pc[r] = "introduce" /\ pc' = [pc EXCEPT ![r] = "mesh"]
        /\ i' = [i EXCEPT ![r] = @ + 1]
        /\ UNCHANGED <<transport, splitting, backlog, cur>>
    BY <1>2 DEF Introduce, Goto, given
  <2>2. pc'[r] = "mesh" /\ \A q \in Rank \ {r} : pc'[q] = pc[q]
    BY <2>1, Moves
  <2>3. i[r] < r /\ i[r] \in Nat /\ r \in Nat /\ N \in Nat /\ r <= N - 1
    BY SMT, <2>1, SizeAssumption DEF LInv, Linked, Linking, IInv, Types, Rank
  <2>4. PICK k \in Rank : k = i[r] /\ k < r
    BY SMT, <2>3 DEF Rank
  <2>5. r \in Higher(k) /\ Link(r, k) = <<r, k, "data">> /\ k # r
    BY SMT, <2>3, <2>4, LinkFacts
  <2>6. i'[r] = k + 1 /\ \A q \in Rank \ {r} : i'[q] = i[q]
    BY <2>1, <2>3, <2>4 DEF IInv, Types
  <2>7. fds' = [fds EXCEPT ![r][k] = Link(r, k)] /\ wire' = Sent(Link(r, k), r, r)
    BY <1>2, <2>4, <2>5 DEF Introduce
  <2>8. Streams'
    <3>1. PICK v \in Seq({r}) : v = wire[<<r, k, "data">>][2]
      BY <2>5 DEF LInv, Streams
    <3>2. Append(v, r) \in Seq({r})
      BY SMT, <3>1
    <3>3. wire' = [wire EXCEPT ![<<r, k, "data">>][2] = Append(v, r)]
      BY SMT, <2>5, <2>7, <3>1 DEF Sent
    <3> QED
      BY <2>5, <3>2, <3>3, LinkWire
  <2>9. /\ DOMAIN fds' = Rank /\ \A q \in Rank : DOMAIN fds'[q] = Rank
        /\ \A q \in Rank \ {r} : fds'[q] = fds[q]
        /\ fds'[r][k] # None
        /\ \A q \in Rank \ {k} : fds'[r][q] = fds[r][q]
        /\ \A q \in Rank : fds'[r][q] \in {None, Link(r, q)}
    BY <2>5, <2>7, FdStep
  <2>10. Above(r)' = Above(r) /\ Cardinality(Above(r)) = 0
    <3>1. k \notin Higher(r)
      BY SMT, <2>3, <2>4 DEF Higher
    <3>2. Above(r)' = Above(r)
      BY <2>9, <3>1, HigherFacts DEF Above
    <3>3. Cardinality(Above(r)) = 0
      BY <2>1, <2>3 DEF LInv, Linked, Linking
    <3> QED
      BY <3>2, <3>3
  <2>11. \A q \in Rank : q < r /\ q < i'[r] => fds'[r][q] # None
    <3> SUFFICES ASSUME NEW q \in Rank, q < r, q < k + 1
                 PROVE  fds'[r][q] # None
      BY <2>6
    <3>1. q \in Nat /\ k \in Nat
      BY Numbers
    <3>2. q = k \/ q < k
      BY SMT, <3>1
    <3>3. q < k => fds[r][q] # None /\ q # k
      BY SMT, <2>1, <2>4, <3>1 DEF LInv, Linked, Linking
    <3> QED
      BY <2>9, <3>2, <3>3
  <2>12. /\ i'[r] <= N - 1
         /\ i'[r] < r => Cardinality(Above(r)') = 0
         /\ i'[r] >= r => Cardinality(Above(r)') = i'[r] - r
    BY SMT, <2>3, <2>4, <2>6, <2>10
  <2>13. Linked(r)'
    BY <2>2, <2>9, <2>11, <2>12 DEF Linked, Unlinked, RootEarly, Early
  <2>14. \A q \in Rank : backlog'[<<q, "data">>] \in Seq(DialsTo(q))
    BY <2>1 DEF LInv, Dialled
  <2> QED
    BY <2>1, <2>2, <2>6, <2>8, <2>9, <2>13, <2>14, LinkStep
<1> QED
  BY <1>1, <1>2

LEMMA AcceptPeerLinks ==
  ASSUME IInv, LInv, NEW r \in Rank, AcceptPeer(r)
  PROVE  LInv'
<1>1. PICK s \in Seq(DialsTo(r)) : s = backlog[<<r, "data">>]
  BY DEF LInv, Dialled
<1>2. /\ pc[r] = "mesh" /\ pc' = [pc EXCEPT ![r] = "whois"]
      /\ i[r] >= r /\ i[r] < N - 1 /\ s # <<>>
      /\ cur' = [cur EXCEPT ![r] = s[1]]
      /\ backlog' = [backlog EXCEPT ![<<r, "data">>] = Tail(s)]
      /\ UNCHANGED <<transport, splitting, wire, i, fds>>
  BY <1>1 DEF AcceptPeer, acceptOne, Goto, given
<1>3. pc'[r] = "whois" /\ \A q \in Rank \ {r} : pc'[q] = pc[q]
  BY <1>2, Moves
<1>4. s[1] \in DialsTo(r) /\ Tail(s) \in Seq(DialsTo(r))
  BY SMT, <1>2
<1>5. cur'[r] \in DialsTo(r) /\ \A q \in Rank \ {r} : cur'[q] = cur[q]
  BY <1>2, <1>4 DEF IInv, Types
<1>6. \A q \in Rank : backlog'[<<q, "data">>] \in Seq(DialsTo(q))
  BY <1>2, <1>4, LinkQueue
<1>7. Above(r)' = Above(r)
  BY <1>2 DEF Above
<1>8. i[r] \in Nat /\ r \in Nat /\ N \in Nat
  BY SMT, SizeAssumption DEF IInv, Types, Rank
<1>9. Linked(r)'
  BY <1>2, <1>3, <1>7, <1>8 DEF LInv, Linked, Linking, Unlinked, RootEarly, Early
<1>10. Streams' /\ DOMAIN fds' = Rank /\ \A q \in Rank : DOMAIN fds'[q] = Rank
  BY <1>2 DEF LInv, Streams
<1> QED
  BY <1>2, <1>3, <1>5, <1>6, <1>9, <1>10, LinkStep

\* What follows counts the connections a rank has.
INSTANCE FiniteSetTheorems

\* An all-gather is done.  TCP's comes before the mesh: r has no connection yet.
LEMMA GatheredLinks ==
  ASSUME IInv, LInv, NEW r \in Rank, NEW entries, Gathered(r, entries),
         pc[r] \in {"scatter", "table"},
         UNCHANGED <<transport, splitting, backlog, cur, fds>>, DataSame
  PROVE  LInv'
<1>0. pc[r] \in Unlinked
  BY DEF Unlinked
<1>1. /\ pc' = [pc EXCEPT ![r] = After(r)] /\ i'[r] = 0
      /\ \A q \in Rank \ {r} : i'[q] = i[q] /\ cur'[q] = cur[q]
  BY DEF Gathered, Goto, IInv, Types
<1>2. DataQuiet
  BY Stays
<1>3. pc'[r] = After(r) /\ \A q \in Rank \ {r} : pc'[q] = pc[q]
  BY <1>1, Moves
<1>4. CASE After(r) \notin {"mesh"}
  <2>1. /\ After(r) \notin Linking /\ (After(r) = "ready" => transport # "tcp")
        /\ After(r) \in {"elect", "join"} => r \in splitting
    BY <1>4 DEF After, Linking
  <2>2. Off(r)
    BY <1>0, <1>1, <1>2, <1>3, <2>1 DEF Off
  <2> QED
    BY <2>2, OffInv
<1>5. CASE After(r) = "mesh"
  <2>1. r \notin splitting
    BY <1>5 DEF After
  <2>2. \A p \in Rank : fds'[r][p] = None
    BY <1>0, <2>1 DEF LInv, Linked
  <2>3. Above(r)' = {}
    BY <2>2, HigherFacts DEF Above
  <2>4. Cardinality(Above(r)') = 0
    BY <2>3, FS_EmptySet
  <2>5. pc'[r] = "mesh" /\ i'[r] = 0 /\ r \in Nat /\ N \in Nat /\ N >= 2
    BY SMT, <1>1, <1>3, <1>5, SizeAssumption DEF Rank
  <2>6. Linked(r)'
    <3>1. \A p \in Rank : p \in Nat
      BY Numbers
    <3>2. i'[r] <= N - 1 /\ ~\E p \in Rank : p < i'[r]
      BY SMT, <2>5, <3>1
    <3>3. i'[r] >= r => i'[r] - r = 0
      BY SMT, <2>5
    <3> QED
      BY <2>2, <2>4, <2>5, <3>2, <3>3 DEF Linked, Unlinked, RootEarly, Early
  <2>7. \A q \in Rank : Linked(q)'
    BY <1>1, <1>3, <2>6, LinkedFrame DEF LInv
  <2>8. Dialled'
    BY <1>1, <1>2, <1>3, <2>5, QueuesQuiet DEF LInv, Dialled
  <2>9. DOMAIN fds' = Rank /\ (\A q \in Rank : DOMAIN fds'[q] = Rank) /\ Streams'
    BY DEF LInv, Streams, DataSame
  <2> QED
    BY <2>7, <2>8, <2>9 DEF LInv
<1> QED
  BY <1>4, <1>5

LEMMA ScatterLinks ==
  ASSUME IInv, LInv, Scatter
  PROVE  LInv'
<1>0. pc[0] = "scatter" /\ i[0] \in 1 .. N
  BY DEF Scatter, IInv, RootInv
<1>1. CASE Broken(0)
  BY <1>1, BrokenLinks, Numbers
<1>2. CASE /\ i[0] < N /\ wire' = Sent(peerFds[i[0]], 0, buf)
           /\ i' = [i EXCEPT ![0] = @ + 1]
           /\ UNCHANGED <<given, listening, backlog, ends, pc, cur, peerFds, fds, gather>>
  <2>1. PICK k \in Peer : k = i[0]
    BY SMT, <1>0, <1>2, SizeAssumption DEF Peer
  <2>2. peerFds[i[0]] = boot(k) /\ boot(k) \in Boots
    BY <1>0, <2>1, Numbers DEF IInv, RootInv, RootEarly, Stuck, Admitted, Boots
  <2>3. /\ wire' = Sent(boot(k), 0, buf)
        /\ UNCHANGED <<transport, splitting, backlog, cur, fds>>
    BY <1>2, <2>2 DEF given
  <2>4. pc' = pc
    BY <1>2
  <2>5. \A q \in Rank \ {0} : i'[q] = i[q] /\ cur'[q] = cur[q]
    BY <1>2, <2>3 DEF IInv, Types
  <2>6. DataSame /\ DataQuiet
    BY <2>2, <2>3, Stays, BootWires
  <2>7. "scatter" \notin Apart /\ pc[0] \in Unlinked
    BY <1>0 DEF Unlinked, Apart, Linking
  <2>8. Off(0)
    BY <1>0, <2>3, <2>4, <2>5, <2>6, <2>7 DEF Off, Apart
  <2> QED
    BY <2>8, Numbers, OffInv
<1>3. CASE i[0] = N /\ Gathered(0, buf) /\ UNCHANGED <<given, net, cur, peerFds, fds, buf>>
  <2>1. UNCHANGED <<transport, splitting, backlog, wire, cur, fds>>
    BY <1>3 DEF given, net
  <2>2. DataSame
    BY <2>1, Stays
  <2> QED
    BY <1>0, <1>3, <2>1, <2>2, Numbers, GatheredLinks
<1> QED
  BY <1>1, <1>2, <1>3 DEF Scatter

LEMMA GetTableLinks ==
  ASSUME IInv, LInv, NEW p \in Peer, GetTable(p)
  PROVE  LInv'
<1>0. p \in Rank /\ boot(p) \in Boots
  BY Numbers DEF Boots
<1>1. CASE Broken(p)
  BY <1>0, <1>1, BrokenLinks
<1>2. CASE /\ Gathered(p, Inbox(boot(p), p)[1]) /\ wire' = Taken(boot(p), p)
           /\ UNCHANGED <<given, listening, backlog, ends, cur, peerFds, fds, buf>>
  <2>1. UNCHANGED <<transport, splitting, backlog, cur, fds>>
    BY <1>2 DEF given
  <2>2. DataSame
    BY <1>0, <1>2, BootWires
  <2> QED
    BY <1>0, <1>2, <2>1, <2>2, GatheredLinks DEF GetTable
<1> QED
  BY <1>1, <1>2 DEF GetTable, boot

LEMMA AboveFinite ==
  ASSUME NEW r \in Rank
  PROVE  /\ IsFiniteSet(Higher(r)) /\ Cardinality(Higher(r)) = N - 1 - r
         /\ IsFiniteSet(Above(r)) /\ Above(r) \subseteq Higher(r)
<1>1. r \in Nat /\ N \in Nat /\ r <= N - 1
  BY SMT, SizeAssumption DEF Rank
<1>2. IsFiniteSet(Higher(r)) /\ Cardinality(Higher(r)) = N - 1 - r
  <2>1. r + 1 \in Int /\ N - 1 \in Int
    BY SMT, <1>1
  <2>2. /\ IsFiniteSet(r + 1 .. N - 1)
        /\ Cardinality(r + 1 .. N - 1) = IF r + 1 > N - 1 THEN 0 ELSE (N - 1) - (r + 1) + 1
    BY <2>1, FS_Interval
  <2> QED
    BY SMT, <1>1, <2>2 DEF Higher
<1>3. Above(r) \subseteq Higher(r)
  BY DEF Above
<1> QED
  BY <1>2, <1>3, FS_Subset

LEMMA WhoIsLinks ==
  ASSUME IInv, LInv, NEW r \in Rank, WhoIs(r)
  PROVE  LInv'
<1>1. CASE Fail(r)
  BY <1>1, CloseAllLinks DEF Fail
<1>2. CASE ~Fail(r)
  <2>1. /\ pc[r] = "whois" /\ pc' = [pc EXCEPT ![r] = "mesh"]
        /\ i' = [i EXCEPT ![r] = @ + 1]
        /\ UNCHANGED <<transport, splitting, backlog, cur>>
    BY <1>2 DEF WhoIs, Goto, given
  <2>2. pc'[r] = "mesh" /\ \A q \in Rank \ {r} : pc'[q] = pc[q]
    BY <2>1, Moves
  <2>3. PICK p \in Higher(r) : cur[r] = <<p, r, "data">>
    BY <2>1 DEF LInv, Dialled, DialsTo
  <2>4. p \in Rank /\ p > r /\ p # r /\ Link(r, p) = <<p, r, "data">>
    BY <2>3, HigherFacts, LinkFacts
  <2>5. PICK v \in Seq({p}) : v = wire[<<p, r, "data">>][2]
    BY <2>3 DEF LInv, Streams
  <2>6. Inbox(cur[r], r) = v /\ Taken(cur[r], r) = [wire EXCEPT ![<<p, r, "data">>][2] = Tail(v)]
    <3>1. PICK c : c = cur[r]
      OBVIOUS
    <3>2. r # c[1] /\ c = <<p, r, "data">>
      BY SMT, <2>3, <2>4, <3>1
    <3>3. Inbox(c, r) = wire[c][2] /\ Taken(c, r) = [wire EXCEPT ![c][2] = Tail(wire[c][2])]
      BY <3>2 DEF Inbox, Taken
    <3> QED
      BY <2>5, <3>1, <3>2, <3>3
  <2>7. v # <<>> /\ fds[r][v[1]] = None /\ wire' = [wire EXCEPT ![<<p, r, "data">>][2] = Tail(v)]
        /\ fds' = [fds EXCEPT ![r][v[1]] = cur[r]]
    BY <1>2, <2>6 DEF WhoIs, Arrived
  <2>8. v[1] = p /\ Tail(v) \in Seq({p})
    BY SMT, <2>5, <2>7
  <2>9. fds[r][p] = None /\ fds' = [fds EXCEPT ![r][p] = Link(r, p)]
    BY <2>3, <2>4, <2>7, <2>8
  <2>10. Streams'
    BY <2>3, <2>7, <2>8, LinkWire
  <2>11. /\ DOMAIN fds' = Rank /\ \A q \in Rank : DOMAIN fds'[q] = Rank
         /\ \A q \in Rank \ {r} : fds'[q] = fds[q]
         /\ fds'[r][p] # None
         /\ \A q \in Rank \ {p} : fds'[r][q] = fds[r][q]
         /\ \A q \in Rank : fds'[r][q] \in {None, Link(r, q)}
    BY <2>4, <2>9, FdStep
  <2>12. /\ i[r] \in Nat /\ r \in Nat /\ N \in Nat /\ r <= i[r] /\ i[r] < N - 1
         /\ Cardinality(Above(r)) = i[r] - r
    BY SMT, <2>1, SizeAssumption DEF LInv, Linked, Linking, IInv, Types, Rank
  <2>13. i'[r] = i[r] + 1 /\ \A q \in Rank \ {r} : i'[q] = i[q]
    BY <2>1, <2>12 DEF IInv, Types
  <2>14. Above(r)' = Above(r) \cup {p} /\ p \notin Above(r)
    BY SMT, <2>3, <2>9, <2>11, HigherFacts DEF Above
  <2>15. Cardinality(Above(r)') = i[r] - r + 1
    <3>1. PICK A : A = Above(r)
      OBVIOUS
    <3>2. IsFiniteSet(A) /\ p \notin A
      BY <2>14, <3>1, AboveFinite
    <3>3. Cardinality(A \cup {p}) = Cardinality(A) + 1
      BY <3>2, FS_AddElement
    <3> QED
      BY <2>12, <2>14, <3>1, <3>3
  <2>16. /\ i'[r] <= N - 1 /\ ~(i'[r] < r) /\ Cardinality(Above(r)') = i'[r] - r
    BY SMT, <2>12, <2>13, <2>15
  <2>17. \A q \in Rank : q < r => fds'[r][q] # None
    <3> SUFFICES ASSUME NEW q \in Rank, q < r PROVE fds'[r][q] # None
      OBVIOUS
    <3>1. q \in Nat /\ q < i[r]
      BY SMT, <2>12, Numbers
    <3>2. q # p
      BY SMT, <2>4, Numbers
    <3> QED
      BY SMT, <2>1, <2>11, <3>1, <3>2 DEF LInv, Linked, Linking
  <2>18. Linked(r)'
    BY <2>2, <2>11, <2>16, <2>17 DEF Linked, Unlinked, RootEarly, Early
  <2>19. \A q \in Rank : backlog'[<<q, "data">>] \in Seq(DialsTo(q))
    BY <2>1 DEF LInv, Dialled
  <2> QED
    BY <2>1, <2>2, <2>10, <2>11, <2>13, <2>18, <2>19, LinkStep
<1> QED
  BY <1>1, <1>2

\* All connections are there: r has as many as there are higher ranks, all
\* of them different.
LEMMA MeshDoneLinks ==
  ASSUME IInv, LInv, NEW r \in Rank, MeshDone(r)
  PROVE  LInv'
<1>1. /\ pc[r] = "mesh" /\ pc' = [pc EXCEPT ![r] = "ready"] /\ i[r] = N - 1
      /\ backlog' = [backlog EXCEPT ![<<r, "data">>] = <<>>]
      /\ UNCHANGED <<transport, splitting, wire, i, cur, fds>>
  BY DEF MeshDone, Goto, given
<1>2. pc'[r] = "ready" /\ \A q \in Rank \ {r} : pc'[q] = pc[q]
  BY <1>1, Moves
<1>3. <<>> \in Seq(DialsTo(r))
  BY SMT
<1>4. \A q \in Rank : backlog'[<<q, "data">>] \in Seq(DialsTo(q))
  BY <1>1, <1>3, LinkQueue
<1>5. r \in Nat /\ N \in Nat /\ r <= N - 1
  BY SMT, SizeAssumption DEF Rank
<1>6. Cardinality(Above(r)) = N - 1 - r
  BY <1>1, <1>5 DEF LInv, Linked, Linking
<1>7. Above(r) = Higher(r)
  BY <1>6, AboveFinite, FS_Subset
<1>8. ASSUME NEW p \in Rank \ {r} PROVE fds[r][p] # None
  <2>1. CASE p > r
    <3>1. p \in Above(r)
      BY <1>7, <2>1, LinkFacts
    <3> QED
      BY <3>1 DEF Above
  <2>2. CASE p < r
    <3>1. p < i[r]
      BY SMT, <1>1, <1>5, <2>2, Numbers
    <3> QED
      BY <1>1, <2>2, <3>1 DEF LInv, Linked, Linking
  <2>3. p \in Nat /\ p # r
    BY Numbers
  <2>4. p > r \/ p < r
    BY SMT, <1>5, <2>3
  <2> QED
    BY <2>1, <2>2, <2>4
<1>9. Linked(r)'
  BY <1>1, <1>2, <1>8 DEF LInv, Linked, Linking, Unlinked, RootEarly, Early
<1>10. Streams' /\ DOMAIN fds' = Rank /\ \A q \in Rank : DOMAIN fds'[q] = Rank
  BY <1>1 DEF LInv, Streams
<1> QED
  BY <1>1, <1>2, <1>4, <1>9, <1>10, LinkStep

----------------------------------------------------------------------------
(* The theorem on the mesh.                                                *)

LEMMA InitLinks ==
  ASSUME Init
  PROVE  LInv
<1>1. /\ backlog = [l \in Rank \X {"boot", "data"} |-> <<>>]
      /\ wire = [c \in Conn |-> [to \in 1 .. 2 |-> <<>>]]
      /\ fds = [r \in Rank |-> [p \in Rank |-> None]]
      /\ \A r \in Rank : pc[r] \notin Apart
  BY DEF Init, Apart, Linking
<1>2. Streams
  <2> SUFFICES ASSUME NEW r \in Rank, NEW p \in Higher(r)
               PROVE  wire[<<p, r, "data">>][2] \in Seq({p})
    BY DEF Streams
  <2>1. wire[<<p, r, "data">>][2] = <<>>
    BY SMT, <1>1, HigherFacts
  <2> QED
    BY SMT, <2>1
<1>3. Dialled
  <2> SUFFICES ASSUME NEW r \in Rank
               PROVE  backlog[<<r, "data">>] \in Seq(DialsTo(r))
    BY <1>1 DEF Dialled, Apart, Linking
  <2>1. backlog[<<r, "data">>] = <<>>
    BY <1>1
  <2> QED
    BY SMT, <2>1
<1>4. \A r \in Rank : Linked(r)
  BY <1>1 DEF Linked, Apart
<1> QED
  BY <1>1, <1>2, <1>3, <1>4 DEF LInv

LEMMA NextLinks ==
  ASSUME IInv, LInv, [Next]_vars
  PROVE  LInv'
<1>1. ASSUME NEW r \in Rank, Proceed(r) PROVE LInv'
  <2>1. CASE r = 0 /\ Root
    BY <2>1, BindLinks, RootHelloLinks, PublishRootLinks, GatherLinks, ScatterLinks
    DEF Root
  <2>2. CASE r > 0 /\ (ConnectRoot(r) \/ SendHello(r) \/ GetReply(r) \/ Publish(r)
                         \/ GetTable(r))
    <3>1. r \in Peer
      BY SMT, <2>2, SizeAssumption DEF Peer, Rank
    <3> QED
      BY <2>2, <3>1, ConnectLinks, PublishLinks, GetTableLinks
  <2>3. CASE Dial(r) \/ Introduce(r) \/ AcceptPeer(r) \/ WhoIs(r) \/ MeshDone(r)
    BY <2>3, DialLinks, IntroduceLinks, AcceptPeerLinks, WhoIsLinks, MeshDoneLinks
  <2>4. CASE connectQp(r) \/ vcclCommSplit(r) \/ Elect(r) \/ Join(r)
    BY <2>4, ConnectQpLinks, SplitLinks
  <2> QED
    BY <1>1, <2>1, <2>2, <2>3, <2>4 DEF Proceed
<1>2. ASSUME NEW r \in Rank, vcclCommSplit(r) PROVE LInv'
  BY <1>2, SplitLinks
<1>3. ASSUME NEW r \in Rank, vcclCommDestroy(r) \/ Expired(r) \/ Crash(r) PROVE LInv'
  BY <1>3, CloseAllLinks DEF vcclCommDestroy, Expired, Crash, Fail
<1>4. ASSUME NEW q \in N .. N + Others - 1, OtherClient(q) PROVE LInv'
  BY <1>4, OtherClientLinks
<1>5. CASE UNCHANGED vars
  <2>1. UNCHANGED <<transport, splitting, backlog, wire, pc, i, cur, fds>>
    BY <1>5 DEF vars, given, net, local
  <2>2. DataSame /\ DataQuiet
    BY <2>1, Stays
  <2> QED
    BY <2>1, <2>2, IdleLinks
<1> QED
  BY <1>1, <1>2, <1>3, <1>4, <1>5 DEF Next

\* Once two ranks have their TCP transport, what each holds for the other in
\* fds_ is its end of the connection that the higher one has opened, whatever
\* the order in which TcpTransport::create accepted the connections.
THEOREM MeshLinked == Spec => []MeshWired
<1>1. Init => IInv /\ LInv
  BY InitInv, InitLinks
<1>2. IInv /\ LInv /\ [Next]_vars => IInv' /\ LInv'
  BY NextInv, NextLinks
<1>3. LInv => MeshWired
  <2> SUFFICES ASSUME LInv, transport = "tcp", NEW r \in Rank, NEW p \in Rank,
                      r < p, pc[r] = "ready", pc[p] = "ready"
               PROVE  fds[r][p] = <<p, r, "data">> /\ fds[p][r] = <<p, r, "data">>
    BY DEF MeshWired
  <2>1. r # p /\ Link(r, p) = <<p, r, "data">> /\ Link(p, r) = <<p, r, "data">>
    BY SMT, LinkFacts, Numbers
  <2> QED
    BY <2>1 DEF LInv, Linked
<1> QED
  BY <1>1, <1>2, <1>3, PTL DEF Spec

============================================================================
