------------------------------ MODULE Bootstrap ------------------------------
(***************************************************************************)
(* A communicator being formed: vcclCommInitRank on ranks 0 .. N-1, that   *)
(* is uniqueIdCreate, Bootstrap::init, allGather and barrier of            *)
(* src/core/bootstrap.cc and the create functions of the two transports    *)
(* (src/transport/tcp.cc, verbs.cc), over the sockets of                   *)
(* src/util/socket.cc; and then split by vcclCommSplit of src/core/comm.cc *)
(* over the same sockets.  Processes N .. N+Others-1 are clients of        *)
(* another job that reach the root's port; ranks may crash.                *)
(***************************************************************************)
EXTENDS Integers, Sequences, FiniteSets

CONSTANTS N,          \* ranks of the communicator
          Others,     \* clients of another job
          MaxCrashes, \* bound on the ranks that crash
          Splits      \* what the ranks may pass to vcclCommSplit

Rank == 0 .. N - 1

ASSUME SizeAssumption ==
  N \in Nat \ {0, 1} /\ Others \in Nat /\ MaxCrashes \in Nat
ASSUME SplitsAssumption == Splits \subseteq [Rank -> [color : Int, key : Int]]

Client == 1 .. N + Others - 1

\* A connection is named by its client, its server and the listener.
Conn == {<<p, 0, "boot">> : p \in Client}
          \cup {c \in Rank \X Rank \X {"data"} : c[2] < c[1]}
None == <<>>

VARIABLES
  transport, \* "tcp" or "verbs"
  commIdEnv, \* VCCL_COMM_ID is set
  listening, \* the <<rank, listener>> that take connections
  backlog,   \* per <<rank, listener>>, connections not accepted yet
  ends,      \* per connection, the processes whose end is open
  wire,      \* per connection, what is on its way to its client and its server
  pc, i,     \* per rank, where it is, and its loop counter
  cur,       \* per rank, the connection just accepted
  peerFds,   \* the root's peerFds_
  fds,       \* per rank, fds_ of the TCP transport
  round,     \* per rank, the number of its current bootstrap all-gather
  buf,       \* the root's all-gather buffer: entries <<rank, round>>
  table,     \* per rank, what each all-gather has returned
  asked,     \* per rank, the color and key it gives to vcclCommSplit
  splitting, \* the ranks that have called it
  ids,       \* per rank, the unique id it has created as a leader
  sub,       \* per rank, the arguments of vcclCommInitRank in vcclCommSplit
  rts        \* the ranks that have brought all their queue pairs to RTS

given == <<transport, commIdEnv, asked, splitting, ids, sub, rts>>
net == <<listening, backlog, ends, wire>>
gather == <<round, buf, table>>
local == <<pc, i, cur, peerFds, fds, gather>>
vars == <<given, net, local>>

\* With VCCL_COMM_ID the root binds its port in init; otherwise uniqueIdCreate
\* has opened the listener before any rank can know the id.
Init ==
  /\ transport \in {"tcp", "verbs"}
  /\ commIdEnv \in BOOLEAN
  /\ listening = IF commIdEnv THEN {} ELSE {<<0, "boot">>}
  /\ pc = [r \in Rank |-> IF r > 0 THEN "connect"
                          ELSE IF commIdEnv THEN "bind" ELSE "accept"]
  /\ backlog = [l \in Rank \X {"boot", "data"} |-> <<>>]
  /\ ends = [c \in Conn |-> {}] /\ wire = [c \in Conn |-> [to \in 1 .. 2 |-> <<>>]]
  /\ i = [r \in Rank |-> 0] /\ cur = [r \in Rank |-> None]
  /\ peerFds = [r \in Rank |-> None]
  /\ fds = [r \in Rank |-> [p \in Rank |-> None]]
  /\ round = [r \in Rank |-> 1] /\ buf = {}
  /\ table = [r \in Rank |-> <<>>]
  /\ asked = None /\ splitting = {}
  /\ ids = [r \in Rank |-> None] /\ sub = [r \in Rank |-> None]
  /\ rts = {}

----------------------------------------------------------------------------
(* Sockets.                                                                *)

Inbox(c, p) == wire[c][IF p = c[1] THEN 1 ELSE 2]
Sent(c, p, m) == [wire EXCEPT ![c][IF p = c[1] THEN 2 ELSE 1] = Append(@, m)]
Taken(c, p) == [wire EXCEPT ![c][IF p = c[1] THEN 1 ELSE 2] = Tail(@)]

\* recvAll on a blocking socket: it has a message, or sees the other end closed.
Arrived(c, p) == Inbox(c, p) # <<>>
Closed(c, p) == Inbox(c, p) = <<>> /\ ends[c] \subseteq {p}

\* connectTo: the kernel completes the connection of a listening port.
Connect(c) ==
  LET l == <<c[2], c[3]>> IN
  /\ l \in listening
  /\ ends' = [ends EXCEPT ![c] = {c[1], c[2]}]
  /\ backlog' = [backlog EXCEPT ![l] = Append(@, c)]

acceptOne(r, listener) ==
  LET l == <<r, listener>> IN
  /\ backlog[l] # <<>>
  /\ cur' = [cur EXCEPT ![r] = backlog[l][1]]
  /\ backlog' = [backlog EXCEPT ![l] = Tail(@)]

\* Closing a listener resets what it has not accepted.
CloseListener(l, open) ==
  [c \in Conn |-> IF \E k \in DOMAIN backlog[l] : backlog[l][k] = c
                  THEN open[c] \ {l[1]} ELSE open[c]]

\* A process that crashes, or whose vcclCommInitRank fails, has every socket
\* closed: by the kernel, or by ~Bootstrap, ~TcpTransport and the error paths.
CloseAll(r, outcome) ==
  /\ pc' = [pc EXCEPT ![r] = outcome]
  /\ ends' = [c \in Conn |-> ends[c] \ {r}]
  /\ listening' = {l \in listening : l[1] # r}
  /\ backlog' = [l \in DOMAIN backlog |-> IF l[1] = r THEN <<>> ELSE backlog[l]]
  /\ UNCHANGED <<given, wire, i, cur, peerFds, fds, gather>>

Fail(r) == CloseAll(r, "failed")

Goto(r, place) == pc' = [pc EXCEPT ![r] = place]

----------------------------------------------------------------------------
(* Bootstrap::init.                                                        *)

Bind ==
  /\ pc[0] = "bind" /\ Goto(0, "accept")
  /\ listening' = listening \cup {<<0, "boot">>}
  /\ UNCHANGED <<given, backlog, ends, wire, i, cur, peerFds, fds, gather>>

RootAccept ==
  /\ pc[0] = "accept" /\ Goto(0, "hello")
  /\ acceptOne(0, "boot")
  /\ UNCHANGED <<given, listening, ends, wire, i, peerFds, fds, gather>>

BugNoNranks(hello) ==
  /\ hello.job = "this"
  /\ hello.rank \in 1 .. N - 1 /\ peerFds[hello.rank] = None
\* The magic, the salt, the version and the endianness are those of this job,
\* and the rank is one of its size that has not come yet.
HelloOk(hello) ==
  /\ hello.job = "this" /\ hello.nranks = N
  /\ hello.rank \in 1 .. N - 1 /\ peerFds[hello.rank] = None

Missing == {p \in 1 .. N - 1 : peerFds[p] = None}

\* A client is given its slot and told so, and the listener is closed after the
\* last one.
Admit(c, p) ==
  /\ peerFds' = [peerFds EXCEPT ![p] = c]
  /\ wire' = [Taken(c, 0) EXCEPT ![c][1] = Append(@, 1)]
  /\ IF Missing = {p}
     THEN /\ Goto(0, "publish")
          /\ listening' = listening \ {<<0, "boot">>}
          /\ ends' = CloseListener(<<0, "boot">>, ends)
          /\ backlog' = [backlog EXCEPT ![<<0, "boot">>] = <<>>]
     ELSE Goto(0, "accept") /\ UNCHANGED <<listening, ends, backlog>>

\* A client that is not of this job, or has gone, is turned away.
BugGiveUp(c) == Fail(0)
Reject(c) ==
  /\ wire' = Sent(c, 0, 0)
  /\ ends' = [ends EXCEPT ![c] = @ \ {0}]
  /\ Goto(0, "accept")
  /\ UNCHANGED <<given, listening, backlog, i, cur, peerFds, fds, gather>>

RootHello ==
  /\ pc[0] = "hello"
  /\ LET c == cur[0] IN
     \/ /\ Arrived(c, 0) /\ HelloOk(Inbox(c, 0)[1])
        /\ Admit(c, Inbox(c, 0)[1].rank)
        /\ UNCHANGED <<given, i, cur, fds, gather>>
     \/ (IF Arrived(c, 0) THEN ~HelloOk(Inbox(c, 0)[1]) ELSE Closed(c, 0)) /\ Reject(c)

ConnectRoot(r) ==
  /\ pc[r] = "connect" /\ Goto(r, "greet")
  /\ Connect(<<r, 0, "boot">>)
  /\ UNCHANGED <<given, listening, wire, i, cur, peerFds, fds, gather>>

\* A send to a process that has gone may go unnoticed, or fail.
SendHello(r) ==
  LET c == <<r, 0, "boot">> IN
  /\ pc[r] = "greet"
  /\ \/ /\ wire' = Sent(c, r, [job |-> "this", nranks |-> N, rank |-> r])
        /\ Goto(r, "reply")
        /\ UNCHANGED <<given, listening, backlog, ends, i, cur, peerFds, fds,
                       gather>>
     \/ 0 \notin ends[c] /\ Fail(r)

GetReply(r) ==
  LET c == <<r, 0, "boot">> IN
  /\ pc[r] = "reply"
  /\ \/ /\ Arrived(c, r) /\ Inbox(c, r)[1] = 1
        /\ wire' = Taken(c, r) /\ Goto(r, "publish")
        /\ UNCHANGED <<given, listening, backlog, ends, i, cur, peerFds, fds,
                       gather>>
     \/ (IF Arrived(c, r) THEN Inbox(c, r)[1] = 0 ELSE Closed(c, r)) /\ Fail(r)

\* The Hello of a job of the same size, and that of one that has the same id
\* (VCCL_COMM_ID makes all ids equal) and another size.
OtherHello == {[job |-> "other", nranks |-> N, rank |-> 1],
               [job |-> "this", nranks |-> N + 1, rank |-> 1]}

\* A client of another job sends the Hello of that job, or goes away without.
OtherClient(p) ==
  LET c == <<p, 0, "boot">> IN
  /\ ends[c] = {} /\ wire[c][1] = <<>> /\ wire[c][2] = <<>>
  /\ <<0, "boot">> \in listening
  /\ backlog' = [backlog EXCEPT ![<<0, "boot">>] = Append(@, c)]
  /\ \/ /\ ends' = [ends EXCEPT ![c] = {p, 0}]
        /\ \E hello \in OtherHello : wire' = Sent(c, p, hello)
     \/ /\ ends' = [ends EXCEPT ![c] = {0}]
        /\ UNCHANGED wire
  /\ UNCHANGED <<given, listening, local>>

----------------------------------------------------------------------------
(* Bootstrap::allGather, called by the create functions of the transports, *)
(* which fail with it, and by vcclCommSplit, which leaves the communicator *)
(* and its sockets as they are when it fails.                              *)

\* The TCP transport opens its data listener before it publishes the address.
Listeners(r) ==
  IF transport = "tcp" /\ r \notin splitting
  THEN listening \cup {<<r, "data">>} ELSE listening

Broken(r) ==
  \/ r \notin splitting /\ Fail(r)
  \/ /\ r \in splitting /\ Goto(r, "splitFailed")
     /\ UNCHANGED <<given, net, i, cur, peerFds, fds, gather>>

PublishRoot ==
  /\ pc[0] = "publish" /\ Goto(0, "gather")
  /\ listening' = Listeners(0)
  /\ i' = [i EXCEPT ![0] = 1] /\ buf' = {<<0, round[0]>>}
  /\ UNCHANGED <<given, backlog, ends, wire, cur, peerFds, fds, round, table>>

Publish(r) ==
  LET c == <<r, 0, "boot">> IN
  /\ r > 0 /\ pc[r] = "publish"
  /\ \/ /\ wire' = Sent(c, r, <<r, round[r]>>) /\ Goto(r, "table")
        /\ listening' = Listeners(r)
        /\ UNCHANGED <<given, backlog, ends, i, cur, peerFds, fds, gather>>
     \/ 0 \notin ends[c] /\ Broken(r)

BugEager ==
  LET c == peerFds[i[0]] IN
  /\ pc[0] = "gather"
  /\ \/ /\ Arrived(c, 0)
        /\ buf' = buf \cup {Inbox(c, 0)[1]}
        /\ wire' = [Taken(c, 0) EXCEPT ![c][1] = Append(@, buf')]
        /\ IF i[0] = N - 1 THEN Goto(0, "scatter") ELSE UNCHANGED pc
        /\ i' = [i EXCEPT ![0] = @ + 1]
        /\ UNCHANGED <<given, listening, backlog, ends, cur, peerFds, fds,
                       round, table>>
     \/ Closed(c, 0) /\ Broken(0)
\* The root reads the entries in rank order, ...
Gather ==
  LET c == peerFds[i[0]] IN
  /\ pc[0] = "gather"
  /\ \/ /\ Arrived(c, 0)
        /\ buf' = buf \cup {Inbox(c, 0)[1]} /\ wire' = Taken(c, 0)
        /\ IF i[0] = N - 1 THEN Goto(0, "scatter") /\ i' = [i EXCEPT ![0] = 1]
           ELSE i' = [i EXCEPT ![0] = @ + 1] /\ UNCHANGED pc
        /\ UNCHANGED <<given, listening, backlog, ends, cur, peerFds, fds,
                       round, table>>
     \/ Closed(c, 0) /\ Broken(0)

\* What comes after an all-gather.  TCP goes on with its mesh; verbs connects
\* its queue pairs after the first, and has its barrier as a second; the two of
\* vcclCommSplit are for the members and for their unique ids.
After(r) ==
  IF r \in splitting
  THEN IF round[r] = (IF transport = "tcp" THEN 2 ELSE 3) THEN "elect" ELSE "join"
  ELSE IF transport = "tcp" THEN "mesh"
  ELSE IF round[r] = 1 THEN "connectQp" ELSE "ready"

Gathered(r, entries) ==
  /\ table' = [table EXCEPT ![r] = Append(@, entries)]
  /\ Goto(r, After(r))
  /\ round' = [round EXCEPT ![r] = @ + 1]
  /\ i' = [i EXCEPT ![r] = 0]

\* ... then sends all of them to each rank.
Scatter ==
  LET c == peerFds[i[0]] IN
  /\ pc[0] = "scatter"
  /\ \/ /\ i[0] < N /\ wire' = Sent(c, 0, buf)
        /\ i' = [i EXCEPT ![0] = @ + 1]
        /\ UNCHANGED <<given, listening, backlog, ends, pc, cur, peerFds, fds,
                       gather>>
     \/ /\ i[0] < N /\ c[1] \notin ends[c] /\ Broken(0)
     \/ /\ i[0] = N /\ Gathered(0, buf)
        /\ UNCHANGED <<given, net, cur, peerFds, fds, buf>>

GetTable(r) ==
  LET c == <<r, 0, "boot">> IN
  /\ pc[r] = "table"
  /\ \/ /\ Arrived(c, r) /\ Gathered(r, Inbox(c, r)[1])
        /\ wire' = Taken(c, r)
        /\ UNCHANGED <<given, listening, backlog, ends, cur, peerFds, fds, buf>>
     \/ Closed(c, r) /\ Broken(r)

----------------------------------------------------------------------------
(* VerbsTransport::create, between its two all-gathers.                    *)

BugNoBarrier(r) ==
  /\ pc[r] = "connectQp" /\ Goto(r, "ready")
  /\ rts' = rts \cup {r}
  /\ UNCHANGED <<transport, commIdEnv, asked, splitting, ids, sub, net, i, cur,
                 peerFds, fds, gather>>
\* With the entry of each peer, connectQp brings the queue pair for it to RTR
\* and to RTS.  The barrier follows.
connectQp(r) ==
  /\ pc[r] = "connectQp" /\ Goto(r, "publish")
  /\ rts' = rts \cup {r}
  /\ UNCHANGED <<transport, commIdEnv, asked, splitting, ids, sub, net, i, cur,
                 peerFds, fds, gather>>

----------------------------------------------------------------------------
(* TcpTransport::create: connect to the lower ranks in order, then accept  *)
(* as many connections as there are higher ones.                           *)

Dial(r) ==
  /\ pc[r] = "mesh" /\ i[r] < r /\ Goto(r, "introduce")
  /\ Connect(<<r, i[r], "data">>)
  /\ UNCHANGED <<given, listening, wire, i, cur, peerFds, fds, gather>>

Introduce(r) ==
  LET c == <<r, i[r], "data">> IN
  /\ pc[r] = "introduce"
  /\ \/ /\ wire' = Sent(c, r, r) /\ Goto(r, "mesh")
        /\ fds' = [fds EXCEPT ![r][i[r]] = c] /\ i' = [i EXCEPT ![r] = @ + 1]
        /\ UNCHANGED <<given, listening, backlog, ends, cur, peerFds, gather>>
     \/ i[r] \notin ends[c] /\ Fail(r)

AcceptPeer(r) ==
  /\ pc[r] = "mesh" /\ i[r] >= r /\ i[r] < N - 1 /\ Goto(r, "whois")
  /\ acceptOne(r, "data")
  /\ UNCHANGED <<given, listening, ends, wire, i, peerFds, fds, gather>>

BugByOrder(r) ==
  /\ pc[r] = "whois"
  /\ \/ /\ Arrived(cur[r], r)
        /\ fds' = [fds EXCEPT ![r][i[r] + 1] = cur[r]]
        /\ wire' = Taken(cur[r], r)
        /\ i' = [i EXCEPT ![r] = @ + 1] /\ Goto(r, "mesh")
        /\ UNCHANGED <<given, listening, backlog, ends, cur, peerFds, gather>>
     \/ Closed(cur[r], r) /\ Fail(r)
\* The connection goes to the rank that it says it is from.
WhoIs(r) ==
  LET c == cur[r]
      Known(p) == p > r /\ p < N /\ fds[r][p] = None IN
  /\ pc[r] = "whois"
  /\ \/ /\ Arrived(c, r) /\ Known(Inbox(c, r)[1])
        /\ fds' = [fds EXCEPT ![r][Inbox(c, r)[1]] = c]
        /\ wire' = Taken(c, r)
        /\ i' = [i EXCEPT ![r] = @ + 1] /\ Goto(r, "mesh")
        /\ UNCHANGED <<given, listening, backlog, ends, cur, peerFds, gather>>
     \/ (IF Arrived(c, r) THEN ~Known(Inbox(c, r)[1]) ELSE Closed(c, r)) /\ Fail(r)

MeshDone(r) ==
  /\ pc[r] = "mesh" /\ i[r] = N - 1 /\ Goto(r, "ready")
  /\ listening' = listening \ {<<r, "data">>}
  /\ ends' = CloseListener(<<r, "data">>, ends)
  /\ backlog' = [backlog EXCEPT ![<<r, "data">>] = <<>>]
  /\ UNCHANGED <<given, wire, i, cur, peerFds, fds, gather>>

----------------------------------------------------------------------------
(* vcclCommSplit.  The application calls it on all ranks.                  *)

vcclCommSplit(r) ==
  /\ pc[r] = "ready" /\ Goto(r, "publish")
  /\ IF asked = None THEN asked' \in Splits ELSE UNCHANGED asked
  /\ splitting' = splitting \cup {r}
  /\ UNCHANGED <<transport, commIdEnv, ids, sub, rts, net, i, cur, peerFds, fds,
                 gather>>

\* By key and then by parent rank.
Less(p, q) == \/ asked[p].key < asked[q].key
              \/ asked[p].key = asked[q].key /\ p < q

\* The ranks S in that order.
Sorted(S) ==
  CHOOSE s \in [1 .. Cardinality(S) -> S] :
    \A j, k \in DOMAIN s : j < k => Less(s[j], s[k])

\* The ranks of the color of r that the last all-gather has shown it.
members(r) ==
  LET shown == {e[1] : e \in table[r][Len(table[r])]}
  IN  IF asked[r].color < 0 THEN <<>>
      ELSE Sorted({p \in shown : asked[p].color = asked[r].color})

BugLowestLeads(r) ==
  asked[r].color >= 0 /\ \A k \in DOMAIN members(r) : r <= members(r)[k]
Leads(r) == members(r) # <<>> /\ Head(members(r)) = r

\* With VCCL_COMM_ID all ids are the one it names; otherwise each is new.
NewId(r) == IF commIdEnv THEN <<"env">> ELSE <<"new", r>>

BugOptOut(r) ==
  /\ pc[r] = "elect"
  /\ ids' = [ids EXCEPT ![r] = IF Leads(r) THEN NewId(r) ELSE None]
  /\ Goto(r, IF members(r) = <<>> THEN "split" ELSE "publish")
  /\ UNCHANGED <<transport, commIdEnv, asked, splitting, sub, rts, net, i, cur,
                 peerFds, fds, gather>>
\* A leader creates the unique id of its subgroup.  Without one it returns.
Elect(r) ==
  /\ pc[r] = "elect"
  /\ \/ /\ ids' = [ids EXCEPT ![r] = IF Leads(r) THEN NewId(r) ELSE None]
        /\ Goto(r, "publish")
     \/ Leads(r) /\ ~commIdEnv /\ Goto(r, "splitFailed") /\ UNCHANGED ids
  /\ UNCHANGED <<transport, commIdEnv, asked, splitting, sub, rts, net, i, cur,
                 peerFds, fds, gather>>

\* The rank goes on to vcclCommInitRank of its subgroup, if it has one.
Join(r) ==
  LET m == members(r) IN
  /\ pc[r] = "join" /\ Goto(r, "split")
  /\ sub' = [sub EXCEPT ![r] =
       IF m = <<>> THEN None
       ELSE [nranks |-> Len(m), commId |-> ids[m[1]],
             rank |-> (CHOOSE k \in DOMAIN m : m[k] = r) - 1]]
  /\ UNCHANGED <<transport, commIdEnv, asked, splitting, ids, rts, net, i, cur,
                 peerFds, fds, gather>>

\* vcclCommDestroy, on a communicator whose split has failed.
vcclCommDestroy(r) == pc[r] = "splitFailed" /\ CloseAll(r, "failed")

----------------------------------------------------------------------------
(* Faults, and the deadlines of connectTo and acceptOne.                   *)

Gone == {r \in Rank : pc[r] \in {"crashed", "failed"}}

Crash(r) ==
  /\ pc[r] \notin {"crashed", "failed"}
  /\ Cardinality({p \in Rank : pc[p] = "crashed"}) < MaxCrashes
  /\ CloseAll(r, "crashed")

BugAcceptForever(r) ==
  \/ pc[r] = "connect" /\ <<0, "boot">> \notin listening
  \/ pc[r] = "mesh" /\ i[r] < r /\ <<i[r], "data">> \notin listening
\* Nothing to connect to, or nothing to accept.
Unanswered(r) ==
  \/ pc[r] = "connect" /\ <<0, "boot">> \notin listening
  \/ pc[r] = "accept" /\ backlog[<<0, "boot">>] = <<>>
  \/ pc[r] = "mesh" /\ i[r] < r /\ <<i[r], "data">> \notin listening
  \/ pc[r] = "mesh" /\ i[r] \in r .. N - 2 /\ backlog[<<r, "data">>] = <<>>

\* VCCL_TIMEOUT is longer than ranks that are all alive need.
Expired(r) == Unanswered(r) /\ Gone # {} /\ Fail(r)

Root == Bind \/ RootAccept \/ RootHello \/ PublishRoot \/ Gather \/ Scatter

Proceed(r) ==
  \/ r = 0 /\ Root
  \/ r > 0 /\ (ConnectRoot(r) \/ SendHello(r) \/ GetReply(r) \/ Publish(r)
                 \/ GetTable(r))
  \/ connectQp(r)
  \/ Dial(r) \/ Introduce(r) \/ AcceptPeer(r) \/ WhoIs(r) \/ MeshDone(r)
  \/ asked # None /\ vcclCommSplit(r)
  \/ Elect(r) \/ Join(r)

Next ==
  \/ \E r \in Rank : \/ Proceed(r) \/ vcclCommSplit(r) \/ vcclCommDestroy(r)
                     \/ Expired(r) \/ Crash(r)
  \/ \E p \in N .. N + Others - 1 : OtherClient(p)

Spec == Init /\ [][Next]_vars

\* Every rank runs, and a deadline that nothing stops passes.  Nothing makes
\* the application split or destroy a communicator, but what one rank splits
\* all of them do.
FairSpec ==
  Spec /\ \A r \in Rank : WF_vars(Proceed(r)) /\ WF_vars(Expired(r))

----------------------------------------------------------------------------
(* Properties.                                                             *)

\* Each slot of the root holds the connection of that very rank of this job,
\* whatever other clients reached the port and in whatever order.
SlotsRight ==
  \A p \in Rank : peerFds[p] \in {None, <<p, 0, "boot">>}

\* An all-gather returns to every rank the entries that all ranks published in
\* that same all-gather: back-to-back ones on one stream are never mixed.
TableComplete ==
  \A r \in Rank : \A k \in DOMAIN table[r] :
    table[r][k] = {<<p, k>> : p \in Rank}

\* Once two ranks have their TCP transport, what one holds for the other is
\* the two ends of the same connection.
MeshWired ==
  transport = "tcp" =>
    \A r, p \in Rank : r < p /\ pc[r] = "ready" /\ pc[p] = "ready" =>
      fds[r][p] = <<p, r, "data">> /\ fds[p][r] = <<p, r, "data">>

\* A rank has its verbs transport only when connectQp has brought the queue
\* pairs of every rank to RTS, so no first message meets one that cannot take it.
NobodySendsEarly ==
  transport = "verbs" =>
    \A r \in Rank : pc[r] = "ready" \/ r \in splitting => rts = Rank

\* A job whose ranks all live is formed, although clients of another job take
\* turns at the root's port.
JobForms ==
  [](\A r \in Rank : pc[r] # "crashed")
    => <>(\A r \in Rank : pc[r] = "ready" \/ r \in splitting)

\* If a rank crashes, vcclCommInitRank still returns on every other rank.
InitReturns ==
  \A r \in Rank : <>(pc[r] \in {"ready", "failed", "crashed"})

\* The ranks of a color agree on the communicator they are about to form: its
\* size, the id that the rank to be its root has created, and ranks by key and
\* then parent rank.  Ranks of other colors have another id, unless the
\* environment gives all of them one.
SplitAgrees ==
  \A r \in Rank : sub[r] # None =>
    LET mine == {p \in Rank : asked[p].color = asked[r].color}
        Ahead(p) == \/ asked[p].key < asked[r].key
                    \/ asked[p].key = asked[r].key /\ p < r
    IN  /\ sub[r].nranks = Cardinality(mine)
        /\ sub[r].rank = Cardinality({p \in mine : Ahead(p)})
        /\ sub[r].commId # None
        /\ sub[r].rank = 0 => sub[r].commId = ids[r]
        /\ \A p \in Rank : sub[p] # None /\ (p \in mine \/ ~commIdEnv) =>
             (sub[p].commId = sub[r].commId <=> p \in mine)

\* A rank waits for an entry or a table of one whose split has failed and whose
\* socket is open.
HeldUp ==
  \E r \in Rank :
    LET c == IF r = 0 THEN peerFds[i[0]] ELSE <<r, 0, "boot">>
        p == IF r = 0 THEN c[1] ELSE 0
    IN  /\ pc[r] = (IF r = 0 THEN "gather" ELSE "table")
        /\ ~Arrived(c, r) /\ p \in ends[c] /\ pc[p] = "splitFailed"

\* vcclCommSplit returns on every rank, with an error or without, although
\* leaders get no id and ranks crash; or a rank waits forever for one that has
\* returned with an error and keeps the communicator, as the sockets of the
\* bootstrap have no deadline.
SplitReturns ==
  asked # None ~>
    \/ \A r \in Rank : pc[r] \in {"split", "splitFailed", "failed", "crashed"}
    \/ []HeldUp

============================================================================
