---------------------------- MODULE SplitProofs ----------------------------
(***************************************************************************)
(* What the all-gathers of Bootstrap are for, for any number of ranks: no  *)
(* verbs transport is used before all queue pairs are connected, and, for  *)
(* any colors and keys, the ranks of a color agree on the communicator     *)
(* that vcclCommSplit is about to form.                                    *)
(***************************************************************************)
EXTENDS BootstrapProofs

\* Zenon proves the leaves that name no prover.
USE Zenon

----------------------------------------------------------------------------
(* The order of the members.                                               *)

Mine(r) == {p \in Rank : asked[p].color = asked[r].color}

Below(S, r) == {p \in S : Less(p, r)}

Increasing(s) == \A j, k \in DOMAIN s : j < k => Less(s[j], s[k])

LEMMA RankFinite == IsFiniteSet(Rank) /\ \A S \in SUBSET Rank : IsFiniteSet(S)
<1>1. N - 1 \in Int /\ 0 \in Int /\ Rank = 0 .. N - 1
  BY SMT, SizeAssumption DEF Rank
<1>2. IsFiniteSet(Rank)
  BY <1>1, FS_Interval
<1> QED
  BY <1>2, FS_Subset

LEMMA AskedTypes ==
  ASSUME asked \in Splits, NEW r \in Rank
  PROVE  asked[r].key \in Int /\ asked[r].color \in Int
<1>1. asked[r] \in [color : Int, key : Int]
  BY SplitsAssumption
<1> QED
  BY SMT, <1>1

LEMMA LessOrder ==
  ASSUME asked \in Splits, NEW p \in Rank, NEW q \in Rank, NEW x \in Rank
  PROVE  /\ ~Less(p, p)
         /\ Less(p, q) => ~Less(q, p)
         /\ Less(p, q) /\ Less(q, x) => Less(p, x)
         /\ p = q \/ Less(p, q) \/ Less(q, p)
<1>1. asked[p].key \in Int /\ asked[q].key \in Int /\ asked[x].key \in Int
  BY AskedTypes
<1>2. p \in Nat /\ q \in Nat /\ x \in Nat
  BY Numbers
<1> QED
  BY SMT, <1>1, <1>2 DEF Less

LEMMA BelowGrows ==
  ASSUME asked \in Splits, NEW S \in SUBSET Rank, NEW p \in S, NEW q \in S
  PROVE  /\ Cardinality(Below(S, p)) \in Nat
         /\ Cardinality(Below(S, p)) < Cardinality(S)
         /\ Less(p, q) => Cardinality(Below(S, p)) < Cardinality(Below(S, q))
<1>1. IsFiniteSet(S) /\ IsFiniteSet(Below(S, q))
  BY RankFinite DEF Below
<1>2. Below(S, p) \in SUBSET S /\ p \notin Below(S, p)
  BY LessOrder DEF Below
<1>3. /\ Cardinality(Below(S, p)) <= Cardinality(S)
      /\ Cardinality(S) # Cardinality(Below(S, p))
  BY <1>1, <1>2, FS_Subset
<1>4. /\ Cardinality(Below(S, p)) \in Nat /\ Cardinality(Below(S, q)) \in Nat
      /\ Cardinality(S) \in Nat
  BY <1>1, <1>2, FS_Subset, FS_CardinalityType
<1>5. ASSUME Less(p, q)
      PROVE  /\ Cardinality(Below(S, p)) <= Cardinality(Below(S, q))
             /\ Cardinality(Below(S, q)) # Cardinality(Below(S, p))
  <2>1. Below(S, p) \in SUBSET Below(S, q) /\ p \in Below(S, q)
    BY <1>5, LessOrder DEF Below
  <2> QED
    BY <1>1, <1>2, <2>1, FS_Subset
<1>6. Cardinality(Below(S, p)) < Cardinality(S)
  BY SMT, <1>3, <1>4
<1>7. Less(p, q) => Cardinality(Below(S, p)) < Cardinality(Below(S, q))
  BY SMT, <1>4, <1>5
<1> QED
  BY <1>4, <1>6, <1>7

\* The place of a rank is the number of those below it.
LEMMA SortedExists ==
  ASSUME asked \in Splits, NEW S \in SUBSET Rank
  PROVE  \E s \in [1 .. Cardinality(S) -> S] : Increasing(s)
<1> DEFINE n == Cardinality(S)
           f == [p \in S |-> Cardinality(Below(S, p)) + 1]
<1>1. IsFiniteSet(S) /\ n \in Nat
  BY RankFinite, FS_CardinalityType
<1>2. IsFiniteSet(1 .. n) /\ Cardinality(1 .. n) = n
  <2>1. PICK k \in Nat : k = n
    BY <1>1
  <2>2. k \in Int /\ 1 \in Int /\ (1 > k => k = 0) /\ k - 1 + 1 = k
    BY SMT
  <2>3. IsFiniteSet(1 .. k) /\ Cardinality(1 .. k) = k
    BY <2>2, FS_Interval
  <2> QED
    BY <2>1, <2>3
<1>3. ASSUME NEW p \in S PROVE f[p] \in 1 .. n
  <2>1. Cardinality(Below(S, p)) \in Nat /\ Cardinality(Below(S, p)) < n
    BY BelowGrows
  <2> QED
    BY SMT, <1>1, <2>1
<1>4. ASSUME NEW p \in S, NEW q \in S PROVE Less(p, q) => f[p] < f[q]
  <2>1. /\ Cardinality(Below(S, p)) \in Nat /\ Cardinality(Below(S, q)) \in Nat
        /\ Less(p, q) => Cardinality(Below(S, p)) < Cardinality(Below(S, q))
    BY BelowGrows
  <2> QED
    BY SMT, <2>1
<1>5. f \in [S -> 1 .. n]
  BY <1>3
<1>6. DOMAIN f = S
  OBVIOUS
<1> HIDE DEF f
<1>7. ASSUME NEW p \in S, NEW q \in S, f[p] = f[q] PROVE p = q
  <2>1. f[p] \in Int /\ f[q] \in Int
    BY SMT, <1>3
  <2>2. ~(f[p] < f[q]) /\ ~(f[q] < f[p])
    BY SMT, <1>7, <2>1
  <2> QED
    BY <1>4, <2>2, LessOrder
<1>8. f \in Injection(S, 1 .. n)
  BY <1>5, <1>6, <1>7 DEF Injection, IsInjective
<1>9. f \in Surjection(S, 1 .. n)
  BY <1>2, <1>8, FS_Injection
<1> DEFINE s == [k \in 1 .. n |-> CHOOSE p \in S : f[p] = k]
<1>10. ASSUME NEW k \in 1 .. n PROVE s[k] \in S /\ f[s[k]] = k
  BY <1>9 DEF Surjection
<1>11. s \in [1 .. n -> S] /\ DOMAIN s = 1 .. n
  BY <1>10
<1> HIDE DEF s
<1>12. ASSUME NEW j \in 1 .. n, NEW k \in 1 .. n, j < k PROVE Less(s[j], s[k])
  <2>1. s[j] # s[k] /\ ~(k < j)
    BY SMT, <1>1, <1>10, <1>12
  <2>2. ~Less(s[k], s[j])
    BY <1>4, <1>10, <2>1
  <2> QED
    BY <1>10, <2>1, <2>2, LessOrder
<1> QED
  BY <1>11, <1>12 DEF Increasing

\* Sorted lists all of S, each at its place.
LEMMA SortedPlaces ==
  ASSUME asked \in Splits, NEW S \in SUBSET Rank
  PROVE  /\ Sorted(S) \in [1 .. Cardinality(S) -> S]
         /\ \A p \in S : \E k \in 1 .. Cardinality(S) : Sorted(S)[k] = p
         /\ \A k \in 1 .. Cardinality(S) :
              Cardinality(Below(S, Sorted(S)[k])) = k - 1
<1> DEFINE n == Cardinality(S)
<1>1. PICK s : s = Sorted(S)
  OBVIOUS
<1>2. s \in [1 .. n -> S] /\ Increasing(s)
  BY <1>1, SortedExists DEF Sorted, Increasing
<1>3. IsFiniteSet(S) /\ n \in Nat
  BY RankFinite, FS_CardinalityType
<1> HIDE DEF n
<1>4. ASSUME NEW k \in 0 .. n
      PROVE  IsFiniteSet(1 .. k) /\ Cardinality(1 .. k) = k
  <2>1. k \in Int /\ 1 \in Int /\ (1 > k => k = 0) /\ k - 1 + 1 = k
    BY SMT, <1>3
  <2> QED
    BY <2>1, FS_Interval
<1>5. ASSUME NEW j \in 1 .. n, NEW k \in 1 .. n
      PROVE  /\ j < k <=> Less(s[j], s[k])
             /\ s[j] = s[k] => j = k
  <2>1. j < k \/ j = k \/ k < j
    BY SMT, <1>3
  <2>2. s[j] \in Rank /\ s[k] \in Rank
    BY <1>2
  <2>3. /\ j < k => Less(s[j], s[k])
        /\ k < j => Less(s[k], s[j])
    BY <1>2 DEF Increasing
  <2>4. ~(j < j) /\ (k < j => ~(j < k))
    BY SMT, <1>3
  <2> QED
    BY <2>1, <2>2, <2>3, <2>4, LessOrder
<1>6. s \in Injection(1 .. n, S)
  BY <1>2, <1>5 DEF Injection, IsInjective
<1>7. s \in Surjection(1 .. n, S)
  <2>1. Cardinality(1 .. n) = Cardinality(S)
    BY SMT, <1>3, <1>4 DEF n
  <2> QED
    BY <1>3, <1>6, <2>1, FS_Injection
<1>8. ASSUME NEW k \in 1 .. n PROVE Cardinality(Below(S, s[k])) = k - 1
  <2>1. PICK m : m = k - 1
    OBVIOUS
  <2>2. /\ m \in 0 .. n /\ 1 .. m \subseteq 1 .. n
        /\ \A j \in 1 .. n : j \in 1 .. m <=> j < k
    BY SMT, <1>3, <2>1
  <2> DEFINE g == [j \in 1 .. m |-> s[j]]
  <2>3. \A j \in 1 .. m : s[j] \in Below(S, s[k])
    BY <1>2, <1>5, <2>2 DEF Below
  <2>4. \A p \in Below(S, s[k]) : \E j \in 1 .. m : s[j] = p
    <3> SUFFICES ASSUME NEW p \in Below(S, s[k]) PROVE \E j \in 1 .. m : s[j] = p
      OBVIOUS
    <3>1. PICK j \in 1 .. n : s[j] = p
      BY <1>7 DEF Surjection, Below
    <3>2. j < k
      BY <1>5, <3>1 DEF Below
    <3> QED
      BY <2>2, <3>1, <3>2
  <2>5. g \in [1 .. m -> Below(S, s[k])] /\ DOMAIN g = 1 .. m
    BY <2>3
  <2>6. g \in Injection(1 .. m, Below(S, s[k]))
    BY <1>5, <2>2, <2>5 DEF Injection, IsInjective
  <2>7. g \in Surjection(1 .. m, Below(S, s[k]))
    BY <2>4, <2>5 DEF Surjection
  <2>8. ExistsBijection(1 .. m, Below(S, s[k]))
    BY <2>6, <2>7 DEF ExistsBijection, Bijection
  <2>9. Cardinality(Below(S, s[k])) = Cardinality(1 .. m)
    BY <1>4, <2>2, <2>8, FS_Bijection
  <2> QED
    BY <1>4, <2>1, <2>2, <2>9
<1>9. \A p \in S : \E k \in 1 .. n : s[k] = p
  BY <1>7 DEF Surjection
<1> QED
  BY <1>1, <1>2, <1>8, <1>9 DEF n

----------------------------------------------------------------------------
(* The invariant.                                                          *)

\* The all-gather of the unique ids.
IdRound == IF transport = "tcp" THEN 3 ELSE 4

Gathering == {"publish", "gather", "scatter", "table"}

\* Where r can be in which all-gather.
Stage(r) ==
  /\ IF r \in splitting THEN round[r] >= IdRound - 1 ELSE round[r] < IdRound
  /\ pc[r] \in Early \cup RootEarly => r \notin splitting /\ round[r] = 1
  /\ pc[r] \in Gathering => IF r \in splitting THEN round[r] \in {IdRound - 1, IdRound}
                            ELSE round[r] < IdRound - 1
  /\ pc[r] = "connectQp" => transport = "verbs" /\ r \notin splitting /\ round[r] = 2
  /\ pc[r] \in Linking \cup {"ready"} => r \notin splitting /\ round[r] = IdRound - 1
  /\ pc[r] = "elect" => r \in splitting /\ round[r] = IdRound
  /\ pc[r] \in {"join", "split"} => r \in splitting /\ round[r] = IdRound + 1

\* r has created its unique id if it leads its color.
First(r) == asked[r].color >= 0 /\ Sorted(Mine(r))[1] = r
Settled(r) == asked \in Splits /\ ids[r] = IF First(r) THEN NewId(r) ELSE None

\* It is about to publish its entry, or the entry is on its way to the root.
Voting(r) == pc[r] \in Gathering \/ (r \in Peer /\ ToRoot(r) # <<>>)
Voted(r) == round[r] = IdRound /\ Voting(r)

\* What r passes to vcclCommInitRank.
Args(r) == [nranks |-> Cardinality(Mine(r)), commId |-> ids[Sorted(Mine(r))[1]],
            rank |-> Cardinality(Below(Mine(r), r))]

SplitTypes ==
  /\ transport \in {"tcp", "verbs"} /\ splitting \subseteq Rank
  /\ DOMAIN ids = Rank /\ DOMAIN sub = Rank
  /\ asked = None \/ asked \in Splits
  /\ splitting # {} => asked \in Splits
  /\ rts \subseteq Rank

\* A rank takes part in the barrier of VerbsTransport::create, which is the
\* second all-gather, after it has connected its queue pairs.
Wired ==
  transport = "verbs" =>
    /\ \A r \in Rank : round[r] = 2 /\ Voting(r) => r \in rts
    /\ \A r \in Rank : <<r, 2>> \in buf => r \in rts
    /\ \A q \in Rank : round[q] > 2 => rts = Rank

\* Once a rank has the ids, those of all ranks are in them.
Elected ==
  /\ \A r \in Rank : Voted(r) => Settled(r)
  /\ \A r \in Rank : <<r, IdRound>> \in buf => Settled(r)
  /\ (\E q \in Rank : round[q] > IdRound) => \A r \in Rank : Settled(r)

Joined ==
  \A r \in Rank : sub[r] # None =>
    round[r] > IdRound /\ asked[r].color >= 0 /\ sub[r] = Args(r)

SInv == SplitTypes /\ (\A r \in Rank : Stage(r)) /\ Wired /\ Elected /\ Joined

----------------------------------------------------------------------------
(* Steps that leave the split and the all-gather alone.                    *)

Flows(a, b) ==
  \/ b = a \/ b \in Stuck
  \/ a \in Early \cup RootEarly /\ b \in Early \cup RootEarly \cup {"publish"}
  \/ a \in Gathering /\ b \in Gathering
  \/ a \in Linking /\ b \in Linking \cup {"ready"}

\* An entry of a later all-gather comes from a rank that is publishing.
NoNewVotes ==
  \A p \in Peer : round[p] # 1 /\ ToRoot(p)' # <<>> => Voting(p)

Aside == UNCHANGED <<given, round>> /\ (\A q \in Rank : Flows(pc[q], pc'[q])) /\ NoNewVotes

LEMMA RoundTypes ==
  ASSUME IInv
  PROVE  /\ \A q \in Rank : round[q] \in Nat /\ round[q] # 0
         /\ IdRound \in {3, 4} /\ IdRound \in Nat
         /\ transport' = transport => IdRound' = IdRound
<1>1. round \in [Rank -> Nat \ {0}]
  BY DEF IInv, Types
<1> QED
  BY SMT, <1>1 DEF IdRound

LEMMA PlacesApart ==
  /\ Gathering \cap (Early \cup RootEarly \cup Linking \cup Stuck) = {}
  /\ Linking \cap (Early \cup RootEarly \cup Stuck) = {}
  /\ (Early \cup RootEarly) \cap Stuck = {}
  /\ {"ready", "connectQp", "elect", "join", "split"}
       \cap (Early \cup RootEarly \cup Stuck \cup Gathering \cup Linking) = {}
  /\ "publish" \in Gathering
BY DEF Gathering, Early, RootEarly, Linking, Stuck

LEMMA AsideStage ==
  ASSUME IInv, SInv, Aside, NEW r \in Rank
  PROVE  Stage(r)'
<1>1. /\ round'[r] = round[r] /\ IdRound' = IdRound /\ UNCHANGED <<transport, splitting>>
      /\ Flows(pc[r], pc'[r]) /\ Stage(r)
  BY RoundTypes DEF Aside, given, SInv
<1>2. round[r] \in Nat /\ IdRound \in {3, 4}
  BY RoundTypes
<1>3. CASE pc'[r] = pc[r]
  BY <1>1, <1>3 DEF Stage
<1>4. CASE pc'[r] \in Stuck
  BY <1>1, <1>4, PlacesApart DEF Stage
<1>5. CASE pc[r] \in Early \cup RootEarly /\ pc'[r] \in Early \cup RootEarly
  BY <1>1, <1>5, PlacesApart DEF Stage
<1>6. CASE pc[r] \in Early \cup RootEarly /\ pc'[r] = "publish"
  <2>1. r \notin splitting /\ round[r] = 1
    BY <1>1, <1>6 DEF Stage
  <2>2. round[r] < IdRound /\ round[r] < IdRound - 1
    BY SMT, <1>2, <2>1
  <2> QED
    BY <1>1, <1>6, <2>1, <2>2, PlacesApart DEF Stage
<1>7. CASE pc[r] \in Gathering /\ pc'[r] \in Gathering
  BY <1>1, <1>7, PlacesApart DEF Stage
<1>8. CASE pc[r] \in Linking /\ pc'[r] \in Linking \cup {"ready"}
  BY <1>1, <1>8, PlacesApart DEF Stage
<1> QED
  BY <1>1, <1>3, <1>4, <1>5, <1>6, <1>7, <1>8 DEF Flows

LEMMA AsideVotes ==
  ASSUME IInv, SInv, Aside, NEW r \in Rank, round[r] # 1, Voting(r)'
  PROVE  Voting(r)
<1>1. Flows(pc[r], pc'[r]) /\ Stage(r)
  BY DEF Aside, SInv
<1>2. CASE pc'[r] \in Gathering
  <2>1. pc[r] \in Gathering
    BY <1>1, <1>2, PlacesApart DEF Flows, Stage
  <2> QED
    BY <2>1 DEF Voting
<1>3. CASE r \in Peer /\ ToRoot(r)' # <<>>
  BY <1>3 DEF Aside, NoNewVotes
<1> QED
  BY <1>2, <1>3 DEF Voting

\* What is as it was as long as the arguments are.
LEMMA OrderSame ==
  ASSUME UNCHANGED <<asked, commIdEnv>>
  PROVE  \A r \in Rank :
           /\ Mine(r)' = Mine(r) /\ Below(Mine(r), r)' = Below(Mine(r), r)
           /\ Sorted(Mine(r))' = Sorted(Mine(r))
           /\ First(r)' = First(r) /\ NewId(r)' = NewId(r)
<1>1. \A p, q : Less(p, q)' <=> Less(p, q)
  BY DEF Less
<1>2. \A r \in Rank : Mine(r)' = Mine(r)
  BY DEF Mine
<1>3. \A r \in Rank : Below(Mine(r), r)' = Below(Mine(r), r)
  BY <1>2 DEF Below, Less
<1>4. \A r \in Rank : Sorted(Mine(r))' = Sorted(Mine(r))
  <2> SUFFICES ASSUME NEW r \in Rank PROVE Sorted(Mine(r))' = Sorted(Mine(r))
    OBVIOUS
  <2>1. Mine(r)' = Mine(r)
    BY <1>2
  <2>2. \A s : s \in [1 .. Cardinality(Mine(r)') -> Mine(r)']
                <=> s \in [1 .. Cardinality(Mine(r)) -> Mine(r)]
    BY <2>1
  <2> QED
    BY <1>1, <2>2 DEF Sorted
<1>5. \A r \in Rank : First(r)' = First(r) /\ NewId(r)' = NewId(r)
  BY <1>4 DEF First, NewId
<1> QED
  BY <1>2, <1>3, <1>4, <1>5

LEMMA GivenSame ==
  ASSUME UNCHANGED given
  PROVE  \A r \in Rank : Settled(r)' = Settled(r) /\ Args(r)' = Args(r)
<1>1. UNCHANGED <<asked, ids, commIdEnv>>
  BY DEF given
<1> QED
  BY <1>1, OrderSame DEF Settled, Args

LEMMA WiredStays ==
  ASSUME SInv, UNCHANGED <<transport, round, rts>>,
         \A r \in Rank : transport = "verbs" /\ round[r] = 2 /\ Voting(r)' => Voting(r),
         \A r \in Rank : <<r, 2>> \in buf' =>
                         <<r, 2>> \in buf \/ (round[r] = 2 /\ Voting(r))
  PROVE  Wired'
BY DEF SInv, Wired

LEMMA AsideSplit ==
  ASSUME IInv, SInv, Aside,
         \A r \in Rank, n \in {2, IdRound} : <<r, n>> \in buf' =>
           <<r, n>> \in buf \/ (round[r] = n /\ Voting(r))
  PROVE  SInv'
<1>1. /\ round' = round /\ IdRound' = IdRound
      /\ UNCHANGED <<transport, asked, splitting, ids, sub, rts>> /\ UNCHANGED given
  BY RoundTypes DEF Aside, given
<1>2. SplitTypes'
  BY <1>1 DEF SInv, SplitTypes
<1>3. \A r \in Rank : Stage(r)'
  BY AsideStage
<1>4. \A r \in Rank : round[r] \in {2, IdRound} /\ Voting(r)' => Voting(r)
  <2>1. IdRound # 1 /\ 2 # 1
    BY SMT, RoundTypes
  <2> QED
    BY <2>1, AsideVotes
<1>5. Elected'
  BY <1>1, <1>4, GivenSame DEF SInv, Elected, Voted
<1>6. Joined'
  BY <1>1, GivenSame DEF SInv, Joined
<1>7. Wired'
  BY <1>1, <1>4, WiredStays
<1> QED
  BY <1>2, <1>3, <1>5, <1>6, <1>7 DEF SInv

LEMMA SplitMoves ==
  ASSUME IInv, NEW r \in Rank, NEW place, pc' = [pc EXCEPT ![r] = place]
  PROVE  pc'[r] = place /\ \A q \in Rank \ {r} : pc'[q] = pc[q]
BY DEF IInv, Types

LEMMA MoveSplit ==
  ASSUME IInv, SInv, NEW r \in Rank, NEW place, pc' = [pc EXCEPT ![r] = place],
         Flows(pc[r], place), UNCHANGED <<given, round, buf>>, NoNewVotes
  PROVE  SInv'
<1>1. \A q \in Rank : Flows(pc[q], pc'[q])
  BY SplitMoves DEF Flows
<1> QED
  BY <1>1, AsideSplit DEF Aside

LEMMA VotesQuiet ==
  ASSUME IInv
  PROVE  /\ SameBoots \/ wire' = wire => NoNewVotes
         /\ \A q \in Client :
              OtherBoots(q) /\ (ToRoot(q)' = ToRoot(q) \/ ToRoot(q) # <<>>) => NoNewVotes
BY Numbers DEF SameBoots, OtherBoots, NoNewVotes, Voting, ToRoot

\* What the root, and what the rank, reads of a connection of the bootstrap.
LEMMA BootInbox ==
  ASSUME NEW p \in Client
  PROVE  Inbox(boot(p), 0) = ToRoot(p) /\ Inbox(boot(p), p) = ToRank(p)
<1>1. boot(p)[1] = p /\ p # 0
  BY Numbers DEF boot
<1> QED
  BY <1>1 DEF Inbox, ToRoot, ToRank

LEMMA CloseAllSplit ==
  ASSUME IInv, SInv, NEW r \in Rank, NEW outcome \in {"failed", "crashed"},
         CloseAll(r, outcome)
  PROVE  SInv'
<1>1. /\ pc' = [pc EXCEPT ![r] = outcome]
      /\ UNCHANGED <<given, round, buf>> /\ wire' = wire
  BY DEF CloseAll, gather
<1>2. Flows(pc[r], outcome)
  BY DEF Flows, Stuck
<1> QED
  BY <1>1, <1>2, VotesQuiet, MoveSplit

LEMMA BrokenSplit ==
  ASSUME IInv, SInv, NEW r \in Rank, Broken(r)
  PROVE  SInv'
<1>1. CASE Fail(r)
  BY <1>1, CloseAllSplit DEF Fail
<1>2. CASE Goto(r, "splitFailed") /\ UNCHANGED <<given, net, i, cur, peerFds, fds, gather>>
  <2>1. /\ pc' = [pc EXCEPT ![r] = "splitFailed"]
        /\ UNCHANGED <<given, round, buf>> /\ wire' = wire
    BY <1>2 DEF Goto, net, gather
  <2>2. Flows(pc[r], "splitFailed")
    BY DEF Flows, Stuck
  <2> QED
    BY <2>1, <2>2, VotesQuiet, MoveSplit
<1> QED
  BY <1>1, <1>2 DEF Broken

----------------------------------------------------------------------------
(* Steps of the rendezvous and of the mesh.                                *)

LEMMA BindSplit ==
  ASSUME IInv, SInv, Bind \/ RootAccept
  PROVE  SInv'
<1>1. PICK place \in {"accept", "hello"} :
        /\ pc[0] \in {"bind", "accept"} /\ pc' = [pc EXCEPT ![0] = place]
        /\ UNCHANGED <<given, round, buf>> /\ wire' = wire
  BY DEF Bind, RootAccept, Goto, gather
<1>2. Flows(pc[0], place)
  BY <1>1 DEF Flows, RootEarly
<1> QED
  BY <1>1, <1>2, Numbers, VotesQuiet, MoveSplit

LEMMA RootHelloSplit ==
  ASSUME IInv, SInv, RootHello
  PROVE  SInv'
<1>1. PICK q \in Client : cur[0] = boot(q)
  BY DEF RootHello, IInv, QueueInv
<1>2. pc[0] = "hello" /\ Types
  BY DEF RootHello, IInv
<1>3. CASE /\ Arrived(cur[0], 0) /\ Admit(cur[0], Inbox(cur[0], 0)[1].rank)
           /\ UNCHANGED <<given, i, cur, fds, gather>>
  <2>1. /\ wire' = [Taken(boot(q), 0) EXCEPT ![boot(q)][1] = Append(@, 1)]
        /\ UNCHANGED <<given, round, buf>>
    BY <1>1, <1>3 DEF Admit, gather
  <2>2. PICK place \in {"publish", "accept"} : pc' = [pc EXCEPT ![0] = place]
    BY <1>3 DEF Admit, Goto
  <2>3. OtherBoots(q) /\ ToRoot(q) # <<>>
    BY <1>1, <1>2, <1>3, <2>1, BootAdmitted, BootInbox DEF Arrived
  <2>4. NoNewVotes
    BY <2>3, VotesQuiet
  <2>5. Flows(pc[0], place)
    BY <1>2 DEF Flows, RootEarly
  <2> QED
    BY <2>1, <2>2, <2>4, <2>5, Numbers, MoveSplit
<1>4. CASE Reject(cur[0])
  <2>1. /\ pc' = [pc EXCEPT ![0] = "accept"] /\ wire' = Sent(boot(q), 0, 0)
        /\ UNCHANGED <<given, round, buf>>
    BY <1>1, <1>4 DEF Reject, Goto, gather
  <2>2. OtherBoots(q) /\ ToRoot(q)' = ToRoot(q)
    BY <1>2, <2>1, BootAnswered
  <2>3. NoNewVotes
    BY <2>2, VotesQuiet
  <2>4. Flows(pc[0], "accept")
    BY <1>2 DEF Flows, RootEarly
  <2> QED
    BY <2>1, <2>3, <2>4, Numbers, MoveSplit
<1> QED
  BY <1>3, <1>4 DEF RootHello

LEMMA ConnectSplit ==
  ASSUME IInv, SInv, NEW p \in Peer, ConnectRoot(p) \/ SendHello(p) \/ GetReply(p)
  PROVE  SInv'
<1>0. p \in Rank /\ p \in Client /\ Types
  BY Numbers DEF IInv
<1>1. CASE Fail(p)
  BY <1>0, <1>1, CloseAllSplit DEF Fail
<1>2. CASE ~Fail(p)
  <2>1. PICK place \in {"greet", "reply", "publish"} :
          /\ pc' = [pc EXCEPT ![p] = place] /\ pc[p] \in Early
          /\ UNCHANGED <<given, round, buf>>
    BY <1>2 DEF ConnectRoot, SendHello, GetReply, Goto, gather, Early
  <2>2. \/ wire' = wire \/ wire' = Taken(boot(p), p)
        \/ wire' = Sent(boot(p), p, Hello(p))
    BY <1>2 DEF ConnectRoot, SendHello, GetReply, boot, Hello
  <2>3. wire' = wire \/ OtherBoots(p)
    BY <1>0, <2>2, BootTaken, BootSent
  <2>4. round[p] = 1
    BY <1>0, <2>1 DEF SInv, Stage
  <2>5. NoNewVotes
    BY <2>3, <2>4, Numbers, VotesQuiet DEF OtherBoots, NoNewVotes, Voting
  <2>6. Flows(pc[p], place)
    BY <2>1 DEF Flows, Early
  <2> QED
    BY <1>0, <2>1, <2>5, <2>6, MoveSplit
<1> QED
  BY <1>1, <1>2

LEMMA StillSplit ==
  ASSUME IInv, SInv, UNCHANGED <<given, pc, round, buf>>, NoNewVotes
  PROVE  SInv'
BY AsideSplit DEF Aside, Flows

LEMMA OtherClientSplit ==
  ASSUME IInv, SInv, NEW q \in N .. N + Others - 1, OtherClient(q)
  PROVE  SInv'
<1>1. q \in Client /\ q \notin Peer
  BY SMT, SizeAssumption DEF Client, Peer
<1>2. UNCHANGED <<given, pc, round, buf>> /\ Types
  BY DEF OtherClient, local, gather, IInv
<1>3. wire' = wire \/ \E m : wire' = Sent(boot(q), q, m)
  BY DEF OtherClient, boot
<1>4. wire' = wire \/ OtherBoots(q)
  BY <1>1, <1>2, <1>3, BootSent
<1>5. NoNewVotes
  BY <1>1, <1>4, Numbers, VotesQuiet DEF OtherBoots, NoNewVotes, Voting
<1> QED
  BY <1>2, <1>5, StillSplit

LEMMA MeshSplit ==
  ASSUME IInv, SInv, NEW r \in Rank,
         Dial(r) \/ Introduce(r) \/ AcceptPeer(r) \/ WhoIs(r) \/ MeshDone(r)
  PROVE  SInv'
<1>1. CASE Fail(r)
  BY <1>1, CloseAllSplit DEF Fail
<1>2. CASE ~Fail(r)
  <2>1. PICK place \in Linking \cup {"ready"} :
          /\ pc' = [pc EXCEPT ![r] = place] /\ pc[r] \in Linking
          /\ UNCHANGED <<given, round, buf>>
    BY <1>2 DEF Dial, Introduce, AcceptPeer, WhoIs, MeshDone, Goto, gather, Linking
  <2>2. Flows(pc[r], place)
    BY <2>1 DEF Flows
  <2>3. \/ wire' = wire
        \/ \E c : c \notin Boots /\ (wire' = Sent(c, r, r) \/ wire' = Taken(c, r))
    <3>1. <<r, i[r], "data">> \notin Boots
      BY DEF Boots, boot
    <3>2. pc[r] = "whois" => cur[r] \notin Boots
      BY DEF IInv, MeshInv, Boots
    <3> QED
      BY <1>2, <3>1, <3>2 DEF Dial, Introduce, AcceptPeer, WhoIs, MeshDone
  <2>4. NoNewVotes
    BY <2>3, OtherWire, VotesQuiet DEF IInv
  <2> QED
    BY <2>1, <2>2, <2>4, MoveSplit
<1> QED
  BY <1>1, <1>2

----------------------------------------------------------------------------
(* The all-gather.                                                         *)

LEMMA PublishSplit ==
  ASSUME IInv, SInv, NEW p \in Peer, Publish(p)
  PROVE  SInv'
<1>0. p \in Rank /\ p \in Client /\ Types
  BY Numbers DEF IInv
<1>1. CASE Broken(p)
  BY <1>0, <1>1, BrokenSplit
<1>2. CASE /\ wire' = Sent(boot(p), p, <<p, round[p]>>) /\ Goto(p, "table")
           /\ UNCHANGED <<given, backlog, ends, i, cur, peerFds, fds, gather>>
  <2>1. /\ pc[p] = "publish" /\ pc' = [pc EXCEPT ![p] = "table"]
        /\ UNCHANGED <<given, round, buf>>
    BY <1>2 DEF Publish, Goto, gather
  <2>2. OtherBoots(p)
    BY <1>0, <1>2, BootSent
  <2>3. Voting(p)
    BY <2>1 DEF Voting, Gathering
  <2>4. NoNewVotes
    BY <2>2, <2>3, Numbers DEF OtherBoots, NoNewVotes, Voting
  <2>5. Flows(pc[p], "table")
    BY <2>1 DEF Flows, Gathering
  <2> QED
    BY <1>0, <2>1, <2>4, <2>5, MoveSplit
<1> QED
  BY <1>1, <1>2 DEF Publish, boot

LEMMA PublishRootSplit ==
  ASSUME IInv, SInv, PublishRoot
  PROVE  SInv'
<1>1. /\ pc[0] = "publish" /\ pc' = [pc EXCEPT ![0] = "gather"]
      /\ buf' = {<<0, round[0]>>} /\ UNCHANGED <<given, round>> /\ wire' = wire
  BY DEF PublishRoot, Goto
<1>2. \A q \in Rank : Flows(pc[q], pc'[q])
  BY <1>1, SplitMoves, Numbers DEF Flows, Gathering
<1>3. \A r, n : <<r, n>> \in buf' => round[r] = n /\ Voting(r)
  BY <1>1 DEF Voting, Gathering
<1> QED
  BY <1>1, <1>2, <1>3, VotesQuiet, AsideSplit DEF Aside

\* What the root reads is the entry of that rank and of its all-gather.
LEMMA EntryRight ==
  ASSUME IInv, pc[0] = "gather", NEW k \in Peer, ToRoot(k) # <<>>
  PROVE  ToRoot(k)[1] = <<k, round[k]>>
<1>1. Admitted(k)
  BY DEF IInv, RootInv, RootEarly, Stuck
<1>2. PICK n : Ahead(k, n)
  BY <1>1 DEF Admitted, Answered, Behind, Read, Served, Sends
<1>3. ToRoot(k) = <<<<k, round[k]>>>>
  BY <1>2 DEF Ahead
<1> QED
  BY <1>3, OneMessage

LEMMA GatherSplit ==
  ASSUME IInv, SInv, Gather
  PROVE  SInv'
<1>1. CASE Broken(0)
  BY <1>1, BrokenSplit, Numbers
<1>2. CASE ~Broken(0)
  <2>1. PICK k \in Peer : k = i[0]
    BY DEF Gather, IInv, RootInv
  <2>2. peerFds[i[0]] = boot(k) /\ k \in Client /\ Types
    BY <2>1, Numbers DEF Gather, IInv, RootInv, RootEarly, Stuck, Admitted
  <2>3. /\ pc[0] = "gather" /\ wire' = Taken(boot(k), 0) /\ UNCHANGED <<given, round>>
        /\ Arrived(boot(k), 0) /\ buf' = buf \cup {Inbox(boot(k), 0)[1]}
    BY <1>2, <2>2 DEF Gather
  <2>4. OtherBoots(k) /\ ToRoot(k) # <<>>
    BY <2>2, <2>3, BootRead, BootInbox DEF Arrived
  <2>5. NoNewVotes
    BY <2>2, <2>4, VotesQuiet
  <2>6. Inbox(boot(k), 0)[1] = <<k, round[k]>>
    BY <2>2, <2>3, <2>4, EntryRight, BootInbox
  <2>7. \A r \in Rank, n \in {2, IdRound} : <<r, n>> \in buf' =>
          <<r, n>> \in buf \/ (round[r] = n /\ Voting(r))
    <3> SUFFICES ASSUME NEW r \in Rank, NEW n, <<r, n>> = <<k, round[k]>>
                 PROVE  round[r] = n /\ Voting(r)
      BY <2>3, <2>6
    <3>1. r = k /\ round[k] = n
      OBVIOUS
    <3> QED
      BY <2>4, <3>1 DEF Voting
  <2>8. \A q \in Rank : Flows(pc[q], pc'[q])
    <3>1. pc' = pc \/ pc' = [pc EXCEPT ![0] = "scatter"]
      BY <1>2 DEF Gather, Goto
    <3> QED
      BY <2>3, <3>1, SplitMoves, Numbers DEF Flows, Gathering
  <2> QED
    BY <2>3, <2>5, <2>7, <2>8, AsideSplit DEF Aside
<1> QED
  BY <1>1, <1>2

\* An all-gather is done.  That of the ids is so only if all have voted.
LEMMA GatheredSplit ==
  ASSUME IInv, SInv, IInv', NEW r \in Rank, NEW entries, Gathered(r, entries),
         pc[r] \in {"scatter", "table"}, UNCHANGED <<given, buf>>,
         \A p \in Peer : ToRoot(p)' = ToRoot(p),
         transport = "verbs" /\ round[r] = 2 => rts = Rank,
         round[r] = IdRound => \A p \in Rank : Settled(p)
  PROVE  SInv'
<1>1. /\ pc'[r] = After(r) /\ round'[r] = round[r] + 1
      /\ \A q \in Rank \ {r} : pc'[q] = pc[q] /\ round'[q] = round[q]
  BY SplitMoves DEF Gathered, Goto, IInv, Types
<1>2. /\ IdRound' = IdRound
      /\ UNCHANGED <<transport, asked, splitting, ids, sub, rts>> /\ UNCHANGED given
  BY RoundTypes DEF given
<1>3. round[r] \in Nat /\ round[r] # 0 /\ IdRound \in {3, 4}
  BY RoundTypes
<1>4. pc[r] \in Gathering /\ Stage(r)
  BY DEF Gathering, SInv
<1>5. ASSUME r \in splitting PROVE Stage(r)'
  <2>1. round[r] \in {IdRound - 1, IdRound}
    BY <1>4, <1>5 DEF Stage
  <2>2. pc'[r] = IF round[r] = IdRound THEN "join" ELSE "elect"
    BY SMT, <1>1, <1>5, <2>1 DEF After, IdRound
  <2>3. round[r] = IdRound => round'[r] = IdRound + 1
    BY <1>1
  <2>4. (round[r] # IdRound => round'[r] = IdRound) /\ round'[r] >= IdRound - 1
    BY SMT, <1>1, <1>3, <2>1
  <2> QED
    BY <1>2, <1>5, <2>2, <2>3, <2>4, PlacesApart DEF Stage
<1>6. ASSUME r \notin splitting PROVE Stage(r)'
  <2>1. round[r] < IdRound - 1
    BY <1>4, <1>6 DEF Stage
  <2>2. round'[r] < IdRound
    BY SMT, <1>1, <1>3, <2>1
  <2>3. \/ pc'[r] = "connectQp" /\ transport = "verbs" /\ round'[r] = 2
        \/ pc'[r] \in {"mesh", "ready"} /\ round'[r] = IdRound - 1
    BY SMT, <1>1, <1>3, <1>6, <2>1 DEF After, IdRound, SInv, SplitTypes
  <2> QED
    BY <1>2, <1>6, <2>2, <2>3, PlacesApart DEF Stage, Linking
<1>0. ~Voting(r)'
  <2>1. pc'[r] \in {"elect", "join", "mesh", "connectQp", "ready"}
    BY <1>1 DEF After
  <2>2. pc'[r] \notin Gathering
    BY <2>1 DEF Gathering
  <2>3. ASSUME r \in Peer PROVE ToRoot(r)' = <<>>
    <3>1. (Waits(r) \/ Admitted(r))'
      BY <2>3 DEF IInv, Slots
    <3> QED
      BY <2>1, <3>1
      DEF Waits, Admitted, Answered, Behind, Read, Served, Sends, Ahead, Stuck, Early
  <2> QED
    BY <2>2, <2>3 DEF Voting
<1>7. SplitTypes'
  BY <1>2 DEF SInv, SplitTypes
<1>8. \A q \in Rank : Stage(q)'
  BY <1>1, <1>2, <1>5, <1>6 DEF SInv, Stage
<1>9. \A q \in Rank : Voting(q)' => Voting(q) /\ round'[q] = round[q]
  BY <1>0, <1>1 DEF Voting
<1>10. ASSUME NEW q \in Rank, round'[q] > IdRound PROVE \A p \in Rank : Settled(p)'
  <2>1. CASE round[q] > IdRound
    BY <1>2, <2>1, GivenSame DEF SInv, Elected
  <2>2. CASE ~(round[q] > IdRound)
    <3>1. q = r
      BY <1>1, <1>10, <2>2
    <3>2. round[r] = IdRound
      BY SMT, <1>1, <1>3, <1>10, <2>2, <3>1
    <3> QED
      BY <1>2, <3>2, GivenSame
  <2> QED
    BY <2>1, <2>2
<1>11. Elected'
  BY <1>2, <1>9, <1>10, GivenSame DEF SInv, Elected, Voted
<1>12. Joined'
  <2>1. \A q \in Rank : round[q] > IdRound => round'[q] > IdRound
    BY SMT, <1>1, <1>3
  <2> QED
    BY <1>2, <2>1, GivenSame DEF SInv, Joined
<1>13. Wired'
  <2>1. ASSUME transport = "verbs", NEW q \in Rank, round'[q] > 2 PROVE rts = Rank
    <3>1. CASE round[q] > 2
      BY <2>1, <3>1 DEF SInv, Wired
    <3>2. CASE ~(round[q] > 2)
      <4>1. q = r
        BY <1>1, <2>1, <3>2
      <4>2. round[r] = 2
        BY SMT, <1>1, <1>3, <2>1, <3>2, <4>1
      <4> QED
        BY <2>1, <4>2
    <3> QED
      BY <3>1, <3>2
  <2> QED
    BY <1>2, <1>9, <2>1 DEF SInv, Wired
<1> QED
  BY <1>7, <1>8, <1>11, <1>12, <1>13 DEF SInv

LEMMA ScatterSplit ==
  ASSUME IInv, SInv, Scatter
  PROVE  SInv'
<1>0. pc[0] = "scatter" /\ i[0] \in 1 .. N /\ buf = Full(round[0]) /\ Types
  BY DEF Scatter, IInv, RootInv
<1>1. CASE Broken(0)
  BY <1>1, BrokenSplit, Numbers
<1>2. CASE /\ i[0] < N /\ wire' = Sent(peerFds[i[0]], 0, buf)
           /\ i' = [i EXCEPT ![0] = @ + 1]
           /\ UNCHANGED <<given, listening, backlog, ends, pc, cur, peerFds, fds, gather>>
  <2>1. PICK k \in Peer : k = i[0]
    BY SMT, <1>0, <1>2, SizeAssumption DEF Peer
  <2>2. peerFds[i[0]] = boot(k) /\ k \in Client
    BY <1>0, <2>1, Numbers DEF IInv, RootInv, RootEarly, Stuck, Admitted
  <2>3. wire' = Sent(boot(k), 0, buf) /\ UNCHANGED <<given, pc, round, buf>>
    BY <1>2, <2>2 DEF gather
  <2>4. OtherBoots(k) /\ ToRoot(k)' = ToRoot(k)
    BY <1>0, <2>2, <2>3, BootAnswered
  <2> QED
    BY <2>2, <2>3, <2>4, VotesQuiet, StillSplit
<1>3. CASE i[0] = N /\ Gathered(0, buf) /\ UNCHANGED <<given, net, cur, peerFds, fds, buf>>
  <2>1. UNCHANGED <<given, buf>> /\ wire' = wire
    BY <1>3 DEF net
  <2>2. \A p \in Peer : ToRoot(p)' = ToRoot(p)
    BY <2>1 DEF ToRoot
  <2>3. round[0] = IdRound => \A p \in Rank : Settled(p)
    BY <1>0 DEF SInv, Elected, Full
  <2>4. transport = "verbs" /\ round[0] = 2 => rts = Rank
    <3>1. transport = "verbs" /\ round[0] = 2 => Rank \subseteq rts
      BY <1>0 DEF SInv, Wired, Full
    <3> QED
      BY <3>1 DEF SInv, SplitTypes
  <2> QED
    BY <1>0, <1>3, <2>1, <2>2, <2>3, <2>4, Numbers, ScatterInv, GatheredSplit
<1> QED
  BY <1>1, <1>2, <1>3 DEF Scatter

LEMMA GetTableSplit ==
  ASSUME IInv, SInv, NEW p \in Peer, GetTable(p)
  PROVE  SInv'
<1>0. p \in Rank /\ p \in Client /\ Types /\ pc[p] = "table"
  BY Numbers DEF GetTable, IInv
<1>1. CASE Broken(p)
  BY <1>0, <1>1, BrokenSplit
<1>2. CASE /\ Arrived(boot(p), p)
           /\ Gathered(p, Inbox(boot(p), p)[1]) /\ wire' = Taken(boot(p), p)
           /\ UNCHANGED <<given, listening, backlog, ends, cur, peerFds, fds, buf>>
  <2>1. \A q \in Peer : ToRoot(q)' = ToRoot(q)
    BY <1>0, <1>2, BootTaken, Numbers DEF OtherBoots
  <2>2. ToRank(p) # <<>>
    BY <1>0, <1>2, BootInbox DEF Arrived
  <2>3. \/ Sends(p, round[0]) /\ buf = Full(round[0])
        \/ Sends(p, round[0] - 1)
    <3>1. Admitted(p)
      BY <1>0 DEF IInv, Slots, Waits, Early
    <3> QED
      BY <1>0, <2>2, <3>1 DEF Admitted, Answered, Behind, Read, Served, Ahead, Stuck
  <2>4. ASSUME round[p] = IdRound PROVE \A q \in Rank : Settled(q)
    <3>1. CASE Sends(p, round[0]) /\ buf = Full(round[0])
      BY <2>4, <3>1 DEF SInv, Elected, Full, Sends
    <3>2. CASE Sends(p, round[0] - 1)
      <4>1. round[0] > IdRound
        <5>1. IdRound = round[0] - 1
          BY <2>4, <3>2 DEF Sends
        <5> QED
          BY SMT, <5>1, RoundTypes, Numbers
      <4> QED
        BY <4>1, Numbers DEF SInv, Elected
    <3> QED
      BY <2>3, <3>1, <3>2
  <2>5. ASSUME transport = "verbs", round[p] = 2 PROVE rts = Rank
    <3>1. CASE Sends(p, round[0]) /\ buf = Full(round[0])
      <4>1. Rank \subseteq rts
        BY <2>5, <3>1 DEF SInv, Wired, Full, Sends
      <4> QED
        BY <4>1 DEF SInv, SplitTypes
    <3>2. CASE Sends(p, round[0] - 1)
      <4>1. round[0] > 2
        <5>1. 2 = round[0] - 1
          BY <2>5, <3>2 DEF Sends
        <5> QED
          BY SMT, <5>1, RoundTypes, Numbers
      <4> QED
        BY <2>5, <4>1, Numbers DEF SInv, Wired
    <3> QED
      BY <2>3, <3>1, <3>2
  <2> QED
    BY <1>0, <1>2, <2>1, <2>4, <2>5, GetTableInv, GatheredSplit
<1> QED
  BY <1>1, <1>2 DEF GetTable, boot

----------------------------------------------------------------------------
(* The queue pairs of the verbs transport, and the steps of vcclCommSplit. *)

LEMMA ConnectQpSplit ==
  ASSUME IInv, SInv, NEW r \in Rank, connectQp(r)
  PROVE  SInv'
<1>1. /\ pc[r] = "connectQp" /\ pc'[r] = "publish"
      /\ \A q \in Rank \ {r} : pc'[q] = pc[q]
      /\ rts' = rts \cup {r} /\ wire' = wire
      /\ UNCHANGED <<transport, commIdEnv, asked, splitting, ids, sub, round, buf>>
  BY SplitMoves DEF connectQp, Goto, net, gather
<1>2. IdRound' = IdRound
  BY <1>1, RoundTypes
<1>3. transport = "verbs" /\ r \notin splitting /\ round[r] = 2
  BY <1>1 DEF SInv, Stage
<1>4. round[r] < IdRound - 1 /\ round[r] < IdRound /\ round[r] # IdRound
  BY SMT, <1>3 DEF IdRound
<1>5. SplitTypes'
  BY <1>1 DEF SInv, SplitTypes
<1>6. \A q \in Rank : Stage(q)'
  <2>1. Stage(r)'
    BY <1>1, <1>2, <1>3, <1>4, PlacesApart DEF Stage
  <2>2. \A q \in Rank \ {r} : Stage(q)'
    BY <1>1, <1>2 DEF SInv, Stage
  <2> QED
    BY <2>1, <2>2
<1>7. \A q \in Rank \ {r} : Voting(q)' => Voting(q)
  BY <1>1 DEF Voting, ToRoot
<1>8. \A q \in Rank : Settled(q)' = Settled(q) /\ Args(q)' = Args(q)
  BY <1>1, OrderSame DEF Settled, Args
<1>9. Elected'
  BY <1>1, <1>2, <1>4, <1>7, <1>8 DEF SInv, Elected, Voted
<1>10. Joined'
  BY <1>1, <1>2, <1>8 DEF SInv, Joined
<1>11. Wired'
  BY <1>1, <1>3, <1>7 DEF SInv, Wired
<1> QED
  BY <1>5, <1>6, <1>9, <1>10, <1>11 DEF SInv

LEMMA MembersRight ==
  ASSUME IInv, NEW r \in Rank, round[r] # 1
  PROVE  members(r) = IF asked[r].color < 0 THEN <<>> ELSE Sorted(Mine(r))
<1>1. PICK k : k = Len(table[r])
  OBVIOUS
<1>2. table[r][k] = Full(k)
  <2>1. /\ table[r] \in Seq(SUBSET (Rank \X Nat)) /\ Len(table[r]) = round[r] - 1
        /\ \A j \in DOMAIN table[r] : table[r][j] = Full(j)
    BY DEF IInv, TableInv
  <2>2. round[r] \in Nat /\ round[r] # 0
    BY RoundTypes
  <2>3. k \in DOMAIN table[r]
    BY SMT, <1>1, <2>1, <2>2
  <2> QED
    BY <2>1, <2>3
<1>3. {e[1] : e \in Full(k)} = Rank
  <2>1. \A q : <<q, k>>[1] = q
    OBVIOUS
  <2>2. \A e \in Full(k) : e[1] \in Rank
    BY <2>1 DEF Full
  <2>3. \A q \in Rank : <<q, k>> \in Full(k) /\ q = <<q, k>>[1]
    BY <2>1 DEF Full
  <2> QED
    BY <2>2, <2>3
<1>4. {p \in {e[1] : e \in table[r][Len(table[r])]} : asked[p].color = asked[r].color}
        = Mine(r)
  BY <1>1, <1>2, <1>3 DEF Mine
<1> QED
  BY <1>4 DEF members

\* The first of a color is the same for all of its ranks.
LEMMA MineFacts ==
  ASSUME asked \in Splits, NEW r \in Rank
  PROVE  LET m == Sorted(Mine(r)) IN
         /\ r \in Mine(r) /\ Mine(r) \in SUBSET Rank
         /\ Len(m) = Cardinality(Mine(r)) /\ m # <<>> /\ Head(m) = m[1]
         /\ m[1] \in Mine(r) /\ Mine(m[1]) = Mine(r)
         /\ (CHOOSE k \in DOMAIN m : m[k] = r) - 1 = Cardinality(Below(Mine(r), r))
         /\ Cardinality(Below(Mine(r), r)) = 0 => m[1] = r
<1>1. r \in Mine(r) /\ Mine(r) \in SUBSET Rank
  BY DEF Mine
<1>2. PICK n : n = Cardinality(Mine(r))
  OBVIOUS
<1>3. n \in Nat
  BY <1>1, <1>2, RankFinite, FS_CardinalityType
<1>4. PICK m : m = Sorted(Mine(r))
  OBVIOUS
<1>5. /\ m \in [1 .. n -> Mine(r)]
      /\ \E k \in 1 .. n : m[k] = r
      /\ \A k \in 1 .. n : Cardinality(Below(Mine(r), m[k])) = k - 1
  BY <1>1, <1>2, <1>4, SortedPlaces
<1>6. 1 \in 1 .. n /\ n # 0
  BY SMT, <1>3, <1>5
<1>7. m \in Seq(Rank) /\ Len(m) = n
  <2>1. m \in [1 .. n -> Rank]
    BY <1>1, <1>5
  <2> QED
    BY SMT, <1>3, <2>1
<1>8. m # <<>> /\ Head(m) = m[1]
  BY SMT, <1>6, <1>7
<1>9. m[1] \in Mine(r) /\ Mine(m[1]) = Mine(r)
  BY <1>5, <1>6 DEF Mine
<1>10. PICK k : k = CHOOSE j \in DOMAIN m : m[j] = r
  OBVIOUS
<1>11. k \in 1 .. n /\ m[k] = r
  BY <1>5, <1>10
<1>12. k - 1 = Cardinality(Below(Mine(r), r))
  BY <1>5, <1>11
<1>13. k - 1 = 0 => k = 1
  BY SMT, <1>3, <1>11
<1> QED
  BY <1>1, <1>2, <1>4, <1>7, <1>8, <1>9, <1>10, <1>11, <1>12, <1>13

LEMMA LeadsFirst ==
  ASSUME IInv, asked \in Splits, NEW r \in Rank, round[r] # 1
  PROVE  Leads(r) <=> First(r)
<1>1. asked[r].color >= 0 <=> ~(asked[r].color < 0)
  <2>1. asked[r].color \in Int
    BY AskedTypes
  <2> QED
    BY SMT, <2>1
<1> QED
  BY <1>1, MembersRight, MineFacts DEF Leads, First

LEMMA NoneAsked == None \notin Splits
<1>1. 0 \in Rank
  BY Numbers
<1>2. None \notin [Rank -> [color : Int, key : Int]]
  BY SMT, <1>1 DEF None
<1> QED
  BY <1>2, SplitsAssumption

LEMMA SplitCallSplit ==
  ASSUME IInv, SInv, NEW r \in Rank, vcclCommSplit(r)
  PROVE  SInv'
<1>1. /\ pc[r] = "ready" /\ pc'[r] = "publish"
      /\ \A q \in Rank \ {r} : pc'[q] = pc[q]
      /\ splitting' = splitting \cup {r} /\ wire' = wire
      /\ UNCHANGED <<transport, commIdEnv, ids, sub, rts, round, buf>>
  BY SplitMoves DEF vcclCommSplit, Goto, net, gather
<1>2. IF asked = None THEN asked' \in Splits ELSE asked' = asked
  BY DEF vcclCommSplit
<1>3. IdRound' = IdRound /\ round[r] \in Nat /\ IdRound \in {3, 4}
  BY <1>1, RoundTypes
<1>4. r \notin splitting /\ round[r] = IdRound - 1
  BY <1>1 DEF SInv, Stage
<1>5. round[r] # IdRound /\ round[r] >= IdRound - 1
  BY SMT, <1>3, <1>4
<1>6. SplitTypes'
  BY <1>1, <1>2, NoneAsked DEF SInv, SplitTypes
<1>7. \A q \in Rank : Stage(q)'
  <2>1. Stage(r)'
    BY <1>1, <1>3, <1>4, <1>5, PlacesApart DEF Stage
  <2>2. \A q \in Rank \ {r} : Stage(q)'
    BY <1>1, <1>3 DEF SInv, Stage
  <2> QED
    BY <2>1, <2>2
<1>8. \A q \in Rank : Voted(q)' => Voted(q)
  BY <1>1, <1>3, <1>5 DEF Voted, Voting, ToRoot
<1>11. Wired'
  <2>1. transport = "verbs" => round[r] # 2
    BY SMT, <1>4 DEF IdRound
  <2>2. \A q \in Rank : transport = "verbs" /\ round[q] = 2 /\ Voting(q)' => Voting(q)
    BY <1>1, <2>1 DEF Voting, ToRoot
  <2> QED
    BY <1>1, <2>2, WiredStays
<1>9. CASE asked = None
  <2>1. \A q \in Rank : ~Settled(q)
    BY <1>9, NoneAsked DEF Settled
  <2>2. 0 \in Rank
    BY Numbers
  <2> QED
    BY <1>1, <1>3, <1>6, <1>7, <1>8, <1>11, <2>1, <2>2 DEF SInv, Elected, Joined
<1>10. CASE asked' = asked
  <2>1. \A q \in Rank : Settled(q)' = Settled(q) /\ Args(q)' = Args(q)
    BY <1>1, <1>10, OrderSame DEF Settled, Args
  <2> QED
    BY <1>1, <1>3, <1>6, <1>7, <1>8, <1>10, <1>11, <2>1 DEF SInv, Elected, Joined
<1> QED
  BY <1>2, <1>9, <1>10

LEMMA ElectSplit ==
  ASSUME IInv, SInv, NEW r \in Rank, Elect(r)
  PROVE  SInv'
<1>1. /\ pc[r] = "elect" /\ wire' = wire
      /\ UNCHANGED <<transport, commIdEnv, asked, splitting, sub, rts, round, buf>>
  BY DEF Elect, net, gather
<1>2. CASE Goto(r, "splitFailed") /\ ids' = ids
  <2>1. pc' = [pc EXCEPT ![r] = "splitFailed"] /\ UNCHANGED <<given, round, buf>>
    BY <1>1, <1>2 DEF Goto, given
  <2>2. Flows(pc[r], "splitFailed")
    BY DEF Flows, Stuck
  <2> QED
    BY <1>1, <2>1, <2>2, VotesQuiet, MoveSplit
<1>3. CASE /\ ids' = [ids EXCEPT ![r] = IF Leads(r) THEN NewId(r) ELSE None]
           /\ Goto(r, "publish")
  <2>1. pc'[r] = "publish" /\ \A q \in Rank \ {r} : pc'[q] = pc[q]
    BY <1>3, SplitMoves DEF Goto
  <2>2. IdRound' = IdRound /\ round[r] \in Nat /\ IdRound \in {3, 4}
    BY <1>1, RoundTypes
  <2>3. r \in splitting /\ round[r] = IdRound
    BY <1>1 DEF SInv, Stage
  <2>4. asked \in Splits /\ round[r] # 1
    BY SMT, <2>2, <2>3 DEF SInv, SplitTypes
  <2>5. /\ ids'[r] = IF First(r) THEN NewId(r) ELSE None
        /\ \A q \in Rank \ {r} : ids'[q] = ids[q] /\ DOMAIN ids' = Rank
    BY <1>3, <2>4, LeadsFirst DEF SInv, SplitTypes
  <2>6. \A q \in Rank : /\ First(q)' = First(q) /\ NewId(q)' = NewId(q)
                        /\ Mine(q)' = Mine(q) /\ Sorted(Mine(q))' = Sorted(Mine(q))
                        /\ Below(Mine(q), q)' = Below(Mine(q), q)
    BY <1>1, OrderSame
  <2>7. Settled(r)' /\ \A q \in Rank : Settled(q) => Settled(q)'
    BY <1>1, <2>4, <2>5, <2>6 DEF Settled
  <2>8. SplitTypes'
    <3>1. DOMAIN ids' = Rank
      BY <1>3 DEF SInv, SplitTypes
    <3> QED
      BY <1>1, <3>1 DEF SInv, SplitTypes
  <2>9. \A q \in Rank : Stage(q)'
    <3>1. Stage(r)'
      BY <1>1, <2>1, <2>2, <2>3, PlacesApart DEF SInv, Stage
    <3>2. \A q \in Rank \ {r} : Stage(q)'
      BY <1>1, <2>1, <2>2 DEF SInv, Stage
    <3> QED
      BY <3>1, <3>2
  <2>10. \A q \in Rank \ {r} : Voting(q)' => Voting(q)
    BY <1>1, <2>1 DEF Voting, ToRoot
  <2>11. Elected'
    BY <1>1, <2>2, <2>7, <2>10 DEF SInv, Elected, Voted
  <2>12. Joined'
    <3> SUFFICES ASSUME NEW q \in Rank, sub[q] # None
                 PROVE  round[q] > IdRound /\ asked[q].color >= 0 /\ sub[q] = Args(q)'
      BY <1>1, <2>2 DEF Joined
    <3>1. round[q] > IdRound /\ asked[q].color >= 0 /\ sub[q] = Args(q)
      BY DEF SInv, Joined
    <3>2. \A p \in Rank : ids'[p] = ids[p]
      BY <2>5, <3>1 DEF SInv, Elected, Settled
    <3>3. Sorted(Mine(q))[1] \in Rank
      BY <2>4, MineFacts DEF Mine
    <3>4. Args(q)' = Args(q)
      BY <2>6, <3>2, <3>3 DEF Args
    <3> QED
      BY <3>1, <3>4
  <2>13. Wired'
    <3>1. transport = "verbs" => round[r] # 2
      BY SMT, <2>3 DEF IdRound
    <3> QED
      BY <1>1, <2>10, <3>1, WiredStays
  <2> QED
    BY <2>8, <2>9, <2>11, <2>12, <2>13 DEF SInv
<1> QED
  BY <1>2, <1>3 DEF Elect

LEMMA JoinSplit ==
  ASSUME IInv, SInv, NEW r \in Rank, Join(r)
  PROVE  SInv'
<1>1. /\ pc[r] = "join" /\ pc'[r] = "split" /\ \A q \in Rank \ {r} : pc'[q] = pc[q]
      /\ wire' = wire
      /\ UNCHANGED <<transport, commIdEnv, asked, splitting, ids, rts, round, buf>>
  BY SplitMoves DEF Join, Goto, net, gather
<1>2. IdRound' = IdRound /\ round[r] \in Nat /\ IdRound \in {3, 4}
  BY <1>1, RoundTypes
<1>3. r \in splitting /\ round[r] = IdRound + 1
  BY <1>1 DEF SInv, Stage
<1>4. asked \in Splits /\ round[r] # 1 /\ round[r] > IdRound /\ round[r] # IdRound
  BY SMT, <1>2, <1>3 DEF SInv, SplitTypes
<1>5. /\ DOMAIN sub' = Rank /\ \A q \in Rank \ {r} : sub'[q] = sub[q]
      /\ sub'[r] = IF members(r) = <<>> THEN None
                   ELSE [nranks |-> Len(members(r)), commId |-> ids[members(r)[1]],
                         rank |-> (CHOOSE k \in DOMAIN members(r) : members(r)[k] = r) - 1]
  BY DEF Join, SInv, SplitTypes
<1>6. sub'[r] # None => asked[r].color >= 0 /\ sub'[r] = Args(r)
  <2>1. asked[r].color >= 0 \/ asked[r].color < 0
    <3>1. asked[r].color \in Int
      BY <1>4, AskedTypes
    <3> QED
      BY SMT, <3>1
  <2>2. CASE asked[r].color < 0
    BY <1>4, <1>5, <2>2, MembersRight
  <2>3. CASE ~(asked[r].color < 0)
    <3>1. members(r) = Sorted(Mine(r))
      BY <1>4, <2>3, MembersRight
    <3>2. /\ members(r) # <<>> /\ Len(members(r)) = Cardinality(Mine(r))
          /\ (CHOOSE k \in DOMAIN members(r) : members(r)[k] = r) - 1
               = Cardinality(Below(Mine(r), r))
      BY <1>4, <3>1, MineFacts
    <3>3. sub'[r] = [nranks |-> Cardinality(Mine(r)), commId |-> ids[members(r)[1]],
                     rank |-> Cardinality(Below(Mine(r), r))]
      BY <1>5, <3>2
    <3> QED
      BY <2>1, <2>3, <3>1, <3>3 DEF Args
  <2> QED
    BY <2>2, <2>3
<1>7. \A q \in Rank : Settled(q)' = Settled(q) /\ Args(q)' = Args(q)
  BY <1>1, OrderSame DEF Settled, Args
<1>8. SplitTypes'
  BY <1>1, <1>5 DEF SInv, SplitTypes
<1>9. \A q \in Rank : Stage(q)'
  <2>1. Stage(r)'
    BY <1>1, <1>2, <1>3, PlacesApart DEF SInv, Stage
  <2>2. \A q \in Rank \ {r} : Stage(q)'
    BY <1>1, <1>2 DEF SInv, Stage
  <2> QED
    BY <2>1, <2>2
<1>10. \A q \in Rank : Voting(q)' => Voting(q)
  BY <1>1, PlacesApart DEF Voting, ToRoot
<1>11. Elected'
  BY <1>1, <1>2, <1>7, <1>10 DEF SInv, Elected, Voted
<1>12. Joined'
  BY <1>1, <1>2, <1>4, <1>5, <1>6, <1>7 DEF SInv, Joined
<1>13. Wired'
  BY <1>1, <1>10, WiredStays
<1> QED
  BY <1>8, <1>9, <1>11, <1>12, <1>13 DEF SInv

----------------------------------------------------------------------------
(* The theorem.                                                            *)

LEMMA InitSplit ==
  ASSUME Init
  PROVE  SInv
<1>1. IInv
  BY InitInv
<1>2. /\ transport \in {"tcp", "verbs"} /\ splitting = {} /\ asked = None /\ buf = {}
      /\ rts = {}
      /\ \A r \in Rank : round[r] = 1 /\ sub[r] = None
      /\ \A r \in Rank : pc[r] \in Early \cup RootEarly
      /\ DOMAIN ids = Rank /\ DOMAIN sub = Rank
  BY DEF Init, Early, RootEarly
<1>3. 1 < IdRound /\ 1 # IdRound /\ ~(1 > IdRound) /\ 1 # 2 /\ ~(1 > 2)
  BY SMT, <1>1, RoundTypes
<1>4. SplitTypes
  BY <1>2 DEF SplitTypes
<1>5. \A r \in Rank : Stage(r)
  BY <1>2, <1>3, PlacesApart DEF Stage
<1>6. Elected
  BY <1>2, <1>3 DEF Elected, Voted
<1>7. Joined
  BY <1>2 DEF Joined
<1>8. Wired
  BY <1>2, <1>3 DEF Wired
<1> QED
  BY <1>4, <1>5, <1>6, <1>7, <1>8 DEF SInv

LEMMA NextSplit ==
  ASSUME IInv, SInv, [Next]_vars
  PROVE  SInv'
<1>1. ASSUME NEW r \in Rank, Proceed(r) PROVE SInv'
  <2>1. CASE r = 0 /\ Root
    BY <2>1, BindSplit, RootHelloSplit, PublishRootSplit, GatherSplit, ScatterSplit
    DEF Root
  <2>2. CASE r > 0 /\ (ConnectRoot(r) \/ SendHello(r) \/ GetReply(r) \/ Publish(r)
                         \/ GetTable(r))
    <3>1. r \in Peer
      BY SMT, <2>2, SizeAssumption DEF Peer, Rank
    <3> QED
      BY <2>2, <3>1, ConnectSplit, PublishSplit, GetTableSplit
  <2>3. CASE Dial(r) \/ Introduce(r) \/ AcceptPeer(r) \/ WhoIs(r) \/ MeshDone(r)
    BY <2>3, MeshSplit
  <2>4. CASE connectQp(r) \/ vcclCommSplit(r) \/ Elect(r) \/ Join(r)
    BY <2>4, ConnectQpSplit, SplitCallSplit, ElectSplit, JoinSplit
  <2> QED
    BY <1>1, <2>1, <2>2, <2>3, <2>4 DEF Proceed
<1>2. ASSUME NEW r \in Rank, vcclCommSplit(r) PROVE SInv'
  BY <1>2, SplitCallSplit
<1>3. ASSUME NEW r \in Rank, vcclCommDestroy(r) \/ Expired(r) \/ Crash(r) PROVE SInv'
  BY <1>3, CloseAllSplit DEF vcclCommDestroy, Expired, Crash, Fail
<1>4. ASSUME NEW q \in N .. N + Others - 1, OtherClient(q) PROVE SInv'
  BY <1>4, OtherClientSplit
<1>5. CASE UNCHANGED vars
  <2>1. UNCHANGED <<given, pc, round, buf>> /\ wire' = wire
    BY <1>5 DEF vars, net, local, gather
  <2> QED
    BY <2>1, VotesQuiet, StillSplit
<1> QED
  BY <1>1, <1>2, <1>3, <1>4, <1>5 DEF Next

\* The id of a color is that of its first rank, which has created it.
LEMMA IdOfColor ==
  ASSUME SInv, NEW r \in Rank, sub[r] # None
  PROVE  /\ asked \in Splits /\ sub[r] = Args(r)
         /\ Sorted(Mine(r))[1] \in Mine(r) /\ Sorted(Mine(r))[1] \in Rank
         /\ ids[Sorted(Mine(r))[1]] = NewId(Sorted(Mine(r))[1])
<1>1. /\ asked[r].color >= 0 /\ sub[r] = Args(r)
      /\ \A q \in Rank : Settled(q)
  BY DEF SInv, Joined, Elected
<1>2. asked \in Splits
  BY <1>1 DEF Settled
<1>3. PICK h : h = Sorted(Mine(r))[1]
  OBVIOUS
<1>4. h \in Mine(r) /\ Mine(h) = Mine(r)
  BY <1>2, <1>3, MineFacts
<1>5. h \in Rank /\ asked[h].color = asked[r].color
  BY <1>4 DEF Mine
<1>6. First(h)
  BY <1>1, <1>3, <1>4, <1>5 DEF First
<1> QED
  BY <1>1, <1>2, <1>3, <1>4, <1>5, <1>6 DEF Settled

LEMMA NewIds ==
  /\ \A p \in Rank : NewId(p) # None
  /\ \A p, q \in Rank : ~commIdEnv /\ NewId(p) = NewId(q) => p = q
<1>1. \A p : <<"env">> # <<>> /\ <<"new", p>> # <<>>
  BY SMT
<1>2. \A p, q : <<"new", p>> = <<"new", q>> => p = q
  OBVIOUS
<1> QED
  BY <1>1, <1>2 DEF NewId, None

LEMMA Consistency == Spec => [](IInv /\ SInv)
<1>1. Init => IInv /\ SInv
  BY InitInv, InitSplit
<1>2. IInv /\ SInv /\ [Next]_vars => IInv' /\ SInv'
  BY NextInv, NextSplit
<1> QED
  BY <1>1, <1>2, PTL DEF Spec

\* When VerbsTransport::create returns on one rank, connectQp has brought the
\* queue pairs of all ranks to RTS, for any number of ranks and any crashes: the
\* barrier at its end does what it is there for.
THEOREM NoEarlySend == Spec => []NobodySendsEarly
<1>1. IInv /\ SInv => NobodySendsEarly
  <2> SUFFICES ASSUME IInv, SInv, transport = "verbs", NEW r \in Rank,
                      pc[r] = "ready" \/ r \in splitting
               PROVE  rts = Rank
    BY DEF NobodySendsEarly
  <2>1. Stage(r) /\ round[r] \in Nat
    BY RoundTypes DEF SInv
  <2>2. round[r] >= IdRound - 1
    BY SMT, <2>1, RoundTypes DEF Stage
  <2>3. round[r] > 2
    BY SMT, <2>1, <2>2 DEF IdRound
  <2> QED
    BY <2>3 DEF SInv, Wired
<1> QED
  BY <1>1, Consistency, PTL

\* What the ranks pass to vcclCommInitRank in vcclCommSplit fits together, for
\* any number of ranks, any colors and keys and any crashes: one size, one id
\* and the ranks 0, 1, ... for each color, and another id for each of the others.
THEOREM SplitsAgree == Spec => []SplitAgrees
<1>1. SInv => SplitAgrees
  <2> SUFFICES ASSUME SInv, NEW r \in Rank, sub[r] # None
               PROVE  /\ sub[r].nranks = Cardinality(Mine(r))
                      /\ sub[r].rank = Cardinality(Below(Mine(r), r))
                      /\ sub[r].commId # None
                      /\ sub[r].rank = 0 => sub[r].commId = ids[r]
                      /\ \A p \in Rank : sub[p] # None /\ (p \in Mine(r) \/ ~commIdEnv) =>
                           (sub[p].commId = sub[r].commId <=> p \in Mine(r))
    BY DEF SplitAgrees, Mine, Below, Less
  <2>1. ASSUME NEW q \in Rank, sub[q] # None
        PROVE  /\ sub[q].nranks = Cardinality(Mine(q))
               /\ sub[q].commId = ids[Sorted(Mine(q))[1]]
               /\ sub[q].rank = Cardinality(Below(Mine(q), q))
    <3>1. PICK a, b, c : /\ a = Cardinality(Mine(q)) /\ b = ids[Sorted(Mine(q))[1]]
                         /\ c = Cardinality(Below(Mine(q), q))
      OBVIOUS
    <3>2. sub[q] = [nranks |-> a, commId |-> b, rank |-> c]
      BY <2>1, <3>1, IdOfColor DEF Args
    <3>3. sub[q].nranks = a /\ sub[q].commId = b /\ sub[q].rank = c
      BY SMT, <3>2
    <3> QED
      BY <3>1, <3>3
  <2>2. ASSUME NEW q \in Rank, sub[q] # None
        PROVE  \E h \in Rank : h \in Mine(q) /\ sub[q].commId = NewId(h)
    <3>1. PICK h : h = Sorted(Mine(q))[1]
      OBVIOUS
    <3>2. h \in Rank /\ h \in Mine(q) /\ ids[h] = NewId(h)
      BY <2>2, <3>1, IdOfColor
    <3>3. sub[q].commId = ids[h]
      BY <2>1, <2>2, <3>1
    <3> QED
      BY <3>2, <3>3
  <2>3. sub[r].rank = 0 => sub[r].commId = ids[r]
    BY <2>1, IdOfColor, MineFacts
  <2>4. ASSUME NEW p \in Rank, sub[p] # None, p \in Mine(r)
        PROVE  sub[p].commId = sub[r].commId
    <3>1. Mine(p) = Mine(r)
      BY <2>4 DEF Mine
    <3> QED
      BY <2>1, <2>4, <3>1
  <2>5. sub[r].commId # None
    BY <2>2, NewIds
  <2>6. ASSUME NEW p \in Rank, sub[p] # None, p \notin Mine(r), ~commIdEnv
        PROVE  sub[p].commId # sub[r].commId
    <3>1. PICK h \in Rank : h \in Mine(p) /\ sub[p].commId = NewId(h)
      BY <2>2, <2>6
    <3>2. PICK g \in Rank : g \in Mine(r) /\ sub[r].commId = NewId(g)
      BY <2>2
    <3>3. h # g
      BY <2>6, <3>1, <3>2 DEF Mine
    <3> QED
      BY <2>6, <3>1, <3>2, <3>3, NewIds
  <2> QED
    BY <2>1, <2>3, <2>4, <2>5, <2>6
<1> QED
  BY <1>1, Consistency, PTL

============================================================================
