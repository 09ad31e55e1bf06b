--------------------------- MODULE VerbsProofs ------------------------------
(***************************************************************************)
(* VerbsTransport, for every set of ranks, every queue depth and every     *)
(* fault.  For every program of transport calls: counters keep their       *)
(* order, a live rank owes no send but those of its current call, and the  *)
(* completion queues stay within what they were created for.  For programs *)
(* that respect the posting discipline: every rank finds its receives in   *)
(* the order of its program, and every receive posted, reaped or left as   *)
(* surplus is accounted for; so receives match, no completion is lost, no  *)
(* data is returned before it is there, and VerbsTransport implements      *)
(* Transport.                                                              *)
(***************************************************************************)
EXTENDS PostingDiscipline, VerbsImplements, TLAPS

\* Zenon proves the leaves that name no prover.
USE Zenon

----------------------------------------------------------------------------
(* Tables indexed by rank and peer.                                        *)

\* Replacing one entry of a table keeps its type.
LEMMA AtType ==
  ASSUME NEW S, NEW f \in [Rank -> [Rank -> S]],
         NEW r \in Rank, NEW p \in Rank, NEW v \in S
  PROVE  At(f, r, p, v) \in [Rank -> [Rank -> S]]
BY DEF At

\* What an updated table holds.
LEMMA AtApply ==
  ASSUME NEW f \in [Rank -> [Rank -> Nat]],
         NEW r \in Rank, NEW p \in Rank, NEW v,
         NEW q \in Rank, NEW x \in Rank
  PROVE  At(f, r, p, v)[q][x] = IF q = r /\ x = p THEN v ELSE f[q][x]
BY DEF At

\* The smaller of two numbers.
LEMMA LesserNat ==
  ASSUME NEW a \in Nat, NEW b \in Nat
  PROVE  Lesser(a, b) \in Nat /\ Lesser(a, b) <= a /\ Lesser(a, b) <= b
         /\ (Lesser(a, b) = a \/ Lesser(a, b) = b)
BY SMT DEF Lesser

----------------------------------------------------------------------------
(* Types.                                                                  *)

\* The entries of the tables and of the vectors.
LEMMA EntryType ==
  ASSUME TypeOK, NEW r \in Rank, NEW p \in Rank
  PROVE  /\ prePostedRecv[r][p] \in Seq(Nat) /\ recvSurplus_[r][p] \in Nat
         /\ sendPosted[r][p] \in Nat /\ recvPosted[r][p] \in Nat
         /\ arrived[r][p] \in Nat /\ acked[r][p] \in Nat
         /\ sendReaped[r][p] \in Nat /\ recvReaped[r][p] \in Nat
         /\ sendDone[r] \in Nat /\ recvDone[r] \in Nat /\ recvNeed[r] \in Nat
         /\ pc[r] \in Nat /\ got[r][p] \in Nat
BY SMT DEF TypeOK

\* The current call of a rank is a call.
LEMMA CurType ==
  ASSUME TypeOK, NEW r \in Rank, pc[r] \in DOMAIN calls[r]
  PROVE  /\ Cur(r) \in Call
         /\ Cur(r).to \in Rank /\ Cur(r).from \in Rank
         /\ Cur(r).s \in Nat /\ Cur(r).r \in Nat
<1>1. calls[r] \in Seq(Call)
  BY SMT, ProgramsAssumption DEF TypeOK
<1>2. Cur(r) \in Call
  BY SMT, <1>1 DEF Cur
<1> QED
  BY <1>2 DEF Call

\* The number of receive WRs a call waits for.
LEMMA RecvWrsNat ==
  ASSUME TypeOK, NEW r \in Rank, pc[r] \in DOMAIN calls[r]
  PROVE  RecvWrs(r) \in Nat
<1>1. Cur(r).from \in Rank /\ Cur(r).r \in Nat
  BY CurType
<1>2. prePostedRecv[r][Cur(r).from] \in Seq(Nat)
  BY SMT, <1>1 DEF TypeOK
<1> QED
  BY SMT, <1>1, <1>2 DEF RecvWrs, Preposted

\* An error return keeps the types of what it touches.
LEMMA FailType ==
  ASSUME TypeOK, NEW r \in Rank, Fail(r)
  PROVE  /\ phase' \in [Rank -> Phase]
         /\ prePostedRecv' \in [Rank -> [Rank -> Seq(Nat)]]
         /\ recvSurplus_' \in [Rank -> [Rank -> Nat]]
         /\ UNCHANGED <<calls, pc, sendDone, recvDone, recvNeed>>
<1>1. <<>> \in Seq(Nat)
  BY SMT
<1> QED
  BY <1>1 DEF TypeOK, Fail, discardPending, Phase

\* A rank that waits does so in a send, recv or sendRecv.
WaitsInXfer == \A r \in Rank : Waiting(r) => Has(r, "xfer")

\* The entry of an operation keeps the types.
LEMMA BeginType == ASSUME TypeOK, NEW r \in Rank, Begin(r) PROVE TypeOK'
<1>1. pc' \in [Rank -> Nat \ {0}]
  <2>1. CASE pc' = [pc EXCEPT ![r] = @ + 1]
    BY SMT, <2>1 DEF TypeOK
  <2>2. CASE UNCHANGED pc
    BY <2>2 DEF TypeOK
  <2> QED
    BY <2>1, <2>2 DEF Begin
<1>2. phase' \in [Rank -> Phase]
  BY DEF Begin, TypeOK, Phase
<1>3. UNCHANGED <<calls, sendDone, recvDone, recvNeed, prePostedRecv,
                  recvSurplus_, arrived, acked, broken, aborted_, asyncFatal_,
                  sendPosted, recvPosted, sendReaped, recvReaped, got>>
  BY DEF Begin, credit, nic, flags
<1> QED
  BY <1>1, <1>2, <1>3 DEF TypeOK

\* Posting a receive ahead of its call keeps the types.
LEMMA PostRecvsType == ASSUME TypeOK, NEW r \in Rank, postRecvs(r) PROVE TypeOK'
<1> DEFINE f == Cur(r).from
           k == Cur(r).r
<1>1. f \in Rank /\ k \in Nat
  BY CurType DEF postRecvs, Has
<1>2. recvPosted[r][f] \in Nat /\ prePostedRecv[r][f] \in Seq(Nat)
  BY <1>1, EntryType
<1>3. /\ recvPosted[r][f] + k \in Nat
      /\ Enqueue(prePostedRecv[r][f], k) \in Seq(Nat)
  <2>1. ASSUME NEW q \in Seq(Nat) PROVE Enqueue(q, k) \in Seq(Nat)
    BY SMT, <1>1 DEF Enqueue
  <2> QED
    BY SMT, <1>1, <1>2, <2>1
<1>4. /\ recvPosted' = At(recvPosted, r, f, recvPosted[r][f] + k)
      /\ prePostedRecv' = At(prePostedRecv, r, f,
                             Enqueue(prePostedRecv[r][f], k))
  BY DEF postRecvs
<1>5. recvPosted' \in [Rank -> [Rank -> Nat]]
  <2>1. recvPosted \in [Rank -> [Rank -> Nat]]
    BY DEF TypeOK
  <2> QED
    BY <1>1, <1>3, <1>4, <2>1, AtType
<1>6. prePostedRecv' \in [Rank -> [Rank -> Seq(Nat)]]
  <2>1. prePostedRecv \in [Rank -> [Rank -> Seq(Nat)]]
    BY DEF TypeOK
  <2> QED
    BY <1>1, <1>3, <1>4, <2>1, AtType
<1>7. pc' \in [Rank -> Nat \ {0}]
  <2>1. pc' = [pc EXCEPT ![r] = @ + 1]
    BY DEF postRecvs
  <2> QED
    BY SMT, <2>1 DEF TypeOK
<1>8. UNCHANGED <<calls, phase, sendDone, recvDone, recvNeed, recvSurplus_,
                  arrived, acked, broken, aborted_, asyncFatal_, sendPosted,
                  sendReaped, recvReaped, got>>
  BY DEF postRecvs, nic, flags
<1> QED
  BY <1>5, <1>6, <1>7, <1>8 DEF TypeOK

\* The surplus a call draws down is there, and is at most its need.
LEMMA SurplusUse ==
  ASSUME TypeOK, NEW r \in Rank, pc[r] \in DOMAIN calls[r]
  PROVE  LET use == takeRecvSurplus(r, Cur(r).from, RecvWrs(r)) IN
         /\ use \in Nat /\ use <= RecvWrs(r)
         /\ use <= recvSurplus_[r][Cur(r).from]
         /\ (use = RecvWrs(r) \/ use = recvSurplus_[r][Cur(r).from])
<1>1. RecvWrs(r) \in Nat
  BY RecvWrsNat
<1>2. recvSurplus_[r][Cur(r).from] \in Nat
  BY CurType, SMTT(20) DEF TypeOK
<1> QED
  BY <1>1, <1>2, LesserNat DEF takeRecvSurplus

\* Posting the WRs of a call keeps the types.
LEMMA PostXferType == ASSUME TypeOK, NEW r \in Rank, PostXfer(r) PROVE TypeOK'
<1> DEFINE f == Cur(r).from
           t == Cur(r).to
           use == takeRecvSurplus(r, f, RecvWrs(r))
           fresh == IF Preposted(r) THEN 0 ELSE Cur(r).r
<1>0. pc[r] \in DOMAIN calls[r]
  BY DEF PostXfer, Has
<1>1. f \in Rank /\ t \in Rank /\ Cur(r).r \in Nat /\ Cur(r).s \in Nat
      /\ fresh \in Nat /\ RecvWrs(r) \in Nat
  BY <1>0, CurType, RecvWrsNat
<1>2. /\ recvPosted[r][f] \in Nat /\ sendPosted[r][t] \in Nat
      /\ recvSurplus_[r][f] \in Nat
  BY <1>1, EntryType
<1>3. use \in Nat /\ use <= RecvWrs(r) /\ use <= recvSurplus_[r][f]
  BY <1>0, SurplusUse
<1>4. /\ recvPosted[r][f] + fresh \in Nat
      /\ sendPosted[r][t] + Cur(r).s \in Nat
      /\ recvSurplus_[r][f] - use \in Nat
      /\ RecvWrs(r) - use \in Nat
  BY SMT, <1>1, <1>2, <1>3
<1> HIDE DEF use, fresh, f, t
<1>5. /\ recvPosted' = At(recvPosted, r, f, recvPosted[r][f] + fresh)
      /\ sendPosted' = At(sendPosted, r, t, sendPosted[r][t] + Cur(r).s)
      /\ recvSurplus_' = At(recvSurplus_, r, f, recvSurplus_[r][f] - use)
      /\ prePostedRecv' = IF Preposted(r)
                          THEN At(prePostedRecv, r, f,
                                  Tail(prePostedRecv[r][f]))
                          ELSE prePostedRecv
      /\ recvNeed' = [recvNeed EXCEPT ![r] = RecvWrs(r) - use]
      /\ sendDone' = [sendDone EXCEPT ![r] = 0]
      /\ recvDone' = [recvDone EXCEPT ![r] = 0]
      /\ phase' = [phase EXCEPT ![r] = "loop"]
  BY DEF PostXfer, use, fresh, f, t
<1>6. /\ recvPosted' \in [Rank -> [Rank -> Nat]]
      /\ sendPosted' \in [Rank -> [Rank -> Nat]]
      /\ recvSurplus_' \in [Rank -> [Rank -> Nat]]
  <2>1. /\ recvPosted \in [Rank -> [Rank -> Nat]]
        /\ sendPosted \in [Rank -> [Rank -> Nat]]
        /\ recvSurplus_ \in [Rank -> [Rank -> Nat]]
    BY DEF TypeOK
  <2> QED
    BY <1>1, <1>4, <1>5, <2>1, AtType
<1>7. prePostedRecv' \in [Rank -> [Rank -> Seq(Nat)]]
  <2>1. prePostedRecv \in [Rank -> [Rank -> Seq(Nat)]]
    BY DEF TypeOK
  <2>2. prePostedRecv[r][f] # <<>> => Tail(prePostedRecv[r][f]) \in Seq(Nat)
    BY SMT, <1>1, <2>1
  <2>3. Preposted(r) => prePostedRecv[r][f] # <<>>
    BY DEF Preposted, f
  <2> QED
    BY <1>1, <1>5, <2>1, <2>2, <2>3, AtType
<1>8. /\ recvNeed' \in [Rank -> Nat] /\ sendDone' \in [Rank -> Nat]
      /\ recvDone' \in [Rank -> Nat] /\ phase' \in [Rank -> Phase]
  BY <1>4, <1>5 DEF TypeOK, Phase
<1>9. UNCHANGED <<calls, pc, arrived, acked, broken, aborted_, asyncFatal_,
                  sendReaped, recvReaped, got>>
  BY DEF PostXfer, nic, flags
<1> QED
  BY <1>6, <1>7, <1>8, <1>9 DEF TypeOK

\* What a failed post leaves posted: no less than before.
LEMMA PostFailsEffect ==
  ASSUME TypeOK, NEW r \in Rank, PostFails(r)
  PROVE  LET f == Cur(r).from
             t == Cur(r).to IN
         /\ f \in Rank /\ t \in Rank
         /\ \E i \in Nat :
              recvPosted' = At(recvPosted, r, f, recvPosted[r][f] + i)
         /\ \/ UNCHANGED sendPosted
            \/ \E j \in Nat :
                 sendPosted' = At(sendPosted, r, t, sendPosted[r][t] + j)
<1>1. pc[r] \in DOMAIN calls[r]
  BY DEF PostFails, Has
<1>2. Cur(r).from \in Rank /\ Cur(r).to \in Rank /\ Cur(r).r \in Nat
      /\ Cur(r).s \in Nat
  BY <1>1, CurType
<1> QED
  BY SMT, <1>2 DEF PostFails

\* A failed post keeps the types.
LEMMA PostFailsType == ASSUME TypeOK, NEW r \in Rank, PostFails(r) PROVE TypeOK'
<1> DEFINE f == Cur(r).from
           t == Cur(r).to
<1>1. f \in Rank /\ t \in Rank
  BY PostFailsEffect
<1>2. recvPosted[r][f] \in Nat /\ sendPosted[r][t] \in Nat
  BY <1>1, EntryType
<1> HIDE DEF f, t
<1>3. recvPosted' \in [Rank -> [Rank -> Nat]]
  <2>1. PICK i \in Nat : recvPosted' = At(recvPosted, r, f, recvPosted[r][f] + i)
    BY PostFailsEffect DEF f
  <2>2. recvPosted \in [Rank -> [Rank -> Nat]]
    BY DEF TypeOK
  <2>3. recvPosted[r][f] + i \in Nat
    BY SMT, <1>2
  <2> QED
    BY <1>1, <2>1, <2>2, <2>3, AtType
<1>4. sendPosted' \in [Rank -> [Rank -> Nat]]
  <2>1. sendPosted \in [Rank -> [Rank -> Nat]]
    BY DEF TypeOK
  <2>2. ASSUME NEW j \in Nat,
               sendPosted' = At(sendPosted, r, t, sendPosted[r][t] + j)
        PROVE  sendPosted' \in [Rank -> [Rank -> Nat]]
    <3>1. sendPosted[r][t] + j \in Nat
      BY SMT, <1>2
    <3> QED
      BY <1>1, <2>1, <2>2, <3>1, AtType
  <2> QED
    BY <2>1, <2>2, PostFailsEffect DEF t
<1>5. Fail(r)
  BY DEF PostFails
<1>6. UNCHANGED <<arrived, acked, broken, aborted_, asyncFatal_, sendReaped,
                  recvReaped, got>>
  BY DEF PostFails, nic, flags
<1> QED
  BY <1>3, <1>4, <1>5, <1>6, FailType DEF TypeOK

\* What a poll reaps: i sends and j receives that are in the queue.
LEMMA ReapableType ==
  ASSUME TypeOK, NEW r \in Rank, NEW p \in Rank, NEW w \in Reapable(r, p)
  PROVE  /\ w[1] \in Nat /\ w[1] <= CqSend(r, p)
         /\ w[2] \in Nat /\ w[2] <= CqRecv(r, p)
<1>1. CqSend(r, p) \in Int /\ CqRecv(r, p) \in Int
  BY SMT, EntryType DEF CqSend, CqRecv
<1>2. w[1] \in 0 .. CqSend(r, p) /\ w[2] \in 0 .. CqRecv(r, p)
  BY DEF Reapable
<1> QED
  BY SMT, <1>1, <1>2

\* A poll keeps the types.
LEMMA PollType ==
  ASSUME TypeOK, NEW r \in Rank, NEW p \in Rank, NEW cs, NEW cr,
         NEW to \in Phase, pollOnce(r, p, cs, cr, to),
         UNCHANGED <<nic, flags, sendPosted, recvPosted, got>>
  PROVE  TypeOK'
<1>1. UNCHANGED <<arrived, acked, broken, aborted_, asyncFatal_, sendPosted,
                  recvPosted, got>>
  BY DEF nic, flags
<1>2. CASE Fail(r) /\ UNCHANGED <<sendReaped, recvReaped>>
  BY <1>1, <1>2, FailType DEF TypeOK
<1>3. ASSUME NEW w \in Reapable(r, p),
             sendReaped' = At(sendReaped, r, p, sendReaped[r][p] + w[1]),
             recvReaped' = At(recvReaped, r, p, recvReaped[r][p] + w[2]),
             sendDone' = [sendDone EXCEPT ![r] = @ + w[1]] \/ UNCHANGED sendDone,
             recvDone' = [recvDone EXCEPT ![r] = @ + w[2]] \/ UNCHANGED recvDone,
             phase' = [phase EXCEPT ![r] = to],
             UNCHANGED <<calls, pc, recvNeed, prePostedRecv, recvSurplus_>>
      PROVE  TypeOK'
  <2>1. w[1] \in Nat /\ w[2] \in Nat
    BY ReapableType
  <2>2. /\ sendReaped[r][p] + w[1] \in Nat
        /\ recvReaped[r][p] + w[2] \in Nat
    BY SMT, <2>1, EntryType
  <2>3. /\ sendReaped \in [Rank -> [Rank -> Nat]]
        /\ recvReaped \in [Rank -> [Rank -> Nat]]
        /\ sendDone \in [Rank -> Nat] /\ recvDone \in [Rank -> Nat]
        /\ phase \in [Rank -> Phase]
    BY DEF TypeOK
  <2>4. /\ sendReaped' \in [Rank -> [Rank -> Nat]]
        /\ recvReaped' \in [Rank -> [Rank -> Nat]]
    BY <1>3, <2>2, <2>3, AtType
  <2>5. ASSUME NEW d \in [Rank -> Nat], NEW k \in Nat
        PROVE  [d EXCEPT ![r] = @ + k] \in [Rank -> Nat]
    BY SMT
  <2>6. sendDone' \in [Rank -> Nat] /\ recvDone' \in [Rank -> Nat]
    BY SMT, <1>3, <2>1, <2>3, <2>5
  <2>7. phase' \in [Rank -> Phase]
    BY <1>3, <2>3
  <2> QED
    BY <1>1, <1>3, <2>4, <2>6, <2>7 DEF TypeOK
<1> QED
  BY <1>2, <1>3 DEF pollOnce, credit

\* The polling rounds, the checks after them and the return keep the types.
LEMMA WaitType ==
  ASSUME TypeOK, WaitsInXfer, NEW r \in Rank,
         PollPeer(r) \/ PollSend(r) \/ PollRecv(r) \/ Check(r) \/ Expired(r)
  PROVE  TypeOK'
<1>1. Waiting(r)
  BY DEF PollPeer, PollSend, PollRecv, Check, Expired, Waiting
<1>2. Cur(r).from \in Rank /\ Cur(r).to \in Rank
  BY <1>1, CurType DEF WaitsInXfer, Has
<1>3. {"loop", "mid", "check"} \subseteq Phase
  BY DEF Phase
<1>4. ASSUME NEW q \in Rank, NEW cs, NEW cr, NEW to \in Phase,
             pollOnce(r, q, cs, cr, to),
             UNCHANGED <<nic, flags, sendPosted, recvPosted, got>>
      PROVE  TypeOK'
  BY <1>4, PollType
<1>5. ASSUME NEW to \in Phase, phase' = [phase EXCEPT ![r] = to],
             UNCHANGED <<calls, pc, sendDone, recvDone, recvNeed, credit,
                         nic, flags, sendPosted, recvPosted, sendReaped,
                         recvReaped, got>>
      PROVE  TypeOK'
  <2>1. phase' \in [Rank -> Phase]
    BY <1>5 DEF TypeOK
  <2> QED
    BY <1>5, <2>1 DEF TypeOK, credit, nic, flags
<1>6. ASSUME Fail(r), UNCHANGED <<nic, flags, sendPosted, recvPosted,
                                  sendReaped, recvReaped, got>>
      PROVE  TypeOK'
  <2>1. UNCHANGED <<arrived, acked, broken, aborted_, asyncFatal_, sendPosted,
                    recvPosted, sendReaped, recvReaped, got>>
    BY <1>6 DEF nic, flags
  <2> QED
    BY <1>6, <2>1, FailType DEF TypeOK
<1>7. CASE PollPeer(r)
  BY <1>2, <1>3, <1>4, <1>7 DEF PollPeer
<1>8. CASE PollSend(r)
  BY <1>2, <1>3, <1>4, <1>5, <1>8 DEF PollSend
<1>9. CASE PollRecv(r)
  BY <1>2, <1>3, <1>4, <1>5, <1>9 DEF PollRecv
<1>10. CASE Check(r)
  BY <1>3, <1>5, <1>6, <1>10 DEF Check
<1>11. CASE Expired(r)
  BY <1>6, <1>11 DEF Expired
<1> QED
  BY <1>7, <1>8, <1>9, <1>10, <1>11

\* The return of a call keeps the types: no wait ends short of its need.
LEMMA ReturnType ==
  ASSUME TypeOK, WaitsInXfer, NEW r \in Rank, Return(r)
  PROVE  TypeOK'
<1> DEFINE f == Cur(r).from
<1>1. pc[r] \in DOMAIN calls[r]
  BY DEF Return, Waiting, WaitsInXfer, Has
<1>2. f \in Rank /\ Cur(r).r \in Nat
  BY <1>1, CurType
<1>3. /\ recvSurplus_[r][f] \in Nat /\ got[r][f] \in Nat
      /\ recvDone[r] \in Nat /\ recvNeed[r] \in Nat
  BY <1>2, EntryType
<1>4. recvDone[r] >= recvNeed[r]
  BY DEF Return, Satisfied
<1>5. recvSurplus_[r][f] + Overshoot(r) \in Nat /\ got[r][f] + Cur(r).r \in Nat
  BY SMT, <1>2, <1>3, <1>4 DEF Overshoot
<1>6. /\ recvSurplus_' = At(recvSurplus_, r, f, recvSurplus_[r][f] + Overshoot(r))
      /\ got' = At(got, r, f, got[r][f] + Cur(r).r)
  BY DEF Return
<1>7. /\ recvSurplus_' \in [Rank -> [Rank -> Nat]]
      /\ got' \in [Rank -> [Rank -> Nat]]
  <2>1. recvSurplus_ \in [Rank -> [Rank -> Nat]] /\ got \in [Rank -> [Rank -> Nat]]
    BY DEF TypeOK
  <2> QED
    BY <1>2, <1>5, <1>6, <2>1, AtType
<1>8. pc' \in [Rank -> Nat \ {0}] /\ phase' \in [Rank -> Phase]
  <2>1. /\ pc' = [pc EXCEPT ![r] = @ + 1]
        /\ phase' = [phase EXCEPT ![r] = "call"]
    BY DEF Return
  <2> QED
    BY <2>1, SMTT(20) DEF TypeOK, Phase
<1>9. UNCHANGED <<calls, sendDone, recvDone, recvNeed, prePostedRecv, arrived,
                  acked, broken, aborted_, asyncFatal_, sendPosted, recvPosted,
                  sendReaped, recvReaped>>
  BY DEF Return, nic, flags
<1> QED
  BY <1>7, <1>8, <1>9 DEF TypeOK

\* A message that lands keeps the types.
LEMMA LandType ==
  ASSUME TypeOK, NEW p \in Rank, NEW r \in Rank, Land(p, r)
  PROVE  TypeOK'
<1>1. arrived[r][p] + 1 \in Nat
  BY SMT, EntryType
<1>2. arrived' = At(arrived, r, p, arrived[r][p] + 1)
  BY DEF Land
<1>3. arrived' \in [Rank -> [Rank -> Nat]]
  <2>1. arrived \in [Rank -> [Rank -> Nat]]
    BY DEF TypeOK
  <2> QED
    BY <1>1, <1>2, <2>1, AtType
<1> QED
  BY <1>3 DEF Land, TypeOK, local, credit, flags

\* So does an acknowledgement.
LEMMA AckType ==
  ASSUME TypeOK, NEW p \in Rank, NEW r \in Rank, Ack(p, r)
  PROVE  TypeOK'
<1>1. acked[p][r] + 1 \in Nat
  BY SMT, EntryType
<1>2. acked' = At(acked, p, r, acked[p][r] + 1)
  BY DEF Ack
<1>3. acked' \in [Rank -> [Rank -> Nat]]
  <2>1. acked \in [Rank -> [Rank -> Nat]]
    BY DEF TypeOK
  <2> QED
    BY <1>1, <1>2, <2>1, AtType
<1> QED
  BY <1>3 DEF Ack, TypeOK, local, credit, flags

\* So do the faults and the calls of other threads.
LEMMA EventType ==
  ASSUME TypeOK, NEW r \in Rank, NEW p \in Rank,
         Crash(r) \/ Abort(r) \/ AsyncFatal(r) \/ RetryExceeded(r, p)
  PROVE  TypeOK'
<1>1. CASE Crash(r)
  <2>1. phase' \in [Rank -> Phase]
    BY <1>1 DEF Crash, TypeOK, Phase
  <2> QED
    BY <1>1, <2>1 DEF Crash, TypeOK, credit, nic, flags
<1>2. CASE Abort(r)
  <2>1. aborted_' \in [Rank -> BOOLEAN]
    BY <1>2 DEF Abort, TypeOK
  <2> QED
    BY <1>2, <2>1 DEF Abort, TypeOK, local, credit, nic
<1>3. CASE AsyncFatal(r)
  <2>1. asyncFatal_' \in [Rank -> BOOLEAN]
    BY <1>3 DEF AsyncFatal, TypeOK
  <2> QED
    BY <1>3, <2>1 DEF AsyncFatal, TypeOK, local, credit, nic
<1>4. CASE RetryExceeded(r, p)
  <2>1. broken' \in [Rank -> SUBSET Rank]
    BY <1>4 DEF RetryExceeded, TypeOK
  <2> QED
    BY <1>4, <2>1 DEF RetryExceeded, TypeOK, local, credit, flags
<1> QED
  BY <1>1, <1>2, <1>3, <1>4

\* Every step keeps the types.
LEMMA TypeStep == TypeOK /\ WaitsInXfer /\ [Next]_vars => TypeOK'
<1> SUFFICES ASSUME TypeOK, WaitsInXfer, [Next]_vars PROVE TypeOK'
  OBVIOUS
<1>1. ASSUME NEW r \in Rank, Step(r) PROVE TypeOK'
  BY <1>1, BeginType, PostRecvsType, PostXferType, PostFailsType, WaitType,
     ReturnType DEF Step
<1>2. ASSUME NEW r \in Rank, NEW p \in Rank,
             \/ Crash(r) \/ Abort(r) \/ AsyncFatal(r)
             \/ Land(r, p) \/ Ack(r, p) \/ RetryExceeded(r, p)
      PROVE  TypeOK'
  BY <1>2, LandType, AckType, EventType
<1>3. CASE UNCHANGED vars
  BY <1>3 DEF TypeOK, vars, local, credit, nic, flags
<1> QED
  BY <1>1, <1>2, <1>3 DEF Next

\* Every step leaves a waiting rank inside a transfer.
LEMMA WaitsInXferStep == TypeOK /\ WaitsInXfer /\ [Next]_vars => WaitsInXfer'
<1> SUFFICES ASSUME TypeOK, WaitsInXfer, [Next]_vars, NEW q \in Rank, Waiting(q)'
             PROVE  Has(q, "xfer")'
  BY DEF WaitsInXfer
<1>1. phase \in [Rank -> Phase] /\ pc \in [Rank -> Nat \ {0}]
  BY DEF TypeOK
<1>2. ASSUME UNCHANGED calls, pc'[q] = pc[q], Has(q, "xfer")
      PROVE  Has(q, "xfer")'
  BY <1>2 DEF Has, Cur
<1>3. ASSUME NEW r \in Rank, Begin(r) \/ postRecvs(r) \/ Return(r)
      PROVE  Has(q, "xfer")'
  <2>1. UNCHANGED calls /\ (q # r => pc'[q] = pc[q] /\ phase'[q] = phase[q])
    BY <1>1, <1>3 DEF Begin, postRecvs, Return
  <2>2. q # r
    BY <1>1, <1>3 DEF Waiting, Begin, postRecvs, Return
  <2> QED
    BY <1>2, <2>1, <2>2 DEF Waiting, WaitsInXfer
<1>4. ASSUME NEW r \in Rank, PostXfer(r) PROVE Has(q, "xfer")'
  <2>1. UNCHANGED <<calls, pc>> /\ phase' = [phase EXCEPT ![r] = "loop"]
        /\ Has(r, "xfer")
    BY <1>4 DEF PostXfer
  <2> QED
    BY <1>1, <1>2, <2>1 DEF Waiting, WaitsInXfer
<1>5. ASSUME NEW r \in Rank,
             \/ PostFails(r) \/ PollPeer(r) \/ PollSend(r) \/ PollRecv(r)
             \/ Check(r) \/ Expired(r) \/ Crash(r)
      PROVE  Has(q, "xfer")'
  <2>1. UNCHANGED <<calls, pc>>
    BY <1>5 DEF PostFails, PollPeer, PollSend, PollRecv, Check, Expired, Crash,
                pollOnce, Fail
  <2>2. q = r => Waiting(r)
    BY <1>1, <1>5 DEF PostFails, PollPeer, PollSend, PollRecv, Check, Expired,
                      Crash, Fail, Waiting
  <2>3. q # r => phase'[q] = phase[q]
    BY <1>1, <1>5 DEF PostFails, PollPeer, PollSend, PollRecv, Check, Expired,
                      Crash, pollOnce, Fail
  <2> QED
    BY <1>2, <2>1, <2>2, <2>3 DEF Waiting, WaitsInXfer
<1>6. ASSUME UNCHANGED local PROVE Has(q, "xfer")'
  BY <1>2, <1>6 DEF local, Waiting, WaitsInXfer
<1>7. ASSUME NEW r \in Rank, NEW p \in Rank,
             \/ Abort(r) \/ AsyncFatal(r) \/ Land(r, p) \/ Ack(r, p)
             \/ RetryExceeded(r, p)
      PROVE  UNCHANGED local
  BY <1>7 DEF Abort, AsyncFatal, Land, Ack, RetryExceeded
<1>8. UNCHANGED vars => UNCHANGED local
  BY DEF vars
<1> QED
  BY <1>3, <1>4, <1>5, <1>6, <1>7, <1>8 DEF Next, Step

\* The initial state has the types.
LEMMA TypeInit == Init => TypeOK /\ WaitsInXfer
<1>1. <<>> \in Seq(Nat)
  BY SMT
<1> QED
  BY SMT, <1>1 DEF Init, TypeOK, WaitsInXfer, Waiting, Phase, PerPeer

\* The counters of a polling loop, the FIFO of pre-posted receives and the
\* surplus stay natural numbers: no wait returns with fewer completions than
\* it needs, and takeRecvSurplus never draws more than was credited.
THEOREM Typed == Spec => []TypeOK
<1>1. TypeOK /\ WaitsInXfer /\ [Next]_vars => (TypeOK /\ WaitsInXfer)'
  BY TypeStep, WaitsInXferStep
<1> QED
  BY <1>1, TypeInit, PTL DEF Spec

----------------------------------------------------------------------------
(* The order of the counters: what is reaped has completed, what has       *)
(* completed was posted, at both ends of a queue pair.                     *)

Order ==
  \A r, p \in Rank :
    /\ recvReaped[r][p] <= arrived[r][p] /\ arrived[r][p] <= recvPosted[r][p]
    /\ arrived[r][p] <= sendPosted[p][r]
    /\ sendReaped[r][p] <= acked[r][p] /\ acked[r][p] <= arrived[p][r]

\* A count of completions that adds none beyond those left adds none when none
\* are left: a polled batch of at most a - b where a <= c <= d and d = b.
LEMMA NoneLeft ==
  ASSUME NEW a \in Nat, NEW b \in Nat, NEW c \in Nat, NEW d \in Nat,
         NEW e \in Nat, e <= a - b, a <= c, c <= d, d - b = 0
  PROVE  e = 0
  BY SMT

\* Two counts that a polled batch moves together stay as far apart.
LEMMA SameGap ==
  ASSUME NEW a \in Nat, NEW b \in Nat, NEW c \in Nat, NEW d \in Nat,
         NEW e \in Nat, a - b = c - d
  PROVE  a - (b + e) = c - (d + e)
  BY SMT

\* Adding to a count does not lower it.
LEMMA SumGrows ==
  ASSUME NEW a \in Nat, NEW b \in Nat
  PROVE  a + b \in Nat /\ a <= a + b /\ a <= a
  BY SMT

\* An entry that grows leaves no entry of its table smaller.
LEMMA AtGrows ==
  ASSUME NEW f \in [Rank -> [Rank -> Nat]], NEW r \in Rank, NEW p \in Rank,
         NEW k \in Nat, NEW g, g = At(f, r, p, f[r][p] + k)
  PROVE  \A q, x \in Rank : g[q][x] \in Nat /\ f[q][x] <= g[q][x]
<1> SUFFICES ASSUME NEW q \in Rank, NEW x \in Rank
             PROVE  g[q][x] \in Nat /\ f[q][x] <= g[q][x]
  OBVIOUS
<1>1. f[q][x] \in Nat /\ f[r][p] \in Nat
  OBVIOUS
<1>2. g[q][x] = IF q = r /\ x = p THEN f[r][p] + k ELSE f[q][x]
  BY SMT, AtApply
<1>3. CASE q = r /\ x = p
  <2>1. g[q][x] = f[r][p] + k
    BY <1>2, <1>3
  <2> QED
    BY <1>1, <1>3, <2>1, SumGrows
<1>4. CASE ~(q = r /\ x = p)
  <2>1. g[q][x] = f[q][x]
    BY <1>2, <1>4
  <2> QED
    BY <1>1, <2>1, SumGrows
<1> QED
  BY <1>3, <1>4

\* Posting more preserves the order.
LEMMA OrderPosts ==
  ASSUME TypeOK, Order,
         \A q, x \in Rank : recvPosted'[q][x] \in Nat
                            /\ recvPosted[q][x] <= recvPosted'[q][x],
         \A q, x \in Rank : sendPosted'[q][x] \in Nat
                            /\ sendPosted[q][x] <= sendPosted'[q][x],
         UNCHANGED <<arrived, acked, sendReaped, recvReaped>>
  PROVE  Order'
<1> SUFFICES ASSUME NEW r \in Rank, NEW p \in Rank
             PROVE  /\ recvReaped[r][p] <= arrived[r][p]
                    /\ arrived[r][p] <= recvPosted'[r][p]
                    /\ arrived[r][p] <= sendPosted'[p][r]
                    /\ sendReaped[r][p] <= acked[r][p]
                    /\ acked[r][p] <= arrived[p][r]
  BY DEF Order
<1>1. /\ arrived[r][p] \in Nat /\ recvPosted[r][p] \in Nat
      /\ sendPosted[p][r] \in Nat
  BY EntryType
<1> QED
  BY SMT, <1>1 DEF Order

\* Reaping what is in a completion queue preserves it.
LEMMA OrderReaps ==
  ASSUME TypeOK, Order, NEW r \in Rank, NEW p \in Rank,
         NEW w \in Reapable(r, p),
         sendReaped' = At(sendReaped, r, p, sendReaped[r][p] + w[1]),
         recvReaped' = At(recvReaped, r, p, recvReaped[r][p] + w[2]),
         UNCHANGED <<arrived, acked, sendPosted, recvPosted>>
  PROVE  Order'
<1>1. /\ w[1] \in Nat /\ w[1] <= acked[r][p] - sendReaped[r][p]
      /\ w[2] \in Nat /\ w[2] <= arrived[r][p] - recvReaped[r][p]
  BY ReapableType DEF CqSend, CqRecv
<1>2. /\ sendReaped[r][p] \in Nat /\ acked[r][p] \in Nat
      /\ recvReaped[r][p] \in Nat /\ arrived[r][p] \in Nat
  BY EntryType
<1>3. /\ sendReaped[r][p] + w[1] <= acked[r][p]
      /\ recvReaped[r][p] + w[2] <= arrived[r][p]
  BY SMT, <1>1, <1>2
<1>4. sendReaped \in [Rank -> [Rank -> Nat]] /\ recvReaped \in [Rank -> [Rank -> Nat]]
  BY DEF TypeOK
<1>5. ASSUME NEW q \in Rank, NEW x \in Rank
      PROVE  sendReaped'[q][x] <= acked[q][x] /\ recvReaped'[q][x] <= arrived[q][x]
  <2>1. /\ sendReaped'[q][x] = IF q = r /\ x = p THEN sendReaped[r][p] + w[1]
                               ELSE sendReaped[q][x]
        /\ recvReaped'[q][x] = IF q = r /\ x = p THEN recvReaped[r][p] + w[2]
                               ELSE recvReaped[q][x]
    BY <1>4, AtApply, SMTT(20)
  <2> QED
    BY <1>3, <2>1 DEF Order
<1> QED
  BY <1>5 DEF Order

\* A poll that reaps: the queue, the counters it passes and where it goes on.
Reaps(r, p, cs, cr, to) ==
  /\ \E w \in Reapable(r, p) :
       /\ sendReaped' = At(sendReaped, r, p, sendReaped[r][p] + w[1])
       /\ recvReaped' = At(recvReaped, r, p, recvReaped[r][p] + w[2])
       /\ sendDone' = IF cs THEN [sendDone EXCEPT ![r] = @ + w[1]] ELSE sendDone
       /\ recvDone' = IF cr THEN [recvDone EXCEPT ![r] = @ + w[2]] ELSE recvDone
  /\ phase' = [phase EXCEPT ![r] = to]
  /\ UNCHANGED <<calls, pc, recvNeed, prePostedRecv, recvSurplus_, arrived,
                 acked, broken, aborted_, asyncFatal_, sendPosted, recvPosted,
                 got>>

\* The rank goes from one phase of a wait to another and nothing else moves.
Moves(r) ==
  /\ Waiting(r)
  /\ \E to \in {"loop", "mid", "check"} :
       /\ phase' = [phase EXCEPT ![r] = to]
       /\ to = "mid" => Split(Cur(r))
  /\ UNCHANGED <<calls, pc, sendDone, recvDone, recvNeed, prePostedRecv,
                 recvSurplus_, arrived, acked, broken, aborted_, asyncFatal_,
                 sendPosted, recvPosted, sendReaped, recvReaped, got>>

\* An error return without a post.
Fails(r) ==
  /\ Fail(r)
  /\ UNCHANGED <<arrived, acked, broken, aborted_, asyncFatal_, sendPosted,
                 recvPosted, sendReaped, recvReaped, got>>

\* A step that no counter and no thread but a crashed one notices.
Unnoticed ==
  /\ \A q \in Rank : phase'[q] = phase[q] \/ phase'[q] = "crashed"
  /\ \A q, x \in Rank : phase'[q] # phase[q] /\ phase'[x] # phase[x] => q = x
  /\ UNCHANGED <<calls, pc, sendDone, recvDone, recvNeed, prePostedRecv,
                 recvSurplus_, arrived, acked, sendPosted, recvPosted,
                 sendReaped, recvReaped, got>>

\* In the phase between its two polls a rank is in a two-queue sendRecv.
MidIsSplit == \A r \in Rank : phase[r] = "mid" => Split(Cur(r))

\* The kinds of steps there are.
LEMMA StepCases ==
  ASSUME TypeOK, [Next]_vars
  PROVE  \/ \E r \in Rank :
              \/ Begin(r) \/ postRecvs(r) \/ PostXfer(r) \/ PostFails(r)
              \/ Return(r) \/ Moves(r) \/ Fails(r)
              \/ /\ phase[r] = "loop" /\ ~Split(Cur(r))
                 /\ Reaps(r, Cur(r).from, TRUE, TRUE, "check")
              \/ /\ phase[r] = "loop" /\ Split(Cur(r)) /\ sendDone[r] < Cur(r).s
                 /\ Reaps(r, Cur(r).to, TRUE, FALSE, "mid")
              \/ /\ phase[r] = "mid"
                 /\ Reaps(r, Cur(r).from, FALSE, TRUE, "check")
         \/ \E p, r \in Rank : Land(p, r) \/ Ack(p, r)
         \/ Unnoticed
<1>1. ASSUME NEW r \in Rank, PollPeer(r)
      PROVE  \/ Fails(r)
             \/ /\ phase[r] = "loop" /\ ~Split(Cur(r))
                /\ Reaps(r, Cur(r).from, TRUE, TRUE, "check")
  BY <1>1 DEF PollPeer, pollOnce, Reaps, Fails, credit, nic, flags
<1>2. ASSUME NEW r \in Rank, PollSend(r)
      PROVE  \/ Fails(r) \/ Moves(r)
             \/ /\ phase[r] = "loop" /\ Split(Cur(r)) /\ sendDone[r] < Cur(r).s
                /\ Reaps(r, Cur(r).to, TRUE, FALSE, "mid")
  BY <1>2 DEF PollSend, pollOnce, Reaps, Fails, Moves, Waiting, credit, nic, flags
<1>3. ASSUME NEW r \in Rank, PollRecv(r)
      PROVE  \/ Fails(r) \/ Moves(r)
             \/ /\ phase[r] = "mid"
                /\ Reaps(r, Cur(r).from, FALSE, TRUE, "check")
  BY <1>3 DEF PollRecv, pollOnce, Reaps, Fails, Moves, Waiting, credit, nic, flags
<1>4. ASSUME NEW r \in Rank, Check(r) PROVE Fails(r) \/ Moves(r)
  BY <1>4 DEF Check, Fails, Moves, Waiting, credit, nic, flags
<1>5. ASSUME NEW r \in Rank, Expired(r) PROVE Fails(r)
  BY <1>5 DEF Expired, Fails, nic, flags
<1>6. ASSUME NEW r \in Rank, NEW p \in Rank,
             Abort(r) \/ AsyncFatal(r) \/ RetryExceeded(r, p)
      PROVE  Unnoticed
  BY <1>6 DEF Abort, AsyncFatal, RetryExceeded, Unnoticed, local, credit, nic
<1>7. ASSUME NEW r \in Rank, Crash(r) PROVE Unnoticed
  BY <1>7 DEF Crash, Unnoticed, credit, nic, TypeOK
<1>8. ASSUME UNCHANGED vars PROVE Unnoticed
  BY <1>8 DEF vars, Unnoticed, local, credit, nic
<1>9. ASSUME NEW r \in Rank, Step(r)
      PROVE  \/ Begin(r) \/ postRecvs(r) \/ PostXfer(r) \/ PostFails(r)
             \/ Return(r) \/ Moves(r) \/ Fails(r)
             \/ /\ phase[r] = "loop" /\ ~Split(Cur(r))
                /\ Reaps(r, Cur(r).from, TRUE, TRUE, "check")
             \/ /\ phase[r] = "loop" /\ Split(Cur(r)) /\ sendDone[r] < Cur(r).s
                /\ Reaps(r, Cur(r).to, TRUE, FALSE, "mid")
             \/ /\ phase[r] = "mid"
                /\ Reaps(r, Cur(r).from, FALSE, TRUE, "check")
  BY <1>1, <1>2, <1>3, <1>4, <1>5, <1>9 DEF Step
<1>10. ASSUME NEW p \in Rank, NEW r \in Rank, RetryExceeded(p, r) PROVE Unnoticed
  BY <1>6, <1>10
<1>11. CASE \E r \in Rank : Step(r)
  BY <1>9, <1>11
<1>12. CASE \E r \in Rank : Crash(r) \/ Abort(r) \/ AsyncFatal(r)
  BY <1>6, <1>7, <1>12
<1>13. CASE \E p, r \in Rank : Land(p, r) \/ Ack(p, r) \/ RetryExceeded(p, r)
  BY <1>10, <1>13
<1> QED
  BY <1>8, <1>11, <1>12, <1>13 DEF Next

\* The current call of a rank that waits.
LEMMA WaitingCur ==
  ASSUME TypeOK, WaitsInXfer, NEW r \in Rank, Waiting(r)
  PROVE  /\ Cur(r).to \in Rank /\ Cur(r).from \in Rank
         /\ Cur(r).s \in Nat /\ Cur(r).r \in Nat
BY CurType DEF WaitsInXfer, Has

\* What the posting steps do to the numbers of WRs posted.
LEMMA PostsGrow ==
  ASSUME TypeOK, NEW r \in Rank, postRecvs(r) \/ PostXfer(r) \/ PostFails(r)
  PROVE  /\ \A q, x \in Rank : recvPosted'[q][x] \in Nat
                               /\ recvPosted[q][x] <= recvPosted'[q][x]
         /\ \A q, x \in Rank : sendPosted'[q][x] \in Nat
                               /\ sendPosted[q][x] <= sendPosted'[q][x]
<1>1. /\ recvPosted \in [Rank -> [Rank -> Nat]]
      /\ sendPosted \in [Rank -> [Rank -> Nat]]
  BY DEF TypeOK
<1>2. pc[r] \in DOMAIN calls[r]
  BY DEF postRecvs, PostXfer, PostFails, Has
<1>3. /\ Cur(r).to \in Rank /\ Cur(r).from \in Rank
      /\ Cur(r).s \in Nat /\ Cur(r).r \in Nat
  BY <1>2, CurType
<1>4. \/ UNCHANGED recvPosted
      \/ \E k \in Nat : recvPosted' = At(recvPosted, r, Cur(r).from,
                                         recvPosted[r][Cur(r).from] + k)
  <2>1. CASE PostXfer(r)
    <3>1. (IF Preposted(r) THEN 0 ELSE Cur(r).r) \in Nat
      BY <1>3
    <3> QED
      BY <2>1, <3>1 DEF PostXfer
  <2>2. CASE postRecvs(r)
    BY <1>3, <2>2 DEF postRecvs
  <2> QED
    BY <2>1, <2>2, PostFailsEffect
<1>5. \/ UNCHANGED sendPosted
      \/ \E k \in Nat : sendPosted' = At(sendPosted, r, Cur(r).to,
                                         sendPosted[r][Cur(r).to] + k)
  <2>1. CASE PostXfer(r)
    BY <1>3, <2>1 DEF PostXfer
  <2>2. CASE postRecvs(r)
    BY <2>2 DEF postRecvs
  <2> QED
    BY <2>1, <2>2, PostFailsEffect
<1>6. UNCHANGED recvPosted => \A q, x \in Rank :
         recvPosted'[q][x] \in Nat /\ recvPosted[q][x] <= recvPosted'[q][x]
  BY SMT, EntryType
<1>7. UNCHANGED sendPosted => \A q, x \in Rank :
         sendPosted'[q][x] \in Nat /\ sendPosted[q][x] <= sendPosted'[q][x]
  BY SMT, EntryType
<1>8. \A q, x \in Rank : recvPosted'[q][x] \in Nat
                         /\ recvPosted[q][x] <= recvPosted'[q][x]
  BY <1>1, <1>3, <1>4, <1>6, AtGrows
<1>9. \A q, x \in Rank : sendPosted'[q][x] \in Nat
                         /\ sendPosted[q][x] <= sendPosted'[q][x]
  BY <1>1, <1>3, <1>5, <1>7, AtGrows
<1> QED
  BY <1>8, <1>9

\* Every step keeps the order of the counters.
LEMMA OrderStep ==
  ASSUME TypeOK, WaitsInXfer, Order, [Next]_vars
  PROVE  Order'
<1>1. ASSUME UNCHANGED <<arrived, acked, sendPosted, recvPosted, sendReaped,
                         recvReaped>>
      PROVE  Order'
  BY <1>1 DEF Order
<1>2. ASSUME NEW r \in Rank, Begin(r) \/ Return(r) \/ Moves(r) \/ Fails(r)
      PROVE  Order'
  BY <1>1, <1>2 DEF Begin, Return, Moves, Fails, nic
<1>3. ASSUME NEW r \in Rank, postRecvs(r) \/ PostXfer(r) \/ PostFails(r)
      PROVE  Order'
  <2>1. UNCHANGED <<arrived, acked, sendReaped, recvReaped>>
    BY <1>3 DEF postRecvs, PostXfer, PostFails, nic
  <2> QED
    BY <1>3, <2>1, PostsGrow, OrderPosts
<1>4. ASSUME NEW r \in Rank, NEW p \in Rank, NEW cs, NEW cr, NEW to,
             Reaps(r, p, cs, cr, to)
      PROVE  Order'
  BY <1>4, OrderReaps DEF Reaps
<1>5. ASSUME NEW r \in Rank, phase[r] = "loop" \/ phase[r] = "mid"
      PROVE  Cur(r).to \in Rank /\ Cur(r).from \in Rank
  BY <1>5, WaitingCur DEF Waiting
<1>6. ASSUME NEW p \in Rank, NEW r \in Rank, Land(p, r) PROVE Order'
  <2>1. /\ arrived' = At(arrived, r, p, arrived[r][p] + 1)
        /\ UNCHANGED <<acked, sendPosted, recvPosted, sendReaped, recvReaped>>
        /\ arrived[r][p] < sendPosted[p][r] /\ arrived[r][p] < recvPosted[r][p]
    BY <1>6 DEF Land
  <2>2. arrived \in [Rank -> [Rank -> Nat]]
    BY DEF TypeOK
  <2>3. ASSUME NEW q \in Rank, NEW x \in Rank
        PROVE  /\ recvReaped[q][x] <= arrived'[q][x]
               /\ arrived'[q][x] <= recvPosted[q][x]
               /\ arrived'[q][x] <= sendPosted[x][q]
               /\ acked[x][q] <= arrived'[q][x]
    <3>1. arrived'[q][x] = IF q = r /\ x = p THEN arrived[r][p] + 1
                           ELSE arrived[q][x]
      BY SMT, <2>1, <2>2, AtApply
    <3>2. /\ arrived[q][x] \in Nat /\ recvReaped[q][x] \in Nat
          /\ acked[x][q] \in Nat /\ recvPosted[q][x] \in Nat
          /\ sendPosted[x][q] \in Nat
      BY EntryType
    <3> QED
      BY SMT, <2>1, <3>1, <3>2 DEF Order
  <2> QED
    BY <2>1, <2>3 DEF Order
<1>7. ASSUME NEW p \in Rank, NEW r \in Rank, Ack(p, r) PROVE Order'
  <2>1. /\ acked' = At(acked, p, r, acked[p][r] + 1)
        /\ UNCHANGED <<arrived, sendPosted, recvPosted, sendReaped, recvReaped>>
        /\ acked[p][r] < arrived[r][p]
    BY <1>7 DEF Ack
  <2>2. acked \in [Rank -> [Rank -> Nat]]
    BY DEF TypeOK
  <2>3. ASSUME NEW q \in Rank, NEW x \in Rank
        PROVE  sendReaped[q][x] <= acked'[q][x] /\ acked'[q][x] <= arrived[x][q]
    <3>1. acked'[q][x] = IF q = p /\ x = r THEN acked[p][r] + 1 ELSE acked[q][x]
      BY SMT, <2>1, <2>2, AtApply
    <3>2. /\ arrived[x][q] \in Nat /\ sendReaped[q][x] \in Nat
          /\ acked[q][x] \in Nat
      BY EntryType
    <3> QED
      BY SMT, <2>1, <3>1, <3>2 DEF Order
  <2> QED
    BY <2>1, <2>3 DEF Order
<1>8. Unnoticed => Order'
  BY <1>1 DEF Unnoticed
<1> QED
  BY <1>2, <1>3, <1>4, <1>5, <1>6, <1>7, <1>8, StepCases

\* Every step keeps the second poll to two-queue calls.
LEMMA MidIsSplitStep ==
  ASSUME TypeOK, WaitsInXfer, MidIsSplit, [Next]_vars
  PROVE  MidIsSplit'
<1>1. phase \in [Rank -> Phase] /\ pc \in [Rank -> Nat \ {0}]
  BY DEF TypeOK
<1> SUFFICES ASSUME NEW q \in Rank, phase'[q] = "mid"
             PROVE  Split(Cur(q))'
  BY DEF MidIsSplit
<1>2. ASSUME UNCHANGED calls, pc'[q] = pc[q], Split(Cur(q)) PROVE Split(Cur(q))'
  BY <1>2 DEF Split, Cur
<1>3. ASSUME NEW r \in Rank, Begin(r) \/ postRecvs(r) \/ PostXfer(r)
                             \/ PostFails(r) \/ Return(r) \/ Fails(r)
      PROVE  UNCHANGED calls /\ pc'[q] = pc[q] /\ phase[q] = "mid"
  <2>1. q # r
    BY <1>1, <1>3 DEF Begin, postRecvs, PostXfer, PostFails, Return, Fails, Fail
  <2> QED
    BY <1>1, <1>3, <2>1 DEF Begin, postRecvs, PostXfer, PostFails, Return,
                            Fails, Fail
<1>4. ASSUME NEW r \in Rank, Moves(r) PROVE Split(Cur(q))'
  BY <1>1, <1>2, <1>4 DEF Moves, MidIsSplit
<1>5. ASSUME NEW r \in Rank, NEW p, NEW cs, NEW cr, NEW to,
             Reaps(r, p, cs, cr, to), to = "mid" => Split(Cur(r))
      PROVE  Split(Cur(q))'
  <2>1. UNCHANGED <<calls, pc>> /\ phase' = [phase EXCEPT ![r] = to]
    BY <1>5 DEF Reaps
  <2> QED
    BY <1>1, <1>2, <1>5, <2>1 DEF MidIsSplit
<1>6. ASSUME NEW p \in Rank, NEW r \in Rank, Land(p, r) \/ Ack(p, r)
      PROVE  UNCHANGED calls /\ pc'[q] = pc[q] /\ phase[q] = "mid"
  BY <1>6 DEF Land, Ack, local
<1>7. Unnoticed => UNCHANGED calls /\ pc'[q] = pc[q] /\ phase[q] = "mid"
  BY DEF Unnoticed
<1>8. (UNCHANGED calls /\ pc'[q] = pc[q] /\ phase[q] = "mid") => Split(Cur(q))'
  BY <1>2 DEF MidIsSplit
<1>9. ASSUME NEW r \in Rank, NEW p, NEW cs, NEW cr, Reaps(r, p, cs, cr, "check")
      PROVE  Split(Cur(q))'
  BY <1>5, <1>9
<1>10. ASSUME NEW r \in Rank, NEW p, NEW cs, NEW cr, Reaps(r, p, cs, cr, "mid"),
              Split(Cur(r))
       PROVE  Split(Cur(q))'
  BY <1>5, <1>10
<1> QED
  BY <1>3, <1>4, <1>6, <1>7, <1>8, <1>9, <1>10, StepCases

----------------------------------------------------------------------------
(* Sends.  A live rank has no open send but those its current call still   *)
(* counts to.                                                              *)

Live(r) == phase[r] = "call" \/ Waiting(r)

SendOpen(r, p) == IF Waiting(r) /\ p = Cur(r).to THEN Cur(r).s - sendDone[r] ELSE 0

SendAccount(r) ==
  Live(r) => \A p \in Rank : sendPosted[r][p] - sendReaped[r][p] = SendOpen(r, p)

\* A rank that a step does not move keeps its account.
LEMMA SendFrame ==
  ASSUME TypeOK, NEW q \in Rank, SendAccount(q),
         UNCHANGED <<calls, sendPosted[q], sendReaped[q], sendDone[q], pc[q]>>,
         \/ UNCHANGED phase[q]
         \/ Waiting(q) /\ Waiting(q)'
         \/ ~Live(q)'
         \/ phase[q] = "call" /\ phase'[q] = "call"
  PROVE  SendAccount(q)'
BY DEF SendAccount, SendOpen, Live, Waiting, Cur

\* Steps that post or reap no send keep the accounts.
LEMMA SendQuiet ==
  ASSUME TypeOK, NEW q \in Rank, SendAccount(q),
         \/ \E r \in Rank : Begin(r) \/ postRecvs(r) \/ Moves(r) \/ Fails(r)
         \/ \E p, r \in Rank : Land(p, r) \/ Ack(p, r)
         \/ Unnoticed
  PROVE  SendAccount(q)'
<1>0. phase \in [Rank -> Phase] /\ pc \in [Rank -> Nat \ {0}]
  BY DEF TypeOK
<1>1. ASSUME NEW r \in Rank, Begin(r) \/ postRecvs(r) PROVE SendAccount(q)'
  <2>1. UNCHANGED <<calls, sendPosted, sendReaped, sendDone>>
    BY <1>1 DEF Begin, postRecvs
  <2>2. /\ q # r => UNCHANGED <<pc[q], phase[q]>>
        /\ phase[r] = "call"
        /\ phase'[r] = "call" \/ phase'[r] = "failed"
    BY <1>0, <1>1 DEF Begin, postRecvs
  <2>3. CASE q # r
    BY <2>1, <2>2, <2>3, SendFrame
  <2>4. CASE q = r
    BY <2>1, <2>2, <2>4 DEF SendAccount, SendOpen, Live, Waiting
  <2> QED
    BY <2>3, <2>4
<1>2. ASSUME NEW r \in Rank, Moves(r) PROVE SendAccount(q)'
  <2>1. UNCHANGED <<calls, sendPosted, sendReaped, sendDone, pc>>
    BY <1>2 DEF Moves
  <2>2. UNCHANGED phase[q] \/ (Waiting(q) /\ Waiting(q)')
    BY <1>0, <1>2 DEF Moves, Waiting
  <2> QED
    BY <2>1, <2>2, SendFrame
<1>3. ASSUME NEW r \in Rank, Fails(r) PROVE SendAccount(q)'
  <2>1. UNCHANGED <<calls, sendPosted, sendReaped, sendDone, pc>>
    BY <1>3 DEF Fails, Fail
  <2>2. UNCHANGED phase[q] \/ ~Live(q)'
    BY <1>0, <1>3 DEF Fails, Fail, Live, Waiting
  <2> QED
    BY <2>1, <2>2, SendFrame
<1>4. ASSUME NEW p \in Rank, NEW r \in Rank, Land(p, r) \/ Ack(p, r)
      PROVE  SendAccount(q)'
  <2>1. UNCHANGED <<calls, sendPosted, sendReaped, sendDone, pc, phase>>
    BY <1>4 DEF Land, Ack, local
  <2> QED
    BY <2>1, SendFrame
<1>5. ASSUME Unnoticed PROVE SendAccount(q)'
  <2>1. UNCHANGED <<calls, sendPosted, sendReaped, sendDone, pc>>
    BY <1>5 DEF Unnoticed
  <2>2. UNCHANGED phase[q] \/ ~Live(q)'
    BY <1>5 DEF Unnoticed, Live, Waiting
  <2> QED
    BY <2>1, <2>2, SendFrame
<1> QED
  BY <1>1, <1>2, <1>3, <1>4, <1>5

\* Posting a call opens its sends, and there was none.
LEMMA SendPostXfer ==
  ASSUME TypeOK, NEW q \in Rank, SendAccount(q), NEW r \in Rank, PostXfer(r)
  PROVE  SendAccount(q)'
<1>0. /\ phase \in [Rank -> Phase] /\ sendDone \in [Rank -> Nat]
      /\ sendPosted \in [Rank -> [Rank -> Nat]]
  BY DEF TypeOK
<1>1. /\ UNCHANGED <<calls, pc, sendReaped>>
      /\ phase[r] = "call" /\ phase' = [phase EXCEPT ![r] = "loop"]
      /\ sendDone' = [sendDone EXCEPT ![r] = 0]
      /\ sendPosted' = At(sendPosted, r, Cur(r).to,
                          sendPosted[r][Cur(r).to] + Cur(r).s)
      /\ pc[r] \in DOMAIN calls[r]
  BY DEF PostXfer, Has
<1>2. Cur(r).to \in Rank /\ Cur(r).s \in Nat
  BY <1>1, CurType
<1>3. CASE q # r
  <2>1. UNCHANGED <<phase[q], sendDone[q], sendPosted[q]>>
    BY <1>0, <1>1, <1>2, <1>3 DEF At
  <2> QED
    BY <1>1, <2>1, SendFrame
<1>4. CASE q = r
  <2> SUFFICES ASSUME NEW p \in Rank
               PROVE  sendPosted'[r][p] - sendReaped[r][p] = SendOpen(r, p)'
    BY <1>1, <1>4 DEF SendAccount
  <2>1. sendPosted'[r][p] = IF p = Cur(r).to THEN sendPosted[r][p] + Cur(r).s
                            ELSE sendPosted[r][p]
    BY SMT, <1>0, <1>1, <1>2, AtApply
  <2>2. SendOpen(r, p)' = IF p = Cur(r).to THEN Cur(r).s - 0 ELSE 0
    BY <1>0, <1>1 DEF SendOpen, Waiting, Cur
  <2>3. sendPosted[r][p] - sendReaped[r][p] = 0
    BY <1>1, <1>4 DEF SendAccount, SendOpen, Live, Waiting
  <2> QED
    BY SMT, <1>2, <2>1, <2>2, <2>3, EntryType
<1> QED
  BY <1>3, <1>4

\* A poll takes as many sends off the account of its queue as it counts; on a
\* queue whose sends it does not count there are none.
LEMMA SendReaps ==
  ASSUME TypeOK, Order, NEW q \in Rank, SendAccount(q), NEW r \in Rank,
         Waiting(r), NEW p \in Rank, NEW w \in Reapable(r, p),
         sendReaped' = At(sendReaped, r, p, sendReaped[r][p] + w[1]),
         \/ p = Cur(r).to /\ sendDone' = [sendDone EXCEPT ![r] = @ + w[1]]
         \/ p # Cur(r).to /\ UNCHANGED sendDone,
         Cur(r).s \in Nat, NEW to \in {"mid", "check"},
         phase' = [phase EXCEPT ![r] = to],
         UNCHANGED <<calls, pc, sendPosted>>
  PROVE  SendAccount(q)'
<1>0. /\ phase \in [Rank -> Phase] /\ sendDone \in [Rank -> Nat]
      /\ sendReaped \in [Rank -> [Rank -> Nat]]
  BY DEF TypeOK
<1>1. w[1] \in Nat /\ w[1] <= acked[r][p] - sendReaped[r][p]
  BY ReapableType DEF CqSend
<1>2. CASE q # r
  <2>1. UNCHANGED <<phase[q], sendDone[q], sendReaped[q]>>
    BY <1>0, <1>2 DEF At
  <2> QED
    BY <2>1, SendFrame
<1>3. CASE q = r
  <2> SUFFICES ASSUME NEW x \in Rank
               PROVE  sendPosted[r][x] - sendReaped'[r][x] = SendOpen(r, x)'
    BY <1>3 DEF SendAccount
  <2>1. sendReaped'[r][x] = IF x = p THEN sendReaped[r][p] + w[1]
                            ELSE sendReaped[r][x]
    BY SMT, <1>0, AtApply
  <2>2. sendPosted[r][x] - sendReaped[r][x] =
          IF x = Cur(r).to THEN Cur(r).s - sendDone[r] ELSE 0
    BY <1>3 DEF SendAccount, SendOpen, Live
  <2>3. SendOpen(r, x)' = IF x = Cur(r).to THEN Cur(r).s - sendDone'[r] ELSE 0
    BY <1>0 DEF SendOpen, Waiting, Cur
  <2>4. /\ sendPosted[r][x] \in Nat /\ sendReaped[r][x] \in Nat
        /\ sendReaped[r][p] \in Nat /\ sendPosted[r][p] \in Nat
        /\ acked[r][p] \in Nat /\ sendDone[r] \in Nat
        /\ arrived[p][r] \in Nat
    BY EntryType
  <2>5. CASE p = Cur(r).to /\ sendDone' = [sendDone EXCEPT ![r] = @ + w[1]]
    <3>1. sendDone'[r] = sendDone[r] + w[1]
      BY <1>0, <2>5
    <3>2. CASE x = p
      <4>1. sendPosted[r][x] - sendReaped[r][x] = Cur(r).s - sendDone[r]
        BY <2>2, <2>5, <3>2
      <4>2. sendPosted[r][x] - (sendReaped[r][x] + w[1])
              = Cur(r).s - (sendDone[r] + w[1])
        BY SMT, <1>1, <2>4, <4>1, SameGap
      <4>3. sendReaped'[r][x] = sendReaped[r][x] + w[1]
        BY <2>1, <3>2
      <4>4. SendOpen(r, x)' = Cur(r).s - (sendDone[r] + w[1])
        BY <2>3, <2>5, <3>1, <3>2
      <4> QED
        BY <4>2, <4>3, <4>4
    <3>3. CASE x # p
      BY <2>1, <2>2, <2>3, <2>5, <3>3
    <3> QED
      BY <3>2, <3>3
  <2>6. CASE p # Cur(r).to /\ UNCHANGED sendDone
    <3>1. sendPosted[r][p] - sendReaped[r][p] = 0
      BY <1>3, <2>6 DEF SendAccount, SendOpen, Live
    <3>2. acked[r][p] <= arrived[p][r] /\ arrived[p][r] <= sendPosted[r][p]
      BY DEF Order
    <3>3. w[1] = 0
      BY <1>1, <2>4, <3>1, <3>2, NoneLeft
    <3>4. sendReaped'[r][x] = sendReaped[r][x]
      BY SMT, <2>1, <2>4, <3>3
    <3> QED
      BY <2>2, <2>3, <2>6, <3>4
  <2> QED
    BY <2>5, <2>6
<1> QED
  BY <1>2, <1>3

\* A call returns when its sends are all reaped.
LEMMA SendReturn ==
  ASSUME TypeOK, WaitsInXfer, Order, NEW q \in Rank, SendAccount(q),
         NEW r \in Rank, Return(r)
  PROVE  SendAccount(q)'
<1>0. phase \in [Rank -> Phase] /\ pc \in [Rank -> Nat \ {0}]
  BY DEF TypeOK
<1>1. /\ UNCHANGED <<calls, sendPosted, sendReaped, sendDone>>
      /\ phase[r] = "loop" /\ phase' = [phase EXCEPT ![r] = "call"]
      /\ pc' = [pc EXCEPT ![r] = @ + 1] /\ sendDone[r] >= Cur(r).s
  BY DEF Return, Satisfied
<1>2. CASE q # r
  <2>1. UNCHANGED <<phase[q], pc[q]>>
    BY <1>0, <1>1, <1>2
  <2> QED
    BY <1>1, <2>1, SendFrame
<1>3. CASE q = r
  <2> SUFFICES ASSUME NEW x \in Rank
               PROVE  sendPosted[r][x] - sendReaped[r][x] = SendOpen(r, x)'
    BY <1>1, <1>3 DEF SendAccount
  <2>1. SendOpen(r, x)' = 0
    BY <1>0, <1>1 DEF SendOpen, Waiting
  <2>2. Waiting(r)
    BY <1>1 DEF Waiting
  <2>3. Cur(r).s \in Nat
    BY <2>2, WaitingCur
  <2>4. sendPosted[r][x] - sendReaped[r][x] =
          IF x = Cur(r).to THEN Cur(r).s - sendDone[r] ELSE 0
    BY <1>3, <2>2 DEF SendAccount, SendOpen, Live
  <2>5. /\ sendPosted[r][x] \in Nat /\ sendReaped[r][x] \in Nat
        /\ acked[r][x] \in Nat /\ arrived[x][r] \in Nat /\ sendDone[r] \in Nat
    BY EntryType
  <2>6. sendReaped[r][x] <= sendPosted[r][x]
    <3>1. /\ sendReaped[r][x] <= acked[r][x] /\ acked[r][x] <= arrived[x][r]
          /\ arrived[x][r] <= sendPosted[r][x]
      BY DEF Order
    <3> QED
      BY SMT, <2>5, <3>1
  <2> QED
    BY SMT, <1>1, <2>1, <2>3, <2>4, <2>5, <2>6
<1> QED
  BY <1>2, <1>3

\* Every step keeps the accounts.
LEMMA SendStep ==
  ASSUME TypeOK, WaitsInXfer, MidIsSplit, Order, [Next]_vars,
         NEW q \in Rank, SendAccount(q)
  PROVE  SendAccount(q)'
<1>0. phase \in [Rank -> Phase]
  BY DEF TypeOK
<1>1. ASSUME NEW r \in Rank, PostFails(r) PROVE SendAccount(q)'
  <2>1. CASE q = r
    <3>1. phase'[q] = "failed"
      BY <1>0, <1>1, <2>1 DEF PostFails, Fail
    <3> QED
      BY <3>1 DEF SendAccount, Live, Waiting
  <2>2. CASE q # r
    <3>1. sendPosted'[q] = sendPosted[q]
      <4>1. sendPosted \in [Rank -> [Rank -> Nat]]
        BY DEF TypeOK
      <4> QED
        BY SMT, <1>1, <2>2, <4>1, PostFailsEffect DEF At
    <3>2. UNCHANGED <<calls, sendReaped, sendDone, pc, phase[q]>>
      BY <1>0, <1>1, <2>2 DEF PostFails, Fail
    <3> QED
      BY <3>1, <3>2, SendFrame
  <2> QED
    BY <2>1, <2>2
<1>2. ASSUME NEW r \in Rank, phase[r] = "loop", ~Split(Cur(r)),
             Reaps(r, Cur(r).from, TRUE, TRUE, "check")
      PROVE  SendAccount(q)'
  <2>1. Waiting(r)
    BY <1>2 DEF Waiting
  <2>2. Cur(r).from \in Rank /\ Cur(r).s \in Nat /\ Cur(r).from = Cur(r).to
    BY <1>2, <2>1, WaitingCur DEF Split
  <2> QED
    BY <1>2, <2>1, <2>2, SendReaps DEF Reaps
<1>3. ASSUME NEW r \in Rank, phase[r] = "loop", Split(Cur(r)),
             Reaps(r, Cur(r).to, TRUE, FALSE, "mid")
      PROVE  SendAccount(q)'
  <2>1. Waiting(r)
    BY <1>3 DEF Waiting
  <2>2. Cur(r).to \in Rank /\ Cur(r).s \in Nat
    BY <2>1, WaitingCur
  <2> QED
    BY <1>3, <2>1, <2>2, SendReaps DEF Reaps
<1>4. ASSUME NEW r \in Rank, phase[r] = "mid",
             Reaps(r, Cur(r).from, FALSE, TRUE, "check")
      PROVE  SendAccount(q)'
  <2>1. Waiting(r)
    BY <1>4 DEF Waiting
  <2>2. Cur(r).from \in Rank /\ Cur(r).s \in Nat /\ Cur(r).from # Cur(r).to
    BY <1>4, <2>1, WaitingCur DEF MidIsSplit, Split
  <2> QED
    BY <1>4, <2>1, <2>2, SendReaps DEF Reaps
<1> QED
  BY <1>1, <1>2, <1>3, <1>4, SendQuiet, SendPostXfer, SendReturn, StepCases

SendInv == /\ TypeOK /\ WaitsInXfer /\ MidIsSplit /\ Order
           /\ \A q \in Rank : SendAccount(q)

\* The invariant about sends is inductive.
LEMMA SendInvStep == SendInv /\ [Next]_vars => SendInv'
<1> SUFFICES ASSUME SendInv, [Next]_vars PROVE SendInv'
  OBVIOUS
<1>1. TypeOK' /\ WaitsInXfer'
  BY TypeStep, WaitsInXferStep DEF SendInv
<1>2. MidIsSplit' /\ Order'
  BY MidIsSplitStep, OrderStep DEF SendInv
<1>3. \A q \in Rank : SendAccount(q)'
  BY SendStep DEF SendInv
<1> QED
  BY <1>1, <1>2, <1>3 DEF SendInv

\* It holds initially.
LEMMA SendInvInit == Init => SendInv
<1> SUFFICES ASSUME Init PROVE SendInv
  OBVIOUS
<1>1. TypeOK /\ WaitsInXfer
  BY TypeInit
<1>2. \A r, p \in Rank : /\ sendPosted[r][p] = 0 /\ recvPosted[r][p] = 0
                         /\ arrived[r][p] = 0 /\ acked[r][p] = 0
                         /\ sendReaped[r][p] = 0 /\ recvReaped[r][p] = 0
  BY DEF Init, PerPeer
<1>3. \A r \in Rank : phase[r] = "call"
  BY DEF Init
<1>4. MidIsSplit /\ Order
  BY SMT, <1>2, <1>3 DEF MidIsSplit, Order
<1>5. \A q \in Rank : SendAccount(q)
  BY SMT, <1>2, <1>3 DEF SendAccount, SendOpen, Waiting
<1> QED
  BY <1>1, <1>4, <1>5 DEF SendInv

\* Between calls no send is open.
LEMMA SendInvFree == SendInv => SendBufferFree
<1> SUFFICES ASSUME SendInv, NEW r \in Rank, NEW p \in Rank, phase[r] = "call"
             PROVE  acked[r][p] = sendPosted[r][p]
  BY DEF SendBufferFree
<1>1. sendPosted[r][p] - sendReaped[r][p] = 0
  BY DEF SendInv, SendAccount, SendOpen, Live, Waiting
<1>2. /\ sendReaped[r][p] <= acked[r][p] /\ acked[r][p] <= arrived[p][r]
      /\ arrived[p][r] <= sendPosted[r][p]
  BY DEF SendInv, Order
<1>3. /\ sendReaped[r][p] \in Nat /\ acked[r][p] \in Nat
      /\ arrived[p][r] \in Nat /\ sendPosted[r][p] \in Nat
  BY EntryType DEF SendInv
<1> QED
  BY SMT, <1>1, <1>2, <1>3

\* Whatever the program of calls and the faults: when send or sendRecv returns
\* success every byte it sent is acknowledged, so the caller may reuse the
\* buffer.  The two-queue loop of sendRecv, which polls the receive's peer
\* without counting sends, loses no send completion.
THEOREM SendsComplete == Spec => []SendBufferFree
BY SendInvInit, SendInvStep, SendInvFree, PTL DEF Spec

----------------------------------------------------------------------------
(* Completion queues.                                                      *)

Room ==
  \A r, p \in Rank : /\ sendPosted[r][p] - sendReaped[r][p] <= kQueueDepth
                     /\ recvPosted[r][p] - recvReaped[r][p] <= kQueueDepth

\* A queue that a post leaves within its depth.
LEMMA RoomPost ==
  ASSUME NEW posted \in [Rank -> [Rank -> Nat]],
         NEW reaped \in [Rank -> [Rank -> Nat]],
         \A q, x \in Rank : posted[q][x] - reaped[q][x] <= kQueueDepth,
         NEW r \in Rank, NEW p \in Rank, NEW k \in Nat,
         posted[r][p] - reaped[r][p] + k <= kQueueDepth
  PROVE  \A q, x \in Rank :
           At(posted, r, p, posted[r][p] + k)[q][x] - reaped[q][x] <= kQueueDepth
<1> SUFFICES ASSUME NEW q \in Rank, NEW x \in Rank
             PROVE  At(posted, r, p, posted[r][p] + k)[q][x] - reaped[q][x]
                      <= kQueueDepth
  OBVIOUS
<1>1. At(posted, r, p, posted[r][p] + k)[q][x] =
        IF q = r /\ x = p THEN posted[r][p] + k ELSE posted[q][x]
  BY AtApply, SMTT(20)
<1>2. posted[r][p] \in Nat /\ reaped[r][p] \in Nat /\ kQueueDepth \in Nat
  BY LimitsAssumption
<1>3. posted[r][p] + k - reaped[r][p] <= kQueueDepth
  BY SMT, <1>2
<1> QED
  BY SMT, <1>1, <1>3

\* A poll frees slots.
LEMMA RoomReap ==
  ASSUME TypeOK, Room, NEW r \in Rank, NEW p \in Rank, NEW w \in Reapable(r, p),
         sendReaped' = At(sendReaped, r, p, sendReaped[r][p] + w[1]),
         recvReaped' = At(recvReaped, r, p, recvReaped[r][p] + w[2]),
         UNCHANGED <<sendPosted, recvPosted>>
  PROVE  Room'
<1>1. w[1] \in Nat /\ w[2] \in Nat
  BY ReapableType
<1>2. sendReaped \in [Rank -> [Rank -> Nat]] /\ recvReaped \in [Rank -> [Rank -> Nat]]
  BY DEF TypeOK
<1>3. /\ \A q, x \in Rank : sendReaped'[q][x] \in Nat
                            /\ sendReaped[q][x] <= sendReaped'[q][x]
      /\ \A q, x \in Rank : recvReaped'[q][x] \in Nat
                            /\ recvReaped[q][x] <= recvReaped'[q][x]
  BY <1>1, <1>2, AtGrows
<1> SUFFICES ASSUME NEW q \in Rank, NEW x \in Rank
             PROVE  /\ sendPosted[q][x] - sendReaped'[q][x] <= kQueueDepth
                    /\ recvPosted[q][x] - recvReaped'[q][x] <= kQueueDepth
  BY DEF Room
<1>4. /\ sendPosted[q][x] \in Nat /\ recvPosted[q][x] \in Nat
      /\ sendReaped[q][x] \in Nat /\ recvReaped[q][x] \in Nat
      /\ kQueueDepth \in Nat
  BY EntryType, LimitsAssumption
<1>5. /\ sendPosted[q][x] - sendReaped[q][x] <= kQueueDepth
      /\ recvPosted[q][x] - recvReaped[q][x] <= kQueueDepth
  BY DEF Room
<1> QED
  BY SMT, <1>3, <1>4, <1>5

\* Every step keeps the queues within their depth.
LEMMA RoomStep ==
  ASSUME TypeOK, WaitsInXfer, Room, [Next]_vars
  PROVE  Room'
<1>0. /\ sendPosted \in [Rank -> [Rank -> Nat]]
      /\ recvPosted \in [Rank -> [Rank -> Nat]]
      /\ sendReaped \in [Rank -> [Rank -> Nat]]
      /\ recvReaped \in [Rank -> [Rank -> Nat]]
  BY DEF TypeOK
<1>1. ASSUME UNCHANGED <<sendPosted, recvPosted, sendReaped, recvReaped>>
      PROVE  Room'
  BY <1>1 DEF Room
<1>2. ASSUME NEW r \in Rank, NEW f \in Rank, NEW t \in Rank,
             NEW i \in Nat, NEW j \in Nat,
             RecvRoom(r, f, i), SendRoom(r, t, j),
             recvPosted' = At(recvPosted, r, f, recvPosted[r][f] + i),
             sendPosted' = At(sendPosted, r, t, sendPosted[r][t] + j),
             UNCHANGED <<sendReaped, recvReaped>>
      PROVE  Room'
  <2>1. \A q, x \in Rank : recvPosted'[q][x] - recvReaped[q][x] <= kQueueDepth
    BY <1>0, <1>2, RoomPost DEF Room, RecvRoom
  <2>2. \A q, x \in Rank : sendPosted'[q][x] - sendReaped[q][x] <= kQueueDepth
    BY <1>0, <1>2, RoomPost DEF Room, SendRoom
  <2> QED
    BY <1>2, <2>1, <2>2 DEF Room
<1>3. ASSUME NEW r \in Rank, NEW f \in Rank, NEW i \in Nat, RecvRoom(r, f, i),
             recvPosted' = At(recvPosted, r, f, recvPosted[r][f] + i),
             UNCHANGED <<sendPosted, sendReaped, recvReaped>>
      PROVE  Room'
  <2>1. \A q, x \in Rank : recvPosted'[q][x] - recvReaped[q][x] <= kQueueDepth
    BY <1>0, <1>3, RoomPost DEF Room, RecvRoom
  <2> QED
    BY <1>3, <2>1 DEF Room
<1>4. ASSUME NEW r \in Rank, pc[r] \in DOMAIN calls[r]
      PROVE  /\ Cur(r).to \in Rank /\ Cur(r).from \in Rank
             /\ Cur(r).s \in Nat /\ Cur(r).r \in Nat
             /\ (IF Preposted(r) THEN 0 ELSE Cur(r).r) \in Nat
             /\ (IF Cur(r).op = "xfer" /\ Preposted(r) THEN 0 ELSE Cur(r).r)
                  \in Nat
  BY <1>4, CurType
<1>5. ASSUME NEW r \in Rank, postRecvs(r) PROVE Room'
  <2>1. pc[r] \in DOMAIN calls[r]
    BY <1>5 DEF postRecvs, Has
  <2> QED
    BY <1>3, <1>4, <1>5, <2>1 DEF postRecvs
<1>6. ASSUME NEW r \in Rank, PostXfer(r) PROVE Room'
  <2>1. pc[r] \in DOMAIN calls[r]
    BY <1>6 DEF PostXfer, Has
  <2> QED
    BY <1>2, <1>4, <1>6, <2>1 DEF PostXfer
<1>7. ASSUME NEW r \in Rank, PostFails(r) PROVE Room'
  <2> DEFINE fresh == IF Cur(r).op = "xfer" /\ Preposted(r) THEN 0 ELSE Cur(r).r
  <2>1. pc[r] \in DOMAIN calls[r] /\ UNCHANGED <<sendReaped, recvReaped>>
    BY <1>7 DEF PostFails, Has
  <2>2. \/ \E k \in 0 .. fresh - 1 :
             /\ RecvRoom(r, Cur(r).from, k)
             /\ recvPosted' = At(recvPosted, r, Cur(r).from,
                                 recvPosted[r][Cur(r).from] + k)
             /\ UNCHANGED sendPosted
        \/ \E k \in 0 .. Cur(r).s - 1 :
             /\ RecvRoom(r, Cur(r).from, fresh) /\ SendRoom(r, Cur(r).to, k)
             /\ recvPosted' = At(recvPosted, r, Cur(r).from,
                                 recvPosted[r][Cur(r).from] + fresh)
             /\ sendPosted' = At(sendPosted, r, Cur(r).to,
                                 sendPosted[r][Cur(r).to] + k)
    BY <1>7 DEF PostFails
  <2>3. /\ Cur(r).to \in Rank /\ Cur(r).from \in Rank
        /\ fresh \in Nat /\ Cur(r).s \in Nat
    BY <1>4, <2>1
  <2> HIDE DEF fresh
  <2>4. ASSUME NEW n \in Nat, NEW k \in 0 .. n - 1 PROVE k \in Nat
    BY SMT
  <2> QED
    BY <1>2, <1>3, <2>1, <2>2, <2>3, <2>4
<1>8. ASSUME NEW r \in Rank, Begin(r) \/ Return(r) \/ Moves(r) \/ Fails(r)
      PROVE  Room'
  BY <1>1, <1>8 DEF Begin, Return, Moves, Fails
<1>9. ASSUME NEW r \in Rank, NEW p \in Rank, NEW cs, NEW cr, NEW to,
             Reaps(r, p, cs, cr, to)
      PROVE  Room'
  BY <1>9, RoomReap DEF Reaps
<1>10. ASSUME NEW r \in Rank, phase[r] = "loop" \/ phase[r] = "mid"
       PROVE  Cur(r).to \in Rank /\ Cur(r).from \in Rank
  BY <1>10, WaitingCur DEF Waiting
<1>11. ASSUME NEW p \in Rank, NEW r \in Rank, Land(p, r) \/ Ack(p, r)
       PROVE  Room'
  BY <1>1, <1>11 DEF Land, Ack
<1>12. Unnoticed => Room'
  BY <1>1 DEF Unnoticed
<1> QED
  BY <1>5, <1>6, <1>7, <1>8, <1>9, <1>10, <1>11, <1>12, StepCases

\* The completion queue createQp makes, 2 * kQueueDepth entries for the sends
\* and receives of one peer, never overflows: every slot of a queue pair owes
\* it at most one completion until that completion is reaped.
THEOREM CqBounded == Spec => []CqNeverOverflows
<1>1. Init => Room
  <2> SUFFICES ASSUME Init, NEW r \in Rank, NEW p \in Rank
               PROVE  0 <= kQueueDepth /\ /\ sendPosted[r][p] = 0
                                          /\ recvPosted[r][p] = 0
                                          /\ sendReaped[r][p] = 0
                                          /\ recvReaped[r][p] = 0
    BY SMT DEF Room
  <2> QED
    BY SMT, LimitsAssumption DEF Init, PerPeer
<1>2. SendInv /\ Room /\ [Next]_vars => (SendInv /\ Room)'
  BY SendInvStep, RoomStep DEF SendInv
<1>3. SendInv /\ Room => CqNeverOverflows
  <2> SUFFICES ASSUME SendInv, Room, NEW r \in Rank, NEW p \in Rank
               PROVE  CqSend(r, p) + CqRecv(r, p) <= 2 * kQueueDepth
    BY DEF CqNeverOverflows, CqDepth
  <2>1. /\ sendReaped[r][p] \in Nat /\ acked[r][p] \in Nat
        /\ arrived[p][r] \in Nat /\ sendPosted[r][p] \in Nat
        /\ recvReaped[r][p] \in Nat /\ arrived[r][p] \in Nat
        /\ recvPosted[r][p] \in Nat /\ kQueueDepth \in Nat
    BY EntryType, LimitsAssumption DEF SendInv
  <2>2. /\ acked[r][p] <= arrived[p][r] /\ arrived[p][r] <= sendPosted[r][p]
        /\ arrived[r][p] <= recvPosted[r][p]
    BY DEF SendInv, Order
  <2>3. /\ sendPosted[r][p] - sendReaped[r][p] <= kQueueDepth
        /\ recvPosted[r][p] - recvReaped[r][p] <= kQueueDepth
    BY DEF Room
  <2> QED
    BY SMT, <2>1, <2>2, <2>3 DEF CqSend, CqRecv
<1> QED
  BY <1>1, <1>2, <1>3, SendInvInit, PTL DEF Spec

----------------------------------------------------------------------------
(* The number of WRs a FIFO holds.                                         *)

\* f[i] is what the FIFO holds behind its first i requests.
IsSum(q, t) ==
  \E f \in [0 .. Len(q) -> Nat] :
    /\ f[Len(q)] = 0
    /\ \A i \in 1 .. Len(q) : f[i - 1] = f[i] + q[i]
    /\ f[0] = t

\* The empty FIFO holds none.
LEMMA SumEmpty == \A t : IsSum(<<>>, t) <=> t = 0
<1>1. IsSum(<<>>, 0)
  <2> DEFINE f == [i \in 0 .. 0 |-> 0]
  <2>1. f \in [0 .. 0 -> Nat] /\ f[0] = 0 /\ Len(<<>>) = 0 /\ 1 .. 0 = {}
    BY SMT
  <2> HIDE DEF f
  <2>2. f \in [0 .. Len(<<>>) -> Nat] /\ f[Len(<<>>)] = 0
        /\ \A i \in 1 .. Len(<<>>) : f[i - 1] = f[i] + <<>>[i]
    BY <2>1
  <2> QED
    BY <2>1, <2>2 DEF IsSum
<1>2. ASSUME NEW t, IsSum(<<>>, t) PROVE t = 0
  BY <1>2 DEF IsSum
<1> QED
  BY <1>1, <1>2

\* A request at the end adds its WRs.
LEMMA SumAppend ==
  ASSUME NEW q \in Seq(Nat), NEW t \in Nat, IsSum(q, t), NEW w \in Nat
  PROVE  IsSum(Append(q, w), t + w)
<1> DEFINE n == Len(q)
           a == Append(q, w)
<1>1. PICK f \in [0 .. n -> Nat] :
        /\ f[n] = 0
        /\ \A i \in 1 .. n : f[i - 1] = f[i] + q[i]
        /\ f[0] = t
  BY DEF IsSum
<1>2. n \in Nat /\ Len(a) = n + 1 /\ a[n + 1] = w
      /\ \A i \in 1 .. n : a[i] = q[i] /\ q[i] \in Nat
  BY SMT
<1> DEFINE g == [i \in 0 .. n + 1 |-> IF i = n + 1 THEN 0 ELSE f[i] + w]
<1> HIDE DEF n, a
<1>3. \A i \in 0 .. n : f[i] \in Nat /\ g[i] = f[i] + w
  BY SMT, <1>2
<1>4. g \in [0 .. n + 1 -> Nat] /\ g[n + 1] = 0 /\ g[0] = t + w
  BY SMT, <1>1, <1>2, <1>3
<1> HIDE DEF g
<1>5. ASSUME NEW i \in 1 .. n + 1 PROVE g[i - 1] = g[i] + a[i]
  <2>1. CASE i = n + 1
    BY SMT, <1>1, <1>2, <1>3, <1>4, <2>1
  <2>2. CASE i # n + 1
    <3>1. i \in 1 .. n /\ i - 1 \in 0 .. n /\ i \in 0 .. n
      BY SMT, <1>2, <2>2
    <3>2. f[i - 1] = f[i] + q[i] /\ q[i] \in Nat /\ a[i] = q[i]
      BY <1>1, <1>2, <3>1
    <3> QED
      BY SMT, <1>3, <3>1, <3>2
  <2> QED
    BY <2>1, <2>2
<1> QED
  BY <1>2, <1>4, <1>5 DEF IsSum, a

\* The request at the front takes its WRs with it.
LEMMA SumTail ==
  ASSUME NEW q \in Seq(Nat), q # <<>>, NEW t \in Nat, IsSum(q, t)
  PROVE  /\ Head(q) \in Nat
         /\ \E u \in Nat : t = u + Head(q) /\ IsSum(Tail(q), u)
<1> DEFINE n == Len(q)
           b == Tail(q)
<1>1. PICK f \in [0 .. n -> Nat] :
        /\ f[n] = 0
        /\ \A i \in 1 .. n : f[i - 1] = f[i] + q[i]
        /\ f[0] = t
  BY DEF IsSum
<1>2. n \in Nat /\ n > 0 /\ Len(b) = n - 1 /\ Head(q) = q[1] /\ q[1] \in Nat
      /\ \A i \in 1 .. n - 1 : b[i] = q[i + 1]
  BY SMT
<1> DEFINE g == [i \in 0 .. n - 1 |-> f[i + 1]]
<1> HIDE DEF n, b
<1>3. /\ g \in [0 .. n - 1 -> Nat] /\ g[n - 1] = 0
      /\ f[1] \in Nat /\ g[0] = f[1] /\ t = f[1] + q[1]
  BY SMT, <1>1, <1>2
<1>4. ASSUME NEW i \in 1 .. n - 1 PROVE g[i - 1] = g[i] + b[i]
  <2>1. /\ g[i - 1] = f[i] /\ g[i] = f[i + 1] /\ b[i] = q[i + 1]
        /\ i + 1 \in 1 .. n
    BY SMT, <1>2
  <2> QED
    BY SMT, <1>1, <2>1
<1> HIDE DEF g
<1>5. IsSum(b, f[1])
  BY <1>2, <1>3, <1>4 DEF IsSum
<1> QED
  BY <1>2, <1>3, <1>5 DEF b

----------------------------------------------------------------------------
(* The FIFOs of a live rank are the ones its program determines.           *)

FifoBefore(r) == IF Waiting(r) THEN pc[r] + 1 ELSE pc[r]

AsPlanned(r, F) ==
  Live(r) => \A p \in Rank : prePostedRecv[r][p] = F[r][FifoBefore(r)][p]

FifoInv ==
  \E F : /\ Follows(calls, F)
         /\ \A r \in Rank : AsPlanned(r, F)

\* A rank that a step does not move keeps its FIFOs.
LEMMA PlanFrame ==
  ASSUME NEW F, NEW q \in Rank, AsPlanned(q, F),
         UNCHANGED <<prePostedRecv[q], pc[q]>>,
         \/ UNCHANGED phase[q]
         \/ Waiting(q) /\ Waiting(q)'
         \/ ~Live(q)'
  PROVE  AsPlanned(q, F)'
BY DEF AsPlanned, FifoBefore, Live, Waiting

\* The steps of a rank that change its FIFOs or its place in the program.
LEMMA PlanCalls ==
  ASSUME TypeOK, WaitsInXfer, NEW F, FifosOf(calls, F), NEW r \in Rank,
         AsPlanned(r, F),
         Begin(r) \/ postRecvs(r) \/ PostXfer(r) \/ Return(r)
  PROVE  AsPlanned(r, F)'
<1>0. phase \in [Rank -> Phase] /\ pc \in [Rank -> Nat \ {0}]
  BY DEF TypeOK
<1>1. pc[r] \in DOMAIN calls[r] /\ pc[r] \in Nat
  BY <1>0 DEF Begin, postRecvs, PostXfer, Return, WaitsInXfer, Waiting, Has
<1>2. \A p \in Rank : F[r][pc[r] + 1][p] = AfterCall(F[r][pc[r]][p], Cur(r), p)
  BY <1>1 DEF FifosOf, Cur
<1>3. Cur(r).from \in Rank /\ Cur(r).r \in Nat
  BY <1>1, CurType
<1>4. CASE Begin(r)
  <2>1. CASE aborted_[r]
    <3>1. phase'[r] = "failed"
      BY <1>0, <1>4, <2>1 DEF Begin
    <3> QED
      BY <3>1 DEF AsPlanned, Live, Waiting
  <2>2. CASE ~aborted_[r]
    <3>1. /\ UNCHANGED prePostedRecv /\ phase[r] = "call" /\ phase'[r] = "call"
          /\ pc'[r] = pc[r] + 1 /\ Cur(r).op = "begin"
      BY <1>0, <1>4, <2>2 DEF Begin, credit, Has
    <3>2. ASSUME NEW p \in Rank PROVE prePostedRecv[r][p] = F[r][pc[r] + 1][p]
      <4>1. prePostedRecv[r][p] = F[r][pc[r]][p]
        BY <3>1 DEF AsPlanned, Live, FifoBefore, Waiting
      <4> QED
        BY <1>2, <3>1, <4>1 DEF AfterCall
    <3> QED
      BY <3>1, <3>2 DEF AsPlanned, FifoBefore, Waiting
  <2> QED
    BY <2>1, <2>2
<1>5. CASE postRecvs(r)
  <2>1. /\ phase[r] = "call" /\ phase'[r] = "call" /\ pc'[r] = pc[r] + 1
        /\ Cur(r).op = "post"
        /\ prePostedRecv' = At(prePostedRecv, r, Cur(r).from,
                               Enqueue(prePostedRecv[r][Cur(r).from], Cur(r).r))
    BY <1>0, <1>5 DEF postRecvs, Has
  <2>2. ASSUME NEW p \in Rank PROVE prePostedRecv'[r][p] = F[r][pc[r] + 1][p]
    <3>1. prePostedRecv[r][p] = F[r][pc[r]][p]
      BY <2>1 DEF AsPlanned, Live, FifoBefore, Waiting
    <3>2. prePostedRecv'[r][p] =
            IF p = Cur(r).from THEN Enqueue(prePostedRecv[r][p], Cur(r).r)
            ELSE prePostedRecv[r][p]
      BY <1>3, <2>1 DEF At, TypeOK
    <3> QED
      BY <1>2, <2>1, <3>1, <3>2 DEF AfterCall, Enqueue
  <2> QED
    BY <2>1, <2>2 DEF AsPlanned, FifoBefore, Waiting
<1>6. CASE PostXfer(r)
  <2>1. /\ phase[r] = "call" /\ phase'[r] = "loop" /\ pc'[r] = pc[r]
        /\ Cur(r).op = "xfer"
        /\ prePostedRecv' = IF Preposted(r)
                            THEN At(prePostedRecv, r, Cur(r).from,
                                    Tail(prePostedRecv[r][Cur(r).from]))
                            ELSE prePostedRecv
    BY <1>0, <1>6 DEF PostXfer, Has
  <2>2. ASSUME NEW p \in Rank PROVE prePostedRecv'[r][p] = F[r][pc[r] + 1][p]
    <3>1. prePostedRecv[r][p] = F[r][pc[r]][p]
      BY <2>1 DEF AsPlanned, Live, FifoBefore, Waiting
    <3>2. prePostedRecv'[r][p] =
            IF Preposted(r) /\ p = Cur(r).from THEN Tail(prePostedRecv[r][p])
            ELSE prePostedRecv[r][p]
      BY <1>3, <2>1 DEF At, TypeOK
    <3>3. p = Cur(r).from =>
            (Preposted(r) <=> Cur(r).r # 0 /\ prePostedRecv[r][p] # <<>>)
      BY SMT, <1>3 DEF Preposted
    <3> QED
      BY <1>2, <2>1, <3>1, <3>2, <3>3 DEF AfterCall
  <2> QED
    BY <2>1, <2>2 DEF AsPlanned, FifoBefore, Waiting
<1>7. CASE Return(r)
  <2>1. /\ phase[r] = "loop" /\ phase'[r] = "call" /\ pc'[r] = pc[r] + 1
        /\ UNCHANGED prePostedRecv
    BY <1>0, <1>7 DEF Return
  <2> QED
    BY <2>1 DEF AsPlanned, FifoBefore, Live, Waiting
<1> QED
  BY <1>4, <1>5, <1>6, <1>7

\* A step of one rank leaves the FIFOs, the place and the phase of the others.
LEMMA OthersStay ==
  ASSUME TypeOK, NEW r \in Rank, NEW q \in Rank, q # r,
         \/ Begin(r) \/ postRecvs(r) \/ PostXfer(r) \/ PostFails(r)
         \/ Return(r) \/ Fails(r)
  PROVE  UNCHANGED <<prePostedRecv[q], recvSurplus_[q], pc[q], phase[q]>>
<1>0. /\ phase \in [Rank -> Phase] /\ pc \in [Rank -> Nat \ {0}]
      /\ prePostedRecv \in [Rank -> [Rank -> Seq(Nat)]]
      /\ recvSurplus_ \in [Rank -> [Rank -> Nat]]
  BY DEF TypeOK
<1>1. CASE Begin(r)
  BY <1>0, <1>1 DEF Begin, credit
<1>2. CASE postRecvs(r)
  BY <1>0, <1>2 DEF postRecvs, At
<1>3. CASE PostXfer(r)
  <2>1. UNCHANGED <<recvSurplus_[q], pc[q], phase[q]>>
    BY <1>0, <1>3 DEF PostXfer, At
  <2>2. UNCHANGED prePostedRecv[q]
    BY <1>0, <1>3, SMTT(20) DEF PostXfer, At
  <2> QED
    BY <2>1, <2>2
<1>4. CASE PostFails(r)
  BY <1>0, <1>4 DEF PostFails, Fail, discardPending
<1>5. CASE Return(r)
  BY <1>0, <1>5 DEF Return, At
<1>6. CASE Fails(r)
  BY <1>0, <1>6 DEF Fails, Fail, discardPending
<1> QED
  BY <1>1, <1>2, <1>3, <1>4, <1>5, <1>6

\* No step changes the program.
LEMMA CallsStay == ASSUME [Next]_vars, TypeOK PROVE UNCHANGED calls
<1>1. ASSUME NEW r \in Rank, Begin(r) \/ postRecvs(r) \/ PostXfer(r)
                             \/ PostFails(r) \/ Return(r) \/ Moves(r) \/ Fails(r)
      PROVE  UNCHANGED calls
  BY <1>1 DEF Begin, postRecvs, PostXfer, PostFails, Return, Moves, Fails, Fail
<1>2. ASSUME NEW r, NEW p, NEW cs, NEW cr, NEW to, Reaps(r, p, cs, cr, to)
      PROVE  UNCHANGED calls
  BY <1>2 DEF Reaps
<1>3. ASSUME NEW p, NEW r, Land(p, r) \/ Ack(p, r) PROVE UNCHANGED calls
  BY <1>3 DEF Land, Ack, local
<1>4. Unnoticed => UNCHANGED calls
  BY DEF Unnoticed
<1> QED
  BY <1>1, <1>2, <1>3, <1>4, StepCases

\* Every step keeps the FIFOs as planned.
LEMMA FifoStep ==
  ASSUME TypeOK, WaitsInXfer, FifoInv, [Next]_vars
  PROVE  FifoInv'
<1>0. phase \in [Rank -> Phase]
  BY DEF TypeOK
<1>1. PICK F : Follows(calls, F) /\ \A r \in Rank : AsPlanned(r, F)
  BY DEF FifoInv
<1>2. UNCHANGED calls
  BY CallsStay
<1>3. FifosOf(calls, F)
  BY <1>1 DEF Follows
<1>4. ASSUME NEW q \in Rank PROVE AsPlanned(q, F)'
  <2>1. AsPlanned(q, F)
    BY <1>1
  <2>2. ASSUME NEW r \in Rank, Begin(r) \/ postRecvs(r) \/ PostXfer(r) \/ Return(r)
        PROVE  AsPlanned(q, F)'
    BY <1>1, <1>3, <2>1, <2>2, PlanCalls, OthersStay, PlanFrame
  <2>3. ASSUME NEW r \in Rank, PostFails(r) \/ Fails(r) PROVE AsPlanned(q, F)'
    <3>1. phase'[r] = "failed"
      BY <1>0, <2>3 DEF PostFails, Fails, Fail
    <3>2. q = r => AsPlanned(q, F)'
      BY <3>1 DEF AsPlanned, Live, Waiting
    <3> QED
      BY <2>1, <2>3, <3>2, OthersStay, PlanFrame
  <2>4. ASSUME NEW r \in Rank, Moves(r) PROVE AsPlanned(q, F)'
    <3>1. UNCHANGED phase[q] \/ (Waiting(q) /\ Waiting(q)')
      BY <1>0, <2>4 DEF Moves, Waiting
    <3>2. UNCHANGED <<prePostedRecv, pc>>
      BY <2>4 DEF Moves
    <3> QED
      BY <2>1, <3>1, <3>2, PlanFrame
  <2>5. ASSUME NEW r \in Rank, NEW p, NEW cs, NEW cr, NEW to \in {"mid", "check"},
               phase[r] \in {"loop", "mid"}, Reaps(r, p, cs, cr, to)
        PROVE  AsPlanned(q, F)'
    <3>1. UNCHANGED <<prePostedRecv, pc>> /\ phase' = [phase EXCEPT ![r] = to]
      BY <2>5 DEF Reaps
    <3>2. UNCHANGED phase[q] \/ (Waiting(q) /\ Waiting(q)')
      BY <1>0, <2>5, <3>1 DEF Waiting
    <3> QED
      BY <2>1, <3>1, <3>2, PlanFrame
  <2>6. ASSUME NEW p, NEW r, Land(p, r) \/ Ack(p, r) PROVE AsPlanned(q, F)'
    BY <2>1, <2>6, PlanFrame DEF Land, Ack, local, credit
  <2>7. ASSUME Unnoticed PROVE AsPlanned(q, F)'
    <3>1. UNCHANGED phase[q] \/ ~Live(q)'
      BY <2>7 DEF Unnoticed, Live, Waiting
    <3> QED
      BY <2>1, <2>7, <3>1, PlanFrame DEF Unnoticed
  <2> QED
    BY <2>2, <2>3, <2>4, <2>5, <2>6, <2>7, StepCases
<1> QED
  BY <1>1, <1>2, <1>4 DEF FifoInv

\* What the FIFOs give: a receive takes the request posted for it, ...
LEMMA FifoMatches == TypeOK /\ FifoInv => PrePostMatches
<1> SUFFICES ASSUME TypeOK, FifoInv, NEW r \in Rank, phase[r] = "call",
                    Has(r, "xfer")
             PROVE  RecvWrs(r) = Cur(r).r
  BY DEF PrePostMatches
<1>1. PICK F : Follows(calls, F) /\ \A q \in Rank : AsPlanned(q, F)
  BY DEF FifoInv
<1>2. pc[r] \in DOMAIN calls[r] /\ Cur(r).op = "xfer"
  BY DEF Has
<1>3. Cur(r).from \in Rank
  BY <1>2, CurType
<1>4. prePostedRecv[r][Cur(r).from] = F[r][pc[r]][Cur(r).from]
  BY <1>1, <1>3 DEF AsPlanned, Live, FifoBefore, Waiting
<1>5. Preposted(r) => Head(prePostedRecv[r][Cur(r).from]) = Cur(r).r
  BY <1>1, <1>2, <1>4 DEF Follows, InOrder, Preposted, Cur
<1> QED
  BY <1>5 DEF RecvWrs

\* The loop of sendRecv over two peers polls the queue of the send's peer
\* without counting receives: none may be posted ahead for that peer.
CrossPollSafe ==
  \A r \in Rank : Waiting(r) /\ Split(Cur(r)) /\ Cur(r).s > 0 =>
     prePostedRecv[r][Cur(r).to] = <<>>

\* ... and no wait polls a queue in which it would lose a receive.
LEMMA FifoCross == TypeOK /\ WaitsInXfer /\ FifoInv => CrossPollSafe
<1> SUFFICES ASSUME TypeOK, WaitsInXfer, FifoInv, NEW r \in Rank, Waiting(r),
                    Split(Cur(r)), Cur(r).s > 0
             PROVE  prePostedRecv[r][Cur(r).to] = <<>>
  BY DEF CrossPollSafe
<1>1. PICK F : Follows(calls, F) /\ \A q \in Rank : AsPlanned(q, F)
  BY DEF FifoInv
<1>2. pc[r] \in DOMAIN calls[r] /\ Cur(r).op = "xfer"
  BY DEF WaitsInXfer, Has
<1>3. Cur(r).to \in Rank
  BY <1>2, CurType
<1>4. prePostedRecv[r][Cur(r).to] = F[r][pc[r] + 1][Cur(r).to]
  BY <1>1, <1>3, SMTT(20) DEF AsPlanned, Live, FifoBefore
<1>5. F[r][pc[r] + 1][Cur(r).to] =
        AfterCall(F[r][pc[r]][Cur(r).to], Cur(r), Cur(r).to)
  BY <1>1, <1>2, <1>3 DEF Follows, FifosOf, Cur
<1>6. F[r][pc[r]][Cur(r).to] = <<>>
  BY <1>1, <1>2 DEF Follows, NoCross, Cur
<1> QED
  BY <1>4, <1>5, <1>6 DEF AfterCall, Split

\* Initially the FIFOs are as planned.
LEMMA FifoInit ==
  ASSUME \A prog \in Programs : Disciplined(prog)
  PROVE  Init => FifoInv
<1> SUFFICES ASSUME Init PROVE FifoInv
  OBVIOUS
<1>1. PICK F : Follows(calls, F)
  BY DEF Init, Disciplined
<1>2. \A r \in Rank : /\ phase[r] = "call" /\ pc[r] = 1
                      /\ \A p \in Rank : prePostedRecv[r][p] = <<>>
  BY DEF Init, PerPeer
<1>3. \A r \in Rank : AsPlanned(r, F)
  BY SMT, <1>1, <1>2 DEF AsPlanned, FifoBefore, Waiting, Follows, FifosOf
<1> QED
  BY <1>1, <1>3 DEF FifoInv

----------------------------------------------------------------------------
(* Receives.  For each peer of a live rank: the receives posted and not    *)
(* reaped are the ones in the FIFO and the ones the current call still     *)
(* counts to, less the surplus; and the receives reaped are the ones that  *)
(* returned calls and the current one account for, and the surplus.        *)

InCall(r, p) == Waiting(r) /\ p = Cur(r).from

RecvOpen(r, p) == IF InCall(r, p) THEN recvNeed[r] - recvDone[r] ELSE 0

RecvTaken(r, p) ==
  IF InCall(r, p) THEN Cur(r).r - recvNeed[r] + recvDone[r] ELSE 0

Entry(r, p) ==
  /\ \E t \in Nat :
       /\ IsSum(prePostedRecv[r][p], t)
       /\ recvPosted[r][p] - recvReaped[r][p] + recvSurplus_[r][p]
            = t + RecvOpen(r, p)
  /\ recvReaped[r][p] - recvSurplus_[r][p] = got[r][p] + RecvTaken(r, p)

\* A call starts to wait only after the surplus of its peer is used up.
NoSurplusLeft(r) ==
  Waiting(r) /\ recvNeed[r] > 0 => recvSurplus_[r][Cur(r).from] = 0

Account(r) == Live(r) => NoSurplusLeft(r) /\ \A p \in Rank : Entry(r, p)

\* How an entry is established.
LEMMA EntryIntro ==
  ASSUME NEW r \in Rank, NEW p \in Rank, NEW t \in Nat,
         IsSum(prePostedRecv[r][p]', t),
         recvPosted[r][p]' - recvReaped[r][p]' + recvSurplus_[r][p]'
           = t + RecvOpen(r, p)',
         recvReaped[r][p]' - recvSurplus_[r][p]' = got[r][p]' + RecvTaken(r, p)'
  PROVE  Entry(r, p)'
<1>1. \E v \in Nat :
        /\ IsSum(prePostedRecv[r][p]', v)
        /\ recvPosted[r][p]' - recvReaped[r][p]' + recvSurplus_[r][p]'
             = v + RecvOpen(r, p)'
  OBVIOUS
<1> QED
  BY <1>1 DEF Entry

\* A rank that a step does not move keeps its account.
LEMMA AccountFrame ==
  ASSUME NEW q \in Rank, Account(q),
         UNCHANGED <<calls, pc[q], recvNeed[q], recvDone[q], got[q],
                     recvPosted[q], recvReaped[q], recvSurplus_[q],
                     prePostedRecv[q]>>,
         \/ UNCHANGED phase[q]
         \/ Waiting(q) /\ Waiting(q)'
         \/ ~Live(q)'
  PROVE  Account(q)'
<1>1. CASE ~Live(q)'
  BY <1>1 DEF Account
<1>2. CASE UNCHANGED phase[q] \/ (Waiting(q) /\ Waiting(q)')
  <2>1. /\ Live(q)' = Live(q) /\ Waiting(q)' = Waiting(q) /\ Cur(q)' = Cur(q)
    BY <1>2 DEF Live, Waiting, Cur
  <2>2. NoSurplusLeft(q) => NoSurplusLeft(q)'
    BY <2>1 DEF NoSurplusLeft
  <2>3. ASSUME NEW p \in Rank, Entry(q, p) PROVE Entry(q, p)'
    <3>1. RecvOpen(q, p)' = RecvOpen(q, p) /\ RecvTaken(q, p)' = RecvTaken(q, p)
      BY <2>1 DEF RecvOpen, RecvTaken, InCall
    <3> QED
      BY <2>3, <3>1 DEF Entry
  <2> QED
    BY <2>1, <2>2, <2>3 DEF Account
<1> QED
  BY <1>1, <1>2

\* Entering an operation leaves the account.
LEMMA AccountBegin ==
  ASSUME TypeOK, NEW r \in Rank, Account(r), Begin(r)
  PROVE  Account(r)'
<1>0. phase \in [Rank -> Phase]
  BY DEF TypeOK
<1>1. CASE phase'[r] = "failed"
  BY <1>1 DEF Account, Live, Waiting
<1>2. CASE phase'[r] = "call"
  <2>1. phase[r] = "call" /\ UNCHANGED <<recvPosted, recvReaped, recvSurplus_,
                                         prePostedRecv, got>>
    BY DEF Begin, credit
  <2>2. ~Waiting(r) /\ ~Waiting(r)'
    BY <1>2, <2>1 DEF Waiting
  <2>3. ASSUME NEW p \in Rank PROVE Entry(r, p)'
    <3>1. /\ RecvOpen(r, p) = 0 /\ RecvOpen(r, p)' = 0
          /\ RecvTaken(r, p) = 0 /\ RecvTaken(r, p)' = 0
      BY <2>2 DEF RecvOpen, RecvTaken, InCall
    <3>2. Entry(r, p)
      BY <2>1 DEF Account, Live
    <3> QED
      BY <2>1, <3>1, <3>2 DEF Entry
  <2> QED
    BY <2>2, <2>3 DEF Account, NoSurplusLeft
<1> QED
  BY <1>0, <1>1, <1>2 DEF Begin

\* A pre-posted receive enters the FIFO and the queue together.
LEMMA AccountPostRecvs ==
  ASSUME TypeOK, NEW r \in Rank, Account(r), postRecvs(r)
  PROVE  Account(r)'
<1> DEFINE f == Cur(r).from
           k == Cur(r).r
<1>0. /\ phase \in [Rank -> Phase]
      /\ recvPosted \in [Rank -> [Rank -> Nat]]
      /\ prePostedRecv \in [Rank -> [Rank -> Seq(Nat)]]
  BY DEF TypeOK
<1>1. /\ phase[r] = "call" /\ phase'[r] = "call"
      /\ recvPosted' = At(recvPosted, r, f, recvPosted[r][f] + k)
      /\ prePostedRecv' = At(prePostedRecv, r, f,
                             Enqueue(prePostedRecv[r][f], k))
      /\ UNCHANGED <<recvReaped, recvSurplus_, got>>
  BY DEF postRecvs
<1>2. f \in Rank /\ k \in Nat
  BY CurType DEF postRecvs, Has
<1>3. ~Waiting(r) /\ ~Waiting(r)'
  BY <1>1 DEF Waiting
<1> HIDE DEF f, k
<1>4. ASSUME NEW p \in Rank PROVE Entry(r, p)'
  <2>1. /\ RecvOpen(r, p) = 0 /\ RecvOpen(r, p)' = 0
        /\ RecvTaken(r, p) = 0 /\ RecvTaken(r, p)' = 0
    BY <1>3 DEF RecvOpen, RecvTaken, InCall
  <2>2. Entry(r, p)
    BY <1>1 DEF Account, Live
  <2>3. PICK t \in Nat :
          /\ IsSum(prePostedRecv[r][p], t)
          /\ recvPosted[r][p] - recvReaped[r][p] + recvSurplus_[r][p] = t + 0
    BY <2>1, <2>2 DEF Entry
  <2>4. recvReaped[r][p] - recvSurplus_[r][p] = got[r][p] + 0
    BY <2>1, <2>2 DEF Entry
  <2>5. /\ recvPosted[r][p] \in Nat /\ recvReaped[r][p] \in Nat
        /\ recvSurplus_[r][p] \in Nat
    BY EntryType
  <2>0. prePostedRecv[r][p] \in Seq(Nat)
    BY EntryType
  <2>6. recvPosted'[r][p] = IF p = f THEN recvPosted[r][p] + k
                            ELSE recvPosted[r][p]
    <3>1. recvPosted \in [Rank -> [Rank -> Nat]]
      BY DEF TypeOK
    <3>2. recvPosted' = At(recvPosted, r, f, recvPosted[r][f] + k)
      BY <1>1
    <3> QED
      BY SMT, <1>2, <3>1, <3>2, AtApply
  <2>7. prePostedRecv'[r][p] = IF p = f THEN Enqueue(prePostedRecv[r][p], k)
                               ELSE prePostedRecv[r][p]
    BY <1>0, <1>1, <1>2 DEF At
  <2>8. CASE p = f
    <3>1. IsSum(prePostedRecv'[r][p], t + k)
      <4>1. CASE k = 0
        BY SMT, <2>3, <2>7, <2>8, <4>1 DEF Enqueue
      <4>2. CASE k # 0
        BY <1>2, <2>0, <2>3, <2>7, <2>8, <4>2, SumAppend DEF Enqueue
      <4> QED
        BY <4>1, <4>2
    <3>2. /\ t + k \in Nat
          /\ recvPosted'[r][p] - recvReaped[r][p] + recvSurplus_[r][p]
               = (t + k) + 0
      <4>1. recvPosted'[r][p] = recvPosted[r][p] + k
        BY <2>6, <2>8
      <4>2. recvPosted[r][p] - recvReaped[r][p] + recvSurplus_[r][p] = t + 0
        BY <2>3
      <4> QED
        BY SMT, <1>2, <2>5, <4>1, <4>2
    <3> QED
      BY <1>1, <2>1, <2>4, <3>1, <3>2 DEF Entry
  <2>9. CASE p # f
    BY <1>1, <2>1, <2>3, <2>4, <2>6, <2>7, <2>9 DEF Entry
  <2> QED
    BY <2>8, <2>9
<1> QED
  BY <1>3, <1>4 DEF Account, NoSurplusLeft

\* A call that starts takes its receive from the FIFO, or posts it, and the
\* surplus of its peer is credited against what it will wait for.
LEMMA AccountPostXfer ==
  ASSUME TypeOK, PrePostMatches, NEW r \in Rank, Account(r), PostXfer(r)
  PROVE  Account(r)'
<1> DEFINE f == Cur(r).from
           k == Cur(r).r
           use == takeRecvSurplus(r, f, RecvWrs(r))
           fresh == IF Preposted(r) THEN 0 ELSE k
           s == recvSurplus_[r][f]
<1>1. /\ phase[r] = "call" /\ pc[r] \in DOMAIN calls[r] /\ Has(r, "xfer")
      /\ recvPosted' = At(recvPosted, r, f, recvPosted[r][f] + fresh)
      /\ prePostedRecv' = IF Preposted(r)
                          THEN At(prePostedRecv, r, f,
                                  Tail(prePostedRecv[r][f]))
                          ELSE prePostedRecv
      /\ recvSurplus_' = At(recvSurplus_, r, f, s - use)
      /\ UNCHANGED <<calls, pc, recvReaped, got>>
  BY DEF PostXfer, Has
<1>2. phase'[r] = "loop" /\ recvNeed'[r] = RecvWrs(r) - use /\ recvDone'[r] = 0
  <2>1. phase \in [Rank -> Phase] /\ recvNeed \in [Rank -> Nat]
        /\ recvDone \in [Rank -> Nat]
    BY DEF TypeOK
  <2> QED
    BY <2>1 DEF PostXfer
<1>3. RecvWrs(r) = k
  BY <1>1 DEF PrePostMatches
<1>4. f \in Rank /\ k \in Nat /\ fresh \in Nat
  BY <1>1, CurType
<1>5. use \in Nat /\ use <= k /\ use <= s /\ (use = k \/ use = s)
  BY <1>1, <1>3, SurplusUse
<1>6. s \in Nat /\ recvPosted[r][f] \in Nat /\ recvReaped[r][f] \in Nat
      /\ got[r][f] \in Nat
  BY <1>4, EntryType
<1>7. ~Waiting(r) /\ Waiting(r)' /\ Cur(r)' = Cur(r)
  BY <1>1, <1>2 DEF Waiting, Cur
<1>8. Preposted(r) => prePostedRecv[r][f] # <<>> /\ Head(prePostedRecv[r][f]) = k
  BY <1>3 DEF Preposted, RecvWrs
<1>9. \A p \in Rank : Entry(r, p) /\ RecvOpen(r, p) = 0 /\ RecvTaken(r, p) = 0
  BY <1>1, <1>7 DEF Account, Live, RecvOpen, RecvTaken, InCall
<1> HIDE DEF f, k, use, fresh, s
<1>10. ASSUME NEW p \in Rank
       PROVE  /\ recvPosted'[r][p] = IF p = f THEN recvPosted[r][p] + fresh
                                     ELSE recvPosted[r][p]
              /\ recvSurplus_'[r][p] = IF p = f THEN s - use
                                       ELSE recvSurplus_[r][p]
  <2>1. /\ recvPosted \in [Rank -> [Rank -> Nat]]
        /\ recvSurplus_ \in [Rank -> [Rank -> Nat]]
    BY DEF TypeOK
  <2>2. /\ recvPosted' = At(recvPosted, r, f, recvPosted[r][f] + fresh)
        /\ recvSurplus_' = At(recvSurplus_, r, f, s - use)
    BY <1>1
  <2> QED
    BY SMT, <1>4, <2>1, <2>2, AtApply
<1>11. ASSUME NEW p \in Rank
       PROVE  prePostedRecv'[r][p] =
                IF Preposted(r) /\ p = f THEN Tail(prePostedRecv[r][p])
                ELSE prePostedRecv[r][p]
  <2>1. prePostedRecv \in [Rank -> [Rank -> Seq(Nat)]]
    BY DEF TypeOK
  <2> QED
    BY <1>1, <1>4, <2>1 DEF At
<1>12. ASSUME NEW p \in Rank, p = f PROVE Entry(r, p)'
  <2>0. recvPosted[r][p] \in Nat /\ recvReaped[r][p] \in Nat
        /\ got[r][p] \in Nat
    BY <1>6, <1>12
  <2>1. PICK t \in Nat :
          /\ IsSum(prePostedRecv[r][p], t)
          /\ recvPosted[r][p] - recvReaped[r][p] + s = t + 0
    BY <1>9, <1>12 DEF Entry, s
  <2>2. recvReaped[r][p] - s = got[r][p] + 0
    BY <1>9, <1>12 DEF Entry, s
  <2>3. RecvOpen(r, p)' = (k - use) - 0 /\ RecvTaken(r, p)' = k - (k - use) + 0
    BY <1>2, <1>3, <1>7, <1>12 DEF RecvOpen, RecvTaken, InCall, f, k
  <2>4. recvReaped[r][p] - (s - use) = got[r][p] + (k - (k - use) + 0)
    BY SMT, <1>4, <1>5, <1>6, <2>0, <2>2
  <2>5. recvPosted'[r][p] = recvPosted[r][p] + fresh /\ recvSurplus_'[r][p] = s - use
    BY <1>10, <1>12
  <2>8. recvReaped'[r][p] = recvReaped[r][p] /\ got'[r][p] = got[r][p]
    BY <1>1
  <2>9. recvReaped'[r][p] - recvSurplus_'[r][p] = got'[r][p] + RecvTaken(r, p)'
    BY <2>3, <2>4, <2>5, <2>8
  <2>6. CASE Preposted(r)
    <3>1. prePostedRecv[r][p] \in Seq(Nat)
      BY EntryType
    <3>2. PICK u \in Nat : t = u + k /\ IsSum(Tail(prePostedRecv[r][p]), u)
      BY <1>8, <1>12, <2>1, <2>6, <3>1, SumTail
    <3>3. fresh = 0 /\ t = u + k
      BY <2>6, <3>2 DEF fresh
    <3>4. recvPosted[r][p] + fresh - recvReaped[r][p] + (s - use)
            = u + ((k - use) - 0)
      <4>1. recvPosted[r][p] - recvReaped[r][p] + s = t + 0
        BY <2>1
      <4> QED
        BY SMT, <1>4, <1>5, <1>6, <2>0, <3>3, <4>1
    <3>5. prePostedRecv'[r][p] = Tail(prePostedRecv[r][p])
      BY <1>11, <1>12, <2>6
    <3>6. IsSum(prePostedRecv'[r][p], u)
      BY <3>2, <3>5
    <3>7. recvPosted'[r][p] - recvReaped'[r][p] + recvSurplus_'[r][p]
            = u + RecvOpen(r, p)'
      BY SMT, <1>4, <1>5, <1>6, <2>0, <2>3, <2>5, <2>8, <3>4
    <3> QED
      BY <2>9, <3>6, <3>7, EntryIntro
  <2>7. CASE ~Preposted(r)
    <3>1. fresh = k
      BY <2>7 DEF fresh
    <3>2. recvPosted[r][p] + fresh - recvReaped[r][p] + (s - use)
            = t + ((k - use) - 0)
      <4>1. recvPosted[r][p] - recvReaped[r][p] + s = t + 0
        BY <2>1
      <4> QED
        BY SMT, <1>4, <1>5, <1>6, <2>0, <3>1, <4>1
    <3>3. IsSum(prePostedRecv'[r][p], t)
      BY <1>11, <2>1, <2>7
    <3>4. recvPosted'[r][p] - recvReaped'[r][p] + recvSurplus_'[r][p]
            = t + RecvOpen(r, p)'
      BY SMT, <1>4, <1>5, <1>6, <2>0, <2>3, <2>5, <2>8, <3>2
    <3> QED
      BY <2>9, <3>3, <3>4, EntryIntro
  <2> QED
    BY <2>6, <2>7
<1>13. ASSUME NEW p \in Rank, p # f PROVE Entry(r, p)'
  <2>1. RecvOpen(r, p)' = 0 /\ RecvTaken(r, p)' = 0
    BY <1>7, <1>13 DEF RecvOpen, RecvTaken, InCall, f
  <2>2. /\ recvPosted'[r][p] = recvPosted[r][p]
        /\ recvSurplus_'[r][p] = recvSurplus_[r][p]
        /\ prePostedRecv'[r][p] = prePostedRecv[r][p]
    BY <1>10, <1>11, <1>13
  <2> QED
    BY <1>1, <1>9, <2>1, <2>2 DEF Entry
<1>14. NoSurplusLeft(r)'
  <2>1. recvNeed'[r] = k - use /\ recvSurplus_'[r][f] = s - use
    BY <1>2, <1>3, <1>4, <1>10
  <2>2. k - use > 0 => s - use = 0
    BY SMT, <1>4, <1>5, <1>6
  <2> QED
    BY <1>7, <2>1, <2>2 DEF NoSurplusLeft, f
<1>15. \A p \in Rank : Entry(r, p)'
  BY <1>12, <1>13
<1> QED
  BY <1>14, <1>15 DEF Account

\* A poll reaps n receives and counts them, or it does not count and there is
\* no receive in the FIFO of the queue's peer.
ReapsRecv(r, p, n) ==
  /\ recvReaped' = At(recvReaped, r, p, recvReaped[r][p] + n)
  /\ \/ p = Cur(r).from /\ recvDone' = [recvDone EXCEPT ![r] = @ + n]
     \/ /\ p # Cur(r).from /\ UNCHANGED recvDone
        /\ prePostedRecv[r][p] = <<>>
  /\ UNCHANGED <<calls, pc, recvNeed, prePostedRecv, recvSurplus_, recvPosted,
                 got>>

\* A polled batch of at most a - b is empty when a <= d and, with the surplus s,
\* nothing of d is owed beyond b.
LEMMA NoneOwed ==
  ASSUME NEW a \in Nat, NEW b \in Nat, NEW d \in Nat, NEW s \in Nat,
         NEW e \in Nat, e <= a - b, a <= d, d - b + s = 0
  PROVE  e = 0
  BY SMT

\* Such a poll keeps the account.
LEMMA AccountReaps ==
  ASSUME TypeOK, Order, NEW r \in Rank, Account(r), Waiting(r), NEW p \in Rank,
         NEW w \in Reapable(r, p), Cur(r).r \in Nat, ReapsRecv(r, p, w[2]),
         Waiting(r)'
  PROVE  Account(r)'
<1>1. w[2] \in Nat /\ w[2] <= arrived[r][p] - recvReaped[r][p]
  BY ReapableType DEF CqRecv
<1>2. Cur(r)' = Cur(r)
  BY DEF Cur, ReapsRecv
<1>3. NoSurplusLeft(r)'
  BY <1>2 DEF Account, Live, NoSurplusLeft, ReapsRecv
<1>4. ASSUME NEW x \in Rank PROVE Entry(r, x)'
  <2>1. recvReaped'[r][x] = IF x = p THEN recvReaped[r][x] + w[2]
                            ELSE recvReaped[r][x]
    <3>1. recvReaped \in [Rank -> [Rank -> Nat]]
      BY DEF TypeOK
    <3>2. recvReaped' = At(recvReaped, r, p, recvReaped[r][p] + w[2])
      BY DEF ReapsRecv
    <3> QED
      BY SMT, <3>1, <3>2, AtApply
  <2>2. /\ recvPosted[r][x] \in Nat /\ recvReaped[r][x] \in Nat
        /\ recvSurplus_[r][x] \in Nat /\ got[r][x] \in Nat
        /\ recvNeed[r] \in Nat /\ recvDone[r] \in Nat
    BY EntryType
  <2>3. Entry(r, x)
    BY DEF Account, Live
  <2>4. PICK t \in Nat :
          /\ IsSum(prePostedRecv[r][x], t)
          /\ recvPosted[r][x] - recvReaped[r][x] + recvSurplus_[r][x]
               = t + RecvOpen(r, x)
    BY <2>3 DEF Entry
  <2>5. recvPosted[r][x] - recvReaped[r][x] + recvSurplus_[r][x]
          = t + RecvOpen(r, x)
    BY <2>4
  <2>6. recvReaped[r][x] - recvSurplus_[r][x] = got[r][x] + RecvTaken(r, x)
    BY <2>3 DEF Entry
  <2>7. /\ RecvOpen(r, x) = IF x = Cur(r).from THEN recvNeed[r] - recvDone[r]
                            ELSE 0
        /\ RecvOpen(r, x)' = IF x = Cur(r).from THEN recvNeed[r] - recvDone'[r]
                             ELSE 0
    BY <1>2 DEF RecvOpen, InCall, ReapsRecv
  <2>8. /\ RecvTaken(r, x) = IF x = Cur(r).from
                             THEN Cur(r).r - recvNeed[r] + recvDone[r] ELSE 0
        /\ RecvTaken(r, x)' = IF x = Cur(r).from
                              THEN Cur(r).r - recvNeed[r] + recvDone'[r] ELSE 0
    BY <1>2 DEF RecvTaken, InCall, ReapsRecv
  <2>9. \/ x = p /\ x = Cur(r).from /\ recvDone'[r] = recvDone[r] + w[2]
        \/ recvReaped'[r][x] = recvReaped[r][x]
           /\ RecvOpen(r, x)' = RecvOpen(r, x)
           /\ RecvTaken(r, x)' = RecvTaken(r, x)
    <3>1. CASE p = Cur(r).from /\ recvDone' = [recvDone EXCEPT ![r] = @ + w[2]]
      <4>1. recvDone'[r] = recvDone[r] + w[2]
        BY <3>1 DEF TypeOK
      <4> QED
        BY <2>1, <2>7, <2>8, <3>1, <4>1
    <3>2. CASE p # Cur(r).from /\ UNCHANGED recvDone /\ prePostedRecv[r][p] = <<>>
      <4>1. CASE x = p
        <5>1. t = 0
          BY <2>4, <3>2, <4>1, SumEmpty
        <5>2. arrived[r][p] <= recvPosted[r][p] /\ arrived[r][p] \in Nat
          BY EntryType DEF Order
        <5>3. w[2] = 0
          <6>1. RecvOpen(r, x) = 0
            BY <2>7, <3>2, <4>1
          <6>2. recvPosted[r][x] - recvReaped[r][x] + recvSurplus_[r][x] = 0
            BY SMT, <2>5, <5>1, <6>1
          <6> QED
            BY <1>1, <2>2, <4>1, <5>2, <6>2, NoneOwed
        <5> QED
          BY SMT, <2>1, <2>2, <2>7, <2>8, <3>2, <4>1, <5>3
      <4>2. CASE x # p
        BY <2>1, <2>7, <2>8, <3>2, <4>2
      <4> QED
        BY <4>1, <4>2
    <3> QED
      BY <3>1, <3>2 DEF ReapsRecv
  <2>10. IsSum(prePostedRecv'[r][x], t)
    BY <2>4 DEF ReapsRecv
  <2>11. /\ recvPosted'[r][x] = recvPosted[r][x] /\ got'[r][x] = got[r][x]
         /\ recvSurplus_'[r][x] = recvSurplus_[r][x]
    BY DEF ReapsRecv
  <2>12. CASE x = p /\ x = Cur(r).from /\ recvDone'[r] = recvDone[r] + w[2]
    <3>1. recvPosted'[r][x] - recvReaped'[r][x] + recvSurplus_'[r][x]
            = t + RecvOpen(r, x)'
      BY SMT, <1>1, <2>1, <2>2, <2>5, <2>7, <2>11, <2>12
    <3>2. recvReaped'[r][x] - recvSurplus_'[r][x] = got'[r][x] + RecvTaken(r, x)'
      BY SMT, <1>1, <2>1, <2>2, <2>6, <2>8, <2>11, <2>12
    <3> QED
      BY <2>10, <3>1, <3>2, EntryIntro
  <2>13. CASE recvReaped'[r][x] = recvReaped[r][x]
              /\ RecvOpen(r, x)' = RecvOpen(r, x)
              /\ RecvTaken(r, x)' = RecvTaken(r, x)
    <3>1. recvPosted'[r][x] - recvReaped'[r][x] + recvSurplus_'[r][x]
            = t + RecvOpen(r, x)'
      BY <2>5, <2>11, <2>13
    <3>2. recvReaped'[r][x] - recvSurplus_'[r][x] = got'[r][x] + RecvTaken(r, x)'
      BY <2>6, <2>11, <2>13
    <3> QED
      BY <2>10, <3>1, <3>2, EntryIntro
  <2> QED
    BY <2>9, <2>12, <2>13
<1> QED
  BY <1>3, <1>4 DEF Account

\* A call that returns turns its overshoot into surplus and is accounted for.
LEMMA AccountReturn ==
  ASSUME TypeOK, WaitsInXfer, NEW r \in Rank, Account(r), Return(r)
  PROVE  Account(r)'
<1> DEFINE f == Cur(r).from
           k == Cur(r).r
           over == recvDone[r] - recvNeed[r]
<1>1. /\ phase[r] = "loop" /\ UNCHANGED <<prePostedRecv, recvPosted, recvReaped>>
      /\ recvSurplus_' = At(recvSurplus_, r, f, recvSurplus_[r][f] + over)
      /\ got' = At(got, r, f, got[r][f] + k)
  BY DEF Return, Overshoot
<1>2. phase'[r] = "call"
  BY DEF Return, TypeOK
<1>3. Waiting(r) /\ ~Waiting(r)'
  BY <1>1, <1>2 DEF Waiting
<1>4. f \in Rank /\ k \in Nat
  BY <1>3, WaitingCur
<1>5. recvDone[r] \in Nat /\ recvNeed[r] \in Nat
  BY EntryType
<1>6. ASSUME NEW x \in Rank PROVE Entry(r, x)'
  <2>1. recvSurplus_'[r][x] = IF x = f THEN recvSurplus_[r][x] + over
                              ELSE recvSurplus_[r][x]
    <3>1. recvSurplus_ \in [Rank -> [Rank -> Nat]]
      BY DEF TypeOK
    <3> QED
      BY SMT, <1>1, <1>4, <3>1, AtApply
  <2>2. got'[r][x] = IF x = f THEN got[r][x] + k ELSE got[r][x]
    <3>1. got \in [Rank -> [Rank -> Nat]]
      BY DEF TypeOK
    <3> QED
      BY SMT, <1>1, <1>4, <3>1, AtApply
  <2>3. Entry(r, x)
    BY <1>3 DEF Account, Live
  <2>4. PICK t \in Nat :
          /\ IsSum(prePostedRecv[r][x], t)
          /\ recvPosted[r][x] - recvReaped[r][x] + recvSurplus_[r][x]
               = t + RecvOpen(r, x)
    BY <2>3 DEF Entry
  <2>5. recvPosted[r][x] - recvReaped[r][x] + recvSurplus_[r][x]
          = t + RecvOpen(r, x)
    BY <2>4
  <2>6. recvReaped[r][x] - recvSurplus_[r][x] = got[r][x] + RecvTaken(r, x)
    BY <2>3 DEF Entry
  <2>7. /\ RecvOpen(r, x) = IF x = f THEN recvNeed[r] - recvDone[r] ELSE 0
        /\ RecvTaken(r, x) = IF x = f THEN k - recvNeed[r] + recvDone[r] ELSE 0
        /\ RecvOpen(r, x)' = 0 /\ RecvTaken(r, x)' = 0
    BY <1>3 DEF RecvOpen, RecvTaken, InCall
  <2>8. /\ recvPosted[r][x] \in Nat /\ recvReaped[r][x] \in Nat
        /\ recvSurplus_[r][x] \in Nat /\ got[r][x] \in Nat
    BY EntryType
  <2>9. recvPosted'[r][x] = recvPosted[r][x] /\ recvReaped'[r][x] = recvReaped[r][x]
        /\ prePostedRecv'[r][x] = prePostedRecv[r][x]
    BY <1>1
  <2>10. IsSum(prePostedRecv'[r][x], t)
    BY <2>4, <2>9
  <2>11. recvPosted'[r][x] - recvReaped'[r][x] + recvSurplus_'[r][x]
           = t + RecvOpen(r, x)'
    BY SMT, <1>5, <2>1, <2>5, <2>7, <2>8, <2>9
  <2>12. recvReaped'[r][x] - recvSurplus_'[r][x] = got'[r][x] + RecvTaken(r, x)'
    BY SMT, <1>4, <1>5, <2>1, <2>2, <2>6, <2>7, <2>8, <2>9
  <2> QED
    BY <2>10, <2>11, <2>12, EntryIntro
<1> QED
  BY <1>3, <1>6 DEF Account, NoSurplusLeft

\* What a step of one rank leaves of the other ranks' accounts.
LEMMA OthersAccount ==
  ASSUME TypeOK, NEW r \in Rank, NEW q \in Rank, q # r,
         Begin(r) \/ postRecvs(r) \/ PostXfer(r) \/ Return(r) \/ PostFails(r)
  PROVE  UNCHANGED <<recvNeed[q], recvDone[q], got[q], recvPosted[q],
                     recvReaped[q]>>
<1>0. /\ recvNeed \in [Rank -> Nat] /\ recvDone \in [Rank -> Nat]
      /\ got \in [Rank -> [Rank -> Nat]]
      /\ recvPosted \in [Rank -> [Rank -> Nat]]
  BY DEF TypeOK
<1>1. CASE Begin(r)
  BY <1>1 DEF Begin
<1>2. CASE postRecvs(r)
  BY <1>0, <1>2 DEF postRecvs, At
<1>3. CASE PostXfer(r)
  BY <1>0, <1>3 DEF PostXfer, At
<1>4. CASE Return(r)
  BY <1>0, <1>4 DEF Return, At
<1>5. CASE PostFails(r)
  <2>1. UNCHANGED <<recvNeed, recvDone, got, recvReaped>>
    BY <1>5 DEF PostFails, Fail
  <2>2. recvPosted'[q] = recvPosted[q]
    BY SMT, <1>0, <1>5, PostFailsEffect DEF At
  <2> QED
    BY <2>1, <2>2
<1> QED
  BY <1>1, <1>2, <1>3, <1>4, <1>5

\* A poll of one rank keeps all accounts.
LEMMA AccountPolls ==
  ASSUME TypeOK, WaitsInXfer, Order, NEW q \in Rank, Account(q), UNCHANGED calls,
         NEW r \in Rank, Account(r), phase[r] \in {"loop", "mid"},
         NEW p \in Rank, NEW w \in Reapable(r, p), ReapsRecv(r, p, w[2]),
         NEW to \in {"mid", "check"}, phase' = [phase EXCEPT ![r] = to]
  PROVE  Account(q)'
<1>0. /\ phase \in [Rank -> Phase] /\ recvDone \in [Rank -> Nat]
      /\ recvReaped \in [Rank -> [Rank -> Nat]]
  BY DEF TypeOK
<1>1. Waiting(r) /\ Waiting(r)'
  BY <1>0 DEF Waiting
<1>2. Cur(r).r \in Nat
  BY <1>1, WaitingCur
<1>3. CASE q = r
  BY <1>1, <1>2, <1>3, AccountReaps
<1>4. CASE q # r
  <2>1. UNCHANGED <<phase[q], recvDone[q], recvReaped[q]>>
    BY <1>0, <1>4 DEF ReapsRecv, At
  <2> QED
    BY <2>1, AccountFrame DEF ReapsRecv
<1> QED
  BY <1>3, <1>4

\* Every step keeps the accounts of programs that follow the discipline.
LEMMA AccountStep ==
  ASSUME TypeOK, WaitsInXfer, MidIsSplit, Order, PrePostMatches, CrossPollSafe,
         \A r \in Rank : Account(r), [Next]_vars, NEW q \in Rank
  PROVE  Account(q)'
<1>0. phase \in [Rank -> Phase]
  BY DEF TypeOK
<1>1. UNCHANGED calls
  BY CallsStay
<1>2. ASSUME NEW r \in Rank, Begin(r) \/ postRecvs(r) \/ PostXfer(r) \/ Return(r)
      PROVE  Account(q)'
  <2>1. CASE q = r
    BY <1>2, <2>1, AccountBegin, AccountPostRecvs, AccountPostXfer,
       AccountReturn
  <2>2. CASE q # r
    BY <1>1, <1>2, <2>2, OthersAccount, OthersStay, AccountFrame
  <2> QED
    BY <2>1, <2>2
<1>3. ASSUME NEW r \in Rank, PostFails(r) \/ Fails(r) PROVE Account(q)'
  <2>1. phase'[r] = "failed"
    BY <1>0, <1>3 DEF PostFails, Fails, Fail
  <2>2. CASE q = r
    BY <2>1, <2>2 DEF Account, Live, Waiting
  <2>3. CASE q # r
    <3>1. UNCHANGED <<recvNeed[q], recvDone[q], got[q], recvPosted[q],
                      recvReaped[q]>>
      BY <1>3, <2>3, OthersAccount DEF Fails, Fail
    <3> QED
      BY <1>1, <1>3, <2>3, <3>1, OthersStay, AccountFrame
  <2> QED
    BY <2>2, <2>3
<1>4. ASSUME NEW r \in Rank, Moves(r) PROVE Account(q)'
  <2>1. UNCHANGED phase[q] \/ (Waiting(q) /\ Waiting(q)')
    BY <1>0, <1>4 DEF Moves, Waiting
  <2> QED
    BY <1>4, <2>1, AccountFrame DEF Moves
<1>5. ASSUME NEW r \in Rank, phase[r] = "loop", ~Split(Cur(r)),
             Reaps(r, Cur(r).from, TRUE, TRUE, "check")
      PROVE  Account(q)'
  <2>1. Waiting(r)
    BY <1>5 DEF Waiting
  <2>2. Cur(r).from \in Rank
    BY <2>1, WaitingCur
  <2>3. PICK w \in Reapable(r, Cur(r).from) : ReapsRecv(r, Cur(r).from, w[2])
    BY <1>5 DEF Reaps, ReapsRecv
  <2>4. phase' = [phase EXCEPT ![r] = "check"]
    BY <1>5 DEF Reaps
  <2> QED
    BY <1>1, <1>5, <2>2, <2>3, <2>4, AccountPolls
<1>6. ASSUME NEW r \in Rank, phase[r] = "loop", Split(Cur(r)),
             sendDone[r] < Cur(r).s, Reaps(r, Cur(r).to, TRUE, FALSE, "mid")
      PROVE  Account(q)'
  <2>1. Waiting(r)
    BY <1>6, SMTT(20) DEF Waiting
  <2>2. Cur(r).to \in Rank /\ Cur(r).s \in Nat /\ sendDone[r] \in Nat
    BY <2>1, WaitingCur, EntryType, SMTT(20)
  <2>3. Cur(r).to # Cur(r).from /\ prePostedRecv[r][Cur(r).to] = <<>>
    <3>1. Cur(r).s > 0
      BY SMT, <1>6, <2>2
    <3> QED
      BY <1>6, <2>1, <3>1 DEF CrossPollSafe, Split
  <2>4. PICK w \in Reapable(r, Cur(r).to) : ReapsRecv(r, Cur(r).to, w[2])
    BY <1>6, <2>3 DEF Reaps, ReapsRecv
  <2>5. phase' = [phase EXCEPT ![r] = "mid"]
    BY <1>6 DEF Reaps
  <2> QED
    BY <1>1, <1>6, <2>2, <2>4, <2>5, AccountPolls
<1>7. ASSUME NEW r \in Rank, phase[r] = "mid",
             Reaps(r, Cur(r).from, FALSE, TRUE, "check")
      PROVE  Account(q)'
  <2>1. Waiting(r)
    BY <1>7 DEF Waiting
  <2>2. Cur(r).from \in Rank
    BY <2>1, WaitingCur
  <2>3. PICK w \in Reapable(r, Cur(r).from) : ReapsRecv(r, Cur(r).from, w[2])
    BY <1>7 DEF Reaps, ReapsRecv
  <2>4. phase' = [phase EXCEPT ![r] = "check"]
    BY <1>7 DEF Reaps
  <2> QED
    BY <1>1, <1>7, <2>2, <2>3, <2>4, AccountPolls
<1>8. ASSUME NEW p \in Rank, NEW r \in Rank, Land(p, r) \/ Ack(p, r)
      PROVE  Account(q)'
  BY <1>8, AccountFrame DEF Land, Ack, local, credit
<1>9. ASSUME Unnoticed PROVE Account(q)'
  <2>1. UNCHANGED phase[q] \/ ~Live(q)'
    BY <1>9 DEF Unnoticed, Live, Waiting
  <2> QED
    BY <1>9, <2>1, AccountFrame DEF Unnoticed
<1> QED
  BY <1>2, <1>3, <1>4, <1>5, <1>6, <1>7, <1>8, <1>9, StepCases

----------------------------------------------------------------------------
(* The theorems.                                                           *)

RecvInv == /\ SendInv /\ FifoInv /\ DataBeforeReturn
           /\ \A q \in Rank : Account(q)

\* No step counts as received what has not arrived.
LEMMA DataStep ==
  ASSUME TypeOK, TypeOK', Order', DataBeforeReturn, [Next]_vars,
         \A r \in Rank : Account(r)'
  PROVE  DataBeforeReturn'
<1>1. ASSUME UNCHANGED <<got, arrived>> PROVE DataBeforeReturn'
  BY <1>1 DEF DataBeforeReturn
<1>2. ASSUME NEW r \in Rank, Return(r) PROVE DataBeforeReturn'
  <2>1. ASSUME NEW q \in Rank, NEW p \in Rank, q # r
        PROVE  got'[q][p] <= arrived'[q][p]
    <3>1. UNCHANGED arrived /\ got'[q] = got[q]
      BY <1>2, <2>1 DEF Return, At, nic, TypeOK
    <3> QED
      BY <3>1 DEF DataBeforeReturn
  <2>2. ASSUME NEW p \in Rank PROVE got'[r][p] <= arrived'[r][p]
    <3>1. phase'[r] = "call"
      BY <1>2 DEF Return, TypeOK
    <3>2. recvReaped'[r][p] - recvSurplus_'[r][p] = got'[r][p] + 0
      BY <3>1 DEF Account, Live, Entry, RecvTaken, InCall, Waiting
    <3>3. recvReaped'[r][p] <= arrived'[r][p]
      BY DEF Order
    <3>4. /\ recvReaped'[r][p] \in Nat /\ recvSurplus_'[r][p] \in Nat
          /\ got'[r][p] \in Nat /\ arrived'[r][p] \in Nat
      BY SMT DEF TypeOK
    <3> QED
      BY SMT, <3>2, <3>3, <3>4
  <2> QED
    BY <2>1, <2>2 DEF DataBeforeReturn
<1>3. ASSUME NEW p \in Rank, NEW r \in Rank, Land(p, r) PROVE DataBeforeReturn'
  <2>1. UNCHANGED got /\ arrived' = At(arrived, r, p, arrived[r][p] + 1)
    BY <1>3 DEF Land
  <2>2. arrived \in [Rank -> [Rank -> Nat]]
    BY DEF TypeOK
  <2>3. \A q, x \in Rank : arrived'[q][x] \in Nat /\ arrived[q][x] <= arrived'[q][x]
    BY <2>1, <2>2, AtGrows
  <2>4. ASSUME NEW q \in Rank, NEW x \in Rank PROVE got[q][x] <= arrived'[q][x]
    <3>1. got[q][x] <= arrived[q][x]
      BY DEF DataBeforeReturn
    <3>2. arrived[q][x] <= arrived'[q][x] /\ arrived'[q][x] \in Nat
      BY <2>3
    <3>3. got[q][x] \in Nat /\ arrived[q][x] \in Nat
      BY EntryType
    <3> QED
      BY SMT, <3>1, <3>2, <3>3
  <2> QED
    BY <2>1, <2>4 DEF DataBeforeReturn
<1>4. ASSUME NEW r \in Rank,
             \/ Begin(r) \/ postRecvs(r) \/ PostXfer(r) \/ PostFails(r)
             \/ Moves(r) \/ Fails(r)
      PROVE  DataBeforeReturn'
  BY <1>1, <1>4 DEF Begin, postRecvs, PostXfer, PostFails, Moves, Fails, nic
<1>5. ASSUME NEW r, NEW p, NEW cs, NEW cr, NEW to, Reaps(r, p, cs, cr, to)
      PROVE  DataBeforeReturn'
  BY <1>1, <1>5 DEF Reaps
<1>6. ASSUME NEW p, NEW r, Ack(p, r) PROVE DataBeforeReturn'
  BY <1>1, <1>6 DEF Ack
<1>7. Unnoticed => DataBeforeReturn'
  BY <1>1 DEF Unnoticed
<1> QED
  BY <1>2, <1>3, <1>4, <1>5, <1>6, <1>7, StepCases

\* The invariant about receives is inductive.
LEMMA RecvInvStep == RecvInv /\ [Next]_vars => RecvInv'
<1> SUFFICES ASSUME RecvInv, [Next]_vars PROVE RecvInv'
  OBVIOUS
<1>1. SendInv'
  BY SendInvStep DEF RecvInv
<1>2. TypeOK /\ WaitsInXfer /\ MidIsSplit /\ Order /\ TypeOK' /\ Order'
  BY <1>1 DEF RecvInv, SendInv
<1>3. FifoInv'
  BY <1>2, FifoStep DEF RecvInv
<1>4. PrePostMatches /\ CrossPollSafe
  BY <1>2, FifoMatches, FifoCross DEF RecvInv
<1>5. \A q \in Rank : Account(q)'
  BY <1>2, <1>4, AccountStep DEF RecvInv
<1>6. DataBeforeReturn'
  BY <1>2, <1>5, DataStep DEF RecvInv
<1> QED
  BY <1>1, <1>3, <1>5, <1>6 DEF RecvInv

\* It holds initially.
LEMMA RecvInvInit ==
  ASSUME \A prog \in Programs : Disciplined(prog)
  PROVE  Init => RecvInv
<1> SUFFICES ASSUME Init PROVE RecvInv
  OBVIOUS
<1>1. SendInv /\ FifoInv
  BY SendInvInit, FifoInit
<1>2. \A r, p \in Rank : /\ recvPosted[r][p] = 0 /\ recvReaped[r][p] = 0
                         /\ recvSurplus_[r][p] = 0 /\ got[r][p] = 0
                         /\ arrived[r][p] = 0 /\ prePostedRecv[r][p] = <<>>
  BY DEF Init, PerPeer
<1>3. \A r \in Rank : ~Waiting(r)
  BY DEF Init, Waiting
<1>4. ASSUME NEW r \in Rank, NEW p \in Rank PROVE Entry(r, p)
  <2>1. RecvOpen(r, p) = 0 /\ RecvTaken(r, p) = 0
    BY <1>3 DEF RecvOpen, RecvTaken, InCall
  <2>2. IsSum(prePostedRecv[r][p], 0)
    BY <1>2, SumEmpty
  <2> QED
    BY SMT, <1>2, <2>1, <2>2 DEF Entry
<1>5. \A q \in Rank : Account(q)
  BY <1>3, <1>4 DEF Account, NoSurplusLeft
<1>6. DataBeforeReturn
  BY SMT, <1>2 DEF DataBeforeReturn
<1> QED
  BY <1>1, <1>5, <1>6 DEF RecvInv

\* The accounts leave a wait no fewer completions than it counts to.
LEMMA RecvInvNotStranded == RecvInv => NotStranded
<1> SUFFICES ASSUME RecvInv, NEW r \in Rank, Waiting(r)
             PROVE  /\ recvNeed[r] - recvDone[r]
                         <= recvPosted[r][Cur(r).from] - recvReaped[r][Cur(r).from]
                    /\ Cur(r).s - sendDone[r]
                         <= sendPosted[r][Cur(r).to] - sendReaped[r][Cur(r).to]
  BY DEF NotStranded
<1>0. TypeOK /\ WaitsInXfer /\ Order /\ SendAccount(r) /\ Account(r)
  BY DEF RecvInv, SendInv
<1>1. Cur(r).from \in Rank /\ Cur(r).to \in Rank /\ Cur(r).s \in Nat
  BY <1>0, WaitingCur
<1> DEFINE f == Cur(r).from
<1>2. sendPosted[r][Cur(r).to] - sendReaped[r][Cur(r).to] = Cur(r).s - sendDone[r]
  BY <1>0, <1>1 DEF SendAccount, SendOpen, Live
<1>3. Entry(r, f) /\ RecvOpen(r, f) = recvNeed[r] - recvDone[r]
  BY <1>0, <1>1 DEF Account, Live, RecvOpen, InCall
<1> HIDE DEF f
<1>4. PICK t \in Nat : recvPosted[r][f] - recvReaped[r][f] + recvSurplus_[r][f]
                         = t + (recvNeed[r] - recvDone[r])
  BY <1>3 DEF Entry
<1>5. /\ recvPosted[r][f] \in Nat /\ recvReaped[r][f] \in Nat
      /\ recvSurplus_[r][f] \in Nat /\ recvNeed[r] \in Nat
      /\ recvDone[r] \in Nat /\ arrived[r][f] \in Nat
  BY <1>0, <1>1, EntryType DEF f
<1>6. recvReaped[r][f] <= recvPosted[r][f]
  <2>1. recvReaped[r][f] <= arrived[r][f] /\ arrived[r][f] <= recvPosted[r][f]
    BY <1>0, <1>1 DEF Order, f
  <2> QED
    BY SMT, <1>5, <2>1
<1>7. recvNeed[r] > 0 => recvSurplus_[r][f] = 0
  BY <1>0 DEF Account, Live, NoSurplusLeft, f
<1>8. recvNeed[r] - recvDone[r] <= recvPosted[r][f] - recvReaped[r][f]
  BY SMT, <1>4, <1>5, <1>6, <1>7
<1>9. /\ Cur(r).s - sendDone[r] \in Int
      /\ sendPosted[r][Cur(r).to] - sendReaped[r][Cur(r).to] \in Int
  BY SMT, <1>0, <1>1, EntryType
<1> QED
  BY SMT, <1>2, <1>8, <1>9 DEF f

\* A rank is at one of its calls or behind the last.
InProgram == \A r \in Rank : pc[r] \in DOMAIN calls[r] \cup {Len(calls[r]) + 1}

\* Every step keeps it there.
LEMMA InProgramStep ==
  ASSUME TypeOK, WaitsInXfer, InProgram, [Next]_vars
  PROVE  InProgram'
<1>0. pc \in [Rank -> Nat \ {0}]
  BY DEF TypeOK
<1>1. UNCHANGED calls
  BY CallsStay
<1>2. ASSUME NEW q \in Rank, pc[q] \in DOMAIN calls[q], pc'[q] = pc[q] + 1
      PROVE  pc'[q] \in DOMAIN calls[q] \cup {Len(calls[q]) + 1}
  <2>1. calls[q] \in Seq(Call)
    BY ProgramsAssumption DEF TypeOK
  <2>2. Len(calls[q]) \in Nat /\ DOMAIN calls[q] = 1 .. Len(calls[q])
    BY SMT, <2>1
  <2> QED
    BY SMT, <1>2, <2>2
<1>3. ASSUME NEW r \in Rank, Begin(r) \/ postRecvs(r) \/ Return(r)
      PROVE  InProgram'
  <2>1. pc[r] \in DOMAIN calls[r]
    BY <1>3 DEF Begin, postRecvs, Return, WaitsInXfer, Waiting, Has
  <2>2. UNCHANGED pc \/ pc' = [pc EXCEPT ![r] = @ + 1]
    BY <1>3 DEF Begin, postRecvs, Return
  <2>3. ASSUME NEW q \in Rank
        PROVE  pc'[q] \in DOMAIN calls[q] \cup {Len(calls[q]) + 1}
    <3>1. pc'[q] = pc[q] \/ (q = r /\ pc'[q] = pc[q] + 1)
      BY <1>0, <2>2
    <3> QED
      BY <1>2, <2>1, <3>1 DEF InProgram
  <2> QED
    BY <1>1, <2>3 DEF InProgram
<1>4. ASSUME UNCHANGED pc PROVE InProgram'
  BY <1>1, <1>4 DEF InProgram
<1>5. ASSUME NEW r \in Rank, PostXfer(r) \/ PostFails(r) \/ Moves(r) \/ Fails(r)
      PROVE  InProgram'
  BY <1>4, <1>5 DEF PostXfer, PostFails, Moves, Fails, Fail
<1>6. ASSUME NEW r, NEW p, NEW cs, NEW cr, NEW to, Reaps(r, p, cs, cr, to)
      PROVE  InProgram'
  BY <1>4, <1>6 DEF Reaps
<1>7. ASSUME NEW p, NEW r, Land(p, r) \/ Ack(p, r) PROVE InProgram'
  BY <1>4, <1>7 DEF Land, Ack, local
<1>8. Unnoticed => InProgram'
  BY <1>4 DEF Unnoticed
<1> QED
  BY <1>3, <1>5, <1>6, <1>7, <1>8, StepCases

\* The first position is in a sequence, or behind it if it is empty.
LEMMA FirstOrEnd == ASSUME NEW n \in Nat PROVE 1 \in 1 .. n \cup {n + 1}
  BY SMT

\* A rank starts at its first call, or behind the last if it has none.
LEMMA InProgramInit == Init => InProgram
<1> SUFFICES ASSUME Init, NEW r \in Rank
             PROVE  1 \in DOMAIN calls[r] \cup {Len(calls[r]) + 1}
  BY DEF InProgram, Init
<1>1. calls[r] \in Seq(Call)
  BY ProgramsAssumption DEF Init
<1>2. Len(calls[r]) \in Nat /\ DOMAIN calls[r] = 1 .. Len(calls[r])
  BY SMT, <1>1
<1> QED
  BY <1>2, FirstOrEnd

\* Between operations the FIFOs are empty, and then so is the surplus.
LEMMA RecvInvClean == RecvInv /\ InProgram => CleanBetweenOps
<1> SUFFICES ASSUME RecvInv, InProgram, NEW r \in Rank, NEW p \in Rank,
                    phase[r] = "call", Has(r, "begin") \/ Finished(r)
             PROVE  prePostedRecv[r][p] = <<>> /\ recvSurplus_[r][p] = 0
  BY DEF CleanBetweenOps
<1>0. TypeOK /\ Order /\ FifoInv /\ Account(r)
  BY DEF RecvInv, SendInv
<1>1. PICK F : Follows(calls, F) /\ \A q \in Rank : AsPlanned(q, F)
  BY <1>0 DEF FifoInv
<1>2. prePostedRecv[r][p] = F[r][pc[r]][p]
  BY <1>1 DEF AsPlanned, Live, FifoBefore, Waiting
<1>3. F[r][pc[r]][p] = <<>>
  <2>1. pc[r] \in DOMAIN calls[r] => calls[r][pc[r]].op = "begin"
    BY DEF Has, Finished, Cur
  <2>2. pc[r] \in DOMAIN calls[r] \cup {Len(calls[r]) + 1}
    BY DEF InProgram
  <2> QED
    BY <1>1, <2>1, <2>2 DEF Follows, TakesAll
<1>4. Entry(r, p) /\ RecvOpen(r, p) = 0
  BY <1>0 DEF Account, Live, RecvOpen, InCall, Waiting
<1>5. PICK t \in Nat : /\ IsSum(prePostedRecv[r][p], t)
                       /\ recvPosted[r][p] - recvReaped[r][p]
                            + recvSurplus_[r][p] = t + 0
  BY <1>4 DEF Entry
<1>6. t = 0
  BY <1>2, <1>3, <1>5, SumEmpty
<1>7. recvPosted[r][p] - recvReaped[r][p] + recvSurplus_[r][p] = 0
  BY SMT, <1>5, <1>6
<1>8. /\ recvPosted[r][p] \in Nat /\ recvReaped[r][p] \in Nat
      /\ recvSurplus_[r][p] \in Nat /\ arrived[r][p] \in Nat
  BY <1>0, EntryType
<1>9. recvReaped[r][p] <= arrived[r][p] /\ arrived[r][p] <= recvPosted[r][p]
  BY <1>0 DEF Order
<1> QED
  BY SMT, <1>2, <1>3, <1>7, <1>8, <1>9

\* A collective that posts its receives in the order in which it will take
\* them finds each pre-posted receive of postRecvs at the front of its FIFO.
THEOREM ReceivesMatch ==
  ASSUME \A prog \in Programs : Disciplined(prog)
  PROVE  Spec => []PrePostMatches
<1>1. RecvInv => PrePostMatches
  BY FifoMatches DEF RecvInv, SendInv
<1> QED
  BY <1>1, RecvInvInit, RecvInvStep, PTL DEF Spec

\* And if no sendRecv over two peers sends to a peer for which a receive is
\* pre-posted, no completion is lost: what a polling loop counts to is still
\* to come.  This is what recvSurplus_ is for.
THEOREM NoCompletionLost ==
  ASSUME \A prog \in Programs : Disciplined(prog)
  PROVE  Spec => []NotStranded
BY RecvInvInit, RecvInvStep, RecvInvNotStranded, PTL DEF Spec

\* Under the same discipline recv and sendRecv return success only when the
\* data has landed, although completions are reaped ahead of their call.
THEOREM DataArrives ==
  ASSUME \A prog \in Programs : Disciplined(prog)
  PROVE  Spec => []DataBeforeReturn
<1>1. RecvInv => DataBeforeReturn
  BY DEF RecvInv
<1> QED
  BY <1>1, RecvInvInit, RecvInvStep, PTL DEF Spec

\* And an operation that takes all it has posted leaves no pre-posted receive
\* and no surplus completion to the next one.
THEOREM OperationsClean ==
  ASSUME \A prog \in Programs : Disciplined(prog)
  PROVE  Spec => []CleanBetweenOps
<1>1. RecvInv /\ InProgram /\ [Next]_vars => (RecvInv /\ InProgram)'
  BY RecvInvStep, InProgramStep DEF RecvInv, SendInv
<1> QED
  BY <1>1, RecvInvInit, InProgramInit, RecvInvClean, PTL DEF Spec

----------------------------------------------------------------------------
(* What a step shows of a rank.                                            *)

\* A rank that stays where it is shows the same.
LEMMA ShowsSame ==
  ASSUME NEW q \in Rank, UNCHANGED <<calls, pc[q], phase[q]>>
  PROVE  UNCHANGED <<state[q], due[q]>>
<1>1. UNCHANGED <<Waiting(q), Cur(q)>>
  BY DEF Waiting, Cur
<1> QED
  BY <1>1 DEF state, due

\* So does one that goes from one phase of a wait to another.
LEMMA ShowsBusy ==
  ASSUME NEW q \in Rank, UNCHANGED <<calls, pc[q]>>, Waiting(q), Waiting(q)'
  PROVE  UNCHANGED <<state[q], due[q]>>
<1>1. UNCHANGED Cur(q)
  BY DEF Cur
<1>2. phase[q] # "call" /\ phase'[q] # "call"
  BY DEF Waiting
<1> QED
  BY <1>1, <1>2 DEF state, due

\* A rank between two calls is due nothing.
LEMMA ShowsIdle ==
  ASSUME NEW q \in Rank, phase[q] = "call"
  PROVE  state[q] = "idle" /\ due[q] = T!Nothing
BY DEF state, due, Waiting, T!Nothing

\* A rank that has given up is due nothing.
LEMMA ShowsFailed ==
  ASSUME NEW q \in Rank, phase[q] \in {"failed", "crashed"}
  PROVE  state[q] = "failed" /\ due[q] = T!Nothing
BY DEF state, due, Waiting, T!Nothing

\* When all ranks show the same and no counter moves, nothing is to be seen.
LEMMA Unseen ==
  ASSUME \A q \in Rank : UNCHANGED <<state[q], due[q]>>,
         UNCHANGED <<arrived, sendPosted, got>>
  PROVE  UNCHANGED T!vars
<1>1. UNCHANGED state
  BY DEF state
<1>2. UNCHANGED due
  BY DEF due
<1>3. UNCHANGED moved
  BY DEF moved
<1> QED
  BY <1>1, <1>2, <1>3 DEF T!vars

\* A step that changes what one rank shows.
LEMMA OnlyShown ==
  ASSUME NEW r \in Rank, NEW s, NEW d,
         \A q \in Rank \ {r} : UNCHANGED <<state[q], due[q]>>,
         state'[r] = s, due'[r] = d
  PROVE  state' = [state EXCEPT ![r] = s] /\ due' = [due EXCEPT ![r] = d]
<1>1. /\ DOMAIN state = Rank /\ state = [q \in Rank |-> state[q]]
      /\ state' = [q \in Rank |-> state'[q]]
  BY DEF state
<1>2. /\ DOMAIN due = Rank /\ due = [q \in Rank |-> due[q]]
      /\ due' = [q \in Rank |-> due'[q]]
  BY DEF due
<1>3. state' = [state EXCEPT ![r] = s]
  BY <1>1
<1>4. due' = [due EXCEPT ![r] = d]
  BY <1>2
<1> QED
  BY <1>3, <1>4

\* What is due is a table of numbers of WRs.
LEMMA DueType == TypeOK /\ WaitsInXfer => due \in T!Table
<1> SUFFICES ASSUME TypeOK, WaitsInXfer, NEW r \in Rank, NEW p \in Rank
             PROVE  (IF Waiting(r) /\ Cur(r).from = p THEN Cur(r).r ELSE 0) \in Nat
  BY DEF due, T!Table
<1> QED
  BY WaitingCur

----------------------------------------------------------------------------
(* The steps.                                                              *)

\* PostXfer is a call.
LEMMA CallRefined ==
  ASSUME RecvInv, TypeOK', NEW r \in Rank, PostXfer(r)
  PROVE  T!Call(r)
<1>0. /\ TypeOK /\ phase \in [Rank -> Phase]
      /\ sendPosted \in [Rank -> [Rank -> Nat]]
  BY DEF RecvInv, SendInv, TypeOK
<1>1. /\ phase[r] = "call" /\ phase' = [phase EXCEPT ![r] = "loop"]
      /\ UNCHANGED <<calls, pc, arrived, got>>
  BY DEF PostXfer, nic
<1>2. state[r] = "idle" /\ due[r] = T!Nothing
  BY <1>1, ShowsIdle
<1>3. \A q \in Rank \ {r} : UNCHANGED <<state[q], due[q]>>
  BY <1>0, <1>1, ShowsSame
<1>4. state'[r] = "busy"
  BY <1>0, <1>1 DEF state, Waiting
<1>5. /\ state' = [state EXCEPT ![r] = "busy"]
      /\ due' = [due EXCEPT ![r] = due'[r]]
  BY SMT, <1>3, <1>4, OnlyShown
<1>6. due' \in T!Table
  <2>1. Cur(r)' = Cur(r) /\ Cur(r).r \in Nat /\ Waiting(r)'
    BY <1>0, <1>1, CurType DEF Cur, Waiting, PostXfer, Has
  <2>2. due'[r] = [p \in Rank |-> IF Cur(r).from = p THEN Cur(r).r ELSE 0]
    BY <2>1 DEF due
  <2>3. due'[r] \in [Rank -> Nat]
    BY SMT, <2>1, <2>2
  <2>4. due \in T!Table
    BY <1>0, DueType DEF RecvInv, SendInv
  <2> QED
    BY <1>5, <2>3, <2>4, SMTT(20) DEF T!Table
<1>7. T!GrowsAt(due, due', r)
  BY SMT, <1>2, <1>3, <1>6 DEF T!GrowsAt, T!Nothing, T!Table
<1>8. T!GrowsAt(sendPosted, sendPosted', r)
  <2>1. sendPosted' \in T!Table
    BY DEF TypeOK, T!Table
  <2>2. \A p \in Rank : sendPosted[r][p] <= sendPosted'[r][p]
    BY <1>0, PostsGrow
  <2>3. \A q \in Rank \ {r} : sendPosted'[q] = sendPosted[q]
    BY <1>0 DEF PostXfer, At
  <2> QED
    BY <2>1, <2>2, <2>3 DEF T!GrowsAt
<1>9. UNCHANGED moved
  BY <1>1 DEF moved
<1> QED
  BY <1>1, <1>2, <1>5, <1>7, <1>8, <1>9 DEF T!Call

\* An error return, at the entry of an operation, from a post or from a wait,
\* and a crash, are failures; of a rank that had failed they show nothing.
LEMMA FailRefined ==
  ASSUME TypeOK, TypeOK', NEW r \in Rank,
         phase'[r] \in {"failed", "crashed"},
         \A q \in Rank \ {r} : phase'[q] = phase[q] /\ sendPosted'[q] = sendPosted[q],
         \A p \in Rank : sendPosted[r][p] <= sendPosted'[r][p],
         phase[r] \in {"failed", "crashed"} => UNCHANGED sendPosted,
         UNCHANGED <<calls, pc, arrived, got>>
  PROVE  T!Fail(r) \/ UNCHANGED T!vars
<1>1. \A q \in Rank \ {r} : UNCHANGED <<state[q], due[q]>>
  BY ShowsSame
<1>2. state'[r] = "failed" /\ due'[r] = T!Nothing
  BY DEF state, due, Waiting, T!Nothing
<1>3. CASE phase[r] \in {"failed", "crashed"}
  <2>1. UNCHANGED <<state[r], due[r]>>
    BY <1>2, <1>3, ShowsFailed
  <2>2. \A q \in Rank : UNCHANGED <<state[q], due[q]>>
    BY <1>1, <2>1
  <2> QED
    BY <1>3, <2>2, Unseen
<1>4. CASE phase[r] \notin {"failed", "crashed"}
  <2>1. state[r] # "failed"
    BY <1>4 DEF state, Waiting, TypeOK, Phase
  <2>2. /\ state' = [state EXCEPT ![r] = "failed"]
        /\ due' = [due EXCEPT ![r] = T!Nothing]
    BY <1>1, <1>2, OnlyShown
  <2>3. T!GrowsAt(sendPosted, sendPosted', r)
    BY DEF T!GrowsAt, T!Table, TypeOK
  <2>4. UNCHANGED moved
    BY DEF moved
  <2> QED
    BY <2>1, <2>2, <2>3, <2>4 DEF T!Fail
<1> QED
  BY <1>3, <1>4

\* Return is a successful return: the send side has nothing open, and what the
\* call counted has landed.
LEMMA ReturnRefined ==
  ASSUME RecvInv, RecvInv', NEW r \in Rank, Return(r)
  PROVE  T!Return(r)
<1>0. /\ TypeOK /\ WaitsInXfer /\ phase \in [Rank -> Phase]
      /\ pc \in [Rank -> Nat \ {0}] /\ got \in [Rank -> [Rank -> Nat]]
  BY DEF RecvInv, SendInv, TypeOK
<1>1. /\ phase[r] = "loop" /\ phase' = [phase EXCEPT ![r] = "call"]
      /\ pc' = [pc EXCEPT ![r] = @ + 1]
      /\ got' = At(got, r, Cur(r).from, got[r][Cur(r).from] + Cur(r).r)
      /\ UNCHANGED <<calls, arrived, acked, sendPosted>>
  BY DEF Return, nic
<1>2. phase'[r] = "call" /\ Waiting(r)
  BY <1>0, <1>1 DEF Waiting
<1>3. Cur(r).from \in Rank /\ Cur(r).r \in Nat
  BY <1>0, <1>2, WaitingCur
<1>4. \A q \in Rank \ {r} : UNCHANGED <<state[q], due[q]>>
  BY <1>0, <1>1, ShowsSame
<1>5. state[r] = "busy" /\ state'[r] = "idle" /\ due'[r] = T!Nothing
  BY <1>1, <1>2 DEF state, due, Waiting, T!Nothing
<1>6. /\ state' = [state EXCEPT ![r] = "idle"]
      /\ due' = [due EXCEPT ![r] = T!Nothing]
  BY <1>4, <1>5, OnlyShown
<1>7. ASSUME NEW p \in Rank
      PROVE  moved[r][p] = sendPosted[r][p]
  <2>1. acked[r][p] = sendPosted[r][p]
    <3>1. (SendInv => SendBufferFree)'
      BY SendInvFree, PTL
    <3> QED
      BY <1>1, <1>2, <3>1 DEF RecvInv, SendBufferFree
  <2>2. acked[r][p] <= arrived[p][r] /\ arrived[p][r] <= sendPosted[r][p]
    BY DEF RecvInv, SendInv, Order
  <2>3. arrived[p][r] \in Nat /\ sendPosted[r][p] \in Nat
    BY <1>0, EntryType
  <2>4. arrived[p][r] = sendPosted[r][p]
    BY SMT, <2>1, <2>2, <2>3
  <2> QED
    BY <2>4 DEF moved
<1>8. ASSUME NEW p \in Rank
      PROVE  got'[r][p] = got[r][p] + due[r][p]
  <2>1. due[r][p] = IF Cur(r).from = p THEN Cur(r).r ELSE 0
    BY <1>2 DEF due
  <2>2. got'[r][p] = IF p = Cur(r).from THEN got[r][Cur(r).from] + Cur(r).r
                     ELSE got[r][p]
    BY SMT, <1>0, <1>1, <1>3, AtApply
  <2>3. got[r][p] \in Nat
    BY <1>0
  <2> QED
    BY SMT, <2>1, <2>2, <2>3
<1>9. got' = [got EXCEPT ![r] = [p \in Rank |-> got[r][p] + due[r][p]]]
  <2>1. got' \in [Rank -> [Rank -> Nat]]
    BY DEF RecvInv, SendInv, TypeOK
  <2>2. \A q \in Rank \ {r} : got'[q] = got[q]
    BY <1>0, <1>1 DEF At
  <2>3. got'[r] = [p \in Rank |-> got[r][p] + due[r][p]]
    BY <1>8, <2>1
  <2> QED
    BY <1>0, <2>1, <2>2, <2>3
<1>10. \A p \in Rank : got[r][p] + due[r][p] <= moved[p][r]
  BY <1>1, <1>8 DEF RecvInv, DataBeforeReturn, moved
<1>11. UNCHANGED moved
  BY <1>1 DEF moved
<1> QED
  BY <1>1, <1>5, <1>6, <1>7, <1>9, <1>10, <1>11 DEF T!Return

\* Land moves data.
LEMMA MoveRefined ==
  ASSUME TypeOK, TypeOK', Order', NEW p \in Rank, NEW r \in Rank, Land(p, r)
  PROVE  T!Move(p)
<1>1. /\ UNCHANGED <<calls, pc, phase, sendPosted, got>>
      /\ arrived' = At(arrived, r, p, arrived[r][p] + 1)
  BY DEF Land, local
<1>2. arrived \in [Rank -> [Rank -> Nat]] /\ arrived' \in [Rank -> [Rank -> Nat]]
  BY DEF TypeOK
<1>3. UNCHANGED <<state, due>>
  BY <1>1 DEF state, due, Waiting, Cur
<1>4. \A q, x \in Rank : /\ arrived[q][x] <= arrived'[q][x]
                         /\ x # p => arrived'[q][x] = arrived[q][x]
  <2>1. \A q, x \in Rank : arrived[q][x] <= arrived'[q][x]
    BY <1>1, <1>2, AtGrows
  <2>2. \A q, x \in Rank : x # p => arrived'[q][x] = arrived[q][x]
    BY SMT, <1>1, <1>2, AtApply
  <2> QED
    BY <2>1, <2>2
<1>5. T!GrowsAt(moved, moved', p)
  <2>1. moved' \in T!Table
    BY <1>2 DEF moved, T!Table
  <2>2. \A q \in Rank \ {p} : moved'[q] = moved[q]
    BY <1>4 DEF moved
  <2>3. \A x \in Rank : moved[p][x] <= moved'[p][x]
    BY <1>4 DEF moved
  <2> QED
    BY <2>1, <2>2, <2>3 DEF T!GrowsAt
<1>6. \A x \in Rank : moved'[p][x] <= sendPosted[p][x]
  BY <1>1 DEF moved, Order
<1> QED
  BY <1>1, <1>3, <1>5, <1>6 DEF T!Move

\* A step of one rank between two calls shows nothing.
LEMMA IdleUnseen ==
  ASSUME NEW r \in Rank, phase[r] = "call", phase'[r] = "call",
         \A q \in Rank \ {r} : pc'[q] = pc[q] /\ phase'[q] = phase[q],
         UNCHANGED <<calls, arrived, sendPosted, got>>
  PROVE  UNCHANGED T!vars
<1>1. \A q \in Rank \ {r} : UNCHANGED <<state[q], due[q]>>
  BY ShowsSame
<1>2. UNCHANGED <<state[r], due[r]>>
  BY DEF state, due, Waiting
<1>3. \A q \in Rank : UNCHANGED <<state[q], due[q]>>
  BY <1>1, <1>2
<1> QED
  BY <1>3, Unseen

\* Nor does one from a phase of a wait to another.
LEMMA BusyUnseen ==
  ASSUME TypeOK, NEW r \in Rank, NEW to \in {"loop", "mid", "check"},
         Waiting(r), phase' = [phase EXCEPT ![r] = to],
         UNCHANGED <<calls, pc, arrived, sendPosted, got>>
  PROVE  UNCHANGED T!vars
<1>1. phase \in [Rank -> Phase]
  BY DEF TypeOK
<1>2. \A q \in Rank \ {r} : UNCHANGED <<state[q], due[q]>>
  BY <1>1, ShowsSame
<1>3. Waiting(r)'
  BY <1>1 DEF Waiting
<1>4. UNCHANGED <<state[r], due[r]>>
  BY <1>3, ShowsBusy
<1>5. \A q \in Rank : UNCHANGED <<state[q], due[q]>>
  BY <1>2, <1>4
<1> QED
  BY <1>5, Unseen

\* Every step is a step of the contract or shows nothing of it.
LEMMA StepRefined ==
  ASSUME RecvInv, RecvInv', [Next]_vars
  PROVE  [T!Next]_(T!vars)
<1>0. /\ TypeOK /\ TypeOK' /\ Order' /\ phase \in [Rank -> Phase]
      /\ pc \in [Rank -> Nat \ {0}] /\ sendPosted \in [Rank -> [Rank -> Nat]]
  BY DEF RecvInv, SendInv, TypeOK
<1>1. ASSUME NEW r \in Rank, T!Call(r) \/ T!Move(r) \/ T!Return(r) \/ T!Fail(r)
      PROVE  T!Next
  BY <1>1 DEF T!Next
<1>2. ASSUME NEW r \in Rank, Begin(r) PROVE [T!Next]_(T!vars)
  <2>1. UNCHANGED <<calls, arrived, sendPosted, got>>
    BY <1>2 DEF Begin, nic
  <2>2. CASE phase' = [phase EXCEPT ![r] = "failed"] /\ UNCHANGED pc
    <3>1. phase[r] = "call"
      BY <1>2 DEF Begin
    <3>2. \A p \in Rank : sendPosted[r][p] <= sendPosted'[r][p]
      BY SMT, <1>0, <2>1, EntryType
    <3> QED
      BY SMT, <1>0, <1>1, <2>1, <2>2, <3>1, <3>2, FailRefined
  <2>3. CASE pc' = [pc EXCEPT ![r] = @ + 1] /\ UNCHANGED phase
    <3>1. phase[r] = "call"
      BY <1>2 DEF Begin
    <3> QED
      BY <1>0, <2>1, <2>3, <3>1, IdleUnseen
  <2> QED
    BY <1>2, <2>2, <2>3 DEF Begin
<1>3. ASSUME NEW r \in Rank, postRecvs(r) PROVE UNCHANGED T!vars
  <2>1. /\ phase[r] = "call" /\ pc' = [pc EXCEPT ![r] = @ + 1]
        /\ UNCHANGED <<calls, phase, arrived, sendPosted, got>>
    BY <1>3 DEF postRecvs, nic
  <2> QED
    BY <1>0, <2>1, IdleUnseen
<1>4. ASSUME NEW r \in Rank, PostXfer(r) PROVE T!Next
  BY <1>0, <1>1, <1>4, CallRefined
<1>5. ASSUME NEW r \in Rank, PostFails(r) PROVE [T!Next]_(T!vars)
  <2>1. /\ phase[r] = "call" /\ phase' = [phase EXCEPT ![r] = "failed"]
        /\ UNCHANGED <<calls, pc, arrived, got>>
    BY <1>5 DEF PostFails, Fail, nic
  <2>2. \A p \in Rank : sendPosted[r][p] <= sendPosted'[r][p]
    BY <1>0, <1>5, PostsGrow
  <2>3. \A q \in Rank \ {r} : sendPosted'[q] = sendPosted[q]
    BY <1>0, <1>5 DEF PostFails, At
  <2> QED
    BY <1>0, <1>1, <2>1, <2>2, <2>3, FailRefined
<1>6. ASSUME NEW r \in Rank, Return(r) PROVE T!Next
  BY <1>1, <1>6, ReturnRefined
<1>7. ASSUME NEW r \in Rank, Moves(r) PROVE UNCHANGED T!vars
  BY <1>0, <1>7, BusyUnseen DEF Moves
<1>8. ASSUME NEW r \in Rank, Fails(r) PROVE [T!Next]_(T!vars)
  <2>1. /\ phase' = [phase EXCEPT ![r] = "failed"]
        /\ UNCHANGED <<calls, pc, arrived, sendPosted, got>>
    BY <1>8 DEF Fails, Fail
  <2>2. \A p \in Rank : sendPosted[r][p] <= sendPosted'[r][p]
    BY SMT, <1>0, <2>1, EntryType
  <2> QED
    BY SMT, <1>0, <1>1, <2>1, <2>2, FailRefined
<1>9. ASSUME NEW r \in Rank, NEW p, NEW cs, NEW cr, NEW to \in {"mid", "check"},
             Waiting(r), Reaps(r, p, cs, cr, to)
      PROVE  UNCHANGED T!vars
  <2>1. /\ phase' = [phase EXCEPT ![r] = to]
        /\ UNCHANGED <<calls, pc, arrived, sendPosted, got>>
    BY <1>9 DEF Reaps
  <2> QED
    BY <1>0, <1>9, <2>1, BusyUnseen
<1>10. ASSUME NEW p \in Rank, NEW r \in Rank, Land(p, r) PROVE T!Next
  BY <1>0, <1>1, <1>10, MoveRefined
<1>11. ASSUME NEW p \in Rank, NEW r \in Rank, Ack(p, r) PROVE UNCHANGED T!vars
  <2>1. UNCHANGED <<calls, pc, phase, arrived, sendPosted, got>>
    BY <1>11 DEF Ack, local
  <2>2. \A q \in Rank : UNCHANGED <<state[q], due[q]>>
    BY <2>1, ShowsSame
  <2> QED
    BY <2>1, <2>2, Unseen
<1>12. ASSUME Unnoticed PROVE [T!Next]_(T!vars)
  <2>1. UNCHANGED <<calls, pc, arrived, sendPosted, got>>
    BY <1>12 DEF Unnoticed
  <2>2. CASE \A q \in Rank : phase'[q] = phase[q]
    <3>1. \A q \in Rank : UNCHANGED <<state[q], due[q]>>
      BY <2>1, <2>2, ShowsSame
    <3> QED
      BY <2>1, <3>1, Unseen
  <2>3. ASSUME NEW r \in Rank, phase'[r] # phase[r] PROVE [T!Next]_(T!vars)
    <3>1. phase'[r] = "crashed" /\ \A q \in Rank \ {r} : phase'[q] = phase[q]
      BY <1>12, <2>3 DEF Unnoticed
    <3>2. \A p \in Rank : sendPosted[r][p] <= sendPosted'[r][p]
      BY SMT, <1>0, <2>1, EntryType
    <3> QED
      BY <1>0, <1>1, <2>1, <3>1, <3>2, FailRefined
  <2> QED
    BY <2>2, <2>3
<1>13. \A r \in Rank : phase[r] = "loop" \/ phase[r] = "mid" => Waiting(r)
  BY DEF Waiting
<1> QED
  BY <1>0, <1>2, <1>3, <1>4, <1>5, <1>6, <1>7, <1>8, <1>9, <1>10, <1>11,
     <1>12, <1>13, StepCases

\* The RDMA transport keeps the contract of transport.h whatever the queue
\* depth, the number of ranks and the faults, for every operation that takes
\* its pre-posted receives in the order in which it posted them.
THEOREM VerbsImplementsTransport ==
  ASSUME \A prog \in Programs : Disciplined(prog)
  PROVE  Spec => ImplementsTransport
<1>1. Init => T!Init
  <2> SUFFICES ASSUME Init PROVE T!Init
    OBVIOUS
  <2>1. state = [r \in Rank |-> "idle"] /\ due = [r \in Rank |-> T!Nothing]
    BY DEF Init, state, due, Waiting, T!Nothing
  <2>2. moved = [r \in Rank |-> T!Nothing]
    BY DEF Init, moved, PerPeer, T!Nothing
  <2>3. got = [r \in Rank |-> T!Nothing] /\ sendPosted = [r \in Rank |-> T!Nothing]
    BY DEF Init, PerPeer, T!Nothing
  <2> QED
    BY <2>1, <2>2, <2>3 DEF T!Init
<1>2. RecvInv /\ RecvInv' /\ [Next]_vars => [T!Next]_(T!vars)
  BY StepRefined
<1> QED
  BY <1>1, <1>2, RecvInvInit, RecvInvStep, PTL
     DEF Spec, ImplementsTransport, T!Spec

=============================================================================
