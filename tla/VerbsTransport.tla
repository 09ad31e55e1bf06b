--------------------------- MODULE VerbsTransport ---------------------------
(***************************************************************************)
(* The point-to-point engine of the RDMA transport, src/transport/verbs.cc.*)
(* Every rank runs one thread through a list of transport calls, the ones  *)
(* a collective makes: postRecvs (pre-posted receives), send, recv and     *)
(* sendRecv.  A call posts work requests (WRs) on the reliable queue pair  *)
(* it has with each peer and spins on completion queues, one per peer and  *)
(* shared by the sends and the receives of that peer, until the WRs of the *)
(* call are done.                                                          *)
(*                                                                         *)
(* A queue pair delivers in order, so the WRs of one direction are         *)
(* counted, not listed: the k-th send of p to r lands in the k-th receive  *)
(* r posted for p.  A completion queue is what has completed minus what    *)
(* has been reaped.  Payloads are left to module Collectives.              *)
(***************************************************************************)
EXTENDS Integers, Sequences

CONSTANTS Rank,        \* the ranks of the communicator
          Programs,    \* the operations: which calls each rank makes
          kQueueDepth, \* send and receive queue length of a queue pair
          PollBatch,   \* most completions one ibv_poll_cq returns
          Faults       \* per operation, what may go wrong, and where

FaultKind == {"timeout", "abort", "asyncFatal", "crash", "post"}

\* A transport call.  "post" is one request of postRecvs; "xfer" is sendRecv,
\* and send and recv with the other direction empty and to = from; "begin" is
\* the entry of the next public operation.  s and r are numbers of WRs: one
\* per started kMaxSegBytes of the message, none for an empty message.
Call == [op : {"begin", "post", "xfer"}, to : Rank, s : Nat,
         from : Rank, r : Nat]

ASSUME ProgramsAssumption == Programs \subseteq [Rank -> Seq(Call)]

ASSUME LimitsAssumption == /\ kQueueDepth \in Nat \ {0}
                           /\ PollBatch \in Nat \ {0}
                           /\ Faults \in [Programs -> SUBSET (FaultKind \X Rank)]

VARIABLES
  calls,         \* the program being run, chosen at the start
  mayMeet,       \* and what may go wrong while it runs
  pc,            \* index of the rank's next or current call
  phase,         \* where the rank is in that call
  sendDone,      \* the completion counters of the call's polling loop
  recvDone,
  recvNeed,
  prePostedRecv, \* per peer, FIFO of the WR counts of pre-posted receives
  recvSurplus_,  \* per peer, receive completions reaped ahead of their step
  sendPosted,    \* per peer, WRs posted, ...
  recvPosted,
  arrived,       \* ... messages landed in this rank's receives, ...
  acked,         \* ... sends acknowledged, ...
  sendReaped,    \* ... and completions taken off the completion queue
  recvReaped,
  broken,        \* peers whose queue pair is in the error state
  aborted_,      \* vcclCommAbort has been called
  asyncFatal_,   \* a fatal async event has been seen
  got            \* history: receive WRs of the calls that returned success

local == <<calls, pc, phase, sendDone, recvDone, recvNeed>>
credit == <<prePostedRecv, recvSurplus_>>
nic == <<arrived, acked, broken>>
flags == <<aborted_, asyncFatal_, mayMeet>>
vars == <<local, credit, nic, flags, sendPosted, recvPosted, sendReaped,
          recvReaped, got>>

Phase == {"call", "loop", "mid", "check", "failed", "crashed"}

----------------------------------------------------------------------------

Lesser(a, b) == IF a < b THEN a ELSE b

PerPeer(v) == [r \in Rank |-> [p \in Rank |-> v]]

\* f with v in place of f[r][p].
At(f, r, p, v) == [f EXCEPT ![r][p] = v]

Cur(r) == calls[r][pc[r]]

Has(r, op) == pc[r] \in DOMAIN calls[r] /\ Cur(r).op = op

Split(c) == c.to # c.from

\* The rank has made all its calls.
Finished(r) == phase[r] = "call" /\ pc[r] \notin DOMAIN calls[r]

\* The thread is inside a call that waits for completions.
Waiting(r) == phase[r] \in {"loop", "mid", "check"}

\* createQp: room for the completions of both directions.
BugOneDirection == kQueueDepth
CqDepth == 2 * kQueueDepth

CqSend(r, p) == acked[r][p] - sendReaped[r][p]

CqRecv(r, p) == arrived[r][p] - recvReaped[r][p]

Init ==
  /\ calls \in Programs
  /\ mayMeet = Faults[calls]
  /\ pc = [r \in Rank |-> 1]
  /\ phase = [r \in Rank |-> "call"]
  /\ sendDone = [r \in Rank |-> 0]
  /\ recvDone = [r \in Rank |-> 0]
  /\ recvNeed = [r \in Rank |-> 0]
  /\ prePostedRecv = PerPeer(<<>>)
  /\ recvSurplus_ = PerPeer(0)
  /\ sendPosted = PerPeer(0)
  /\ recvPosted = PerPeer(0)
  /\ arrived = PerPeer(0)
  /\ acked = PerPeer(0)
  /\ sendReaped = PerPeer(0)
  /\ recvReaped = PerPeer(0)
  /\ broken = [r \in Rank |-> {}]
  /\ aborted_ = [r \in Rank |-> FALSE]
  /\ asyncFatal_ = [r \in Rank |-> FALSE]
  /\ got = PerPeer(0)

----------------------------------------------------------------------------
(* Errors.  Every call holds a DrainGuard: an error return runs            *)
(* discardPending.  The programs are collectives and groups: their caller  *)
(* latches the communicator (noteError), so the rank makes no further      *)
(* call.  A send or receive outside a group is not noted, and its          *)
(* communicator could be used again: that is left out here.                *)

discardPending(r) ==
  /\ prePostedRecv' = [prePostedRecv EXCEPT ![r] = [p \in Rank |-> <<>>]]
  /\ recvSurplus_' = [recvSurplus_ EXCEPT ![r] = [p \in Rank |-> 0]]

Fail(r) ==
  /\ phase' = [phase EXCEPT ![r] = "failed"]
  /\ discardPending(r)
  /\ UNCHANGED <<calls, pc, sendDone, recvDone, recvNeed>>

----------------------------------------------------------------------------
(* Posting.                                                                *)

\* checkComm at the entry of a public operation.
Begin(r) ==
  /\ phase[r] = "call" /\ Has(r, "begin")
  /\ \/ /\ ~aborted_[r]
        /\ pc' = [pc EXCEPT ![r] = @ + 1]
        /\ UNCHANGED <<calls, phase, sendDone, recvDone, recvNeed, credit>>
     \/ /\ aborted_[r]
        /\ phase' = [phase EXCEPT ![r] = "failed"]
        /\ UNCHANGED <<calls, pc, sendDone, recvDone, recvNeed, credit>>
  /\ UNCHANGED <<nic, flags, sendPosted, recvPosted, sendReaped, recvReaped,
                 got>>

\* Room for w more WRs: a slot is free once its completion is reaped.
RecvRoom(r, p, w) == recvPosted[r][p] - recvReaped[r][p] + w <= kQueueDepth

SendRoom(r, p, w) == sendPosted[r][p] - sendReaped[r][p] + w <= kQueueDepth

\* The FIFO with a request of w WRs behind it; an empty message is skipped.
BugEnqueueEmpty(q, w) == Append(q, w)
Enqueue(q, w) == IF w = 0 THEN q ELSE Append(q, w)

\* One request of postRecvs.
postRecvs(r) ==
  /\ phase[r] = "call" /\ Has(r, "post")
  /\ LET c == Cur(r) IN
     /\ RecvRoom(r, c.from, c.r)
     /\ recvPosted' = At(recvPosted, r, c.from, recvPosted[r][c.from] + c.r)
     /\ prePostedRecv' = At(prePostedRecv, r, c.from,
                            Enqueue(prePostedRecv[r][c.from], c.r))
     /\ pc' = [pc EXCEPT ![r] = @ + 1]
  /\ UNCHANGED <<calls, phase, sendDone, recvDone, recvNeed, recvSurplus_, nic,
                 flags, sendPosted, sendReaped, recvReaped, got>>

\* A receive of the current call was pre-posted and waits in the FIFO.
Preposted(r) == Cur(r).r > 0 /\ prePostedRecv[r][Cur(r).from] # <<>>

\* The receive WRs the call waits for.
RecvWrs(r) == IF Preposted(r) THEN Head(prePostedRecv[r][Cur(r).from])
              ELSE Cur(r).r

\* How much of a need the credited completions cover.
BugTakeAll(r, p, want) == want
takeRecvSurplus(r, p, want) == Lesser(want, recvSurplus_[r][p])

\* send, recv, sendRecv up to their polling loop: take the pre-posted receive
\* or post one, post the send, and draw down the surplus of the peer.
PostXfer(r) ==
  /\ phase[r] = "call" /\ Has(r, "xfer")
  /\ LET c == Cur(r)
         use == takeRecvSurplus(r, c.from, RecvWrs(r))
         fresh == IF Preposted(r) THEN 0 ELSE c.r IN
     /\ RecvRoom(r, c.from, fresh) /\ SendRoom(r, c.to, c.s)
     /\ recvPosted' = At(recvPosted, r, c.from, recvPosted[r][c.from] + fresh)
     /\ sendPosted' = At(sendPosted, r, c.to, sendPosted[r][c.to] + c.s)
     /\ prePostedRecv' = IF Preposted(r)
                         THEN At(prePostedRecv, r, c.from,
                                 Tail(prePostedRecv[r][c.from]))
                         ELSE prePostedRecv
     /\ recvSurplus_' = At(recvSurplus_, r, c.from,
                           recvSurplus_[r][c.from] - use)
     /\ recvNeed' = [recvNeed EXCEPT ![r] = RecvWrs(r) - use]
     /\ sendDone' = [sendDone EXCEPT ![r] = 0]
     /\ recvDone' = [recvDone EXCEPT ![r] = 0]
     /\ phase' = [phase EXCEPT ![r] = "loop"]
  /\ UNCHANGED <<calls, pc, nic, flags, sendReaped, recvReaped, got>>

\* ibv_post_recv or ibv_post_send fails, for a full queue or another reason,
\* with k WRs of the message already posted.
PostFails(r) ==
  /\ phase[r] = "call" /\ (Has(r, "post") \/ Has(r, "xfer"))
  /\ LET c == Cur(r)
         fresh == IF c.op = "xfer" /\ Preposted(r) THEN 0 ELSE c.r
         May(room) == <<"post", r>> \in mayMeet \/ ~room IN
     \/ \E k \in 0 .. fresh - 1 :
          /\ May(RecvRoom(r, c.from, fresh)) /\ RecvRoom(r, c.from, k)
          /\ recvPosted' = At(recvPosted, r, c.from, recvPosted[r][c.from] + k)
          /\ UNCHANGED sendPosted
     \/ \E k \in 0 .. c.s - 1 :
          /\ c.op = "xfer" /\ RecvRoom(r, c.from, fresh)
          /\ May(SendRoom(r, c.to, c.s)) /\ SendRoom(r, c.to, k)
          /\ recvPosted' = At(recvPosted, r, c.from,
                              recvPosted[r][c.from] + fresh)
          /\ sendPosted' = At(sendPosted, r, c.to, sendPosted[r][c.to] + k)
  /\ Fail(r)
  /\ UNCHANGED <<nic, flags, sendReaped, recvReaped, got>>

----------------------------------------------------------------------------
(* Polling.                                                                *)

\* What one ibv_poll_cq of peer p's queue may return: PollBatch completions,
\* or all there are.  The order of sends and receives in the queue is left
\* open.
Reapable(r, p) ==
  {w \in (0 .. CqSend(r, p)) \X (0 .. CqRecv(r, p)) :
     w[1] + w[2] = Lesser(PollBatch, CqSend(r, p) + CqRecv(r, p))}

\* The poll meets an error completion behind the successful ones.
PollError(r, p) == p \in broken[r] /\ CqSend(r, p) + CqRecv(r, p) < PollBatch

\* pollOnce(peer, &sendDone, &recvDone).  A counter that is not passed
\* (nullptr) drops the completions of its direction.
pollOnce(r, p, countSend, countRecv, to) ==
  \/ /\ PollError(r, p)
     /\ Fail(r)
     /\ UNCHANGED <<sendReaped, recvReaped>>
  \/ /\ ~PollError(r, p)
     /\ \E w \in Reapable(r, p) :
          /\ sendReaped' = At(sendReaped, r, p, sendReaped[r][p] + w[1])
          /\ recvReaped' = At(recvReaped, r, p, recvReaped[r][p] + w[2])
          /\ sendDone' = IF countSend
                         THEN [sendDone EXCEPT ![r] = @ + w[1]] ELSE sendDone
          /\ recvDone' = IF countRecv
                         THEN [recvDone EXCEPT ![r] = @ + w[2]] ELSE recvDone
     /\ phase' = [phase EXCEPT ![r] = to]
     /\ UNCHANGED <<calls, pc, recvNeed, credit>>

\* The condition on which the polling loops end.
BugEither(r) == sendDone[r] >= Cur(r).s \/ recvDone[r] >= recvNeed[r]
BugRecvOnly(r) == recvDone[r] >= recvNeed[r]
Satisfied(r) == sendDone[r] >= Cur(r).s /\ recvDone[r] >= recvNeed[r]

\* One round of pollPeer: one peer, one queue, both counters.
PollPeer(r) ==
  /\ phase[r] = "loop" /\ ~Satisfied(r) /\ ~Split(Cur(r))
  /\ pollOnce(r, Cur(r).from, TRUE, TRUE, "check")
  /\ UNCHANGED <<nic, flags, sendPosted, recvPosted, got>>

\* A round of sendRecv's loop over two peers polls the queue of the send's
\* peer while the send is not done, ...
PollSend(r) ==
  /\ phase[r] = "loop" /\ ~Satisfied(r) /\ Split(Cur(r))
  /\ \/ /\ sendDone[r] < Cur(r).s
        /\ pollOnce(r, Cur(r).to, TRUE, FALSE, "mid")
     \/ /\ sendDone[r] >= Cur(r).s
        /\ phase' = [phase EXCEPT ![r] = "mid"]
        /\ UNCHANGED <<calls, pc, sendDone, recvDone, recvNeed, credit,
                       sendReaped, recvReaped>>
  /\ UNCHANGED <<nic, flags, sendPosted, recvPosted, got>>

\* ... then the queue of the receive's peer while the receive is not.
PollRecv(r) ==
  /\ phase[r] = "mid"
  /\ \/ /\ recvDone[r] < recvNeed[r]
        /\ pollOnce(r, Cur(r).from, FALSE, TRUE, "check")
     \/ /\ recvDone[r] >= recvNeed[r]
        /\ phase' = [phase EXCEPT ![r] = "check"]
        /\ UNCHANGED <<calls, pc, sendDone, recvDone, recvNeed, credit,
                       sendReaped, recvReaped>>
  /\ UNCHANGED <<nic, flags, sendPosted, recvPosted, got>>

\* The checks after a round: abort, which only pollPeer looks at, ...
BugIgnoreAbort(r) == asyncFatal_[r]
MustFail(r) == asyncFatal_[r] \/ (aborted_[r] /\ ~Split(Cur(r)))

\* ... fatal async events ...
Check(r) ==
  /\ phase[r] = "check"
  /\ \/ MustFail(r) /\ Fail(r)
     \/ /\ ~MustFail(r)
        /\ phase' = [phase EXCEPT ![r] = "loop"]
        /\ UNCHANGED <<calls, pc, sendDone, recvDone, recvNeed, credit>>
  /\ UNCHANGED <<nic, flags, sendPosted, recvPosted, sendReaped, recvReaped,
                 got>>

\* ... and the deadline of the wait.
BugNoSplitDeadline(r) ==
  /\ <<"timeout", r>> \in mayMeet /\ phase[r] = "check" /\ ~Split(Cur(r))
  /\ Fail(r)
  /\ UNCHANGED <<nic, flags, sendPosted, recvPosted, sendReaped, recvReaped,
                 got>>
Expired(r) ==
  /\ <<"timeout", r>> \in mayMeet /\ phase[r] = "check"
  /\ Fail(r)
  /\ UNCHANGED <<nic, flags, sendPosted, recvPosted, sendReaped, recvReaped,
                 got>>

\* Receive completions reaped beyond what the call needed.
BugNoCredit(r) == 0
BugCreditAll(r) == recvDone[r]
Overshoot(r) == recvDone[r] - recvNeed[r]

\* The loop is over: credit the overshoot, return success.
Return(r) ==
  /\ phase[r] = "loop" /\ Satisfied(r)
  /\ LET c == Cur(r) IN
     /\ recvSurplus_' = At(recvSurplus_, r, c.from,
                           recvSurplus_[r][c.from] + Overshoot(r))
     /\ got' = At(got, r, c.from, got[r][c.from] + c.r)
  /\ pc' = [pc EXCEPT ![r] = @ + 1]
  /\ phase' = [phase EXCEPT ![r] = "call"]
  /\ UNCHANGED <<calls, sendDone, recvDone, recvNeed, prePostedRecv, nic,
                 flags, sendPosted, recvPosted, sendReaped, recvReaped>>

Step(r) == \/ Begin(r) \/ postRecvs(r) \/ PostXfer(r) \/ PostFails(r)
           \/ PollPeer(r) \/ PollSend(r) \/ PollRecv(r) \/ Check(r)
           \/ Expired(r) \/ Return(r)

----------------------------------------------------------------------------
(* The hardware and the other threads.                                     *)

Linked(p, r) == /\ phase[p] # "crashed" /\ phase[r] # "crashed"
                /\ r \notin broken[p] /\ p \notin broken[r]

\* The next message of p lands in the receive r has posted for it.  Without
\* one the sender's adapter retries for ever (rnr_retry = 7).
Land(p, r) ==
  /\ Linked(p, r)
  /\ arrived[r][p] < sendPosted[p][r]
  /\ arrived[r][p] < recvPosted[r][p]
  /\ arrived' = At(arrived, r, p, arrived[r][p] + 1)
  /\ UNCHANGED <<local, credit, acked, broken, flags, sendPosted, recvPosted,
                 sendReaped, recvReaped, got>>

\* Its acknowledgement completes the send.
Ack(p, r) ==
  /\ Linked(p, r)
  /\ acked[p][r] < arrived[r][p]
  /\ acked' = At(acked, p, r, acked[p][r] + 1)
  /\ UNCHANGED <<local, credit, arrived, broken, flags, sendPosted,
                 recvPosted, sendReaped, recvReaped, got>>

\* A process dies, and its adapter with it.
Crash(r) ==
  /\ <<"crash", r>> \in mayMeet /\ phase[r] # "crashed"
  /\ phase' = [phase EXCEPT ![r] = "crashed"]
  /\ UNCHANGED <<calls, pc, sendDone, recvDone, recvNeed, credit, nic, flags,
                 sendPosted, recvPosted, sendReaped, recvReaped, got>>

\* The retries of a send to a dead process run out.
RetryExceeded(r, p) ==
  /\ phase[r] # "crashed" /\ phase[p] = "crashed"
  /\ acked[r][p] < sendPosted[r][p] /\ p \notin broken[r]
  /\ broken' = [broken EXCEPT ![r] = @ \cup {p}]
  /\ UNCHANGED <<local, credit, arrived, acked, flags, sendPosted,
                 recvPosted, sendReaped, recvReaped, got>>

\* vcclCommAbort, from any thread.
Abort(r) ==
  /\ <<"abort", r>> \in mayMeet /\ ~aborted_[r] /\ phase[r] # "crashed"
  /\ aborted_' = [aborted_ EXCEPT ![r] = TRUE]
  /\ UNCHANGED <<local, credit, nic, asyncFatal_, mayMeet, sendPosted,
                 recvPosted, sendReaped, recvReaped, got>>

\* A fatal event of the queue pair, the port or the device, latched by
\* drainAsyncFatal.
AsyncFatal(r) ==
  /\ <<"asyncFatal", r>> \in mayMeet /\ ~asyncFatal_[r] /\ phase[r] # "crashed"
  /\ asyncFatal_' = [asyncFatal_ EXCEPT ![r] = TRUE]
  /\ UNCHANGED <<local, credit, nic, aborted_, mayMeet, sendPosted,
                 recvPosted, sendReaped, recvReaped, got>>

Next ==
  \/ \E r \in Rank : Step(r) \/ Crash(r) \/ Abort(r) \/ AsyncFatal(r)
  \/ \E p, r \in Rank : Land(p, r) \/ Ack(p, r) \/ RetryExceeded(p, r)

Spec == Init /\ [][Next]_vars

\* Threads are scheduled, the fabric makes progress, and when VCCL_TIMEOUT is
\* set a wait that does not end reaches its deadline.
Fairness ==
  /\ \A r \in Rank : WF_vars(Step(r)) /\ SF_vars(Expired(r))
  /\ WF_vars(\E p, r \in Rank : Land(p, r) \/ Ack(p, r))

FairSpec == Spec /\ Fairness

----------------------------------------------------------------------------
(* Properties.                                                             *)

\* The counters of completions, credits and work requests stay natural numbers
\* and the FIFOs sequences of WR counts: takeRecvSurplus never overdraws.
TypeOK ==
  /\ calls \in Programs
  /\ pc \in [Rank -> Nat \ {0}]
  /\ phase \in [Rank -> Phase]
  /\ sendDone \in [Rank -> Nat]
  /\ recvDone \in [Rank -> Nat]
  /\ recvNeed \in [Rank -> Nat]
  /\ prePostedRecv \in [Rank -> [Rank -> Seq(Nat)]]
  /\ recvSurplus_ \in [Rank -> [Rank -> Nat]]
  /\ sendPosted \in [Rank -> [Rank -> Nat]]
  /\ recvPosted \in [Rank -> [Rank -> Nat]]
  /\ arrived \in [Rank -> [Rank -> Nat]]
  /\ acked \in [Rank -> [Rank -> Nat]]
  /\ sendReaped \in [Rank -> [Rank -> Nat]]
  /\ recvReaped \in [Rank -> [Rank -> Nat]]
  /\ broken \in [Rank -> SUBSET Rank]
  /\ aborted_ \in [Rank -> BOOLEAN]
  /\ asyncFatal_ \in [Rank -> BOOLEAN]
  /\ got \in [Rank -> [Rank -> Nat]]

\* A call returns success only when the data it was to receive has landed:
\* the receives of all the calls that returned have arrived.
DataBeforeReturn == \A r, p \in Rank : got[r][p] <= arrived[r][p]

\* A call returns success only when its sends are acknowledged, so that the
\* caller may overwrite the buffer it sent: between calls no send is open.
SendBufferFree ==
  \A r, p \in Rank : phase[r] = "call" => acked[r][p] = sendPosted[r][p]

\* No completion a wait depends on is lost: what a polling loop still counts
\* to is never more than the work requests whose completion is still to be
\* reaped.  Otherwise the loop spins until VCCL_TIMEOUT.
NotStranded ==
  \A r \in Rank : Waiting(r) =>
     LET c == Cur(r) IN
     /\ recvNeed[r] - recvDone[r]
          <= recvPosted[r][c.from] - recvReaped[r][c.from]
     /\ c.s - sendDone[r] <= sendPosted[r][c.to] - sendReaped[r][c.to]

\* A completion queue never holds more completions than createQp made room
\* for, whatever order sends and receives complete in.
CqNeverOverflows ==
  \A r, p \in Rank : CqSend(r, p) + CqRecv(r, p) <= CqDepth

\* The pre-posted receive a call takes from the FIFO is the one posted for
\* it: its WR count is the one of the message the call expects.
PrePostMatches ==
  \A r \in Rank : phase[r] = "call" /\ Has(r, "xfer") => RecvWrs(r) = Cur(r).r

\* An operation leaves nothing behind for the next one: no pre-posted receive
\* waits in a FIFO and no surplus completion is credited when it ends.
CleanBetweenOps ==
  \A r, p \in Rank : phase[r] = "call" /\ (Has(r, "begin") \/ Finished(r)) =>
     prePostedRecv[r][p] = <<>> /\ recvSurplus_[r][p] = 0

\* When nothing can fail every rank gets through all its calls; with
\* VCCL_TIMEOUT set every call of a live rank returns, whoever dies.
EveryCallReturns ==
  mayMeet = {} \/ (\A r \in Rank : <<"timeout", r>> \in mayMeet)
    ~> \A r \in Rank : \/ Finished(r)
                       \/ mayMeet # {} /\ phase[r] \in {"failed", "crashed"}

\* "Make any blocked operation fail promptly (vcclCommAbort)": in the end no
\* rank that was aborted is blocked in a call, without the help of
\* VCCL_TIMEOUT.
AbortUnblocks == <>[](\A r \in Rank : aborted_[r] => ~Waiting(r))

============================================================================
