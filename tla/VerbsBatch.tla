----------------------------- MODULE VerbsBatch -----------------------------
(***************************************************************************)
(* VerbsTransport::batch of src/transport/verbs.cc, what a run of grouped  *)
(* sends and receives is handed to: the operations are posted in waves     *)
(* that fit the queues, each wave is polled to its end before the next.    *)
(* The queue pairs, their faults and the other threads are those of        *)
(* module VerbsTransport.  Here the program of a rank is one batch:        *)
(* calls[r] its operations, each with s = 0 or r = 0, and pc[r] the first  *)
(* operation not yet posted.                                               *)
(***************************************************************************)
EXTENDS VerbsTransport, FiniteSetsExt

\* The sweeps take the peers by number.
ASSUME RankAssumption == Rank \subseteq Nat

VARIABLES
  posted, \* per peer, send and receive WRs of the wave
  done,   \* per peer, those whose completion was reaped
  turn,   \* the peers still to poll in this sweep
  asked   \* per peer, WRs of the whole batch

wave == <<posted, done, turn, asked>>
batchVars == <<vars, wave>>

\* Send and receive WRs that the operations i .. j have for p.
Wrs(ops, p, i, j) ==
  LET send[k \in i - 1 .. j] ==
        IF k < i THEN 0
        ELSE send[k - 1] + (IF ops[k].to = p THEN ops[k].s ELSE 0)
      recv[k \in i - 1 .. j] ==
        IF k < i THEN 0
        ELSE recv[k - 1] + (IF ops[k].from = p THEN ops[k].r ELSE 0)
  IN  [s |-> send[j], r |-> recv[j]]

BugOneTooMany(wrs) == wrs.s <= kQueueDepth + 1 /\ wrs.r <= kQueueDepth + 1
Fits(wrs) == wrs.s <= kQueueDepth /\ wrs.r <= kQueueDepth

\* The operation behind the wave that starts with i: the first that does not
\* fit; a single operation that is too large is a wave of its own.
waveEnd(ops, i) ==
  IF i > Len(ops) THEN i
  ELSE Max({i} \cup {j \in i .. Len(ops) : \A p \in Rank : Fits(Wrs(ops, p, i, j))})
         + 1

Pending(r) == {p \in Rank : done[r][p].s < posted[r][p].s
                              \/ done[r][p].r < posted[r][p].r}

NoWrs == [p \in Rank |-> [s |-> 0, r |-> 0]]

BatchInit == Init /\ posted = [r \in Rank |-> NoWrs] /\ done = posted
                  /\ turn = [r \in Rank |-> {}]
                  /\ asked = [r \in Rank |-> [p \in Rank |->
                               Wrs(calls[r], p, 1, Len(calls[r]))]]

----------------------------------------------------------------------------

Counted(table, r, wrs) ==
  [table EXCEPT ![r] = [p \in Rank |-> @[p] + wrs[p]]]

PostWrs(r, wrs) ==
  /\ sendPosted' = Counted(sendPosted, r, [p \in Rank |-> wrs[p].s])
  /\ recvPosted' = Counted(recvPosted, r, [p \in Rank |-> wrs[p].r])

HasRoom(r, wrs) ==
  \A p \in Rank : SendRoom(r, p, wrs[p].s) /\ RecvRoom(r, p, wrs[p].r)

\* The next wave is posted.
PostWave(r) ==
  /\ phase[r] = "call" /\ pc[r] \in DOMAIN calls[r]
  /\ LET end == waveEnd(calls[r], pc[r])
         wrs == [p \in Rank |-> Wrs(calls[r], p, pc[r], end - 1)] IN
     /\ HasRoom(r, wrs) /\ PostWrs(r, wrs)
     /\ posted' = [posted EXCEPT ![r] = wrs]
     /\ done' = [done EXCEPT ![r] = NoWrs]
     /\ turn' = [turn EXCEPT ![r] = {p \in Rank : wrs[p] # NoWrs[p]}]
     /\ pc' = [pc EXCEPT ![r] = end]
  /\ phase' = [phase EXCEPT ![r] = "loop"]
  /\ UNCHANGED <<calls, sendDone, recvDone, recvNeed, credit, nic, flags,
                 sendReaped, recvReaped, got, asked>>

\* A post fails, for a full queue or another reason, behind the operations up
\* to j; the parts of an operation are not told apart.
WavePostFails(r) ==
  /\ phase[r] = "call" /\ pc[r] \in DOMAIN calls[r]
  /\ \E j \in pc[r] - 1 .. waveEnd(calls[r], pc[r]) - 2 :
       LET Upto(k) == [p \in Rank |-> Wrs(calls[r], p, pc[r], k)] IN
       /\ HasRoom(r, Upto(j)) /\ PostWrs(r, Upto(j))
       /\ <<"post", r>> \in mayMeet \/ ~HasRoom(r, Upto(j + 1))
  /\ Fail(r)
  /\ UNCHANGED <<nic, flags, sendReaped, recvReaped, got, wave>>

\* The sweep polls the queue of the next peer that is not done.
PollWave(r) ==
  /\ phase[r] = "loop" /\ turn[r] # {}
  /\ LET p == Min(turn[r]) IN
       \/ /\ PollError(r, p) /\ Fail(r)
          /\ UNCHANGED <<sendReaped, recvReaped, wave>>
       \/ /\ ~PollError(r, p)
          /\ \E w \in Reapable(r, p) :
               /\ sendReaped' = At(sendReaped, r, p, sendReaped[r][p] + w[1])
               /\ recvReaped' = At(recvReaped, r, p, recvReaped[r][p] + w[2])
               /\ done' = At(done, r, p, [s |-> done[r][p].s + w[1],
                                          r |-> done[r][p].r + w[2]])
          /\ turn' = [turn EXCEPT ![r] = @ \ {p}]
          /\ UNCHANGED <<local, credit, posted, asked>>
  /\ UNCHANGED <<nic, flags, sendPosted, recvPosted, got>>

\* The end of a sweep: abort and fatal events first, ...
BugAsyncOnly(r) == asyncFatal_[r]
Stopped(r) == aborted_[r] \/ asyncFatal_[r]

\* ... then another sweep, or the next wave, or success.
BugAnyPeer(r) == \E p \in Rank : posted[r][p] = done[r][p] /\ posted[r][p] # NoWrs[p]
WaveDone(r) == Pending(r) = {}

SweepEnds(r) ==
  /\ phase[r] = "loop" /\ turn[r] = {}
  /\ \/ Stopped(r) /\ Fail(r) /\ UNCHANGED <<got, turn>>
     \/ /\ ~Stopped(r) /\ ~WaveDone(r)
        /\ turn' = [turn EXCEPT ![r] = Pending(r)]
        /\ UNCHANGED <<local, credit, got>>
     \/ /\ ~Stopped(r) /\ WaveDone(r)
        /\ phase' = [phase EXCEPT ![r] = "call"]
        /\ got' = IF pc[r] \in DOMAIN calls[r] THEN got
                  ELSE [got EXCEPT ![r] = [p \in Rank |-> asked[r][p].r]]
        /\ UNCHANGED <<calls, pc, sendDone, recvDone, recvNeed, credit, turn>>
  /\ UNCHANGED <<nic, flags, sendPosted, recvPosted, sendReaped, recvReaped,
                 posted, done, asked>>

\* ... or the deadline of the wave.
WaveExpired(r) ==
  /\ <<"timeout", r>> \in mayMeet /\ phase[r] = "loop" /\ turn[r] = {}
  /\ ~WaveDone(r) /\ Fail(r)
  /\ UNCHANGED <<nic, flags, sendPosted, recvPosted, sendReaped, recvReaped,
                 got, wave>>

BatchStep(r) == \/ PostWave(r) \/ WavePostFails(r) \/ PollWave(r)
                \/ SweepEnds(r) \/ WaveExpired(r)

Surroundings ==
  /\ \/ \E r \in Rank : Crash(r) \/ Abort(r) \/ AsyncFatal(r)
     \/ \E p, r \in Rank : Land(p, r) \/ Ack(p, r) \/ RetryExceeded(p, r)
  /\ UNCHANGED wave

BatchNext == (\E r \in Rank : BatchStep(r)) \/ Surroundings

BatchSpec == BatchInit /\ [][BatchNext]_batchVars

\* As for the other calls: threads run, the fabric makes progress, and a set
\* deadline passes.
BatchFairness ==
  /\ \A r \in Rank : /\ WF_batchVars(BatchStep(r))
                     /\ SF_batchVars(WaveExpired(r))
  /\ WF_batchVars(/\ \E p, r \in Rank : Land(p, r) \/ Ack(p, r)
                  /\ UNCHANGED wave)

FairBatchSpec == BatchSpec /\ BatchFairness

----------------------------------------------------------------------------
(* The contract.  The call is the whole batch.                             *)

Started(r) == pc[r] > 1
Busy(r) == Waiting(r) \/ (phase[r] = "call" /\ Started(r) /\ ~Finished(r))

state == [r \in Rank |-> IF phase[r] \in {"failed", "crashed"} THEN "failed"
                         ELSE IF Busy(r) THEN "busy" ELSE "idle"]

handed == [r \in Rank |-> [p \in Rank |->
             IF Started(r) THEN asked[r][p].s ELSE sendPosted[r][p]]]

moved == [p \in Rank |-> [r \in Rank |-> arrived[r][p]]]

due == [r \in Rank |-> [p \in Rank |->
          IF Busy(r) THEN asked[r][p].r ELSE 0]]

T == INSTANCE Transport

\* A batch returns success only with all its sends out of their buffers and
\* all its receives filled, although it looks at one peer at a time, at one
\* wave at a time and at queues that both directions share.
ImplementsTransport == T!Spec

----------------------------------------------------------------------------
(* Properties.                                                             *)

\* Wave by wave, the two ends of each queue pair post for the same messages.
WavesPair(prog) ==
  LET Starts(r) ==
        LET start[k \in 1 .. Max({Len(prog[q]) : q \in Rank}) + 1] ==
              IF k = 1 THEN 1 ELSE waveEnd(prog[r], start[k - 1])
        IN  start
  IN  \A p, r \in Rank : \A k \in DOMAIN Starts(r) :
        Wrs(prog[p], r, 1, Starts(p)[k] - 1).s = Wrs(prog[r], p, 1, Starts(r)[k] - 1).r

\* "a send+recv pair with one peer must not deadlock against the mirrored pair
\* on the other side": when nothing can fail every batch returns success.  It
\* is so when the waves of the ranks pair.  With VCCL_TIMEOUT set every batch
\* returns, whether they do or not.
BatchReturns ==
  mayMeet = {} \/ (\A r \in Rank : <<"timeout", r>> \in mayMeet)
    ~> \A r \in Rank : \/ Finished(r)
                       \/ mayMeet # {} /\ phase[r] \in {"failed", "crashed"}

============================================================================
