---------------------------- MODULE TcpTransport ----------------------------
(***************************************************************************)
(* The data path of the TCP transport: src/transport/tcp.cc and the loops  *)
(* of src/util/socket.cc it calls.  One thread per rank makes the calls of *)
(* a program on non-blocking sockets, one to each peer; another may abort  *)
(* the communicator.  A socket is two byte streams with a bounded kernel   *)
(* buffer.  A stream has no message boundaries, so the operations a batch  *)
(* queues for one peer and direction are one number of bytes.              *)
(***************************************************************************)
EXTENDS Integers, Sequences

CONSTANTS Rank,     \* the ranks of the communicator, numbers
          Programs, \* the transport calls each rank makes
          SockBuf,  \* bytes a stream holds that the receiver has not read
          Faults    \* per program, what may go wrong, and where

FaultKind == {"timeout", "abort", "exit", "vanish"}

\* A call: the bytes for and from each peer.
Call == [op : {"send", "recv", "sendRecv", "batch"},
         out : [Rank -> Nat], in : [Rank -> Nat]]

ASSUME ProgramsAssumption == Programs \subseteq [Rank -> Seq(Call)]

ASSUME LimitsAssumption == /\ Rank \subseteq Nat
                           /\ SockBuf \in Nat \ {0}
                           /\ Faults \in [Programs -> SUBSET (FaultKind \X Rank)]

VARIABLES
  calls,      \* the program being run, chosen at the start
  mayMeet,    \* and what may go wrong while it runs
  pc,         \* index of the rank's next or current call
  phase,      \* where the rank is in that call
  toSend,     \* toSend[r][p]: bytes the call of r has still to write to p, ...
  toRecv,     \* ... and to read from p
  turn,       \* the system calls left of this round: <<peer, direction>>
  progressed, \* a system call of this round moved bytes
  written,    \* written[p][r]: bytes p has written to r, ...
  read,       \* read[r][p]: ... and r has read from p
  aborted_,   \* vcclCommAbort has been called
  toShut,     \* the sockets abort() has still to shut down
  shut,       \* peers to which this end of the socket is shut down or closed
  handed,     \* history: bytes the calls of r were given for p
  got         \* history: bytes calls that returned success received

local == <<calls, mayMeet, pc, phase, turn, progressed>>
bytes == <<toSend, toRecv, written, read>>
ends == <<aborted_, toShut, shut>>
history == <<handed, got>>
vars == <<local, bytes, ends, history>>

Phase == {"call", "loop", "sweep", "park", "failed", "gone", "vanished"}

----------------------------------------------------------------------------

Table == [Rank -> [Rank -> Nat]]
PerPeer(v) == [r \in Rank |-> [p \in Rank |-> v]]

Lesser(a, b) == IF a < b THEN a ELSE b

Cur(r) == calls[r][pc[r]]

Finished(r) == phase[r] = "call" /\ pc[r] \notin DOMAIN calls[r]

\* The thread is inside a call.
Waiting(r) == phase[r] \in {"loop", "sweep", "park"}

Dead(r) == phase[r] \in {"gone", "vanished"}

BugSent(r) == \A p \in Rank : toSend[r][p] = 0
Done(r) == \A p \in Rank : toSend[r][p] = 0 /\ toRecv[r][p] = 0

Direction == {"recv", "send"}

\* The system calls that have bytes to move: <<peer, direction>>.
BugSendFirst(r) ==
  {k \in Rank \X Direction :
     IF k[2] = "send" THEN toSend[r][k[1]] > 0
     ELSE toRecv[r][k[1]] > 0 /\ \A p \in Rank : toSend[r][p] = 0}
Open(r) == {k \in Rank \X Direction :
              IF k[2] = "send" THEN toSend[r][k[1]] > 0 ELSE toRecv[r][k[1]] > 0}

\* Their order in a round: that of the map of batch, recv before send for each
\* peer; duplexTransfer sends first.
Before(r, k, l) ==
  IF Cur(r).op = "sendRecv" THEN k[2] = "send" /\ l[2] = "recv"
  ELSE k[1] < l[1] \/ (k[1] = l[1] /\ k[2] = "recv" /\ l[2] = "send")

\* The two ends of the stream from p to r.
Buffered(p, r) == written[p][r] - read[r][p]

\* One end of the socket between the two is shut down or closed.
Cut(r, p) == p \in shut[r] \/ r \in shut[p]

\* What poll reports: room or bytes, or that the socket is cut.
Ready(r, k) ==
  \/ Cut(r, k[1])
  \/ k[2] = "send" /\ Buffered(r, k[1]) < SockBuf
  \/ k[2] = "recv" /\ Buffered(k[1], r) > 0

Init ==
  /\ calls \in Programs
  /\ mayMeet = Faults[calls]
  /\ pc = [r \in Rank |-> 1]
  /\ phase = [r \in Rank |-> "call"]
  /\ toSend = PerPeer(0)
  /\ toRecv = PerPeer(0)
  /\ turn = [r \in Rank |-> {}]
  /\ progressed = [r \in Rank |-> FALSE]
  /\ written = PerPeer(0)
  /\ read = PerPeer(0)
  /\ aborted_ = [r \in Rank |-> FALSE]
  /\ toShut = [r \in Rank |-> {}]
  /\ shut = [r \in Rank |-> {}]
  /\ handed = PerPeer(0)
  /\ got = PerPeer(0)

----------------------------------------------------------------------------
(* The calls.  An error ends the call and, by noteError, the rank's part;  *)
(* the sockets stay open.                                                  *)

\* send, recv, sendRecv or batch is called.
Enter(r) ==
  /\ phase[r] = "call" /\ pc[r] \in DOMAIN calls[r]
  /\ phase' = [phase EXCEPT ![r] = "loop"]
  /\ toSend' = [toSend EXCEPT ![r] = Cur(r).out]
  /\ toRecv' = [toRecv EXCEPT ![r] = Cur(r).in]
  /\ handed' = [handed EXCEPT ![r] = [p \in Rank |-> @[p] + Cur(r).out[p]]]
  /\ UNCHANGED <<calls, mayMeet, pc, turn, progressed, written, read, ends, got>>

\* The next round of the loop.  sendRecv polls first; the others try first.
Round(r) ==
  /\ phase[r] = "loop" /\ ~Done(r)
  /\ \/ /\ Cur(r).op = "sendRecv"
        /\ phase' = [phase EXCEPT ![r] = "park"]
        /\ UNCHANGED turn
     \/ /\ Cur(r).op # "sendRecv"
        /\ phase' = [phase EXCEPT ![r] = "sweep"]
        /\ turn' = [turn EXCEPT ![r] = Open(r)]
  /\ progressed' = [progressed EXCEPT ![r] = FALSE]
  /\ UNCHANGED <<calls, mayMeet, pc, bytes, ends, history>>

\* The next system call of the round is k.
Up(r, k) == k \in turn[r] /\ \A l \in turn[r] \ {k} : Before(r, k, l)

\* How many bytes a system call may take: some of those left, as far as the
\* kernel has room or data.
Sendable(r, p) == 1 .. Lesser(toSend[r][p], SockBuf - Buffered(r, p))
Receivable(r, p) == 1 .. Lesser(toRecv[r][p], Buffered(p, r))

\* What is left of a transfer after a system call that moved n bytes.
BugShortIsAll(left, n) == 0
Rest(left, n) == left - n

\* It moves bytes, ...
Writes(r) ==
  /\ phase[r] = "sweep"
  /\ \E p \in Rank \ shut[r] :
       /\ Up(r, <<p, "send">>)
       /\ \E n \in Sendable(r, p) :
            /\ toSend' = [toSend EXCEPT ![r][p] = Rest(@, n)]
            /\ written' = [written EXCEPT ![r][p] = @ + n]
       /\ turn' = [turn EXCEPT ![r] = @ \ {<<p, "send">>}]
  /\ progressed' = [progressed EXCEPT ![r] = TRUE]
  /\ UNCHANGED <<calls, mayMeet, pc, phase, toRecv, read, ends, history>>

Reads(r) ==
  /\ phase[r] = "sweep"
  /\ \E p \in Rank :
       /\ Up(r, <<p, "recv">>)
       /\ \E n \in Receivable(r, p) :
            /\ toRecv' = [toRecv EXCEPT ![r][p] = Rest(@, n)]
            /\ read' = [read EXCEPT ![r][p] = @ + n]
       /\ turn' = [turn EXCEPT ![r] = @ \ {<<p, "recv">>}]
  /\ progressed' = [progressed EXCEPT ![r] = TRUE]
  /\ UNCHANGED <<calls, mayMeet, pc, phase, toSend, written, ends, history>>

\* ... or would block: no room or no bytes, or the bytes of a host that went
\* down were lost, ...
WouldBlock(r) ==
  /\ phase[r] = "sweep"
  /\ \E k \in turn[r] :
       /\ Up(r, k)
       /\ \/ ~Ready(r, k)
          \/ k[2] = "recv" /\ phase[k[1]] = "vanished" /\ ~Cut(r, k[1])
       /\ turn' = [turn EXCEPT ![r] = @ \ {k}]
  /\ UNCHANGED <<calls, mayMeet, pc, phase, progressed, bytes, ends, history>>

Fail(r) ==
  /\ phase' = [phase EXCEPT ![r] = "failed"]
  /\ UNCHANGED <<calls, mayMeet, pc, turn, progressed, bytes, ends, history>>

\* ... or fails: the socket is cut.  Bytes in the kernel may be lost then.
SocketError(r) ==
  /\ phase[r] = "sweep"
  /\ \E k \in turn[r] : Up(r, k) /\ Cut(r, k[1])
  /\ Fail(r)

\* The end of a round.  Only batch looks at the abort flag.  A round of
\* sendRecv leads to the next poll in any case.
EndRound(r) ==
  /\ phase[r] = "sweep" /\ turn[r] = {}
  /\ \/ Cur(r).op = "batch" /\ aborted_[r] /\ Fail(r)
     \/ /\ ~(Cur(r).op = "batch" /\ aborted_[r])
        /\ phase' = [phase EXCEPT ![r] =
                       IF progressed[r] \/ Cur(r).op = "sendRecv"
                       THEN "loop" ELSE "park"]
        /\ UNCHANGED <<calls, mayMeet, pc, turn, progressed, bytes, ends, history>>

\* poll returns.  duplexTransfer then tries what is ready, the others all.
ReadyKeys(r) == {k \in Open(r) : Ready(r, k)}

Wake(r) ==
  /\ phase[r] = "park" /\ ReadyKeys(r) # {}
  /\ \/ /\ Cur(r).op = "sendRecv"
        /\ phase' = [phase EXCEPT ![r] = "sweep"]
        /\ turn' = [turn EXCEPT ![r] = ReadyKeys(r)]
     \/ /\ Cur(r).op # "sendRecv"
        /\ phase' = [phase EXCEPT ![r] = "loop"]
        /\ UNCHANGED turn
  /\ UNCHANGED <<calls, mayMeet, pc, progressed, bytes, ends, history>>

\* The deadline is looked at behind every poll.
Expired(r) ==
  /\ <<"timeout", r>> \in mayMeet /\ phase[r] = "park"
  /\ Fail(r)

\* The call returns vcclSuccess.
Return(r) ==
  /\ phase[r] = "loop" /\ Done(r)
  /\ got' = [got EXCEPT ![r] = [p \in Rank |-> @[p] + Cur(r).in[p]]]
  /\ pc' = [pc EXCEPT ![r] = @ + 1]
  /\ phase' = [phase EXCEPT ![r] = "call"]
  /\ UNCHANGED <<calls, mayMeet, turn, progressed, bytes, ends, handed>>

Step(r) == \/ Enter(r) \/ Round(r) \/ Writes(r) \/ Reads(r)
           \/ WouldBlock(r) \/ SocketError(r) \/ EndRound(r) \/ Wake(r) \/ Expired(r)
           \/ Return(r)

----------------------------------------------------------------------------
(* The other threads, and the machines.                                    *)

\* vcclCommAbort: the flag first, ...
BugFlagOnly(r) ==
  /\ <<"abort", r>> \in mayMeet /\ ~aborted_[r] /\ ~Dead(r)
  /\ aborted_' = [aborted_ EXCEPT ![r] = TRUE]
  /\ UNCHANGED <<toShut, shut, local, bytes, history>>
Abort(r) ==
  /\ <<"abort", r>> \in mayMeet /\ ~aborted_[r] /\ ~Dead(r)
  /\ aborted_' = [aborted_ EXCEPT ![r] = TRUE]
  /\ toShut' = [toShut EXCEPT ![r] = Rank \ {r}]
  /\ UNCHANGED <<shut, local, bytes, history>>

\* ... then the sockets, one by one.
ShutDown(r) ==
  /\ ~Dead(r)
  /\ \E p \in toShut[r] :
       /\ \A q \in toShut[r] : p <= q
       /\ toShut' = [toShut EXCEPT ![r] = @ \ {p}]
       /\ shut' = [shut EXCEPT ![r] = @ \cup {p}]
  /\ UNCHANGED <<aborted_, local, bytes, history>>

\* The process ends and the kernel closes its sockets.
Exit(r) ==
  /\ <<"exit", r>> \in mayMeet /\ ~Dead(r)
  /\ phase' = [phase EXCEPT ![r] = "gone"]
  /\ shut' = [shut EXCEPT ![r] = Rank \ {r}]
  /\ UNCHANGED <<calls, mayMeet, pc, turn, progressed, aborted_, toShut, bytes,
                 history>>

\* The host goes down and says nothing.
Vanish(r) ==
  /\ <<"vanish", r>> \in mayMeet /\ ~Dead(r)
  /\ phase' = [phase EXCEPT ![r] = "vanished"]
  /\ UNCHANGED <<calls, mayMeet, pc, turn, progressed, bytes, ends, history>>

Next == \E r \in Rank :
          Step(r) \/ Abort(r) \/ ShutDown(r) \/ Exit(r) \/ Vanish(r)

Spec == Init /\ [][Next]_vars

\* Threads are scheduled, and a wait that does not end reaches its deadline
\* when VCCL_TIMEOUT is set.
Fairness == \A r \in Rank : /\ WF_vars(Step(r)) /\ SF_vars(Expired(r))
                            /\ WF_vars(ShutDown(r))

FairSpec == Spec /\ Fairness

----------------------------------------------------------------------------
(* The contract.                                                           *)

state == [r \in Rank |-> IF phase[r] = "call" THEN "idle"
                         ELSE IF Waiting(r) THEN "busy" ELSE "failed"]

due == [r \in Rank |-> IF Waiting(r) THEN Cur(r).in ELSE [p \in Rank |-> 0]]

T == INSTANCE Transport WITH moved <- written

\* Every call of the TCP transport keeps the contract of transport.h: success
\* means all of its bytes written and all it was due read, however the kernel
\* cuts them up and whatever other calls and aborts go on.
ImplementsTransport == T!Spec

----------------------------------------------------------------------------
(* Properties.                                                             *)

\* Streams stay aligned with the calls: between calls a rank has read exactly
\* what its calls asked for and written exactly what they were given, so the
\* next call starts at the first byte of its message.
StreamAligned ==
  \A r, p \in Rank : phase[r] = "call" =>
     read[r][p] = got[r][p] /\ written[r][p] = handed[r][p]

\* When nothing can fail every rank gets through all its calls, however small
\* the kernel's buffers; with VCCL_TIMEOUT set every call of a live rank
\* returns, whoever dies and however.
EveryCallReturns ==
  mayMeet = {} \/ (\A r \in Rank : <<"timeout", r>> \in mayMeet)
    ~> \A r \in Rank : \/ Finished(r)
                       \/ mayMeet # {} /\ (phase[r] = "failed" \/ Dead(r))

\* "Wake anything parked in poll/send/recv on these sockets": in the end no
\* rank that was aborted is blocked in a call, without the help of
\* VCCL_TIMEOUT.
AbortUnblocks == <>[](\A r \in Rank : aborted_[r] => ~Waiting(r))

============================================================================
