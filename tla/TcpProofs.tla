------------------------------ MODULE TcpProofs ------------------------------
(***************************************************************************)
(* The TCP transport keeps its streams aligned and implements Transport,   *)
(* for every set of ranks, every program of calls, every size of the       *)
(* kernel's buffers and every fault.  The argument is one of bookkeeping:  *)
(* what a call was given is what it has written and what is left of it,    *)
(* what it is due is what it has read and what is left of that, and no     *)
(* byte is read before it was written.                                     *)
(***************************************************************************)
EXTENDS TcpTransport, TLAPS

----------------------------------------------------------------------------
(* The inductive invariant.                                                *)

TypeOK ==
  /\ calls \in [Rank -> Seq(Call)]
  /\ pc \in [Rank -> Nat]
  /\ phase \in [Rank -> Phase]
  /\ turn \in [Rank -> SUBSET (Rank \X Direction)]
  /\ toSend \in Table /\ toRecv \in Table
  /\ written \in Table /\ read \in Table
  /\ handed \in Table /\ got \in Table

\* A rank inside a call has one.
InCall == \A r \in Rank : Waiting(r) => pc[r] \in DOMAIN calls[r]

\* No byte is read before it was written.
ReadBehind == \A r, p \in Rank : read[r][p] <= written[p][r]

\* What was handed over is written or left to write.
OutLedger == \A r, p \in Rank : handed[r][p] = written[r][p] + toSend[r][p]

\* Nothing is left between calls; in a call, what it is due is read or left to
\* read.
InLedger ==
  \A r, p \in Rank :
    /\ phase[r] = "call" => toSend[r][p] = 0 /\ read[r][p] = got[r][p]
    /\ Waiting(r) => read[r][p] + toRecv[r][p] = got[r][p] + Cur(r).in[p]

Inv == TypeOK /\ InCall /\ ReadBehind /\ OutLedger /\ InLedger

----------------------------------------------------------------------------
(* Calls and steps.                                                        *)

\* The current call of a rank is a call.
LEMMA CurType ==
  ASSUME TypeOK, NEW r \in Rank, pc[r] \in DOMAIN calls[r]
  PROVE  /\ Cur(r) \in Call
         /\ Cur(r).out \in [Rank -> Nat] /\ Cur(r).in \in [Rank -> Nat]
<1>1. calls[r] \in Seq(Call)
  BY DEF TypeOK
<1>2. Cur(r) \in Call
  BY <1>1 DEF Cur
<1> QED
  BY <1>2 DEF Call

\* The system call of Sendable moves no more than what is left.
LEMMA SendableType ==
  ASSUME TypeOK, NEW r \in Rank, NEW p \in Rank, NEW n \in Sendable(r, p)
  PROVE  n \in Nat /\ n <= toSend[r][p] /\ Rest(toSend[r][p], n) \in Nat
<1>1. toSend[r][p] \in Nat /\ written[r][p] \in Nat /\ read[p][r] \in Nat
      /\ SockBuf \in Nat
  BY LimitsAssumption DEF TypeOK, Table
<1> QED
  BY <1>1 DEF Sendable, Lesser, Buffered, Rest

\* That of Receivable moves no more than what is left and what is there.
LEMMA ReceivableType ==
  ASSUME TypeOK, NEW r \in Rank, NEW p \in Rank, NEW n \in Receivable(r, p)
  PROVE  /\ n \in Nat /\ n <= toRecv[r][p] /\ Rest(toRecv[r][p], n) \in Nat
         /\ read[r][p] + n <= written[p][r]
<1>1. toRecv[r][p] \in Nat /\ written[p][r] \in Nat /\ read[r][p] \in Nat
  BY DEF TypeOK, Table
<1> QED
  BY <1>1 DEF Receivable, Lesser, Buffered, Rest

\* The steps that move no byte and end no call well: at most one rank changes
\* its phase, within a call or to give up.
Quiet ==
  /\ UNCHANGED <<calls, pc, bytes, history>>
  /\ turn' \in [Rank -> SUBSET (Rank \X Direction)]
  /\ \E r \in Rank, ph \in Phase :
       /\ phase' = [phase EXCEPT ![r] = ph]
       /\ \/ ph = phase[r]
          \/ Waiting(r) /\ ph \in {"loop", "sweep", "park"}
          \/ ph \in {"failed", "gone", "vanished"}

\* The steps of the loops, of the fault model and of an abort are of that kind.
LEMMA StepKinds ==
  ASSUME TypeOK, Next
  PROVE  \/ Quiet
         \/ \E r \in Rank : Enter(r) \/ Writes(r) \/ Reads(r) \/ Return(r)
<1>0. phase \in [Rank -> Phase] /\ turn \in [Rank -> SUBSET (Rank \X Direction)]
  BY DEF TypeOK
<1>1. PICK r \in Rank : Step(r) \/ Abort(r) \/ ShutDown(r) \/ Exit(r) \/ Vanish(r)
  BY DEF Next
<1>2. Open(r) \subseteq Rank \X Direction
      /\ ReadyKeys(r) \subseteq Rank \X Direction
  BY DEF Open, ReadyKeys
<1>3. CASE Round(r)
  BY <1>0, <1>2, <1>3 DEF Round, Quiet, Phase, Waiting
<1>4. CASE WouldBlock(r)
  BY <1>0, <1>4 DEF WouldBlock, Quiet, Phase
<1>5. CASE SocketError(r) \/ Expired(r)
  BY <1>0, <1>5 DEF SocketError, Expired, Fail, Quiet, Phase
<1>6. CASE EndRound(r)
  BY <1>0, <1>6 DEF EndRound, Fail, Quiet, Phase, Waiting
<1>7. CASE Wake(r)
  BY <1>0, <1>2, <1>7 DEF Wake, Quiet, Phase, Waiting
<1>8. CASE Abort(r) \/ ShutDown(r)
  BY <1>0, <1>8 DEF Abort, ShutDown, local, Quiet, Phase
<1>9. CASE Exit(r) \/ Vanish(r)
  BY <1>0, <1>9 DEF Exit, Vanish, Quiet, Phase
<1> QED
  BY <1>1, <1>3, <1>4, <1>5, <1>6, <1>7, <1>8, <1>9 DEF Step

----------------------------------------------------------------------------
(* Each kind keeps the invariant.                                          *)

\* At the start nothing was handed over.
LEMMA InitInv == Init => Inv
<1> SUFFICES ASSUME Init PROVE Inv
  OBVIOUS
<1>1. calls \in [Rank -> Seq(Call)]
  BY ProgramsAssumption DEF Init
<1>2. TypeOK
  BY <1>1 DEF Init, TypeOK, Phase, Table, PerPeer
<1> QED
  BY <1>2 DEF Init, Inv, InCall, ReadBehind, OutLedger, InLedger, Waiting, PerPeer

\* A quiet step.
LEMMA QuietInv == ASSUME Inv, Quiet PROVE Inv'
<1>0. phase \in [Rank -> Phase]
  BY DEF Inv, TypeOK
<1>1. TypeOK'
  BY DEF Inv, Quiet, TypeOK, bytes, history
<1>2. \A q \in Rank : /\ Waiting(q)' => Waiting(q)
                      /\ phase'[q] = "call" => phase[q] = "call"
                      /\ Cur(q)' = Cur(q)
  BY <1>0 DEF Quiet, Waiting, Cur
<1>3. InCall'
  BY <1>2 DEF Inv, InCall, Quiet
<1>4. ReadBehind' /\ OutLedger'
  BY DEF Inv, ReadBehind, OutLedger, Quiet, bytes, history
<1>5. InLedger'
  BY <1>2 DEF Inv, InLedger, Quiet, bytes, history
<1> QED
  BY <1>1, <1>3, <1>4, <1>5 DEF Inv

\* A call starts: its bytes are handed over and all left to move.
LEMMA EnterInv == ASSUME Inv, NEW r \in Rank, Enter(r) PROVE Inv'
<1>0. TypeOK /\ phase \in [Rank -> Phase] /\ toSend \in Table /\ toRecv \in Table
      /\ handed \in Table /\ written \in Table /\ read \in Table /\ got \in Table
  BY DEF Inv, TypeOK
<1>1. Cur(r).out \in [Rank -> Nat] /\ Cur(r).in \in [Rank -> Nat]
  BY <1>0, CurType DEF Enter
<1>2. \A q \in Rank : Cur(q)' = Cur(q)
  BY DEF Enter, Cur
<1>3. toSend' \in Table /\ toRecv' \in Table /\ handed' \in Table
  BY <1>0, <1>1 DEF Enter, Table
<1>4. TypeOK'
  BY <1>3 DEF Inv, TypeOK, Enter, Phase
<1>5. InCall'
  BY <1>0 DEF Inv, InCall, Enter, Waiting
<1>6. ReadBehind'
  BY DEF Inv, ReadBehind, Enter
<1>7. \A p \in Rank : /\ toSend'[r][p] = Cur(r).out[p]
                      /\ toRecv'[r][p] = Cur(r).in[p]
                      /\ handed'[r][p] = handed[r][p] + Cur(r).out[p]
  BY <1>0 DEF Enter, Table
<1>8. \A q \in Rank \ {r} : UNCHANGED <<toSend[q], toRecv[q], handed[q], phase[q]>>
  BY <1>0 DEF Enter, Table
<1>9. OutLedger'
  <2> SUFFICES ASSUME NEW q \in Rank, NEW p \in Rank
               PROVE  handed'[q][p] = written'[q][p] + toSend'[q][p]
    BY DEF OutLedger
  <2>1. written' = written /\ written[q][p] \in Nat
    BY <1>0 DEF Enter, Table
  <2>2. CASE q = r
    BY <1>0, <1>1, <1>7, <2>1, <2>2 DEF Inv, OutLedger, InLedger, Enter
  <2>3. CASE q # r
    BY <1>8, <2>1, <2>3 DEF Inv, OutLedger
  <2> QED
    BY <2>2, <2>3
<1>10. InLedger'
  <2> SUFFICES ASSUME NEW q \in Rank, NEW p \in Rank
               PROVE  /\ phase'[q] = "call" =>
                           toSend'[q][p] = 0 /\ read'[q][p] = got'[q][p]
                      /\ Waiting(q)' =>
                           read'[q][p] + toRecv'[q][p] = got'[q][p] + Cur(q)'.in[p]
    BY DEF InLedger
  <2>1. UNCHANGED <<read, got>> /\ phase[r] = "call" /\ phase'[r] = "loop"
    BY <1>0 DEF Enter
  <2>2. CASE q = r
    BY <1>2, <1>7, <2>1, <2>2 DEF Inv, InLedger
  <2>3. CASE q # r
    <3>1. Waiting(q)' = Waiting(q)
      BY <1>8, <2>3 DEF Waiting
    <3> QED
      BY <1>2, <1>8, <2>1, <2>3, <3>1 DEF Inv, InLedger
  <2> QED
    BY <2>2, <2>3
<1> QED
  BY <1>4, <1>5, <1>6, <1>9, <1>10 DEF Inv

\* A write moves bytes from what is left to what is written.
LEMMA WritesInv == ASSUME Inv, NEW r \in Rank, Writes(r) PROVE Inv'
<1>0. TypeOK /\ toSend \in Table /\ written \in Table /\ read \in Table
      /\ handed \in Table /\ turn \in [Rank -> SUBSET (Rank \X Direction)]
  BY DEF Inv, TypeOK
<1>p. PICK p \in Rank :
        /\ \E n \in Sendable(r, p) :
             /\ toSend' = [toSend EXCEPT ![r][p] = Rest(@, n)]
             /\ written' = [written EXCEPT ![r][p] = @ + n]
        /\ turn' = [turn EXCEPT ![r] = @ \ {<<p, "send">>}]
  BY Zenon DEF Writes
<1>1. PICK n \in Sendable(r, p) :
        /\ toSend' = [toSend EXCEPT ![r][p] = Rest(@, n)]
        /\ written' = [written EXCEPT ![r][p] = @ + n]
  BY Zenon, <1>p
<1>2. n \in Nat /\ Rest(toSend[r][p], n) \in Nat
  BY <1>0, SendableType
<1>3. UNCHANGED <<calls, pc, phase, toRecv, read, handed, got>>
  BY DEF Writes, history
<1>4. \A q \in Rank : Cur(q)' = Cur(q) /\ Waiting(q)' = Waiting(q)
  BY <1>3 DEF Cur, Waiting
<1>5. toSend' \in Table /\ written' \in Table
  BY <1>0, <1>1, <1>2 DEF Table
<1>6. TypeOK'
  BY <1>0, <1>p, <1>3, <1>5 DEF TypeOK
<1>7. \A q, k \in Rank : written[q][k] <= written'[q][k]
  BY <1>0, <1>1, <1>2 DEF Table
<1>8. ReadBehind'
  <2> SUFFICES ASSUME NEW q \in Rank, NEW k \in Rank
               PROVE  read'[q][k] <= written'[k][q]
    BY DEF ReadBehind
  <2>1. read[q][k] \in Nat /\ written[k][q] \in Nat /\ written'[k][q] \in Nat
    BY <1>0, <1>5 DEF Table
  <2> QED
    BY <1>3, <1>7, <2>1 DEF Inv, ReadBehind
<1>9. OutLedger'
  <2> SUFFICES ASSUME NEW q \in Rank, NEW k \in Rank
               PROVE  handed'[q][k] = written'[q][k] + toSend'[q][k]
    BY DEF OutLedger
  <2>1. toSend[q][k] \in Nat /\ written[q][k] \in Nat
    BY <1>0 DEF Table
  <2>2. handed[q][k] = written[q][k] + toSend[q][k]
    BY DEF Inv, OutLedger
  <2>3. CASE q = r /\ k = p
    <3>1. written'[q][k] = written[q][k] + n /\ toSend'[q][k] = toSend[q][k] - n
      BY <1>0, <1>1, <2>3 DEF Table, Rest
    <3> QED
      BY <1>2, <1>3, <2>1, <2>2, <3>1
  <2>4. CASE ~(q = r /\ k = p)
    <3>1. written'[q][k] = written[q][k] /\ toSend'[q][k] = toSend[q][k]
      BY <1>0, <1>1, <2>4 DEF Table
    <3> QED
      BY <1>3, <2>2, <3>1
  <2> QED
    BY <2>3, <2>4
<1>10. InLedger'
  <2>1. phase[r] = "sweep"
    BY DEF Writes
  <2>2. \A q \in Rank \ {r} : toSend'[q] = toSend[q]
    BY <1>0, <1>1 DEF Table
  <2> QED
    BY <1>3, <1>4, <2>1, <2>2 DEF Inv, InLedger
<1>11. InCall'
  BY <1>3, <1>4 DEF Inv, InCall
<1> QED
  BY <1>6, <1>8, <1>9, <1>10, <1>11 DEF Inv

\* A read moves bytes from what is left to what is read, and takes none that is
\* not there.
LEMMA ReadsInv == ASSUME Inv, NEW r \in Rank, Reads(r) PROVE Inv'
<1>0. TypeOK /\ toRecv \in Table /\ written \in Table /\ read \in Table
      /\ got \in Table /\ turn \in [Rank -> SUBSET (Rank \X Direction)]
  BY DEF Inv, TypeOK
<1>p. PICK p \in Rank :
        /\ \E n \in Receivable(r, p) :
             /\ toRecv' = [toRecv EXCEPT ![r][p] = Rest(@, n)]
             /\ read' = [read EXCEPT ![r][p] = @ + n]
        /\ turn' = [turn EXCEPT ![r] = @ \ {<<p, "recv">>}]
  BY Zenon DEF Reads
<1>1. PICK n \in Receivable(r, p) :
        /\ toRecv' = [toRecv EXCEPT ![r][p] = Rest(@, n)]
        /\ read' = [read EXCEPT ![r][p] = @ + n]
  BY Zenon, <1>p
<1>2. /\ n \in Nat /\ Rest(toRecv[r][p], n) \in Nat
      /\ read[r][p] + n <= written[p][r]
  BY <1>0, ReceivableType
<1>3. UNCHANGED <<calls, pc, phase, toSend, written, handed, got>>
  BY DEF Reads, history
<1>4. \A q \in Rank : Cur(q)' = Cur(q) /\ Waiting(q)' = Waiting(q)
  BY <1>3 DEF Cur, Waiting
<1>5. toRecv' \in Table /\ read' \in Table
  BY <1>0, <1>1, <1>2 DEF Table
<1>6. TypeOK'
  BY <1>0, <1>p, <1>3, <1>5 DEF TypeOK
<1>7. /\ read'[r][p] = read[r][p] + n
      /\ toRecv'[r][p] = toRecv[r][p] - n
      /\ \A q, k \in Rank : ~(q = r /\ k = p) =>
           read'[q][k] = read[q][k] /\ toRecv'[q][k] = toRecv[q][k]
  BY <1>0, <1>1 DEF Table, Rest
<1>8. ReadBehind' /\ OutLedger'
  BY <1>2, <1>3, <1>7 DEF Inv, ReadBehind, OutLedger
<1>9. phase[r] = "sweep" /\ Waiting(r)
  BY DEF Reads, Waiting
<1>10. InLedger'
  <2> SUFFICES ASSUME NEW q \in Rank, NEW k \in Rank
               PROVE  /\ phase[q] = "call" =>
                           toSend[q][k] = 0 /\ read'[q][k] = got[q][k]
                      /\ Waiting(q) =>
                           read'[q][k] + toRecv'[q][k] = got[q][k] + Cur(q).in[k]
    BY <1>3, <1>4 DEF InLedger
  <2>1. CASE q = r /\ k = p
    <3>1. read[r][p] + toRecv[r][p] = got[r][p] + Cur(r).in[p]
      BY <1>9 DEF Inv, InLedger
    <3>2. read[r][p] \in Nat /\ toRecv[r][p] \in Nat
      BY <1>0 DEF Table
    <3>3. read'[r][p] + toRecv'[r][p] = read[r][p] + toRecv[r][p]
      BY <1>2, <1>7, <3>2
    <3> QED
      BY <1>9, <2>1, <3>1, <3>3
  <2>2. CASE ~(q = r /\ k = p)
    BY <1>7, <2>2 DEF Inv, InLedger
  <2> QED
    BY <2>1, <2>2
<1>11. InCall'
  BY <1>3, <1>4 DEF Inv, InCall
<1> QED
  BY <1>6, <1>8, <1>10, <1>11 DEF Inv

\* A call returns with nothing left.
LEMMA ReturnInv == ASSUME Inv, NEW r \in Rank, Return(r) PROVE Inv'
<1>0. TypeOK /\ phase \in [Rank -> Phase] /\ pc \in [Rank -> Nat]
      /\ got \in Table /\ read \in Table /\ toRecv \in Table
  BY DEF Inv, TypeOK
<1>1. Waiting(r) /\ pc[r] \in DOMAIN calls[r] /\ Done(r)
  BY DEF Return, Waiting, Inv, InCall
<1>2. Cur(r).in \in [Rank -> Nat]
  BY <1>0, <1>1, CurType
<1>3. UNCHANGED <<calls, bytes, handed, turn>>
  BY DEF Return
<1>4. \A q \in Rank \ {r} : UNCHANGED <<phase[q], pc[q], got[q]>>
  BY <1>0 DEF Return, Table
<1>5. \A q \in Rank \ {r} : Cur(q)' = Cur(q) /\ Waiting(q)' = Waiting(q)
  BY <1>3, <1>4 DEF Cur, Waiting
<1>6. phase'[r] = "call" /\ \A p \in Rank : got'[r][p] = got[r][p] + Cur(r).in[p]
  BY <1>0 DEF Return, Table
<1>7. got' \in Table
  BY <1>0, <1>2 DEF Return, Table
<1>8. TypeOK'
  BY <1>3, <1>7 DEF Inv, TypeOK, Return, bytes, Phase
<1>9. InCall'
  BY <1>3, <1>4, <1>5, <1>6 DEF Inv, InCall, Waiting
<1>10. ReadBehind' /\ OutLedger'
  BY <1>3 DEF Inv, ReadBehind, OutLedger, bytes
<1>11. InLedger'
  <2> SUFFICES ASSUME NEW q \in Rank, NEW p \in Rank
               PROVE  /\ phase'[q] = "call" =>
                           toSend[q][p] = 0 /\ read[q][p] = got'[q][p]
                      /\ Waiting(q)' =>
                           read[q][p] + toRecv[q][p] = got'[q][p] + Cur(q)'.in[p]
    BY <1>3 DEF InLedger, bytes
  <2>1. CASE q = r
    <3>1. read[r][p] + toRecv[r][p] = got[r][p] + Cur(r).in[p]
      BY <1>1 DEF Inv, InLedger
    <3>2. toSend[r][p] = 0 /\ toRecv[r][p] = 0 /\ read[r][p] \in Nat
      BY <1>0, <1>1 DEF Done, Table
    <3> QED
      BY <1>6, <2>1, <3>1, <3>2 DEF Waiting
  <2>2. CASE q # r
    BY <1>4, <1>5, <2>2 DEF Inv, InLedger
  <2> QED
    BY <2>1, <2>2
<1> QED
  BY <1>8, <1>9, <1>10, <1>11 DEF Inv

\* The books are kept at every step.
LEMMA StepInv == Inv /\ [Next]_vars => Inv'
<1> SUFFICES ASSUME Inv, [Next]_vars PROVE Inv'
  OBVIOUS
<1>1. CASE Next
  <2>1. TypeOK
    BY DEF Inv
  <2> QED
    BY Zenon, <1>1, <2>1, StepKinds, QuietInv, EnterInv, WritesInv, ReadsInv, ReturnInv
<1>2. CASE UNCHANGED vars
  BY <1>2 DEF Inv, TypeOK, InCall, ReadBehind, OutLedger, InLedger, Waiting, Cur,
              vars, local, bytes, history
<1> QED
  BY <1>1, <1>2

\* In every behaviour.
LEMMA InvHolds == Spec => []Inv
BY InitInv, StepInv, PTL DEF Spec

\* Between two calls each stream stands where the calls have left it.
THEOREM StreamsAligned == Spec => []StreamAligned
<1>1. Inv => StreamAligned
  <2> SUFFICES ASSUME Inv, NEW r \in Rank, NEW p \in Rank, phase[r] = "call"
               PROVE  read[r][p] = got[r][p] /\ written[r][p] = handed[r][p]
    BY DEF StreamAligned
  <2>1. written[r][p] \in Nat
    BY DEF Inv, TypeOK, Table
  <2> QED
    BY <2>1 DEF Inv, InLedger, OutLedger
<1> QED
  BY <1>1, InvHolds, PTL

----------------------------------------------------------------------------
(* The contract.                                                           *)

\* A rank that stays where it is, or stays inside its call, shows the same.
LEMMA ShowsSame ==
  ASSUME NEW q \in Rank, UNCHANGED <<calls, pc[q]>>,
         phase'[q] = phase[q] \/ (Waiting(q) /\ Waiting(q)')
  PROVE  UNCHANGED <<state[q], due[q]>>
<1>1. UNCHANGED <<Waiting(q), Cur(q)>> /\ (phase'[q] = "call" <=> phase[q] = "call")
  BY DEF Waiting, Cur
<1> QED
  BY <1>1 DEF state, due

\* A step that changes what one rank shows.
LEMMA OnlyShown ==
  ASSUME NEW r \in Rank, NEW s, NEW d,
         \A q \in Rank \ {r} : UNCHANGED <<state[q], due[q]>>,
         state'[r] = s, due'[r] = d
  PROVE  state' = [state EXCEPT ![r] = s] /\ due' = [due EXCEPT ![r] = d]
<1>1. /\ DOMAIN state = Rank /\ state = [q \in Rank |-> state[q]]
      /\ state' = [q \in Rank |-> state'[q]]
  BY DEF state
<1>2. /\ DOMAIN due = Rank /\ due = [q \in Rank |-> due[q]]
      /\ due' = [q \in Rank |-> due'[q]]
  BY DEF due
<1>3. state' = [state EXCEPT ![r] = s]
  BY <1>1
<1>4. due' = [due EXCEPT ![r] = d]
  BY <1>2
<1> QED
  BY <1>3, <1>4

\* When no rank changes its phase nothing but the bytes is to be seen.
LEMMA Unseen ==
  ASSUME UNCHANGED <<calls, pc, phase>>
  PROVE  UNCHANGED <<state, due>>
BY DEF state, due, Waiting, Cur

\* What a rank is due is a number for each peer.
LEMMA DueType == ASSUME Inv PROVE due \in T!Table
<1> SUFFICES ASSUME NEW r \in Rank, Waiting(r) PROVE Cur(r).in \in [Rank -> Nat]
  BY DEF due, T!Table
<1> QED
  BY CurType DEF Inv, InCall

\* A quiet step is no step of the contract, or a failure.
LEMMA QuietRefined ==
  ASSUME Inv, Quiet PROVE UNCHANGED T!vars \/ \E r \in Rank : T!Fail(r)
<1>0. phase \in [Rank -> Phase] /\ handed \in Table
  BY DEF Inv, TypeOK
<1>1. UNCHANGED <<calls, pc, written, handed, got>>
  BY DEF Quiet, bytes, history
<1>2. PICK r \in Rank, ph \in Phase :
        /\ phase' = [phase EXCEPT ![r] = ph]
        /\ \/ ph = phase[r]
           \/ Waiting(r) /\ ph \in {"loop", "sweep", "park"}
           \/ ph \in {"failed", "gone", "vanished"}
  BY Zenon DEF Quiet
<1>3. \A q \in Rank \ {r} : UNCHANGED <<state[q], due[q]>>
  BY <1>0, <1>1, <1>2, ShowsSame
<1>4. CASE UNCHANGED <<state[r], due[r]>>
  <2>1. \A q \in Rank : UNCHANGED <<state[q], due[q]>>
    BY <1>3, <1>4
  <2>2. UNCHANGED state
    BY <2>1 DEF state
  <2>3. UNCHANGED due
    BY <2>1 DEF due
  <2> QED
    BY <1>1, <2>2, <2>3 DEF T!vars
<1>5. CASE ~UNCHANGED <<state[r], due[r]>>
  <2>1. phase'[r] = ph /\ ph \in {"failed", "gone", "vanished"}
    BY <1>0, <1>1, <1>2, <1>5, ShowsSame DEF Waiting
  <2>2. state'[r] = "failed" /\ due'[r] = T!Nothing
    BY <2>1 DEF state, due, Waiting, T!Nothing
  <2>3. state[r] # "failed"
    <3>1. ASSUME state[r] = "failed" PROVE FALSE
      <4>1. due[r] = T!Nothing
        BY <3>1 DEF state, due, T!Nothing
      <4> QED
        BY <1>5, <2>2, <3>1, <4>1
    <3> QED
      BY <3>1
  <2>4. /\ state' = [state EXCEPT ![r] = "failed"]
        /\ due' = [due EXCEPT ![r] = T!Nothing]
    BY <1>3, <2>2, OnlyShown
  <2>5. T!GrowsAt(handed, handed', r)
    BY <1>0, <1>1 DEF T!GrowsAt, T!Table, Table
  <2> QED
    BY Zenon, <1>1, <2>3, <2>4, <2>5 DEF T!Fail
<1> QED
  BY <1>4, <1>5

\* A call.
LEMMA EnterRefined ==
  ASSUME Inv, Inv', NEW r \in Rank, Enter(r) PROVE T!Call(r)
<1>0. TypeOK /\ phase \in [Rank -> Phase] /\ handed \in Table /\ handed' \in Table
  BY DEF Inv, TypeOK
<1>1. /\ phase[r] = "call" /\ phase'[r] = "loop"
      /\ UNCHANGED <<calls, pc, written, got>>
      /\ \A q \in Rank \ {r} : phase'[q] = phase[q]
  BY <1>0 DEF Enter
<1>2. state[r] = "idle" /\ due[r] = T!Nothing /\ state'[r] = "busy"
  BY <1>1 DEF state, due, Waiting, T!Nothing
<1>3. \A q \in Rank \ {r} : UNCHANGED <<state[q], due[q]>>
  BY <1>1, ShowsSame
<1>4. state' = [state EXCEPT ![r] = "busy"]
  BY <1>2, <1>3, OnlyShown
<1>5. due' \in T!Table
  <2> SUFFICES ASSUME NEW q \in Rank PROVE due'[q] \in [Rank -> Nat]
    BY DEF due, T!Table
  <2>1. CASE q = r
    <3>1. due'[r] = Cur(r).in
      BY <1>1 DEF due, Waiting, Cur
    <3> QED
      BY <1>0, <2>1, <3>1, CurType DEF Enter
  <2>2. CASE q # r
    BY <1>3, <2>2, DueType DEF T!Table
  <2> QED
    BY <2>1, <2>2
<1>6. T!GrowsAt(due, due', r)
  BY <1>2, <1>3, <1>5 DEF T!GrowsAt, T!Nothing, T!Table
<1>7. T!GrowsAt(handed, handed', r)
  <2>1. Cur(r).out \in [Rank -> Nat]
    BY <1>0, CurType DEF Enter
  <2> QED
    BY <1>0, <2>1 DEF Enter, T!GrowsAt, T!Table, Table
<1> QED
  BY <1>1, <1>2, <1>4, <1>6, <1>7 DEF T!Call

\* Bytes go out.
LEMMA WritesRefined ==
  ASSUME Inv, Inv', NEW r \in Rank, Writes(r) PROVE T!Move(r)
<1>0. TypeOK /\ written \in Table /\ written' \in Table /\ toSend' \in Table
  BY DEF Inv, TypeOK
<1>1. UNCHANGED <<calls, pc, phase, handed, got>>
  BY DEF Writes, history
<1>p. PICK p \in Rank :
        \E n \in Sendable(r, p) : written' = [written EXCEPT ![r][p] = @ + n]
  BY Zenon DEF Writes
<1>2. PICK n \in Sendable(r, p) : written' = [written EXCEPT ![r][p] = @ + n]
  BY Zenon, <1>p
<1>3. n \in Nat
  BY <1>0, SendableType
<1>4. T!GrowsAt(written, written', r)
  BY <1>0, <1>2, <1>3 DEF T!GrowsAt, T!Table, Table
<1>5. \A q \in Rank : written'[r][q] <= handed[r][q]
  <2> SUFFICES ASSUME NEW q \in Rank PROVE written'[r][q] <= handed[r][q]
    OBVIOUS
  <2>1. handed'[r][q] = written'[r][q] + toSend'[r][q]
    BY DEF Inv, OutLedger
  <2>2. written'[r][q] \in Nat /\ toSend'[r][q] \in Nat
    BY <1>0 DEF Table
  <2> QED
    BY <1>1, <2>1, <2>2
<1> QED
  BY <1>1, <1>4, <1>5, Unseen DEF T!Move

\* Success.
LEMMA ReturnRefined ==
  ASSUME Inv, Inv', NEW r \in Rank, Return(r) PROVE T!Return(r)
<1>0. TypeOK /\ phase \in [Rank -> Phase] /\ pc \in [Rank -> Nat]
      /\ written \in Table /\ read \in Table /\ got \in Table
  BY DEF Inv, TypeOK
<1>1. /\ phase[r] = "loop" /\ phase'[r] = "call" /\ Done(r) /\ Waiting(r)
      /\ UNCHANGED <<calls, written, handed>>
      /\ \A q \in Rank \ {r} : UNCHANGED <<phase[q], pc[q]>>
  BY <1>0 DEF Return, Waiting, bytes
<1>2. state[r] = "busy" /\ state'[r] = "idle" /\ due'[r] = T!Nothing
      /\ due[r] = Cur(r).in
  BY <1>1 DEF state, due, Waiting, T!Nothing
<1>3. \A q \in Rank \ {r} : UNCHANGED <<state[q], due[q]>>
  BY <1>1, ShowsSame
<1>4. /\ state' = [state EXCEPT ![r] = "idle"]
      /\ due' = [due EXCEPT ![r] = T!Nothing]
  BY <1>2, <1>3, OnlyShown
<1>5. \A p \in Rank : written[r][p] = handed[r][p]
  <2> SUFFICES ASSUME NEW p \in Rank PROVE written[r][p] = handed[r][p]
    OBVIOUS
  <2>1. handed[r][p] = written[r][p] + toSend[r][p] /\ toSend[r][p] = 0
    BY <1>1 DEF Inv, OutLedger, Done
  <2> QED
    BY <1>0, <2>1 DEF Table
<1>6. \A p \in Rank : got[r][p] + due[r][p] <= written[p][r]
  <2> SUFFICES ASSUME NEW p \in Rank
               PROVE  got[r][p] + due[r][p] <= written[p][r]
    OBVIOUS
  <2>1. /\ read[r][p] + toRecv[r][p] = got[r][p] + due[r][p]
        /\ toRecv[r][p] = 0 /\ read[r][p] <= written[p][r]
    BY <1>1, <1>2 DEF Inv, InLedger, ReadBehind, Done
  <2>2. read[r][p] \in Nat
    BY <1>0 DEF Table
  <2> QED
    BY <2>1, <2>2
<1>7. got' = [got EXCEPT ![r] = [p \in Rank |-> got[r][p] + due[r][p]]]
  BY <1>2 DEF Return
<1> QED
  BY <1>1, <1>2, <1>4, <1>5, <1>6, <1>7 DEF T!Return

\* Every step is a step of the contract, or shows nothing.
LEMMA StepRefined == Inv /\ Inv' /\ [Next]_vars => [T!Next]_T!vars
<1> SUFFICES ASSUME Inv, Inv', [Next]_vars PROVE T!Next \/ UNCHANGED T!vars
  OBVIOUS
<1>1. CASE UNCHANGED vars
  <2>1. UNCHANGED <<calls, pc, phase, written, handed, got>>
    BY <1>1 DEF vars, local, bytes, history
  <2> QED
    BY <2>1, Unseen DEF T!vars
<1>2. CASE Quiet
  BY <1>2, QuietRefined DEF T!Next
<1>3. ASSUME NEW r \in Rank, Enter(r) PROVE T!Next
  BY <1>3, EnterRefined DEF T!Next
<1>4. ASSUME NEW r \in Rank, Writes(r) PROVE T!Next
  BY <1>4, WritesRefined DEF T!Next
<1>5. ASSUME NEW r \in Rank, Reads(r) PROVE UNCHANGED T!vars
  <2>1. UNCHANGED <<calls, pc, phase, written, handed, got>>
    BY <1>5 DEF Reads, history
  <2> QED
    BY <2>1, Unseen DEF T!vars
<1>6. ASSUME NEW r \in Rank, Return(r) PROVE T!Next
  BY <1>6, ReturnRefined DEF T!Next
<1>7. TypeOK
  BY DEF Inv
<1> QED
  BY Zenon, <1>1, <1>2, <1>3, <1>4, <1>5, <1>6, <1>7, StepKinds

\* The TCP transport implements the contract of transport.h.
THEOREM TcpImplementsTransport == Spec => ImplementsTransport
<1>1. Init => T!Init
  BY DEF Init, T!Init, T!Nothing, PerPeer, state, due, Waiting
<1> QED
  BY <1>1, InvHolds, StepRefined, PTL DEF Spec, ImplementsTransport, T!Spec

==============================================================================
