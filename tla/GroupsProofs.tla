---------------------------- MODULE GroupsProofs ----------------------------
(***************************************************************************)
(* Errors of groups, for any communicators, operations and levels of       *)
(* nesting: what a thread of vcclGroupEnd fails with is shown, is never    *)
(* replaced, and is the last thing that its communicator runs.             *)
(***************************************************************************)
EXTENDS Groups, FilterProofs, SequenceTheorems

\* Zenon proves the leaves that name no prover.
USE Zenon

----------------------------------------------------------------------------
(* The invariant.                                                          *)

Result == {"success"} \cup Failure

ErrorTypes ==
  /\ DOMAIN work = Comm /\ DOMAIN ran = Comm
  /\ busy \in [Comm -> BOOLEAN]
  /\ results \in [Comm -> Result]
  /\ aborted \in [Comm -> BOOLEAN]
  /\ asyncError \in [Comm -> Result \cup Fatal]

\* A thread that has failed has no operation left and is in none.
Stopped == \A c \in Comm : results[c] # "success" => work[c] = <<>> /\ ~busy[c]

Inv == ErrorTypes /\ FailureVisible /\ Stopped

\* noteError keeps errors where there are some, and its own when it is the
\* first.
LEMMA Noted ==
  ASSUME ErrorTypes, NEW c \in Comm, NEW res \in Failure \cup Fatal,
         noteError(c, res)
  PROVE  /\ aborted' \in [Comm -> BOOLEAN]
         /\ asyncError' \in [Comm -> Result \cup Fatal]
         /\ asyncError'[c] # "success" /\ (res \in Fatal => aborted'[c])
         /\ \A d \in Comm : /\ asyncError[d] # "success" => asyncError'[d] = asyncError[d]
                            /\ aborted[d] => aborted'[d]
<1>1. res # "success"
  BY DEF Failure, Fatal
<1>2. asyncError' \in [Comm -> Result \cup Fatal]
  BY DEF noteError, ErrorTypes, Result
<1>3. aborted' \in [Comm -> BOOLEAN] /\ (res \in Fatal => aborted'[c])
  BY DEF noteError, ErrorTypes
<1>4. asyncError'[c] # "success"
  BY <1>1 DEF noteError, ErrorTypes
<1>5. \A d \in Comm : asyncError[d] # "success" => asyncError'[d] = asyncError[d]
  BY DEF noteError, ErrorTypes
<1>6. \A d \in Comm : aborted[d] => aborted'[d]
  BY DEF noteError, ErrorTypes
<1> QED
  BY <1>2, <1>3, <1>4, <1>5, <1>6

LEMMA InitInv == Init => Inv
BY DEF Init, Inv, ErrorTypes, FailureVisible, Stopped, PerComm, Result, Failure, Fatal

\* Errors grow, and the results stay or are all reset: what was visible is.
LEMMA StaysVisible ==
  ASSUME FailureVisible,
         \A d \in Comm : /\ asyncError[d] # "success" => asyncError'[d] = asyncError[d]
                         /\ aborted[d] => aborted'[d],
         \A d \in Comm : results'[d] \in {"success", results[d]}
  PROVE  FailureVisible'
<1> SUFFICES ASSUME NEW d \in Comm, results'[d] # "success"
             PROVE  asyncError'[d] # "success" /\ (results'[d] \in Fatal => aborted'[d])
  BY DEF FailureVisible, checkComm
<1> QED
  BY DEF FailureVisible, checkComm

\* The steps that leave errors and threads alone.
Quiet == UNCHANGED <<work, busy, results, aborted, asyncError>> /\ DOMAIN ran' = Comm

LEMMA QuietInv == ASSUME Inv, Quiet PROVE Inv'
BY DEF Inv, Quiet, ErrorTypes, FailureVisible, Stopped, checkComm

\* The steps that note an error or set the abort flag, and leave threads alone.
Errs ==
  /\ UNCHANGED <<work, busy, results>> /\ DOMAIN ran' = Comm
  /\ aborted' \in [Comm -> BOOLEAN] /\ asyncError' \in [Comm -> Result \cup Fatal]
  /\ \A d \in Comm : /\ asyncError[d] # "success" => asyncError'[d] = asyncError[d]
                     /\ aborted[d] => aborted'[d]

LEMMA ErrsInv == ASSUME Inv, Errs PROVE Inv'
<1>1. FailureVisible'
  BY StaysVisible DEF Inv, Errs
<1>2. ErrorTypes' /\ Stopped'
  BY DEF Inv, Errs, ErrorTypes, Stopped
<1> QED
  BY <1>1, <1>2 DEF Inv

----------------------------------------------------------------------------
(* The actions.                                                            *)

LEMMA GroupEndInv == ASSUME Inv, vcclGroupEnd PROVE Inv'
<1>1. CASE depth > 1
  BY <1>1, QuietInv DEF vcclGroupEnd, Quiet, errors, history, Inv, ErrorTypes
<1>2. CASE ~(depth > 1)
  <2>1. /\ work' = [c \in Comm |-> OpsOf(c)] /\ results' = [c \in Comm |-> "success"]
        /\ UNCHANGED <<busy, aborted, asyncError, ran>>
    BY <1>2 DEF vcclGroupEnd, PerComm, errors, history
  <2> QED
    BY <2>1 DEF Inv, ErrorTypes, FailureVisible, Stopped, Result
<1> QED
  BY <1>1, <1>2

LEMMA AbortInv == ASSUME Inv, NEW c \in Comm, vcclCommAbort(c) PROVE Inv'
<1>1. aborted' \in [Comm -> BOOLEAN] /\ \A d \in Comm : aborted[d] => aborted'[d]
  BY DEF vcclCommAbort, Inv, ErrorTypes
<1>2. UNCHANGED <<work, busy, results, asyncError, ran>>
  BY DEF vcclCommAbort, group, history
<1> QED
  BY <1>1, <1>2, ErrsInv DEF Errs, Inv, ErrorTypes

LEMMA AbortNotesInv == ASSUME Inv, NEW c \in Comm, AbortNotes(c) PROVE Inv'
<1>1. noteError(c, "unhandled") /\ UNCHANGED <<work, busy, results, ran>>
  BY DEF AbortNotes, group, history
<1>2. "unhandled" \in Failure \cup Fatal
  BY DEF Fatal
<1> QED
  BY <1>1, <1>2, Noted, ErrsInv DEF Errs, Inv, ErrorTypes

LEMMA RunNowInv ==
  ASSUME Inv, NEW c \in Comm, NEW kind, RunNow(c, kind) PROVE Inv'
<1>1. UNCHANGED <<work, busy, results>> /\ DOMAIN ran' = Comm
  BY DEF RunNow, runOp, group, Inv, ErrorTypes
<1>2. CASE UNCHANGED errors
  BY <1>1, <1>2, QuietInv DEF Quiet, errors
<1>3. ASSUME NEW res \in Failure, noteError(c, res) PROVE Inv'
  BY <1>1, <1>3, Noted, ErrsInv DEF Errs, Inv
<1> QED
  BY <1>2, <1>3 DEF RunNow, runOp

LEMMA BeginRunInv == ASSUME Inv, NEW c \in Comm, BeginRun(c) PROVE Inv'
<1>1. /\ results[c] = "success" /\ UNCHANGED <<results, aborted, asyncError>>
      /\ DOMAIN work' = Comm /\ DOMAIN ran' = Comm
      /\ \A d \in Comm \ {c} : work'[d] = work[d]
  BY DEF BeginRun, Inv, Stopped, ErrorTypes, errors
<1>2. busy' \in [Comm -> BOOLEAN] /\ \A d \in Comm \ {c} : busy'[d] = busy[d]
  BY DEF BeginRun, Inv, ErrorTypes
<1>3. Stopped'
  BY <1>1, <1>2 DEF Inv, Stopped
<1>4. ErrorTypes' /\ FailureVisible'
  BY <1>1, <1>2 DEF Inv, ErrorTypes, FailureVisible, checkComm
<1> QED
  BY <1>3, <1>4 DEF Inv

LEMMA SucceedInv == ASSUME Inv, NEW c \in Comm, Succeed(c) PROVE Inv'
<1>1. UNCHANGED <<work, results, aborted, asyncError, ran>>
  BY DEF Succeed, errors, history
<1>2. busy' \in [Comm -> BOOLEAN] /\ \A d \in Comm : busy'[d] => busy[d]
  BY DEF Succeed, Inv, ErrorTypes
<1> QED
  BY <1>1, <1>2 DEF Inv, ErrorTypes, FailureVisible, Stopped, checkComm

LEMMA FailRunInv ==
  ASSUME Inv, NEW c \in Comm, NEW res \in Failure, FailRun(c, res) PROVE Inv'
<1>1. noteError(c, res) /\ UNCHANGED ran
  BY DEF FailRun, history
<1>2. /\ results' \in [Comm -> Result] /\ results'[c] = res
      /\ \A d \in Comm \ {c} : results'[d] = results[d]
  BY DEF FailRun, Inv, ErrorTypes, Result
<1>3. /\ DOMAIN work' = Comm /\ work'[c] = <<>>
      /\ \A d \in Comm \ {c} : work'[d] = work[d]
  BY DEF FailRun, Inv, ErrorTypes
<1>4. busy' \in [Comm -> BOOLEAN] /\ ~busy'[c] /\ \A d \in Comm : busy'[d] => busy[d]
  BY DEF FailRun, Inv, ErrorTypes
<1>5. /\ aborted' \in [Comm -> BOOLEAN]
      /\ asyncError' \in [Comm -> Result \cup Fatal]
      /\ asyncError'[c] # "success" /\ (res \in Fatal => aborted'[c])
      /\ \A d \in Comm : /\ asyncError[d] # "success" => asyncError'[d] = asyncError[d]
                         /\ aborted[d] => aborted'[d]
  BY <1>1, Noted DEF Inv
<1>6. Stopped'
  BY <1>2, <1>3, <1>4 DEF Inv, Stopped
<1>7. FailureVisible'
  <2> SUFFICES ASSUME NEW d \in Comm, results'[d] # "success"
               PROVE  asyncError'[d] # "success" /\ (results'[d] \in Fatal => aborted'[d])
    BY DEF FailureVisible, checkComm
  <2>1. CASE d = c
    BY <2>1, <1>2, <1>5
  <2>2. CASE d # c
    BY <2>2, <1>2, <1>5 DEF Inv, FailureVisible, checkComm
  <2> QED
    BY <2>1, <2>2
<1> QED
  BY <1>1, <1>2, <1>3, <1>4, <1>5, <1>6, <1>7 DEF Inv, ErrorTypes

LEMMA StepInv == Inv /\ [Next]_vars => Inv'
<1> SUFFICES ASSUME Inv, [Next]_vars PROVE Inv'
  OBVIOUS
<1>1. CASE vcclGroupStart \/ Join \/ UNCHANGED vars
  BY <1>1, QuietInv
     DEF vcclGroupStart, Join, vars, group, errors, history, Quiet, Inv, ErrorTypes
<1>2. ASSUME NEW c \in Comm, NEW kind \in Kind, Enqueue(c, kind) PROVE Inv'
  BY <1>2, QuietInv DEF Enqueue, group, errors, Quiet, Inv, ErrorTypes
<1>3. ASSUME NEW c \in Comm, Thread(c) PROVE Inv'
  BY <1>3, BeginRunInv, SucceedInv, FailRunInv DEF Thread
<1> QED
  BY <1>1, <1>2, <1>3, GroupEndInv, AbortInv, AbortNotesInv, RunNowInv DEF Next

LEMMA InvHolds == Spec => []Inv
BY InitInv, StepInv, PTL DEF Spec

----------------------------------------------------------------------------
(* What is run: the ids of a communicator rise from what it has run over   *)
(* what its thread still holds to what is queued, and until it shows an    *)
(* error they are all there.                                               *)

RunTypes ==
  /\ queue \in Seq(Op(Comm)) /\ order \in Seq(Comm)
  /\ work \in [Comm -> Seq(Op(Comm))] /\ ran \in [Comm -> Seq(Nat)]
  /\ issued \in [Comm -> Nat] /\ depth \in Nat

\* The operation id, of n issued, may be run after those of r.
Later(n, r, id) == id <= n /\ \A k \in DOMAIN r : r[k] < id

Queued ==
  /\ \A i, j \in DOMAIN queue :
       i < j /\ queue[i].comm = queue[j].comm => queue[i].id < queue[j].id
  /\ \A i \in DOMAIN queue : Later(issued[queue[i].comm], ran[queue[i].comm], queue[i].id)

Held ==
  \A c \in Comm :
    /\ \A i, j \in DOMAIN work[c] : i < j => work[c][i].id < work[c][j].id
    /\ \A i \in DOMAIN work[c] : Later(issued[c], ran[c], work[c][i].id)

\* Threads and queue are never both in use.
Phases ==
  /\ ~Running => \A c \in Comm : work[c] = <<>> /\ ~busy[c]
  /\ Running \/ depth = 0 => queue = <<>>

\* Join looks at every communicator that could have failed.
Looked ==
  Running => \A c \in Comm : work[c] # <<>> \/ busy[c] \/ results[c] # "success" =>
               \E i \in DOMAIN order : order[i] = c

Told == ~Running => (returned = "success" => \A c \in Comm : results[c] = "success")

Counted ==
  \A c \in Comm : asyncError[c] = "success" =>
    Len(ran[c]) + Len(work[c]) + Len(OpsOf(c)) = issued[c]

RunInv ==
  /\ RunTypes /\ IssueOrder /\ Queued /\ Held /\ Phases /\ Looked /\ Told /\ Counted

LEMMA OwnOps ==
  ASSUME RunTypes, NEW c \in Comm
  PROVE  OpsOf(c) \in Seq(Op(Comm)) /\ \E f : Places(f, OpsOf(c), queue, Op({c}), Len(queue))
BY FilterPlaces DEF RunTypes, OpsOf

LEMMA NoOps ==
  /\ queue = <<>> => \A c \in Comm : Len(OpsOf(c)) = 0
  /\ queue' = <<>> => \A c \in Comm : Len(OpsOf(c)') = 0
BY FilterNone DEF OpsOf

\* A queue that is not empty has a first communicator.
LEMMA SomeComm ==
  ASSUME NEW ops \in Seq(Op(Comm))
  PROVE  /\ CommsOf(ops) \in Seq(Comm)
         /\ \A i \in DOMAIN ops : \E k \in DOMAIN CommsOf(ops) : CommsOf(ops)[k] = ops[i].comm
<1> DEFINE idx == [i \in DOMAIN ops |-> i]
           New == {i \in DOMAIN ops : \A j \in 1 .. i - 1 : ops[j].comm # ops[i].comm}
           first == Filter(idx, New)
<1>1. DOMAIN ops = 1 .. Len(ops) /\ Len(ops) \in Nat
  BY SMT
<1>2. idx \in Seq(DOMAIN ops) /\ Len(idx) = Len(ops) /\ \A i \in 1 .. Len(ops) : idx[i] = i
  BY SMT, <1>1
<1> HIDE DEF idx, New
<1>3. first \in Seq(DOMAIN ops) /\ \E f : Places(f, first, idx, New, Len(idx))
  BY <1>2, FilterPlaces
<1>4. PICK f : Places(f, first, idx, New, Len(idx))
  BY <1>3
<1> HIDE DEF first
<1>5. CommsOf(ops) = [k \in DOMAIN first |-> ops[first[k]].comm]
  BY DEF CommsOf, first, idx, New
<1>6. DOMAIN first = 1 .. Len(first) /\ Len(first) \in Nat
      /\ \A k \in 1 .. Len(first) : first[k] \in DOMAIN ops
  BY SMT, <1>3
<1>7. \A i \in DOMAIN ops : ops[i].comm \in Comm
  <2>1. \A i \in DOMAIN ops : ops[i] \in Op(Comm)
    BY SMT
  <2> QED
    BY <2>1 DEF Op
<1>8. CommsOf(ops) \in Seq(Comm) /\ DOMAIN CommsOf(ops) = 1 .. Len(first)
  <2> DEFINE s == [k \in 1 .. Len(first) |-> ops[first[k]].comm]
  <2>1. \A k \in 1 .. Len(first) : ops[first[k]].comm \in Comm
    BY <1>6, <1>7
  <2>2. s \in Seq(Comm)
    BY SMT, <2>1, <1>6
  <2>3. CommsOf(ops) = s
    BY <1>5, <1>6
  <2> QED
    BY <2>2, <2>3
<1>9. ASSUME NEW i \in DOMAIN ops
      PROVE  \E k \in DOMAIN CommsOf(ops) : CommsOf(ops)[k] = ops[i].comm
  <2> DEFINE T == {j \in DOMAIN ops : ops[j].comm = ops[i].comm}
  <2>1. T \in SUBSET Nat /\ T # {}
    BY SMT, <1>1
  <2>2. PICK j \in T : \A l \in T : j <= l
    BY <2>1, Least
  <2>3. j \in DOMAIN ops /\ ops[j].comm = ops[i].comm
    BY <2>2
  <2>4. j \in New
    BY SMT, <2>2, <2>3, <1>1 DEF New
  <2>5. idx[j] = j /\ j \in 1 .. Len(idx)
    BY <2>3, <1>1, <1>2
  <2>6. PICK k \in 1 .. Len(first) : f[k] = j
    BY <2>4, <2>5, <1>4 DEF Places
  <2>7. first[k] = j
    BY <2>5, <2>6, <1>4 DEF Places
  <2> QED
    BY <2>3, <2>6, <2>7, <1>5, <1>6, <1>8
<1> QED
  BY <1>8, <1>9

LEMMA RunInit == Init => RunInv
<1> SUFFICES ASSUME Init PROVE RunInv
  OBVIOUS
<1>1. RunTypes
  BY SMT DEF Init, RunTypes, PerComm
<1>2. \A c \in Comm : Len(OpsOf(c)) = 0
  BY NoOps DEF Init
<1> HIDE DEF OpsOf
<1>3. Counted
  BY SMT, <1>2 DEF Init, PerComm, Counted
<1>4. IssueOrder
  BY SMT DEF Init, PerComm, IssueOrder, Range
<1> QED
  BY SMT, <1>1, <1>3, <1>4 DEF Init, PerComm, RunInv, Queued, Held, Phases, Looked, Told, Running

Rises(r, n) ==
  /\ \A i, j \in DOMAIN r : i < j => r[i] < r[j]
  /\ \A i \in DOMAIN r : r[i] \in 1 .. n

LEMMA AppendRises ==
  ASSUME NEW r \in Seq(Nat), NEW n \in Nat, Rises(r, n)
  PROVE  Rises(Append(r, n + 1), n + 1)
<1>1. PICK l \in Nat : l = Len(r)
  BY SMT
<1>2. PICK s : s = Append(r, n + 1)
  OBVIOUS
<1>3. /\ DOMAIN r = 1 .. l /\ DOMAIN s = 1 .. l + 1 /\ s[l + 1] = n + 1
      /\ \A i \in 1 .. l : s[i] = r[i] /\ r[i] \in 1 .. n
  <2>1. n + 1 \in Nat
    BY SMT
  <2>2. /\ s \in Seq(Nat) /\ Len(s) = Len(r) + 1 /\ s[Len(r) + 1] = n + 1
        /\ \A i \in 1 .. Len(r) : s[i] = r[i]
    BY SMT, <2>1, <1>2, AppendProperties
  <2>3. DOMAIN s = 1 .. Len(s) /\ DOMAIN r = 1 .. Len(r)
    BY SMT, <2>2
  <2>4. \A i \in DOMAIN r : r[i] \in 1 .. n
    BY DEF Rises
  <2> QED
    BY <2>2, <2>3, <2>4, <1>1
<1>4. \A i, j \in 1 .. l : i < j => r[i] < r[j]
  BY <1>3 DEF Rises
<1>5. \A i, j \in 1 .. l + 1 : i < j => s[i] < s[j]
  BY SMT, <1>3, <1>4
<1>6. \A i \in 1 .. l + 1 : s[i] \in 1 .. n + 1
  BY SMT, <1>3
<1> QED
  BY <1>2, <1>3, <1>5, <1>6 DEF Rises

\* The steps that only add errors.
LEMMA RunQuiet ==
  ASSUME RunInv, UNCHANGED <<queue, order, work, busy, results, returned, issued, ran>>,
         depth' \in Nat, depth' = 0 => depth = 0,
         \A d \in Comm : asyncError[d] # "success" => asyncError'[d] = asyncError[d]
  PROVE  RunInv'
<1>1. Counted'
  BY DEF RunInv, Counted, OpsOf
<1> QED
  BY <1>1 DEF RunInv, RunTypes, IssueOrder, Queued, Held, Later, Phases, Looked, Told, Running

LEMMA EnqueueRun ==
  ASSUME RunInv, NEW c \in Comm, NEW kind \in Kind, Enqueue(c, kind)
  PROVE  RunInv'
<1> DEFINE e == [comm |-> c, id |-> issued[c] + 1, kind |-> kind]
<1>1. /\ queue' = Append(queue, e) /\ ~Running /\ issued[c] < MaxOps
      /\ issued' = [issued EXCEPT ![c] = @ + 1]
      /\ depth > 0 /\ UNCHANGED <<depth, order, work, busy, results, returned, asyncError, ran>>
  BY DEF Enqueue, Accept, group, errors
<1>2. issued[c] \in Nat /\ issued'[c] = issued[c] + 1 /\ issued' \in [Comm -> Nat]
      /\ \A d \in Comm : d # c => issued'[d] = issued[d]
  BY SMT, <1>1 DEF RunInv, RunTypes
<1>3. e \in Op(Comm) /\ e \in Op({c}) /\ (\A d \in Comm : d # c => e \notin Op({d}))
  BY SMT, <1>1, <1>2, BoundsAssumption DEF Op
<1>4. e.comm = c /\ e.id = issued[c] + 1
  OBVIOUS
<1> HIDE DEF e
<1>5. queue \in Seq(Op(Comm)) /\ queue' \in Seq(Op(Comm)) /\ Len(queue) \in Nat
      /\ Len(queue') = Len(queue) + 1 /\ queue'[Len(queue) + 1] = e
      /\ \A i \in 1 .. Len(queue) : queue'[i] = queue[i]
  BY SMT, <1>1, <1>3 DEF RunInv, RunTypes
<1>6. DOMAIN queue = 1 .. Len(queue) /\ DOMAIN queue' = 1 .. Len(queue) + 1
  BY SMT, <1>5
<1>7. RunTypes'
  BY <1>1, <1>2, <1>5 DEF RunInv, RunTypes
<1>8. \A d \in Comm, id \in Nat : Later(issued[d], ran[d], id) => Later(issued'[d], ran'[d], id)
  BY SMT, <1>1, <1>2 DEF Later, RunInv, RunTypes
<1>9. IssueOrder' /\ Later(issued'[c], ran'[c], issued[c] + 1)
  <2>1. ASSUME NEW d \in Comm
        PROVE  issued[d] \in Nat /\ issued'[d] \in Nat /\ issued[d] <= issued'[d]
    <3>1. CASE d = c
      BY SMT, <3>1, <1>2
    <3>2. CASE d # c
      BY SMT, <3>2, <1>2 DEF RunInv, RunTypes
    <3> QED
      BY <3>1, <3>2
  <2>2. \A k \in DOMAIN ran[c] : ran[c][k] \in 1 .. issued[c]
    BY DEF RunInv, IssueOrder, Range
  <2>3. \A k \in DOMAIN ran[c] : ran[c][k] < issued[c] + 1
    BY SMT, <2>2, <1>2
  <2> QED
    <3>1. \A d \in Comm : 1 .. issued[d] \subseteq 1 .. issued'[d]
      BY SMT, <2>1
    <3>2. IssueOrder'
      BY <3>1, <1>1 DEF RunInv, IssueOrder
    <3>3. Later(issued'[c], ran'[c], issued[c] + 1)
      BY SMT, <2>3, <1>1, <1>2 DEF Later
    <3> QED
      BY <3>2, <3>3
<1>10. \A i \in 1 .. Len(queue) : queue[i].comm \in Comm /\ queue[i].id \in Nat
  <2>1. \A i \in 1 .. Len(queue) : queue[i] \in Op(Comm)
    BY SMT, <1>5
  <2> QED
    BY SMT, <2>1, BoundsAssumption DEF Op
<1>11. Queued'
  <2>1. ASSUME NEW i \in 1 .. Len(queue) + 1, NEW j \in 1 .. Len(queue) + 1, i < j,
               queue'[i].comm = queue'[j].comm
        PROVE  queue'[i].id < queue'[j].id
    <3>1. i \in 1 .. Len(queue) /\ queue'[i] = queue[i]
      BY SMT, <2>1, <1>5
    <3>2. CASE j = Len(queue) + 1
      <4>1. queue[i].comm = c /\ queue[i].id <= issued[c]
        BY <3>1, <3>2, <2>1, <1>4, <1>5, <1>6 DEF RunInv, Queued, Later
      <4> QED
        BY SMT, <4>1, <3>1, <3>2, <1>2, <1>4, <1>5, <1>10
    <3>3. CASE j # Len(queue) + 1
      <4>1. j \in 1 .. Len(queue) /\ queue'[j] = queue[j]
        BY SMT, <3>3, <1>5
      <4> QED
        BY <4>1, <3>1, <2>1, <1>6 DEF RunInv, Queued
    <3> QED
      BY <3>2, <3>3
  <2>2. ASSUME NEW i \in 1 .. Len(queue) + 1
        PROVE  Later(issued'[queue'[i].comm], ran'[queue'[i].comm], queue'[i].id)
    <3>1. CASE i = Len(queue) + 1
      BY <3>1, <1>4, <1>5, <1>9
    <3>2. CASE i # Len(queue) + 1
      <4>1. i \in 1 .. Len(queue) /\ queue'[i] = queue[i]
        BY SMT, <3>2, <1>5
      <4>2. Later(issued[queue[i].comm], ran[queue[i].comm], queue[i].id)
        BY <4>1, <1>6 DEF RunInv, Queued
      <4> QED
        BY <4>1, <4>2, <1>8, <1>10
    <3> QED
      BY <3>1, <3>2
  <2> QED
    BY <2>1, <2>2, <1>6 DEF Queued
<1>12. \A d \in Comm : work[d] = <<>> /\ work'[d] = <<>> /\ ~busy'[d]
  BY <1>1 DEF RunInv, Phases
<1>13. Counted'
  <2> SUFFICES ASSUME NEW d \in Comm, asyncError[d] = "success"
               PROVE  Len(ran[d]) + Len(work'[d]) + Len(OpsOf(d)') = issued'[d]
    BY <1>1 DEF Counted
  <2>1. OpsOf(d)' = IF e \in Op({d}) THEN Append(OpsOf(d), e) ELSE OpsOf(d)
    BY <1>1, <1>3, <1>5, FilterAppend DEF OpsOf
  <2>2. OpsOf(d) \in Seq(Op(Comm))
    BY OwnOps DEF RunInv
  <2>3. Len(ran[d]) + Len(work[d]) + Len(OpsOf(d)) = issued[d] /\ Len(ran[d]) \in Nat
    BY SMT DEF RunInv, Counted, RunTypes
  <2> HIDE DEF OpsOf
  <2>4. /\ Len(OpsOf(d)) \in Nat
        /\ d = c => Len(OpsOf(d)') = Len(OpsOf(d)) + 1
        /\ d # c => OpsOf(d)' = OpsOf(d)
    <3>1. CASE d = c
      BY SMT, <3>1, <2>1, <2>2, <1>3
    <3>2. CASE d # c
      BY SMT, <3>2, <2>1, <2>2, <1>3
    <3> QED
      BY <3>1, <3>2
  <2>5. Len(work[d]) = 0 /\ Len(work'[d]) = 0 /\ issued[d] \in Nat
    BY SMT, <1>12 DEF RunInv, RunTypes
  <2>6. (d = c => issued'[d] = issued[d] + 1) /\ (d # c => issued'[d] = issued[d])
    BY <1>2
  <2> HIDE DEF OpsOf
  <2>7. CASE d = c
    BY SMT, <2>3, <2>4, <2>5, <2>6, <2>7
  <2>8. CASE d # c
    BY <2>3, <2>4, <2>5, <2>6, <2>8
  <2> QED
    BY <2>7, <2>8
<1> QED
  BY SMT, <1>1, <1>7, <1>9, <1>11, <1>12, <1>13
     DEF RunInv, Held, Phases, Looked, Told, Running


\* Errors only grow: what shows none now showed none before.
LEMMA ErrorsGrow ==
  ASSUME Inv, NEW c \in Comm,
         UNCHANGED asyncError \/ \E res \in Failure \cup Fatal : noteError(c, res)
  PROVE  \A d \in Comm : asyncError[d] # "success" => asyncError'[d] = asyncError[d]
BY Noted DEF Inv

LEMMA RunNowRun ==
  ASSUME Inv, RunInv, NEW c \in Comm, NEW kind \in Kind, RunNow(c, kind)
  PROVE  RunInv'
<1>1. /\ ~Running /\ depth = 0 /\ issued' = [issued EXCEPT ![c] = @ + 1]
      /\ ran' = [ran EXCEPT ![c] = Append(@, issued[c] + 1)]
      /\ UNCHANGED <<depth, queue, order, work, busy, results, returned>>
  BY DEF RunNow, runOp, Accept, group
<1>2. \A d \in Comm : asyncError[d] # "success" => asyncError'[d] = asyncError[d]
  BY ErrorsGrow DEF RunNow, runOp, errors
<1>3. /\ issued[c] \in Nat /\ issued'[c] = issued[c] + 1 /\ issued' \in [Comm -> Nat]
      /\ \A d \in Comm : d # c => issued'[d] = issued[d] /\ ran'[d] = ran[d]
      /\ ran[c] \in Seq(Nat) /\ ran'[c] = Append(ran[c], issued[c] + 1)
  BY SMT, <1>1 DEF RunInv, RunTypes
<1>4. /\ ran'[c] \in Seq(Nat) /\ ran' \in [Comm -> Seq(Nat)] /\ Len(ran[c]) \in Nat
      /\ DOMAIN ran[c] = 1 .. Len(ran[c]) /\ DOMAIN ran'[c] = 1 .. Len(ran[c]) + 1
      /\ Len(ran'[c]) = Len(ran[c]) + 1 /\ ran'[c][Len(ran[c]) + 1] = issued[c] + 1
      /\ \A i \in 1 .. Len(ran[c]) : ran'[c][i] = ran[c][i] /\ ran[c][i] \in Nat
  BY SMT, <1>1, <1>3 DEF RunInv, RunTypes
<1>5. RunTypes'
  BY <1>1, <1>3, <1>4 DEF RunInv, RunTypes
<1>6. queue = <<>> /\ \A d \in Comm : work[d] = <<>> /\ ~busy[d]
  BY <1>1 DEF RunInv, Phases
<1>7. IssueOrder'
  <2> SUFFICES ASSUME NEW d \in Comm
               PROVE  /\ \A i, j \in DOMAIN ran'[d] : i < j => ran'[d][i] < ran'[d][j]
                      /\ \A i \in DOMAIN ran'[d] : ran'[d][i] \in 1 .. issued'[d]
    BY DEF IssueOrder, Range
  <2>1. /\ \A i, j \in DOMAIN ran[d] : i < j => ran[d][i] < ran[d][j]
        /\ \A i \in DOMAIN ran[d] : ran[d][i] \in 1 .. issued[d]
    BY DEF RunInv, IssueOrder, Range
  <2>2. CASE d = c
    <3>1. Rises(ran[c], issued[c])
      BY <2>1, <2>2 DEF Rises
    <3>2. Rises(ran'[c], issued'[c])
      BY <3>1, <1>3, AppendRises
    <3> QED
      BY <3>2, <2>2 DEF Rises
  <2>3. CASE d # c
    BY <2>1, <2>3, <1>3
  <2> QED
    BY <2>2, <2>3
<1>8. Counted'
  <2> SUFFICES ASSUME NEW d \in Comm, asyncError'[d] = "success"
               PROVE  Len(ran'[d]) + Len(work'[d]) + Len(OpsOf(d)') = issued'[d]
    BY DEF Counted
  <2>1. OpsOf(d)' = OpsOf(d) /\ work'[d] = work[d]
    BY <1>1 DEF OpsOf
  <2>2. Len(ran[d]) + Len(work[d]) + Len(OpsOf(d)) = issued[d]
    BY <1>2 DEF RunInv, Counted
  <2>3. Len(OpsOf(d)) = 0 /\ Len(work[d]) = 0
    BY <1>6, NoOps
  <2> HIDE DEF OpsOf
  <2>4. CASE d = c
    BY SMT, <2>1, <2>2, <2>3, <2>4, <1>3, <1>4
  <2>5. CASE d # c
    BY <2>1, <2>2, <2>3, <2>5, <1>3
  <2> QED
    BY <2>4, <2>5
<1> QED
  BY SMT, <1>1, <1>5, <1>6, <1>7, <1>8
     DEF RunInv, Queued, Held, Phases, Looked, Told, Running

LEMMA GroupEndRun ==
  ASSUME RunInv, vcclGroupEnd
  PROVE  RunInv'
<1>0. UNCHANGED <<busy, asyncError, issued, ran>> /\ ~Running /\ depth > 0 /\ depth' = depth - 1
      /\ depth \in Nat
  BY DEF vcclGroupEnd, errors, history, RunInv, RunTypes
<1>1. CASE depth > 1
  <2>1. UNCHANGED <<queue, order, work, results, returned>>
    BY <1>1 DEF vcclGroupEnd
  <2> QED
    BY SMT, <2>1, <1>0, <1>1, RunQuiet
<1>2. CASE ~(depth > 1)
  <2>1. /\ order' = CommsOf(queue) /\ work' = [c \in Comm |-> OpsOf(c)]
        /\ results' = [c \in Comm |-> "success"] /\ queue' = <<>>
    BY <1>2 DEF vcclGroupEnd, PerComm
  <2>2. \A c \in Comm : work[c] = <<>> /\ ~busy[c] /\ ~busy'[c]
    BY <1>0 DEF RunInv, Phases
  <2>3. queue \in Seq(Op(Comm)) /\ order' \in Seq(Comm)
        /\ \A i \in DOMAIN queue : \E k \in DOMAIN order' : order'[k] = queue[i].comm
    BY <2>1, SomeComm DEF RunInv, RunTypes
  <2>4. RunTypes'
    <3>1. work' \in [Comm -> Seq(Op(Comm))]
      BY <2>1, OwnOps DEF RunInv
    <3>2. queue' \in Seq(Op(Comm)) /\ depth' \in Nat
      BY SMT, <2>1, <1>0
    <3> QED
      BY <3>1, <3>2, <2>3, <1>0 DEF RunInv, RunTypes
  <2>5. DOMAIN queue = 1 .. Len(queue) /\ Len(queue) \in Nat
        /\ \A i \in 1 .. Len(queue) : queue[i] \in Op(Comm)
    BY SMT, <2>3
  <2>6. ASSUME NEW c \in Comm
        PROVE  /\ \A i, j \in DOMAIN work'[c] : i < j => work'[c][i].id < work'[c][j].id
               /\ \A i \in DOMAIN work'[c] :
                    /\ Later(issued[c], ran[c], work'[c][i].id)
                    /\ \E k \in DOMAIN order' : order'[k] = c
    <3>1. work'[c] = OpsOf(c) /\ OpsOf(c) \in Seq(Op(Comm))
      BY <2>1, OwnOps DEF RunInv
    <3>2. PICK f : Places(f, OpsOf(c), queue, Op({c}), Len(queue))
      BY OwnOps DEF RunInv
    <3> HIDE DEF OpsOf
    <3>3. /\ DOMAIN work'[c] = 1 .. Len(OpsOf(c))
          /\ \A i \in DOMAIN work'[c] : /\ f[i] \in DOMAIN queue
                                        /\ work'[c][i] = queue[f[i]]
                                        /\ queue[f[i]] \in Op({c})
          /\ \A i, j \in DOMAIN work'[c] : i < j => f[i] < f[j]
      <4>1. DOMAIN work'[c] = 1 .. Len(OpsOf(c))
        BY SMT, <3>1
      <4>2. f \in [1 .. Len(OpsOf(c)) -> 1 .. Len(queue)]
        BY <3>2 DEF Places
      <4> QED
        BY <4>1, <4>2, <3>1, <3>2, <2>5 DEF Places
    <3>4. \A i \in DOMAIN work'[c] : queue[f[i]].comm = c
      BY <3>3 DEF Op
    <3>5. \A i, j \in DOMAIN work'[c] : i < j => work'[c][i].id < work'[c][j].id
      BY SMT, <3>3, <3>4 DEF RunInv, Queued
    <3>6. \A i \in DOMAIN work'[c] : Later(issued[c], ran[c], work'[c][i].id)
      BY <3>3, <3>4 DEF RunInv, Queued
    <3>7. \A i \in DOMAIN work'[c] : \E k \in DOMAIN order' : order'[k] = c
      BY SMT, <3>3, <3>4, <2>3
    <3> QED
      BY <3>5, <3>6, <3>7
  <2>7. \A c \in Comm : work'[c] \in Seq(Op(Comm)) /\ (work'[c] # <<>> => 1 \in DOMAIN work'[c])
    BY SMT, <2>4 DEF RunTypes
  <2>8. \A c \in Comm : work'[c] # <<>> => \E k \in DOMAIN order' : order'[k] = c
    BY <2>6, <2>7
  <2>9. Held' /\ Queued'
    BY SMT, <2>1, <2>6, <1>0 DEF Held, Queued
  <2>10. Phases'
    <3>1. order' = <<>> => DOMAIN order' = {}
      BY SMT
    <3> QED
      BY <2>1, <2>2, <2>8, <3>1 DEF Phases, Running
  <2>11. Looked' /\ Told'
    BY <2>1, <2>2, <2>8 DEF Looked, Told
  <2>12. Counted'
    <3> SUFFICES ASSUME NEW c \in Comm, asyncError'[c] = "success"
                 PROVE  Len(ran'[c]) + Len(work'[c]) + Len(OpsOf(c)') = issued'[c]
      BY DEF Counted
    <3>1. Len(ran[c]) + Len(work[c]) + Len(OpsOf(c)) = issued[c]
      BY <1>0 DEF RunInv, Counted
    <3>4. Len(work[c]) = 0
      BY SMT, <2>2
    <3>5. Len(ran[c]) \in Nat /\ Len(OpsOf(c)) \in Nat
      BY SMT, OwnOps DEF RunInv, RunTypes
    <3>2. Len(work'[c]) = Len(OpsOf(c))
      BY <2>1
    <3>3. Len(OpsOf(c)') = 0
      BY <2>1, NoOps
    <3> QED
      BY SMT, <3>1, <3>2, <3>3, <3>4, <3>5, <1>0
  <2> QED
    BY <2>4, <2>9, <2>10, <2>11, <2>12, <1>0 DEF RunInv, IssueOrder
<1> QED
  BY <1>1, <1>2

\* A run is not empty and within what the thread holds.
LEMMA RunLengths ==
  ASSUME NEW ops \in Seq(Op(Comm)), ops # <<>>
  PROVE  RunLength(ops) \in 1 .. Len(ops)
<1>1. Len(ops) \in Nat /\ Len(ops) >= 1
  BY SMT
<1>2. \A i \in 1 .. Len(ops) : ops[i].kind \in {"coll", "p2p"}
  <2>1. \A i \in 1 .. Len(ops) : ops[i] \in Op(Comm)
    BY SMT
  <2> QED
    BY <2>1 DEF Op, Kind
<1>3. CASE ops[1].kind = "coll"
  BY SMT, <1>1, <1>3 DEF RunLength
<1>4. CASE ops[1].kind # "coll"
  <2> DEFINE T == {n \in 1 .. Len(ops) : n = Len(ops) \/ ops[n + 1].kind = "coll"}
  <2>1. T \in SUBSET Nat /\ Len(ops) \in T
    BY SMT, <1>1
  <2>2. PICK n \in T : \A m \in T : n <= m
    BY <2>1, Least
  <2>3. n \in 1 .. Len(ops) /\ (n = Len(ops) \/ ops[n + 1].kind = "coll")
    BY <2>2
  <2>4. ASSUME NEW i \in 1 .. n PROVE ops[i].kind = "p2p"
    <3> SUFFICES ASSUME ops[i].kind = "coll" PROVE FALSE
      BY SMT, <1>2, <2>3, <1>1
    <3>1. i # 1
      BY <1>4
    <3>2. i - 1 \in 1 .. Len(ops) /\ (i - 1) + 1 = i /\ i - 1 < n
      BY SMT, <3>1, <2>3, <1>1
    <3>3. i - 1 \in T
      BY <3>2
    <3>4. n <= i - 1
      BY <3>3, <2>2
    <3> QED
      BY SMT, <3>2, <3>4, <2>3
  <2>5. \E m \in 1 .. Len(ops) : /\ \A i \in 1 .. m : ops[i].kind = "p2p"
                                 /\ m = Len(ops) \/ ops[m + 1].kind = "coll"
    BY <2>3, <2>4
  <2> HIDE DEF T
  <2> QED
    BY <2>5, <1>4 DEF RunLength
<1> QED
  BY <1>3, <1>4

\* The operations w a thread holds are in order and after those of r it ran.
Holds(w, r, n) ==
  /\ \A i, j \in DOMAIN w : i < j => w[i].id < w[j].id
  /\ \A i \in DOMAIN w : Later(n, r, w[i].id)

\* s is r of length l with the ids of the first m of the k operations w, and v
\* is what is left of w.
Taking(l, k, m, r, s, w, v) ==
  /\ m <= k /\ DOMAIN r = 1 .. l /\ DOMAIN s = 1 .. l + m
  /\ DOMAIN w = 1 .. k /\ DOMAIN v = 1 .. k - m
  /\ \A i \in 1 .. k : w[i].id \in Nat /\ w[i].id >= 1
  /\ \A i \in 1 .. l : s[i] = r[i]
  /\ \A i \in 1 .. m : s[l + i] = w[i].id
  /\ \A i \in 1 .. k - m : v[i] = w[i + m]

LEMMA TakeRises ==
  ASSUME NEW l \in Nat, NEW k \in Nat, NEW m \in Nat, NEW n \in Nat,
         NEW r, NEW s, NEW w, NEW v, Taking(l, k, m, r, s, w, v),
         Rises(r, n), Holds(w, r, n)
  PROVE  Rises(s, n) /\ Holds(v, s, n)
<1> USE DEF Taking
<1>1. /\ \A i, j \in 1 .. l : i < j => r[i] < r[j]
      /\ \A i \in 1 .. l : r[i] \in 1 .. n
      /\ \A i, j \in 1 .. k : i < j => w[i].id < w[j].id
      /\ \A i \in 1 .. k : w[i].id <= n /\ \A j \in 1 .. l : r[j] < w[i].id
  BY DEF Rises, Holds, Later
<1>2. ASSUME NEW i \in l + 1 .. l + m PROVE s[i] = w[i - l].id /\ i - l \in 1 .. k
  <2>1. i - l \in 1 .. m /\ l + (i - l) = i
    BY SMT
  <2> QED
    BY SMT, <2>1
<1>3. ASSUME NEW i \in 1 .. l + m, NEW j \in 1 .. l + m, i < j PROVE s[i] < s[j]
  <2>1. CASE j <= l
    BY SMT, <2>1, <1>3, <1>1
  <2>2. CASE i <= l /\ j > l
    <3>1. i \in 1 .. l /\ j \in l + 1 .. l + m
      BY SMT, <2>2
    <3> QED
      BY <3>1, <1>1, <1>2
  <2>3. CASE i > l
    <3>1. i \in l + 1 .. l + m /\ j \in l + 1 .. l + m /\ i - l < j - l
      BY SMT, <2>3, <1>3
    <3> QED
      BY <3>1, <1>1, <1>2
  <2> QED
    BY SMT, <2>1, <2>2, <2>3, <1>3
<1>4. ASSUME NEW i \in 1 .. l + m PROVE s[i] \in 1 .. n
  <2>1. CASE i <= l
    BY SMT, <2>1, <1>1
  <2>2. CASE i > l
    <3>1. i \in l + 1 .. l + m
      BY SMT, <2>2
    <3>2. s[i] = w[i - l].id /\ i - l \in 1 .. k
      BY <3>1, <1>2
    <3>3. w[i - l].id \in Nat /\ w[i - l].id >= 1 /\ w[i - l].id <= n
      BY <3>2, <1>1
    <3> QED
      BY SMT, <3>2, <3>3
  <2> QED
    BY SMT, <2>1, <2>2
<1>5. ASSUME NEW i \in 1 .. k - m PROVE Later(n, s, v[i].id)
  <2>1. v[i] = w[i + m] /\ i + m \in 1 .. k
    BY SMT
  <2>2. ASSUME NEW j \in 1 .. l + m PROVE s[j] < v[i].id
    <3>1. CASE j <= l
      BY SMT, <3>1, <2>1, <1>1
    <3>2. CASE j > l
      <4>1. j \in l + 1 .. l + m /\ j - l < i + m
        BY SMT, <3>2
      <4> QED
        BY <4>1, <2>1, <1>1, <1>2
    <3> QED
      BY SMT, <3>1, <3>2
  <2> QED
    BY <2>1, <2>2, <1>1 DEF Later
<1>6. ASSUME NEW i \in 1 .. k - m, NEW j \in 1 .. k - m, i < j PROVE v[i].id < v[j].id
  <2>1. i + m \in 1 .. k /\ j + m \in 1 .. k /\ i + m < j + m
    BY SMT, <1>6
  <2> QED
    BY <2>1, <1>1
<1> QED
  BY <1>3, <1>4, <1>5, <1>6 DEF Rises, Holds

RunIds(r, w, m) == r \o [i \in 1 .. m |-> w[i].id]

Rest(w, m) == SubSeq(w, m + 1, Len(w))

LEMMA Taken ==
  ASSUME NEW r \in Seq(Nat), NEW w \in Seq(Op(Comm)), NEW m \in 1 .. Len(w),
         NEW n \in Nat, Rises(r, n), Holds(w, r, n)
  PROVE  /\ RunIds(r, w, m) \in Seq(Nat) /\ Rest(w, m) \in Seq(Op(Comm))
         /\ Len(RunIds(r, w, m)) + Len(Rest(w, m)) = Len(r) + Len(w)
         /\ Rises(RunIds(r, w, m), n) /\ Holds(Rest(w, m), RunIds(r, w, m), n)
<1>1. PICK l \in Nat, k \in Nat : l = Len(r) /\ k = Len(w)
  BY SMT
<1>2. m \in Nat /\ m <= k /\ DOMAIN r = 1 .. l /\ DOMAIN w = 1 .. k
  BY SMT, <1>1
<1>3. \A i \in 1 .. k : w[i] \in Op(Comm)
  BY SMT, <1>1
<1>4. \A i \in 1 .. k : w[i].id \in Nat /\ w[i].id >= 1
  BY SMT, <1>3, BoundsAssumption DEF Op
<1>5. PICK ids : ids = [i \in 1 .. m |-> w[i].id]
  OBVIOUS
<1>6. ids \in Seq(Nat) /\ Len(ids) = m /\ \A i \in 1 .. m : ids[i] = w[i].id
  BY SMT, <1>2, <1>4, <1>5
<1>7. PICK s, v : s = RunIds(r, w, m) /\ v = Rest(w, m)
  OBVIOUS
<1>8. s = r \o ids /\ v = SubSeq(w, m + 1, k)
  BY <1>1, <1>5, <1>7 DEF RunIds, Rest
<1>9. s \in Seq(Nat) /\ Len(s) = l + m /\ DOMAIN s = 1 .. l + m
      /\ \A i \in 1 .. l : s[i] = r[i]
  <2>0. ids \in Seq(Nat) /\ Len(ids) = m
    BY <1>6
  <2>3. /\ s \in Seq(Nat) /\ Len(s) = Len(r) + Len(ids)
        /\ \A i \in 1 .. Len(r) + Len(ids) :
             s[i] = IF i <= Len(r) THEN r[i] ELSE ids[i - Len(r)]
    BY <2>0, <1>8, ConcatProperties
  <2>1. s \in Seq(Nat) /\ Len(s) = l + m
    BY <2>0, <2>3, <1>1
  <2>2. DOMAIN s = 1 .. Len(s)
    BY SMT, <2>1
  <2> QED
    BY SMT, <2>1, <2>2, <1>1, <1>2, <1>6, <1>8
<1>10. \A i \in 1 .. m : s[l + i] = w[i].id
  BY SMT, <1>1, <1>2, <1>6, <1>8
<1>11. v \in Seq(Op(Comm)) /\ Len(v) = k - m /\ DOMAIN v = 1 .. k - m
       /\ \A i \in 1 .. k - m : v[i] = w[i + m]
  BY SMT, <1>1, <1>2, <1>8
<1>12. Rises(s, n) /\ Holds(v, s, n)
  <2>1. Taking(l, k, m, r, s, w, v)
    BY <1>2, <1>4, <1>9, <1>10, <1>11 DEF Taking
  <2> QED
    BY <2>1, <1>2, TakeRises
<1> QED
  BY SMT, <1>1, <1>2, <1>7, <1>9, <1>11, <1>12

LEMMA BeginRunRun ==
  ASSUME Inv, RunInv, NEW c \in Comm, BeginRun(c)
  PROVE  RunInv'
<1>1. /\ work[c] # <<>> /\ ~busy[c] /\ busy' = [busy EXCEPT ![c] = TRUE]
      /\ UNCHANGED <<depth, queue, order, results, returned, asyncError, issued>>
  BY DEF BeginRun, errors
<1>2. PICK m : m = RunLength(work[c])
  OBVIOUS
<1>3. PICK r, w : r = ran[c] /\ w = work[c]
  OBVIOUS
<1>4. PICK s, v : s = RunIds(r, w, m) /\ v = Rest(w, m)
  OBVIOUS
<1>5. ran' = [ran EXCEPT ![c] = s] /\ work' = [work EXCEPT ![c] = v]
  BY <1>2, <1>3, <1>4 DEF BeginRun, RunIds, Rest
<1>6. /\ work[c] \in Seq(Op(Comm)) /\ ran[c] \in Seq(Nat) /\ issued[c] \in Nat
      /\ Rises(ran[c], issued[c]) /\ Holds(work[c], ran[c], issued[c])
  BY DEF RunInv, RunTypes, IssueOrder, Range, Held, Rises, Holds
<1>7. m \in 1 .. Len(work[c])
  BY <1>1, <1>2, <1>6, RunLengths
<1>8. /\ s \in Seq(Nat) /\ v \in Seq(Op(Comm))
      /\ Len(s) + Len(v) = Len(ran[c]) + Len(work[c])
      /\ Rises(s, issued[c]) /\ Holds(v, s, issued[c])
  <2>1. /\ w \in Seq(Op(Comm)) /\ r \in Seq(Nat) /\ m \in 1 .. Len(w)
        /\ Rises(r, issued[c]) /\ Holds(w, r, issued[c])
    BY <1>3, <1>6, <1>7
  <2> QED
    BY <2>1, <1>3, <1>4, <1>6, Taken
<1>9. /\ ran' \in [Comm -> Seq(Nat)] /\ work' \in [Comm -> Seq(Op(Comm))]
      /\ ran'[c] = s /\ work'[c] = v
      /\ \A d \in Comm : d # c => ran'[d] = ran[d] /\ work'[d] = work[d]
  BY <1>5, <1>8 DEF RunInv, RunTypes
<1>10. RunTypes'
  BY <1>1, <1>9 DEF RunInv, RunTypes
<1>11. Running /\ queue = <<>>
  BY <1>1 DEF RunInv, Phases
<1>12. ASSUME NEW d \in Comm
       PROVE  Rises(ran'[d], issued'[d]) /\ Holds(work'[d], ran'[d], issued'[d])
  <2>1. CASE d = c
    BY <2>1, <1>1, <1>8, <1>9
  <2>2. CASE d # c
    BY <2>2, <1>1, <1>9 DEF RunInv, IssueOrder, Range, Held, Rises, Holds
  <2> QED
    BY <2>1, <2>2
<1>13. IssueOrder' /\ Held'
  BY <1>12 DEF IssueOrder, Range, Held, Rises, Holds
<1>14. Queued' /\ Phases' /\ Told'
  BY SMT, <1>1, <1>11 DEF Queued, Phases, Told, Running
<1>15. Looked'
  <2> SUFFICES ASSUME NEW d \in Comm, work'[d] # <<>> \/ busy'[d] \/ results'[d] # "success"
               PROVE  \E i \in DOMAIN order : order[i] = d
    BY <1>1 DEF Looked
  <2>1. CASE d = c
    BY <2>1, <1>1, <1>11 DEF RunInv, Looked
  <2>2. CASE d # c
    <3>1. busy'[d] = busy[d]
      BY <2>2, <1>1 DEF Inv, ErrorTypes
    <3> QED
      BY <2>2, <3>1, <1>1, <1>9, <1>11 DEF RunInv, Looked
  <2> QED
    BY <2>1, <2>2
<1>16. Counted'
  <2> SUFFICES ASSUME NEW d \in Comm, asyncError'[d] = "success"
               PROVE  Len(ran'[d]) + Len(work'[d]) + Len(OpsOf(d)') = issued'[d]
    BY DEF Counted
  <2>1. OpsOf(d)' = OpsOf(d)
    BY <1>1 DEF OpsOf
  <2>2. Len(ran[d]) + Len(work[d]) + Len(OpsOf(d)) = issued[d]
    BY <1>1 DEF RunInv, Counted
  <2>3. Len(ran'[d]) + Len(work'[d]) = Len(ran[d]) + Len(work[d])
    BY <1>8, <1>9
  <2>4. Len(OpsOf(d)) = 0
    BY <1>11, NoOps
  <2> HIDE DEF OpsOf
  <2> QED
    BY <2>1, <2>2, <2>3, <2>4, <1>1
<1> QED
  BY <1>10, <1>13, <1>14, <1>15, <1>16 DEF RunInv

LEMMA SucceedRun ==
  ASSUME Inv, RunInv, NEW c \in Comm, Succeed(c)
  PROVE  RunInv'
<1>1. UNCHANGED <<depth, queue, order, work, results, returned, asyncError, issued, ran>>
  BY DEF Succeed, errors, history
<1>2. \A d \in Comm : busy'[d] => busy[d]
  BY DEF Succeed, Inv, ErrorTypes
<1>3. Counted'
  BY <1>1 DEF RunInv, Counted, OpsOf
<1> QED
  BY <1>1, <1>2, <1>3
     DEF RunInv, RunTypes, IssueOrder, Queued, Held, Later, Phases, Looked, Told, Running

LEMMA FailRunRun ==
  ASSUME Inv, RunInv, NEW c \in Comm, NEW res \in Failure, FailRun(c, res)
  PROVE  RunInv'
<1>1. /\ noteError(c, res) /\ work' = [work EXCEPT ![c] = <<>>]
      /\ results' = [results EXCEPT ![c] = res] /\ busy[c]
      /\ UNCHANGED <<depth, queue, order, returned, issued, ran>>
  BY DEF FailRun, history
<1>2. \A d \in Comm : busy'[d] => busy[d]
  BY DEF FailRun, Inv, ErrorTypes
<1>3. /\ asyncError'[c] # "success"
      /\ \A d \in Comm : asyncError[d] # "success" => asyncError'[d] = asyncError[d]
  BY <1>1, Noted DEF Inv
<1>4. /\ work' \in [Comm -> Seq(Op(Comm))] /\ work'[c] = <<>>
      /\ \A d \in Comm : d # c => work'[d] = work[d] /\ results'[d] = results[d]
  BY SMT, <1>1 DEF RunInv, RunTypes, Inv, ErrorTypes
<1>5. Running
  BY <1>1 DEF RunInv, Phases
<1>6. RunTypes' /\ IssueOrder' /\ Queued' /\ Phases' /\ Told'
  BY <1>1, <1>4, <1>5 DEF RunInv, RunTypes, IssueOrder, Queued, Later, Phases, Told, Running
<1>7. Held'
  <2> SUFFICES ASSUME NEW d \in Comm
               PROVE  /\ \A i, j \in DOMAIN work'[d] : i < j => work'[d][i].id < work'[d][j].id
                      /\ \A i \in DOMAIN work'[d] : Later(issued[d], ran[d], work'[d][i].id)
    BY <1>1 DEF Held
  <2>1. CASE d = c
    BY SMT, <2>1, <1>4
  <2>2. CASE d # c
    <3>1. work'[d] = work[d]
      BY <2>2, <1>4
    <3> QED
      BY <3>1 DEF RunInv, Held
  <2> QED
    BY <2>1, <2>2
<1>8. Looked'
  <2> SUFFICES ASSUME NEW d \in Comm, work'[d] # <<>> \/ busy'[d] \/ results'[d] # "success"
               PROVE  \E i \in DOMAIN order : order[i] = d
    BY <1>1 DEF Looked
  <2> QED
    BY <1>1, <1>2, <1>4, <1>5 DEF RunInv, Looked
<1>9. Counted'
  <2> SUFFICES ASSUME NEW d \in Comm, asyncError'[d] = "success"
               PROVE  Len(ran'[d]) + Len(work'[d]) + Len(OpsOf(d)') = issued'[d]
    BY DEF Counted
  <2>1. d # c /\ asyncError[d] = "success"
    BY <1>3
  <2>2. OpsOf(d)' = OpsOf(d)
    BY <1>1 DEF OpsOf
  <2> QED
    BY <2>1, <2>2, <1>1, <1>4 DEF RunInv, Counted
<1> QED
  BY <1>6, <1>7, <1>8, <1>9 DEF RunInv

LEMMA JoinRun ==
  ASSUME Inv, RunInv, Join
  PROVE  RunInv'
<1> DEFINE failed == Filter(order, {c \in Comm : results[c] # "success"})
<1>1. /\ Running /\ (\A c \in Comm : work[c] = <<>> /\ ~busy[c]) /\ order' = <<>>
      /\ returned' = IF failed = <<>> THEN "success" ELSE results[failed[1]]
      /\ UNCHANGED <<depth, queue, work, busy, results, asyncError, issued, ran>>
  BY DEF Join, errors, history
<1>2. order \in Seq(Comm)
  BY DEF RunInv, RunTypes
<1>3. failed \in Seq(Comm)
  BY <1>2, FilterPlaces
<1>4. PICK f : Places(f, failed, order, {c \in Comm : results[c] # "success"}, Len(order))
  BY <1>2, FilterPlaces
<1> HIDE DEF failed
<1>5. Told'
  <2> SUFFICES ASSUME returned' = "success", NEW c \in Comm, results[c] # "success"
               PROVE  FALSE
    BY <1>1 DEF Told
  <2>1. PICK i \in DOMAIN order : order[i] = c
    BY <1>1 DEF RunInv, Looked
  <2>2. \E k \in 1 .. Len(failed) : f[k] = i
    BY SMT, <2>1, <1>2, <1>4 DEF Places
  <2>3. Len(failed) >= 1 /\ failed # <<>> /\ 1 \in 1 .. Len(failed)
    BY SMT, <2>2, <1>3
  <2>4. failed[1] = order[f[1]] /\ order[f[1]] \in {d \in Comm : results[d] # "success"}
    BY <2>3, <1>4 DEF Places
  <2>5. results[failed[1]] # "success"
    BY <2>4
  <2> QED
    BY <2>3, <2>5, <1>1
<1>6. Counted'
  BY <1>1 DEF RunInv, Counted, OpsOf
<1>7. RunTypes' /\ IssueOrder' /\ Queued' /\ Held' /\ Looked'
  BY SMT, <1>1 DEF RunInv, RunTypes, IssueOrder, Queued, Held, Later, Looked, Running
<1>8. Phases'
  BY <1>1 DEF RunInv, Phases, Running
<1> QED
  BY <1>5, <1>6, <1>7, <1>8 DEF RunInv

LEMMA StepRun == Inv /\ RunInv /\ [Next]_vars => RunInv'
<1> SUFFICES ASSUME Inv, RunInv, [Next]_vars PROVE RunInv'
  OBVIOUS
<1>1. depth \in Nat
  BY DEF RunInv, RunTypes
<1>2. CASE vcclGroupStart \/ UNCHANGED vars
  BY SMT, <1>1, <1>2, RunQuiet DEF vcclGroupStart, vars, group, errors, history
<1>3. ASSUME NEW c \in Comm, vcclCommAbort(c) PROVE RunInv'
  BY <1>1, <1>3, RunQuiet DEF vcclCommAbort, group, history
<1>4. ASSUME NEW c \in Comm, AbortNotes(c) PROVE RunInv'
  <2>1. noteError(c, "unhandled") /\ "unhandled" \in Failure \cup Fatal
    BY <1>4 DEF AbortNotes, Fatal
  <2> QED
    BY <2>1, <1>1, <1>4, RunQuiet, ErrorsGrow DEF AbortNotes, group, history
<1>5. ASSUME NEW c \in Comm, Thread(c) PROVE RunInv'
  BY <1>5, BeginRunRun, SucceedRun, FailRunRun DEF Thread
<1> QED
  BY <1>2, <1>3, <1>4, <1>5, GroupEndRun, JoinRun, EnqueueRun, RunNowRun DEF Next

LEMMA RunInvHolds == Spec => []RunInv
BY RunInit, StepRun, InvHolds, PTL DEF Spec

----------------------------------------------------------------------------
(* The theorems.                                                           *)

\* Whatever threads of a group fail while others note errors and abort:
\* vcclCommGetAsyncError shows an error of every communicator that failed, and
\* one that failed fatally takes no more operations.
THEOREM FailuresShown == Spec => []FailureVisible
<1>1. Inv => FailureVisible
  BY DEF Inv
<1> QED
  BY <1>1, InvHolds, PTL

\* The error vcclCommGetAsyncError has once shown is the one it goes on to
\* show, however many threads call noteError.
THEOREM FirstErrorKept == Spec => FirstErrorStays
<1>1. Inv /\ [Next]_vars =>
        [\A c \in Comm : asyncError[c] # "success" => asyncError'[c] = asyncError[c]]_vars
  <2> SUFFICES ASSUME Inv, Next, NEW c \in Comm, asyncError[c] # "success"
               PROVE  asyncError'[c] = asyncError[c]
    OBVIOUS
  <2>1. ASSUME NEW d \in Comm, NEW res \in Failure \cup Fatal, noteError(d, res)
        PROVE  asyncError'[c] = asyncError[c]
    BY <2>1, Noted DEF Inv
  <2>2. "unhandled" \in Failure \cup Fatal
    BY DEF Fatal
  <2>3. CASE UNCHANGED asyncError
    BY <2>3
  <2>4. \/ UNCHANGED asyncError
        \/ \E d \in Comm, res \in Failure \cup Fatal : noteError(d, res)
    BY <2>2 DEF Next, Thread, vcclGroupStart, vcclGroupEnd, Join, vcclCommAbort,
                AbortNotes, BeginRun, Succeed, FailRun, Enqueue, RunNow, runOp, errors
  <2> QED
    BY <2>1, <2>3, <2>4
<1> QED
  BY <1>1, InvHolds, PTL DEF Spec, FirstErrorStays

\* A communicator whose thread has failed runs nothing more of the group, so
\* none of its operations meets another one of its peers.
THEOREM FailedStop == Spec => StopsAtFailure
<1>1. Inv /\ [Next]_vars =>
        [\A c \in Comm : Running /\ results[c] # "success" => ran'[c] = ran[c]]_vars
  <2> SUFFICES ASSUME Inv, Next, NEW c \in Comm, Running, results[c] # "success"
               PROVE  ran'[c] = ran[c]
    OBVIOUS
  <2>1. ASSUME NEW d \in Comm, BeginRun(d) PROVE ran'[c] = ran[c]
    <3>1. c # d
      BY <2>1 DEF BeginRun, Inv, Stopped
    <3> QED
      BY <2>1, <3>1 DEF BeginRun, Inv, ErrorTypes
  <2>2. \/ UNCHANGED ran
        \/ \E d \in Comm : BeginRun(d)
    BY DEF Next, Thread, vcclGroupStart, vcclGroupEnd, Join, vcclCommAbort,
           AbortNotes, Succeed, FailRun, Enqueue, RunNow, runOp, Accept, history
  <2> QED
    BY <2>1, <2>2
<1> QED
  BY <1>1, InvHolds, PTL DEF Spec, StopsAtFailure

\* Over all groups, with threads of any speed, failures and aborts: a
\* communicator runs its operations in the order they were issued, and none
\* twice.
THEOREM RunInOrder == Spec => []IssueOrder
<1>1. RunInv => IssueOrder
  BY DEF RunInv
<1> QED
  BY <1>1, RunInvHolds, PTL

\* A vcclGroupEnd that returns success hides no failure, and a communicator
\* that shows no error has run everything issued on it but what is queued in
\* a group still open.
THEOREM NothingDropped == Spec => []SuccessMeansRun
<1>1. RunInv => SuccessMeansRun
  <2> SUFFICES ASSUME RunInv, ~Running, NEW c \in Comm, asyncError[c] = "success"
               PROVE  Len(ran[c]) + Len(OpsOf(c)) = issued[c]
    BY DEF RunInv, Told, SuccessMeansRun
  <2>1. Len(ran[c]) + Len(work[c]) + Len(OpsOf(c)) = issued[c]
    BY DEF RunInv, Counted
  <2>2. Len(work[c]) = 0
    BY SMT DEF RunInv, Phases
  <2>3. Len(ran[c]) \in Nat /\ Len(OpsOf(c)) \in Nat
    BY SMT, OwnOps DEF RunInv, RunTypes
  <2> HIDE DEF OpsOf
  <2> QED
    BY SMT, <2>1, <2>2, <2>3
<1> QED
  BY <1>1, RunInvHolds, PTL

============================================================================
