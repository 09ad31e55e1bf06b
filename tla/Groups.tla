------------------------------- MODULE Groups -------------------------------
(***************************************************************************)
(* Group semantics and error reporting: src/core/group.cc, noteError of    *)
(* src/core/comm.h, checkComm and runOp of src/core/collectives.cc, and    *)
(* vcclCommAbort and vcclCommGetAsyncError of src/core/comm.cc.  One       *)
(* application thread issues operations on the communicators of Comm; the  *)
(* outermost vcclGroupEnd runs one thread per communicator; another thread *)
(* may abort a communicator at any moment.                                 *)
(***************************************************************************)
EXTENDS Integers, Sequences, FiniteSets, Functions, Filters

CONSTANTS Comm,    \* communicators
          MaxOps,  \* bound on the operations issued on each
          MaxDepth \* bound on the nesting of groups

ASSUME BoundsAssumption == MaxOps \in Nat /\ MaxDepth \in Nat

\* vcclSystemError, RemoteError and InternalError behave alike; vcclCommAbort
\* reports vcclUnhandledError; "invalid" is an error that is not fatal.
Fatal == {"system", "unhandled"}
Failure == {"system", "invalid"}

Kind == {"coll", "p2p"}

VARIABLES
  inProcess, \* the communicators are the ranks of one vcclCommInitAll
  depth,     \* t_groupDepth
  queue,     \* t_groupOps: [comm, id, kind]
  order,     \* communicators of the group being run, by first operation
  work,      \* what the thread of each communicator has still to run
  given,     \* how many it was given
  busy,      \* per communicator, the thread is inside an operation
  results,   \* of the threads of the group
  returned,  \* what the last outermost vcclGroupEnd returned
  aborted, asyncError,
  aborting,  \* communicators on which vcclCommAbort is between its two stores
  issued,    \* history: operations accepted on each communicator ...
  ran        \* ... and the ids of those that were run

group == <<order, work, given, busy, results>>
errors == <<aborted, asyncError, aborting>>
history == <<issued, ran>>
vars == <<inProcess, depth, queue, group, returned, errors, history>>

PerComm(v) == [c \in Comm |-> v]

Init ==
  /\ inProcess \in BOOLEAN
  /\ depth = 0 /\ queue = <<>> /\ order = <<>>
  /\ work = PerComm(<<>>) /\ given = PerComm(0)
  /\ busy = PerComm(FALSE)
  /\ results = PerComm("success") /\ returned = "success"
  /\ aborted = PerComm(FALSE) /\ asyncError = PerComm("success")
  /\ aborting = {} /\ issued = PerComm(0) /\ ran = PerComm(<<>>)

----------------------------------------------------------------------------
(* Errors.                                                                 *)

BugOverwrite(c, res) ==
  /\ asyncError' = [asyncError EXCEPT ![c] = res]
  /\ aborted' = [aborted EXCEPT ![c] = @ \/ res \in Fatal]
BugFatalOnly(c, res) ==
  /\ asyncError' = [asyncError EXCEPT
                      ![c] = IF @ = "success" /\ res \in Fatal THEN res ELSE @]
  /\ aborted' = [aborted EXCEPT ![c] = @ \/ res \in Fatal]
\* The first failure stays; a fatal one marks the communicator dead.
noteError(c, res) ==
  /\ asyncError' = [asyncError EXCEPT ![c] = IF @ = "success" THEN res ELSE @]
  /\ aborted' = [aborted EXCEPT ![c] = @ \/ res \in Fatal]

vcclCommAbort(c) ==
  /\ c \notin aborting /\ ~aborted[c]
  /\ aborted' = [aborted EXCEPT ![c] = TRUE]
  /\ aborting' = aborting \cup {c}
  /\ UNCHANGED <<inProcess, depth, queue, group, returned, asyncError, history>>

AbortNotes(c) ==
  /\ c \in aborting
  /\ aborting' = aborting \ {c}
  /\ noteError(c, "unhandled")
  /\ UNCHANGED <<inProcess, depth, queue, group, returned, history>>

checkComm(c) == ~aborted[c]

----------------------------------------------------------------------------
(* The application thread.                                                 *)

\* It is inside the outermost vcclGroupEnd until all threads are joined.
Running == order # <<>>

\* Operations on the communicators of C.
Op(C) == [comm : C, id : 1 .. MaxOps, kind : Kind]

OpsOf(c) == Filter(queue, Op({c}))

\* The communicators of a queue by first appearance.
CommsOf(ops) ==
  LET first == Filter([i \in DOMAIN ops |-> i],
                      {i \in DOMAIN ops :
                         \A j \in 1 .. i - 1 : ops[j].comm # ops[i].comm})
  IN [k \in DOMAIN first |-> ops[first[k]].comm]

\* Ranks of one process are given the same operations by the application.
SameAsPeers(c, kind) ==
  inProcess => \A d \in Comm : Len(OpsOf(d)) > Len(OpsOf(c)) =>
                 OpsOf(d)[Len(OpsOf(c)) + 1].kind = kind

Accept(c) ==
  /\ ~Running /\ checkComm(c) /\ issued[c] < MaxOps
  /\ issued' = [issued EXCEPT ![c] = @ + 1]

vcclGroupStart ==
  /\ ~Running /\ depth < MaxDepth
  /\ depth' = depth + 1
  /\ UNCHANGED <<inProcess, queue, group, returned, errors, history>>

\* enqueueOrRun and enqueueOrRunP2p inside a group.
Enqueue(c, kind) ==
  /\ depth > 0 /\ Accept(c) /\ SameAsPeers(c, kind)
  /\ queue' = Append(queue, [comm |-> c, id |-> issued[c] + 1, kind |-> kind])
  /\ UNCHANGED <<inProcess, depth, group, returned, errors, ran>>

\* A collective that fails outside a group is noted.
runOp(c) == (\E res \in Failure : noteError(c, res)) /\ UNCHANGED aborting

\* enqueueOrRun and enqueueOrRunP2p outside a group.  The failure of a send or
\* receive is returned and nothing else.
RunNow(c, kind) ==
  /\ depth = 0 /\ ~inProcess /\ Accept(c)
  /\ ran' = [ran EXCEPT ![c] = Append(@, issued[c] + 1)]
  /\ \/ UNCHANGED errors
     \/ kind = "coll" /\ runOp(c)
  /\ UNCHANGED <<inProcess, depth, queue, group, returned>>

BugKeepQueue ==
  /\ ~Running /\ depth > 0
  /\ depth' = depth - 1
  /\ IF depth > 1 THEN UNCHANGED <<queue, order, work, given, results, returned>>
     ELSE /\ order' = CommsOf(queue)
          /\ work' = [c \in Comm |-> OpsOf(c)]
          /\ given' = [c \in Comm |-> Len(OpsOf(c))]
          /\ results' = PerComm("success") /\ returned' = "success"
          /\ UNCHANGED queue
  /\ UNCHANGED <<inProcess, busy, errors, history>>
\* The outermost call hands every communicator its operations.
vcclGroupEnd ==
  /\ ~Running /\ depth > 0
  /\ depth' = depth - 1
  /\ IF depth > 1 THEN UNCHANGED <<queue, order, work, given, results, returned>>
     ELSE /\ order' = CommsOf(queue)
          /\ work' = [c \in Comm |-> OpsOf(c)]
          /\ given' = [c \in Comm |-> Len(OpsOf(c))]
          /\ results' = PerComm("success") /\ returned' = "success"
          /\ queue' = <<>>
  /\ UNCHANGED <<inProcess, busy, errors, history>>

----------------------------------------------------------------------------
(* The threads of a group: runCommOps.                                     *)

\* The operations the next run takes: a maximal run of p2p operations, which
\* goes to Transport::batch as one, or a collective.
RunLength(ops) ==
  IF ops[1].kind = "coll" THEN 1
  ELSE CHOOSE n \in 1 .. Len(ops) :
         /\ \A i \in 1 .. n : ops[i].kind = "p2p"
         /\ n = Len(ops) \/ ops[n + 1].kind = "coll"

\* Operations of the group the thread of c has entered.
Entered(c) == given[c] - Len(work[c])

BugSequential(c) ==
  /\ work[c] # <<>> /\ ~busy[c]
  /\ c = Filter(order, {d \in Comm : work[d] # <<>> \/ busy[d]})[1]
  /\ LET n == RunLength(work[c]) IN
     /\ ran' = [ran EXCEPT ![c] = @ \o [i \in 1 .. n |-> work[c][i].id]]
     /\ work' = [work EXCEPT ![c] = SubSeq(@, n + 1, Len(@))]
  /\ busy' = [busy EXCEPT ![c] = TRUE]
  /\ UNCHANGED <<inProcess, depth, queue, order, given, results, returned,
                 errors, issued>>
BeginRun(c) ==
  /\ work[c] # <<>> /\ ~busy[c]
  /\ LET n == RunLength(work[c]) IN
     /\ ran' = [ran EXCEPT ![c] = @ \o [i \in 1 .. n |-> work[c][i].id]]
     /\ work' = [work EXCEPT ![c] = SubSeq(@, n + 1, Len(@))]
  /\ busy' = [busy EXCEPT ![c] = TRUE]
  /\ UNCHANGED <<inProcess, depth, queue, order, given, results, returned,
                 errors, issued>>

\* Between ranks of one process an operation succeeds only when the others
\* take part in it.  A rank that failed, or was not given it, never will.
Joined(c) ==
  inProcess => \A d \in Comm : results[d] = "success" /\ Entered(d) >= Entered(c)
LeftAlone(c) ==
  inProcess /\ \E d \in Comm : \/ results[d] # "success"
                               \/ given[d] < Entered(c)

Succeed(c) ==
  /\ busy[c] /\ Joined(c)
  /\ busy' = [busy EXCEPT ![c] = FALSE]
  /\ UNCHANGED <<inProcess, depth, queue, order, work, given, results, returned,
                 errors, history>>

BugCarryOn(c, res) ==
  /\ busy[c]
  /\ busy' = [busy EXCEPT ![c] = FALSE]
  /\ results' = [results EXCEPT ![c] = res]
  /\ noteError(c, res)
  /\ UNCHANGED <<inProcess, depth, queue, order, given, work, returned,
                 aborting, history>>
\* The rest of the communicator's operations is dropped.
FailRun(c, res) ==
  /\ busy[c]
  /\ busy' = [busy EXCEPT ![c] = FALSE]
  /\ work' = [work EXCEPT ![c] = <<>>]
  /\ results' = [results EXCEPT ![c] = res]
  /\ noteError(c, res)
  /\ UNCHANGED <<inProcess, depth, queue, order, given, returned, aborting,
                 history>>

BugLastResult ==
  /\ Running /\ \A c \in Comm : work[c] = <<>> /\ ~busy[c]
  /\ returned' = results[order[Len(order)]]
  /\ order' = <<>>
  /\ UNCHANGED <<inProcess, depth, queue, work, given, busy, results, errors,
                 history>>
\* All threads are joined; vcclGroupEnd returns the first failure.
Join ==
  /\ Running /\ \A c \in Comm : work[c] = <<>> /\ ~busy[c]
  /\ LET failed == Filter(order, {c \in Comm : results[c] # "success"}) IN
     returned' = IF failed = <<>> THEN "success" ELSE results[failed[1]]
  /\ order' = <<>>
  /\ UNCHANGED <<inProcess, depth, queue, work, given, busy, results, errors,
                 history>>

Thread(c) == BeginRun(c) \/ Succeed(c) \/ \E res \in Failure : FailRun(c, res)

Next ==
  \/ vcclGroupStart \/ vcclGroupEnd \/ Join
  \/ \E c \in Comm :
       \/ vcclCommAbort(c) \/ AbortNotes(c) \/ Thread(c)
       \/ \E kind \in Kind : Enqueue(c, kind) \/ RunNow(c, kind)

Spec == Init /\ [][Next]_vars

\* The threads run; an operation all ranks take part in ends, and one that a
\* rank has left fails (VCCL_TIMEOUT).  No timeout is assumed otherwise.
FairSpec ==
  /\ Spec /\ WF_vars(Join)
  /\ \A c \in Comm :
       /\ WF_vars(BeginRun(c)) /\ WF_vars(Succeed(c))
       /\ WF_vars(LeftAlone(c) /\ FailRun(c, "system"))

----------------------------------------------------------------------------
(* Properties.                                                             *)

\* The operations of a communicator are run in the order they were issued,
\* each at most once, whatever fails and whichever thread is faster, over all
\* groups of the application.
IssueOrder ==
  \A c \in Comm :
    /\ \A i, j \in DOMAIN ran[c] : i < j => ran[c][i] < ran[c][j]
    /\ Range(ran[c]) \subseteq 1 .. issued[c]

\* When the outermost vcclGroupEnd has returned success no communicator failed
\* in it; and nothing is dropped silently: all that was ever issued on a
\* communicator that shows no error has been run.
SuccessMeansRun ==
  ~Running =>
    /\ returned = "success" => \A c \in Comm : results[c] = "success"
    /\ \A c \in Comm : asyncError[c] = "success" =>
         Len(ran[c]) + Len(OpsOf(c)) = issued[c]

\* What a thread of a group failed with is never lost: the communicator shows
\* an error (vcclCommGetAsyncError), and takes no more operations if it was
\* fatal.
FailureVisible ==
  \A c \in Comm : results[c] # "success" =>
    asyncError[c] # "success" /\ (results[c] \in Fatal => ~checkComm(c))

\* An error reported by vcclCommGetAsyncError is never replaced, although
\* several threads note errors at once.  The code keeps the first one, where
\* vccl.h:131 speaks of the last error observed.
FirstErrorStays ==
  [][\A c \in Comm : asyncError[c] # "success" =>
       asyncError'[c] = asyncError[c]]_vars

\* After a failure nothing more of the group is run on that communicator: its
\* later operations would meet the wrong operation of the peers.
StopsAtFailure ==
  [][\A c \in Comm : Running /\ results[c] # "success" =>
       ran'[c] = ran[c]]_vars

\* vcclGroupEnd returns: ranks of one process that need each other do not
\* wait for one another for ever, even when one of them fails half way.
GroupEnds == Running ~> ~Running

============================================================================
