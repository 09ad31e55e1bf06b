# A TLA+ verification of vccl

vccl is a library of collective communication (all-reduce, all-gather, ...)
between the processes of a job, over RDMA (libibverbs) or TCP. This directory
models the parts of it in which something can go wrong that a test would hardly
reach: completions counted for the wrong step, bytes taken for the wrong message,
buffers written while in use, registrations that outlive their memory, errors
lost between threads, a job that never forms. TLC checks the models on small
instances; TLAPS proves the safety properties of the two transports, of groups,
registrations and the bootstrap for every number of ranks, communicators and
blocks, every program and every buffer size.

Source paths below are relative to the repository. `PROJECT.json` names, for
every definition, the lines it models.

## The system

| Part | Source | Module | State |
|---|---|---|---|
| Contract of a transport | `src/transport/transport.h` | `Transport` | abstract specification |
| RDMA point-to-point engine | `src/transport/verbs.cc`, `transport.h` | `VerbsTransport`, `VerbsBatch`, `VerbsImplements`, `PostingDiscipline` | modelled |
| TCP data path | `src/transport/tcp.cc`, `src/util/socket.cc`, `deadline.h` | `TcpTransport`; whole messages in `Collectives` | modelled |
| Collective algorithms | `src/core/collectives.cc` | `Schedules`, `Collectives` | modelled |
| Memory registration | `src/core/comm.h`, `comm.cc`, `verbs.cc` | `Registrations` | modelled |
| Groups, error reporting, abort | `src/core/group.cc`, `comm.h`, `comm.cc` | `Groups` | modelled |
| Bootstrap, creation of transports | `src/core/bootstrap.cc`, `tcp.cc`, `verbs.cc`, `socket.cc` | `Bootstrap` | modelled |
| `vcclCommSplit` | `comm.cc` | `Bootstrap` | up to the nested `vcclCommInitRank` |
| PreMulSum operators, reduction kernels | `comm.cc`, `src/core/reduce.cc` | `Schedules`, `Collectives` (which contributions, in what tree) | partly |
| Python bindings | `python/vccl/` | - | not modelled, see the end |
| Logging, tools, benchmarks | `src/util/log.*`, `tools/`, `bench/` | - | no state to model |

A public operation passes `checkComm`, is queued by an open group or run at
once (`Groups`), registers its buffers (`Registrations`) and runs one of the
algorithms of `Schedules`, a sequence of transport calls and local operations
(`Collectives`); a run of grouped sends and receives is one `batch`. The calls are
what `VerbsTransport` and `VerbsBatch` model on RDMA and `TcpTransport` on TCP, and
what `Transport` says of both. `Bootstrap` is how the communicator came to be, and
how it is split.

## The modules

**Transport** is the contract. A call hands data over for other ranks and is due
data from them; it returns success only when everything handed over has left the
caller's buffers and everything due is there, or it fails and the rank makes no
other call (the failure of a collective or of a group is noted, and `checkComm`
refuses what follows; for an ungrouped send or receive see the end). Data moves at any time, and never more than was handed over. The
unit is a work request for RDMA and a byte for TCP. `VerbsImplements`,
`VerbsBatch` and `TcpTransport` each give a refinement mapping, and
`ImplementsTransport` is the abstract specification under it.

**VerbsTransport.** Every rank runs one thread through a program of calls:
`begin` (the `checkComm` of a public operation), `post` (one request of
`postRecvs`) and `xfer` (`sendRecv`; `send` and `recv` are `xfer` with one
direction empty). A queue pair is reliable and in order, so work requests
(WRs) are counted, not listed: `sendPosted`, `recvPosted`, `arrived`, `acked`,
`sendReaped`, `recvReaped`, per rank and peer. A completion queue is what has
completed minus what has been reaped; a poll takes up to `PollBatch`
completions in any mix of directions. `prePostedRecv` and `recvSurplus_` are the
members of those names. A call goes through the phases "call" (`PostXfer`,
`PostFails`), "loop" (`PollPeer`, or `PollSend` when the two peers differ), "mid"
(`PollRecv`), "check" (`Check`, `Expired`), and back to "loop", until `Return`.
Every error return is `Fail`, which includes `discardPending`. The adapter
(`Land`, `Ack`, `RetryExceeded`), process death, `vcclCommAbort` and async events
are actions of their own that interleave with every step.

**VerbsBatch** adds `batch` on the same queue pairs and faults: a program is one
batch, `waveEnd` cuts it into waves that fit the queues, `PostWave` posts one,
`PollWave` and `SweepEnds` are the sweep over the peers still pending with its look
at the abort flag and at async events, `WaveExpired` the deadline, which each wave
starts anew. For the contract the whole batch is one call.

**TcpTransport** runs `send`, `recv`, `sendRecv` and `batch` system call by system
call. A socket is two byte streams with a kernel buffer of `SockBuf` bytes; a
`send` or `recv` moves any part of what is left (`Writes`, `Reads`), would block, or
finds the connection cut. The four calls share one loop and differ where the code
does: `duplexTransfer` polls before it tries and tries only what is ready, the
others try first; only `batch` looks at the abort flag; all look at the deadline
behind `poll`. A stream has no message boundaries, so the queue of operations for
one peer and direction is a number of bytes. `abort()` sets the flag and shuts
the sockets down one at a time; a process may die, which closes its sockets, and
a host may vanish, which says nothing.

**PostingDiscipline** states, on the text of a program alone, what the comments
of `transport.h` ask of a collective that posts receives ahead: receives are
posted in the order they are taken (`InOrder`), all are taken before the
operation ends (`TakesAll`), and, not stated in the comments but needed by the
code, no `sendRecv` over two peers sends to a peer with a receive still posted
ahead (`NoCross`).

**Schedules** gives each algorithm as a program per rank: ring reduce-scatter and
all-gather, recursive doubling, Bruck, power-of-two elimination, the chains of
reduce and broadcast, gather, scatter, all-to-all. A buffer is a row of blocks
(chunks, or pieces of `kPipeBytes`), so a message is a sequence of blocks. The size
thresholds that choose an algorithm become the parameter `small`.

**Collectives** runs those programs on all ranks over three transports: "verbs"
(a message moves only into a posted receive and is read from the sender's memory
when it moves), "tcp" (the kernel may buffer a message, or not) and "staged"
(verbs through bounce buffers, with the copies of `postSend` and
`drainCompleted`). The content of a block is the tree of reductions that made it,
as the family of the leaf sets of its nodes: `a op b = b op a`, but `(a op b) op c`
and `a op (b op c)` are different, as they are in floating point. A leaf also
says how often it was multiplied by the PreMulSum scalar. Sends small enough to be
inlined are copied when posted; they are the case of a message read early and
are not distinguished.

**Registrations** is one communicator's region list, cache, `ScopedReg`, user
registrations, scratch and the allocations of the process. Memory is a row of
pages, and a block is mapped where nothing else is; a region is fresh while its
pages are still the ones it pinned. Handles are reused as list nodes are. `last`
says how the ranges of the last collective were resolved. The device may refuse to
register either buffer of a collective, the second after the first was
registered, or the scratch, which `scratchAt` ignores. The loops that keep
part of a list, here and in `Groups`, are `Filter` of the module **Filters**.

**Groups** is one application thread, one thread per communicator inside
`vcclGroupEnd`, and an aborting thread. With `inProcess` the communicators are the
ranks of one `vcclCommInitAll`, which need each other; the application gives them
the same kinds of operation (`SameAsPeers`), possibly fewer to some. A
compare-and-swap and a store make up `noteError`; they are one step, since
`asyncError` is settled by the swap and `aborted` only ever becomes true. The two
calls of `vcclCommAbort` are two steps. Outside a group a collective goes through
`runOp`, which notes its failure; a send or receive (`enqueueOrRunP2p`) returns its
own to the caller only.

**Bootstrap** has the ranks step by step through the rendezvous at the root, the
all-gather, and what the transport makes of it: the TCP mesh, or, for verbs,
`connectQp`, which brings the queue pairs of a rank to RTS (`rts`), and a second
all-gather as the barrier. A connection has two streams and two ends; an end is
closed by a failure, a crash or a rejection. `recvAll` waits for data or for the
other end to close, as it does on the blocking sockets of this phase; `connectTo`
and `acceptOne` have deadlines (`Expired`). A local call that fails (a socket, a
queue pair) closes the same sockets as a crash at that place, and is not an
action of its own. A client of another job may reach the port at any time, as in
`tests/test_bootstrap.cc`: its hello has another magic or salt, or the same
(`VCCL_COMM_ID` makes all ids equal) and another number of ranks; the field `job`
stands for magic, salt, version and endianness. A formed communicator may be
split: an all-gather for the members, `Elect` (the leader of each subgroup asks for
a unique id and may not get one), an all-gather for the ids, `Join`, which records
the arguments of the nested `vcclCommInitRank`. A rank whose split fails keeps its
sockets open until the application destroys the communicator
(`vcclCommDestroy`).

The `Bug...` operators next to a definition are wrong variants of it, used to
confirm that the property named in `PROJECT.json` would notice.

## What is checked

| Run | Configuration | Shows |
|---|---|---|
| `verbs` | 3 ranks, `kQueueDepth` 2, polls of up to 2: a ring all-reduce then all-gather without faults; an all-gather with a crash and timeouts; an all-gather of two ranks in two-segment messages with abort, async event, failing posts and a crash | `DataBeforeReturn`, `SendBufferFree`, `NotStranded`, `PrePostMatches`, `CleanBetweenOps`, `CqNeverOverflows`, `ImplementsTransport`, `EveryCallReturns`, `AbortUnblocks` |
| `batch` | 3 ranks, `kQueueDepth` 2: batches of one and two waves, of one and two peers, with segments and empty messages, without and with faults | `ImplementsTransport`, `BatchReturns`, `AbortUnblocks` |
| `tcp` | 3 ranks, `SockBuf` 1: ring steps of two bytes then an exchange of all with all; a send and a recv, then the exchange, with timeouts, a dead process and a dead host; a ring step, and a batch of two ranks, with an abort and a dead host | `StreamAligned`, `ImplementsTransport`, `EveryCallReturns`, `AbortUnblocks` |
| `coll` | every collective on 1 to 5 ranks | `ResultRight`, `SameEverywhere`, `SizesAgree`, `NoRace`, `NothingLeft`, `AllReturn` |
| `registrations` | 3 blocks, two of which overlap, 3 ranges, cache of 0, 1, 2, refused registrations | `OwnedOnce`, `CacheBounded`, `NeverStale` |
| `group` | 2 communicators, 3 operations each, nesting 2 | `IssueOrder`, `SuccessMeansRun`, `FailureVisible`, `FirstErrorStays`, `StopsAtFailure`, `GroupEnds` |
| `bootstrap` | 3 ranks, both transports, with and without `VCCL_COMM_ID`, 1 foreign client, 2 crashes, 2 ways to split | `SlotsRight`, `TableComplete`, `MeshWired`, `NobodySendsEarly`, `SplitAgrees`, `JobForms`, `InitReturns`, `SplitReturns` |

Five runs show the code disagreeing with its own documentation:

- `verbs_bruck` (`NotStranded`): `sendRecv` over two peers polls the send peer's
  queue without a receive counter (`verbs.cc:460`). `bruckAllGather` has receives
  posted ahead for that peer, and a completion of one is dropped; the step that
  waits for it spins until `VCCL_TIMEOUT`. The comment at `verbs.cc:917` says such
  completions are kept from being lost. `NoCross` is the condition that fails.
- `verbs_abort_split` (`AbortUnblocks`): the same loop never looks at the abort
  flag, against `transport.h:59` and `include/vccl.h:127`. Any ring of three or
  more ranks is in it most of the time. With two ranks the two peers are one
  and the property holds (`verbs`); so it does for `batch` and for TCP.
- `batch_sends_first` (`BatchReturns`): a wave ends at the first operation that does
  not fit the queue (`verbs.cc:493`). Two ranks that queue more sends to each
  other than a wave holds (128 work requests; 2 in the run) ahead of the receives
  both post a wave of sends and wait for receives neither has posted, against
  `transport.h:39`, "must not deadlock against the mirrored pair on the other
  side". `WavesPair` is the condition under which batches return; the programs
  checked without faults meet it, which `PairedPrograms` evaluates. Over TCP
  each direction has its own queue, and the order of the two does not matter.
- `coll_staged` (`ResultRight`): `drainCompleted` (`verbs.cc:788`) copies back and
  forgets all pending bounce receives at the first return, also those of receives
  posted ahead whose data has not come, against `verbs.cc:562` and `README.md:21`.
  The passing run uses bounce buffers only where no such receive is outstanding
  (`Stageable`).
- `registrations_free` (`NeverStale`): `vcclMemFree` (`comm.cc:336`) does not flush
  the registration cache, against `comm.h:79`. In the passing run the process
  frees only memory no region pins, or frees right after a deregistration.

Two more disagreements are seen in runs that pass, because the property states what
the code does:

- `bootstrap` (`SplitReturns`): `vcclCommSplit` returns at the first error
  (`comm.cc:117`, `137`, `139`) and leaves the sockets of the bootstrap open. A rank that
  still waits in an all-gather for the one that has returned waits in `recvAll` on a
  blocking socket, where no deadline is looked at (`socket.cc:263`), for as long as
  the other application keeps its communicator. `README.md:28` has a "watchdog on all
  blocking paths", and `deadline.h:11` says a dead peer fails the operation "instead
  of hanging the job forever". `SplitReturns` says that this is the only way a split
  does not return (`HeldUp`). Without that alternative TLC refutes it: rank 1 dies
  in the first all-gather, the root sees its socket close and returns with an error,
  and rank 2 waits for the table.
- `group` (`FirstErrorStays`): `vcclCommGetAsyncError` gives the first error of a
  communicator and no later one, as `noteError` exchanges only a success
  (`comm.h:153`); `include/vccl.h:131` calls it the "last error observed".

A third is in the models and in no run. The error of a `vcclSend` or `vcclRecv`
outside a group is returned and not noted (`group.cc:71`): `vcclCommGetAsyncError`
shows nothing, and the communicator is not closed, where `vccl.h:131` makes no
exception and `verbs.cc:805` relies on a failed communicator never being reused.
`RunNow` has it, `FailureVisible` is about the operations of groups, and the
transports end a program at its first failure, so what a second call would meet on
the same queue pair is not explored.

### Bounds

Three ranks are the first number with different neighbours, so with the polling
loop over two queues, and with a ring of more than one step; two ranks exercise
`pollPeer`. Four is the first with two steps of recursive doubling, five the first
with an elimination and several core steps and with a partial Bruck round after
full ones. With `kQueueDepth` 2 the rings of three fill a queue with the receives
they post ahead, and a batch of three messages needs a second wave; a failing post
is met at every post of `PairAllGather` and of `Segments`. `SockBuf` 1 with messages
of two bytes makes every transfer partial and fills the buffers of every ring step. Each program has its own faults (`CheckedFaults` of the MC modules), so
that the instances with the most interleavings need not have them all.
`PollBatch` 2 (16 in the code) makes a poll smaller than what is waiting and
larger than what is needed both happen. One block is one WR; a message of
several WRs appears in `PairAllGather`, in `Segments`, in Bruck and in the proofs,
which have any number. In `coll` the operations on 4 and 5 ranks with the most receives posted ahead run
over verbs only. `MaxRegions` 6 leaves room for a full cache, two user
registrations, a scratch and one temporary region. The two blocks that overlap are
never mapped together, but memory may be freed and mapped again with other bounds.
The two splits of three ranks
have equal keys in one group, and in the other keys against the rank order and a
rank that stays out. Three operations in two levels of groups allow two groups in a row, and a run of sends between collectives.

### Fairness

Liveness assumes that threads are scheduled (weak fairness of each rank's or
thread's steps) and that the network moves what two live ends have agreed on.
A deadline is assumed to pass only where `VCCL_TIMEOUT` is set: strong fairness of
`Expired` in `verbs` and `tcp` and of `WaveExpired` in `batch` (the loops leave and
re-enter the place where they look), weak in `bootstrap`. `EveryCallReturns` and
`BatchReturns` therefore make two statements: without faults and deadline
all ranks get through their programs, and with the deadline every call of a live
rank returns whoever dies. `AllReturn` and `AbortUnblocks` use no deadline. (The
default of `VCCL_TIMEOUT` is 60 s in `deadline.h:16`, 600 s in `README.md:99`.) The
kernel is never assumed to buffer a message. In `group`, an operation all ranks
take part in ends, and one that a rank has left fails; in `bootstrap` a deadline
passes only if some rank is gone, that is `VCCL_TIMEOUT` is longer than live
ranks need. What one rank splits all ranks do, as the API asks. Nothing makes an
application split or destroy a communicator, and no fairness is assumed of either.

`CHECK_DEADLOCK FALSE` is set where all ranks may be done, or dead.

## What is proved

Each theorem holds for every value of the constants: every set of ranks, of
programs, of communicators and of blocks, every `kQueueDepth`, `PollBatch`,
`SockBuf`, cache capacity and bound, and every choice of faults. The only
assumptions are those of the modules (`ProgramsAssumption`, `LimitsAssumption`,
`RankAssumption`, `BoundsAssumption`, `MemoryAssumption`, `SizeAssumption`,
`SplitsAssumption`), which say what the constants are, and that a job that is formed has two ranks or more (one alone
connects to nobody).

`VerbsProofs`, with no further hypothesis:

- `Typed`: `Spec => []TypeOK`. Inductive with `WaitsInXfer` (a rank that waits is
  in an `xfer` call).
- `SendsComplete`: `Spec => []SendBufferFree`. A call counts completions in
  `sendDone`, while the property speaks of acknowledgements; the inductive
  invariant `SendInv` ties them by an account: sends posted and not reaped for a
  peer are what the current call still has to count (`SendAccount`), together with
  `reaped <= acked <= arrived <= posted` (`Order`) and the fact that the phase
  "mid" belongs to two different peers.
- `CqBounded`: `Spec => []CqNeverOverflows`, from `Order` and `Room` (outstanding
  WRs of a direction never exceed `kQueueDepth`).

and in the same module, for programs that are `Disciplined`:

- `ReceivesMatch` (`PrePostMatches`), from `FifoInv`: the FIFOs of a live rank are
  the ones its program determines.
- `NoCompletionLost` (`NotStranded`) and `DataArrives` (`DataBeforeReturn`), from
  `RecvInv`. Its account says, per peer: receives posted and not reaped, plus the
  credited surplus, are the WRs of the requests in the FIFO plus what the current
  call still has to count; and receives reaped are those of the calls that
  returned, plus those of the current call and the surplus. `NoCross` is what keeps
  the poll of a send's queue from breaking it. The sum over a FIFO is stated with
  a witness function (`IsSum`), which avoids an induction.
- `OperationsClean` (`CleanBetweenOps`), from `RecvInv` and `TakesAll`.
- `VerbsImplementsTransport`: `Spec => ImplementsTransport`. Every step is a step
  of `Transport` or leaves its variables alone. The one that matters is `Return`:
  the sends are out by `SendInv`, and that what the call was due has arrived is
  the account of `RecvInv` together with `reaped <= arrived`.

`BatchProofs`, for any batches:

- `BatchImplementsTransport`: `BatchSpec => ImplementsTransport`, with no discipline,
  from `BatchInv`. A batch counts the completions of one wave at a time in `done`;
  the contract speaks of the whole batch. `RankInv` says what a live rank has posted
  is what its operations up to `pc` ask for (`Sofar`), that between two waves all of
  it has been reaped, and within one all but what the wave still waits for; with
  `BatchOrder` (reaped <= acknowledged or arrived <= posted by the sender) the end
  of the last wave is a `Return`. That waves add up to the batch is an induction:
  the sums `Wrs` defines by recursion exist, and those up to an operation and behind
  it add up to those of all (`SumsExist`, `SumsAdd`). It also needs that `RankAssumption`
  gives a sweep a next peer (`MinIn`) and that a wave has an operation (`WaveEnds`).
  An end of a wave that is not the last leaves the variables of the contract alone.

`TcpProofs`, for all programs without a discipline:

- `StreamsAligned`: `Spec => []StreamAligned`, and `TcpImplementsTransport`:
  `Spec => ImplementsTransport`, from one inductive invariant `Inv`. It is a
  ledger per ordered pair of ranks: what was handed over is what was written plus
  what the current call has left to write (`OutLedger`), what was read is what
  returned calls got plus what the current call has read so far (`InLedger`), and
  reads never pass writes (`ReadBehind`). `StreamAligned` alone is not inductive,
  since it says nothing inside a call.

`FilterProofs` has the lemmas `GroupsProofs` and `RegistrationsProofs` rest on. `Filter` is a recursive
function; that it exists, keeps the order, and commutes with appending and with
taking the head is proved by induction. The induction rule (`Induct`) is stated
with a set in place of a predicate, from the well-foundedness of `<`; `BatchProofs`
uses it too.

`GroupsProofs`, for any communicators, operations and levels of nesting:

- `FailuresShown` (`FailureVisible`), `FirstErrorKept` (`FirstErrorStays`) and
  `FailedStop` (`StopsAtFailure`), from `Inv`: an error noted is kept, and a thread
  that has failed has no operation left.
- `RunInOrder` (`IssueOrder`) and `NothingDropped` (`SuccessMeansRun`), from `RunInv`:
  what a communicator has run, followed by what its thread has left and by what is
  queued for it, is increasing, and without an error it is all that was issued.

`RegistrationsProofs`, for any blocks, ranges and capacities:

- `RegionsOwned` (`OwnedOnce`) and `CacheWithinCap` (`CacheBounded`), from `Inv`, also
  when memory is freed under the cache. The handles of the region list are those of
  the cache, of the user, of the scratch and, inside a collective, of the ranges
  it has resolved so far, and no two of these share one (`Owned`); a collective is
  one step of the model, so its loop over the ranges has an invariant of its own.
- `FlushSuffices` (`NeverStale`, if not `FreeAny`), from `Inv`: what the user has
  registered is mapped, and a region pins what its owner says it does.

`BootstrapProofs`, for any number of ranks, of foreign clients, of crashes and any
set of splits:

- `SlotsKept` (`SlotsRight`) and `GathersNeverMixed` (`TableComplete`), from `IInv`.
  Neither is inductive, as they say nothing of messages under way. `IInv` has the state of each connection to the
  root: no slot yet, the slot answered, a rank that has or has not published, read
  by the root, or sent the table. In each there is at most one message in each
  direction, and so ranks are at most one all-gather apart.
- `MeshLinked` (`MeshWired`), from `IInv` and `LInv`: the loop counter of
  `TcpTransport::create` is the number of connections the rank has, those to lower
  ranks dialled in order, those of higher ranks accepted in any; and a rank that
  dials only ever sends its own number, so the slot its connection gets is its own.
  The ranks that remain when the counter reaches its end are none, by cardinality.

`SplitProofs`, for the same, and for any colors and keys:

- `SplitsAgree` (`SplitAgrees`), from `IInv` and `SInv`. That `Sorted` has a value at
  all is proved without an induction: the map from a rank to the number of ranks
  below it is an injection between sets of one size, hence onto, and its inverse is
  the sorted sequence. So the place of a rank is a number that does not depend on
  who computes it. `SInv` says in which all-gather a rank can be at each place of
  `vcclCommSplit` (`Stage`), and that an entry of the all-gather of the ids, whether
  about to be sent, on the wire or in the root's buffer, is of a rank that has
  created its id if it leads (`Settled`). Hence a rank that has the ids has those
  of all leaders, also when other ranks are still reading theirs or have failed.
- `NoEarlySend` (`NobodySendsEarly`), from the same. An entry of the second
  all-gather, about to be sent, on the wire or in the root's buffer, is of a rank
  whose queue pairs are at RTS (`Wired`); the table of the barrier has an entry of every rank, so a rank that has
  it, and whatever it does afterwards, leaves nobody behind.

That the ring and elimination collectives meet the hypothesis is the
assumption `RingsFollow` of `MCVerbs`, which TLC evaluates for the number of ranks
of each run; Bruck does not meet it, and `verbs_bruck` shows the consequence.

Only model-checked: liveness (`EveryCallReturns`, `BatchReturns`, `AbortUnblocks`,
`AllReturn`, `GroupEnds`, `JobForms`, `InitReturns`, `SplitReturns`), which is out of
the prover's reach as is `ENABLED`; what the algorithms of `Schedules` compute
(`Collectives`), which needs an induction over the programs they generate.

## What is not modelled

- Floating-point arithmetic, SIMD kernels and conversions of `reduce.cc`; the choice
  of devices and addresses; wire layouts; argument checks that return before any
  effect; logging, tools and benchmarks. Byte counts below a block matter in
  `Collectives` only through `makeChunks`, which is translated.
- A client that connects to the root and stays silent: on a blocking socket the
  deadline of `recvAll` is not looked at, so the root would wait with it.
- A host that goes down during the bootstrap without closing its connections. The
  same blocking `recvAll` would wait for it until the kernel gives up; `InitReturns`
  is about processes that die, whose sockets the kernel closes.
- The temporary regions of `resolve` (`tempMrs_`): `Registrations` says when a range is
  resolved to one, but not that `drainCompleted` (`verbs.cc:794`) releases all of them
  at the first return, those of receives posted ahead included. Transfers from and
  to the scratch are not resolved there.
- The communicators a split creates. Their `vcclCommInitRank` is the `Bootstrap`
  already modelled, on its own sockets; `SplitAgrees` says its arguments agree. With
  `VCCL_COMM_ID` set, subgroups share one id, which the comment at
  `bootstrap.cc:93` rules out for communicators that overlap; `SplitAgrees` asks for
  different ids only without it. `vcclCommInitAll` starts the ranks of one
  `Bootstrap` as threads, and the listener of an id nobody claims stays open.
- In `VerbsBatch`, a post that fails between two segments of one operation is the
  same as one that fails before the first. Bounce buffers in a batch, whose copies
  back come at the end of each wave when all its receives are in.
- In `TcpTransport`, `EINTR`, which only repeats a call, and the kernel's own limit on
  retransmissions to a host that is down.
- The slots of `customOps`: a collective copies the scalar of its operator when it
  is issued (`resolveOp`), also in a group, so a slot that is destroyed and reused
  afterwards cannot reach it.
- The Python layer: ctypes wrappers, and buffers that `torch_comm.py` reuses between
  calls, which is a convention between it and its callers.
