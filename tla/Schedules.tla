------------------------------ MODULE Schedules ------------------------------
(***************************************************************************)
(* The collective algorithms of src/core/collectives.cc as programs: the   *)
(* transport calls and local buffer operations rank r of n performs, in    *)
(* order.  A buffer is a row of blocks; <<"out", i>> is block i of the     *)
(* buffer the algorithm works in, <<"in", i>> of a separate send buffer    *)
(* and <<"tmp", i>> of the communicator's scratch.                         *)
(***************************************************************************)
EXTENDS Integers, Sequences, SequencesExt

In(i)  == <<"in", i>>
Out(i) == <<"out", i>>
Tmp(i) == <<"tmp", i>>

\* k consecutive blocks from i on.
Blocks(L(_), i, k) == [j \in 1 .. k |-> L(i + j - 1)]

\* Instructions.  A message of no block is an empty message.
RecvReq(p, d) == [op |-> "post", to |-> p, src |-> <<>>, from |-> p, dst |-> d]
SendRecv(t, s, f, d) ==
  [op |-> "xfer", to |-> t, src |-> s, from |-> f, dst |-> d]
SendTo(p, s) == SendRecv(p, s, p, <<>>)
RecvFrom(p, d) == SendRecv(p, <<>>, p, d)
\* A local operation, block by block; all of src is read first.
Local(o, s, d) == [op |-> o, to |-> 0, src |-> s, from |-> 0, dst |-> d]
Copy(s, d) == Local("copy", s, d)           \* memcpy
Reduce(s, d) == Local("reduce", s, d)       \* cpuReduce: d = d op s
Scale(d) == Local("scale", d, d)            \* cpuScale by the PreMulSum scalar
ScaleCopy(s, d) == Local("scaleCopy", s, d) \* cpuScaleCopy
ScaledAccumulate(s, d) == Local("scaledReduce", s, d)
Average(d) == Local("average", d, d)        \* cpuScale by 1 / n

When(c, prog) == IF c THEN prog ELSE <<>>

\* The instructions I(lo), ..., I(hi) one after the other, each a sequence.
Loop(lo, hi, I(_)) == FlattenSeq([k \in 1 .. hi - lo + 1 |-> I(lo + k - 1)])

next(n, r) == (r + 1) % n
prev(n, r) == (r + n - 1) % n

Pow2(k) == 2 ^ k
IsPow2(n) == \E k \in 0 .. n : Pow2(k) = n
\* The number of steps of a loop for (m = 1; m < n; m <<= 1).
Log2Up(n) == CHOOSE k \in 0 .. n : Pow2(k) >= n /\ (k = 0 \/ Pow2(k - 1) < n)
\* r ^ mask for a power of two.
Flip(r, mask) == IF (r \div mask) % 2 = 0 THEN r + mask ELSE r - mask

----------------------------------------------------------------------------
(* Chunks of the ring algorithms.                                          *)

\* The number of elements of chunk i when count elements are cut into n.
makeChunks(count, n, i) ==
  LET per == (count + n - 1) \div n
      cut(k) == IF per * k < count THEN per * k ELSE count
  IN cut(i + 1) - cut(i)

\* Chunk i as a message: no block when it has no element.
Chunk(size, L(_), i) == IF size[i] = 0 THEN <<>> ELSE <<L(i)>>

BugSendFirst(n, r, size) ==
  LET scratch(i) == Tmp(0)
      Step(s) ==
        LET rc == (r - s - 1) % n
        IN <<SendTo(next(n, r), Chunk(size, Out, (r - s) % n)),
             RecvFrom(prev(n, r), Chunk(size, scratch, rc)),
             Reduce(Chunk(size, scratch, rc), Chunk(size, Out, rc))>>
  IN Loop(0, n - 2, Step)
ringReduceScatter(n, r, size) ==
  LET scratch(i) == Tmp(0)
      Step(s) ==
        LET sc == (r - s) % n
            rc == (r - s - 1) % n
        IN <<SendRecv(next(n, r), Chunk(size, Out, sc),
                      prev(n, r), Chunk(size, scratch, rc)),
             Reduce(Chunk(size, scratch, rc), Chunk(size, Out, rc))>>
  IN Loop(0, n - 2, Step)

BugPostOneMore(n, r, size, startShift) ==
  LET sc(s) == Chunk(size, Out, (r + startShift - s) % n)
      rc(s) == Chunk(size, Out, (r + startShift - s - 1) % n)
      Req(s) == <<RecvReq(prev(n, r), rc(s))>>
      Step(s) == <<SendRecv(next(n, r), sc(s), prev(n, r), rc(s))>>
  IN Loop(0, n - 1, Req) \o Loop(0, n - 2, Step)
BugSendEarly(n, r, size, startShift) ==
  LET rc(s) == Chunk(size, Out, (r + startShift - s - 1) % n)
      Req(s) == <<RecvReq(prev(n, r), rc(s))>>
      Step(s) == <<SendRecv(next(n, r), rc(s), prev(n, r), rc(s))>>
  IN Loop(0, n - 2, Req) \o Loop(0, n - 2, Step)
BugIgnoreShift(n, r, size, startShift) ==
  LET sc(s) == Chunk(size, Out, (r - s) % n)
      rc(s) == Chunk(size, Out, (r - s - 1) % n)
      Req(s) == <<RecvReq(prev(n, r), rc(s))>>
      Step(s) == <<SendRecv(next(n, r), sc(s), prev(n, r), rc(s))>>
  IN Loop(0, n - 2, Req) \o Loop(0, n - 2, Step)
ringAllGather(n, r, size, startShift) ==
  LET sc(s) == Chunk(size, Out, (r + startShift - s) % n)
      rc(s) == Chunk(size, Out, (r + startShift - s - 1) % n)
      Req(s) == <<RecvReq(prev(n, r), rc(s))>>
      Step(s) == <<SendRecv(next(n, r), sc(s), prev(n, r), rc(s))>>
  IN Loop(0, n - 2, Req) \o Loop(0, n - 2, Step)

----------------------------------------------------------------------------
(* The logarithmic algorithms.                                             *)

recursiveDoublingAllGather(n, r) ==
  LET dst(i) == Flip(r, Pow2(i))
      held(q, i) == Blocks(Out, (q \div Pow2(i)) * Pow2(i), Pow2(i))
      Req(i) == <<RecvReq(dst(i), held(dst(i), i))>>
      Step(i) == <<SendRecv(dst(i), held(r, i), dst(i), held(dst(i), i))>>
  IN Loop(0, Log2Up(n) - 1, Req) \o Loop(0, Log2Up(n) - 1, Step)

BugPartialRecvOnly(n, r) ==
  LET curr(k) == Pow2(k)
      xfer(k) == IF Pow2(k) <= n - Pow2(k) THEN curr(k) ELSE n - Pow2(k)
      src(k) == (r + Pow2(k)) % n
      Step(k) == <<SendRecv((r - Pow2(k)) % n, Blocks(Out, 0, curr(k)),
                            src(k), Blocks(Out, curr(k), xfer(k)))>>
      slot(i) == Out((r + i) % n)
  IN <<Copy(<<Out(r)>>, <<Out(0)>>)>> \o Loop(0, Log2Up(n) - 1, Step)
     \o <<Copy(Blocks(Out, 0, n), Blocks(slot, 0, n))>>
bruckAllGather(n, r) ==
  LET curr(k) == Pow2(k)
      xfer(k) == IF Pow2(k) <= n - Pow2(k) THEN curr(k) ELSE n - Pow2(k)
      dst(k) == (r - Pow2(k)) % n
      src(k) == (r + Pow2(k)) % n
      Req(k) == <<RecvReq(src(k), Blocks(Out, curr(k), xfer(k)))>>
      Step(k) == <<SendRecv(dst(k), Blocks(Out, 0, xfer(k)),
                            src(k), Blocks(Out, curr(k), xfer(k)))>>
      slot(i) == Out((r + i) % n)
  IN <<Copy(<<Out(r)>>, <<Out(0)>>)>>
     \o Loop(0, Log2Up(n) - 1, Req) \o Loop(0, Log2Up(n) - 1, Step)
     \o <<Copy(Blocks(Out, 0, n), Blocks(slot, 0, n))>>

BugDissemination(n, r) ==
  LET Step(i) == <<SendRecv((r + Pow2(i)) % n, <<Out(0)>>,
                            (r - Pow2(i)) % n, <<Tmp(i)>>),
                   Reduce(<<Tmp(i)>>, <<Out(0)>>)>>
  IN Loop(0, Log2Up(n) - 1, Step)
recursiveDoublingAllReduce(n, r) ==
  LET peer(i) == Flip(r, Pow2(i))
      Req(i) == <<RecvReq(peer(i), <<Tmp(i)>>)>>
      Step(i) == <<SendRecv(peer(i), <<Out(0)>>, peer(i), <<Tmp(i)>>),
                   Reduce(<<Tmp(i)>>, <<Out(0)>>)>>
  IN Loop(0, Log2Up(n) - 1, Req) \o Loop(0, Log2Up(n) - 1, Step)

\* Largest power of two not above n, the number of folded ranks, and the peer
\* of a surviving rank in step i of the core.
P2(n) == CHOOSE p \in 1 .. n : IsPow2(p) /\ 2 * p > n
Extra(n) == n - P2(n)
corePeer(n, r, i) ==
  LET newRank == IF r < 2 * Extra(n) THEN r \div 2 ELSE r - Extra(n)
      newPeer == Flip(newRank, Pow2(i))
  IN IF newPeer < Extra(n) THEN newPeer * 2 ELSE newPeer + Extra(n)

pow2ElimAllReduce(n, r) ==
  LET recv == <<Out(0)>>
      inPre == r < 2 * Extra(n)
      evenSurvivor == inPre /\ r % 2 = 0
      oddEliminated == inPre /\ r % 2 = 1
      coreSteps == IF oddEliminated THEN 0 ELSE Log2Up(P2(n))
      Req(i) == <<RecvReq(corePeer(n, r, i), <<Tmp(1 + i)>>)>>
      Core(i) == <<SendRecv(corePeer(n, r, i), recv,
                            corePeer(n, r, i), <<Tmp(1 + i)>>),
                   Reduce(<<Tmp(1 + i)>>, recv)>>
  IN When(evenSurvivor, <<RecvReq(r + 1, <<Tmp(0)>>)>>)
     \o When(oddEliminated, <<RecvReq(r - 1, recv)>>)
     \o Loop(0, coreSteps - 1, Req)
     \o When(evenSurvivor, <<RecvFrom(r + 1, <<Tmp(0)>>),
                             Reduce(<<Tmp(0)>>, recv)>>)
     \o When(oddEliminated, <<SendTo(r - 1, recv)>>)
     \o Loop(0, coreSteps - 1, Core)
     \o When(evenSurvivor, <<SendTo(r + 1, recv)>>)
     \o When(oddEliminated, <<RecvFrom(r - 1, recv)>>)

----------------------------------------------------------------------------
(* The public operations.  small: the message is within the threshold of   *)
(* the logarithmic path, or the environment forces it.  op: the reduction  *)
(* after resolveOp, "sum" standing for every built-in one but the average. *)
(* inPlace: the send buffer is the place of the receive buffer the header  *)
(* allows.  An operation works on blocks 0 .. n - 1 or, where the code     *)
(* moves pieces of kPipeBytes, on pieces 0 .. pieces - 1.                   *)

Same(n) == [i \in 0 .. n - 1 |-> 1]

doAllGather(n, r, small, inPlace) ==
  When(~inPlace, <<Copy(<<In(0)>>, <<Out(r)>>)>>)
  \o (IF n = 1 THEN <<>>
      ELSE IF small THEN IF IsPow2(n) THEN recursiveDoublingAllGather(n, r)
                         ELSE bruckAllGather(n, r)
      ELSE ringAllGather(n, r, Same(n), 0))

\* The whole buffer is block 0 of the logarithmic algorithms and chunks
\* 0 .. n - 1 of the ring.
doAllReduce(n, r, small, op, inPlace, count) ==
  LET size == [i \in 0 .. n - 1 |-> makeChunks(count, n, i)]
      Every(L(_)) == IF small THEN <<L(0)>> ELSE Blocks(L, 0, n)
      mine == Chunk(size, Out, (r + 1) % n)
  IN When(~inPlace, <<Copy(Every(In), Every(Out))>>)
     \o When(op = "premul", <<Scale(Every(Out))>>)
     \o (IF n = 1 THEN <<>>
         ELSE IF small
         THEN (IF IsPow2(n) THEN recursiveDoublingAllReduce(n, r)
               ELSE pow2ElimAllReduce(n, r))
              \o When(op = "avg", <<Average(<<Out(0)>>)>>)
         ELSE ringReduceScatter(n, r, size)
              \o When(op = "avg", <<Average(mine)>>)
              \o ringAllGather(n, r, size, 1))

doReduceScatter(n, r, op, inPlace) ==
  LET premul == op = "premul"
      recvbuff == <<IF inPlace THEN In(r) ELSE Out(0)>>
      first == <<In((r - 1) % n)>>
      recvPtr(s) == <<Tmp(s % 2)>>
      sendPtr(s) == IF s > 0 THEN recvPtr(s - 1)
                    ELSE IF premul THEN <<Tmp(2)>> ELSE first
      local(s) == <<In((r - s - 2) % n)>>
      Fold(s) ==
        IF s = n - 2
        THEN <<IF premul THEN ScaleCopy(local(s), recvbuff)
               ELSE Copy(local(s), recvbuff),
               Reduce(recvPtr(s), recvbuff)>>
        ELSE <<IF premul THEN ScaledAccumulate(local(s), recvPtr(s))
               ELSE Reduce(local(s), recvPtr(s))>>
      Step(s) == <<SendRecv(next(n, r), sendPtr(s), prev(n, r), recvPtr(s))>>
                 \o Fold(s)
  IN IF n = 1
     THEN When(~inPlace, <<Copy(<<In(0)>>, recvbuff)>>)
          \o When(premul, <<Scale(recvbuff)>>)
     ELSE When(premul, <<ScaleCopy(first, <<Tmp(2)>>)>>)
          \o Loop(0, n - 2, Step)
          \o When(op = "avg", <<Average(recvbuff)>>)

\* The chain root + 1 -> ... -> root, piece by piece through one scratch.
doReduce(n, r, op, root, inPlace, pieces) ==
  LET premul == op = "premul"
      scratch == <<Tmp(0)>>
      dest(i) == <<IF inPlace THEN In(i) ELSE Out(i)>>
      Lead(i) == IF premul THEN <<ScaleCopy(<<In(i)>>, scratch),
                                  SendTo(next(n, r), scratch)>>
                 ELSE <<SendTo(next(n, r), <<In(i)>>)>>
      Root(i) == <<RecvFrom(prev(n, r), scratch),
                   IF premul THEN ScaleCopy(<<In(i)>>, dest(i))
                   ELSE Copy(<<In(i)>>, dest(i)),
                   Reduce(scratch, dest(i))>>
                 \o When(op = "avg", <<Average(dest(i))>>)
      Mid(i) == <<RecvFrom(prev(n, r), scratch),
                  IF premul THEN ScaledAccumulate(<<In(i)>>, scratch)
                  ELSE Reduce(<<In(i)>>, scratch),
                  SendTo(next(n, r), scratch)>>
      Alone(i) == When(~inPlace, <<Copy(<<In(i)>>, dest(i))>>)
                  \o When(premul, <<Scale(dest(i))>>)
      Piece(i) == IF n = 1 THEN Alone(i)
                  ELSE IF r = (root + 1) % n THEN Lead(i)
                  ELSE IF r = root THEN Root(i) ELSE Mid(i)
  IN Loop(0, pieces - 1, Piece)

doBroadcast(n, r, root, inPlace, pieces) ==
  LET Forward(i) == SendTo(next(n, r), <<Out(i)>>)
      Piece(i) == IF r = root THEN <<Forward(i)>>
                  ELSE <<RecvFrom(prev(n, r), <<Out(i)>>)>>
                       \o When(next(n, r) # root, <<Forward(i)>>)
  IN When(r = root /\ ~inPlace,
          <<Copy(Blocks(In, 0, pieces), Blocks(Out, 0, pieces))>>)
     \o When(n > 1, Loop(0, pieces - 1, Piece))

doGather(n, r, root, inPlace) ==
  LET peer(s) == (root + s) % n
      Take(s) == <<RecvFrom(peer(s), <<Out(peer(s))>>)>>
  IN IF r # root THEN <<SendTo(root, <<In(0)>>)>>
     ELSE When(~inPlace, <<Copy(<<In(0)>>, <<Out(root)>>)>>)
          \o Loop(1, n - 1, Take)

doScatter(n, r, root, inPlace) ==
  LET peer(s) == (root + s) % n
      Give(s) == <<SendTo(peer(s), <<In(peer(s))>>)>>
  IN IF r # root THEN <<RecvFrom(root, <<Out(0)>>)>>
     ELSE When(~inPlace, <<Copy(<<In(root)>>, <<Out(0)>>)>>)
          \o Loop(1, n - 1, Give)

\* sent: the pairs <<p, q>> where p has something for q (sendcounts, and q's
\* recvcounts).
doAllToAllv(n, r, sent) ==
  LET Message(p, q, L(_), i) == IF <<p, q>> \in sent THEN <<L(i)>> ELSE <<>>
      Step(s) == LET to == (r + s) % n
                     from == (r - s) % n
                 IN <<SendRecv(to, Message(r, to, In, to),
                               from, Message(from, r, Out, from))>>
  IN <<Copy(Message(r, r, In, r), Message(r, r, Out, r))>>
     \o Loop(1, n - 1, Step)

============================================================================
