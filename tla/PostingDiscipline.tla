------------------------- MODULE PostingDiscipline -------------------------
(***************************************************************************)
(* What a collective must respect when it posts receives ahead of its      *)
(* calls (Transport::postRecvs in src/transport/transport.h), stated on    *)
(* the program of calls alone: no state of a run appears in it.            *)
(***************************************************************************)
EXTENDS VerbsTransport

\* The FIFO of pre-posted receives of peer p after a call: postRecvs puts a
\* message that is not empty at its end, a receive takes one from its front.
AfterCall(q, c, p) ==
  IF c.from # p \/ c.r = 0 THEN q
  ELSE IF c.op = "post" THEN Append(q, c.r)
  ELSE IF c.op = "xfer" /\ q # <<>> THEN Tail(q) ELSE q

\* F[r][i][p] is the FIFO of rank r for peer p before its i-th call.
FifosOf(prog, F) ==
  \A r \in Rank : \A p \in Rank :
    /\ F[r][1][p] = <<>>
    /\ \A i \in DOMAIN prog[r] :
         F[r][i + 1][p] = AfterCall(F[r][i][p], prog[r][i], p)

\* "reqs must list the recvs in the order the collective will issue its
\* sendRecv recvs": a receive finds its own message at the front.
InOrder(prog, F) ==
  \A r \in Rank : \A i \in DOMAIN prog[r] :
    LET c == prog[r][i] IN
    c.op = "xfer" /\ c.r > 0 /\ F[r][i][c.from] # <<>> =>
      Head(F[r][i][c.from]) = c.r

\* A sendRecv over two peers finds no receive pre-posted for the peer it
\* sends to.
NoCross(prog, F) ==
  \A r \in Rank : \A i \in DOMAIN prog[r] :
    LET c == prog[r][i] IN
    c.op = "xfer" /\ Split(c) /\ c.s > 0 => F[r][i][c.to] = <<>>

\* An operation takes all the receives it has posted ahead.
TakesAll(prog, F) ==
  \A r \in Rank : \A i \in DOMAIN prog[r] \cup {Len(prog[r]) + 1} :
    (i \in DOMAIN prog[r] => prog[r][i].op = "begin") =>
      \A p \in Rank : F[r][i][p] = <<>>

Follows(prog, F) == /\ FifosOf(prog, F) /\ InOrder(prog, F)
                    /\ NoCross(prog, F) /\ TakesAll(prog, F)

Disciplined(prog) == \E F : Follows(prog, F)

============================================================================
