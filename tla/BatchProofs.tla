---------------------------- MODULE BatchProofs ----------------------------
(***************************************************************************)
(* VerbsTransport::batch implements Transport, for every set of ranks, any *)
(* batches, every queue depth and every fault.                             *)
(***************************************************************************)
EXTENDS VerbsBatch, FilterProofs

\* Zenon proves the leaves that name no prover.
USE Zenon

----------------------------------------------------------------------------
(* Sums of work requests.                                                  *)

\* f has the sums of w from i on.
Sums(f, w, i, j) ==
  /\ f = [k \in i - 1 .. j |-> f[k]]
  /\ f[i - 1] = 0
  /\ \A k \in i .. j : f[k] = f[k - 1] + w[k]

\* There are such sums, by induction on their number.
LEMMA SumsExist ==
  ASSUME NEW w, NEW i \in Nat \ {0}
  PROVE  \A n \in Nat : \E f : Sums(f, w, i, i - 1 + n)
<1> DEFINE D == {n \in Nat : \E f : Sums(f, w, i, i - 1 + n)}
<1>1. 0 \in D
  <2>1. PICK f : f = [k \in i - 1 .. i - 1 |-> 0]
    OBVIOUS
  <2>2. Sums(f, w, i, i - 1 + 0)
    BY SMT, <2>1 DEF Sums
  <2> QED
    BY SMT, <2>2
<1>2. ASSUME NEW n \in Nat, n \in D PROVE n + 1 \in D
  <2>1. PICK f : Sums(f, w, i, i - 1 + n)
    BY <1>2
  <2>2. PICK j : j = i - 1 + n
    OBVIOUS
  <2>3. j \in Nat /\ j + 1 = i - 1 + (n + 1) /\ i - 1 <= j
    BY SMT, <2>2
  <2>4. PICK g : g = [k \in i - 1 .. j + 1 |-> IF k = j + 1 THEN f[j] + w[j + 1] ELSE f[k]]
    OBVIOUS
  <2>5. /\ g = [k \in i - 1 .. j + 1 |-> g[k]]
        /\ g[j + 1] = f[j] + w[j + 1]
        /\ \A k \in i - 1 .. j : g[k] = f[k]
    BY SMT, <2>3, <2>4
  <2>6. f[i - 1] = 0 /\ \A k \in i .. j : f[k] = f[k - 1] + w[k]
    BY <2>1, <2>2 DEF Sums
  <2>7. /\ i - 1 \in i - 1 .. j /\ j \in i - 1 .. j /\ j + 1 - 1 = j
        /\ \A k \in i .. j : k \in i - 1 .. j /\ k - 1 \in i - 1 .. j
        /\ \A k \in i .. j + 1 : k \in i .. j \/ k = j + 1
    BY SMT, <2>3
  <2>8. g[i - 1] = 0
    BY <2>5, <2>6, <2>7
  <2>9. ASSUME NEW k \in i .. j + 1 PROVE g[k] = g[k - 1] + w[k]
    <3>1. CASE k \in i .. j
      BY <2>5, <2>6, <2>7, <3>1
    <3>2. CASE k = j + 1
      <4>1. k - 1 = j
        BY SMT, <2>3, <3>2
      <4>2. g[j + 1] = g[j] + w[j + 1]
        BY <2>5, <2>7
      <4> QED
        BY <3>2, <4>1, <4>2
    <3> QED
      BY <2>7, <3>1, <3>2
  <2>10. g = [k \in i - 1 .. j + 1 |-> g[k]]
    BY <2>5
  <2>11. Sums(g, w, i, j + 1)
    BY <2>8, <2>9, <2>10 DEF Sums
  <2>12. n + 1 \in Nat
    BY SMT
  <2> QED
    BY <2>3, <2>11, <2>12
<1>3. Nat \subseteq D
  <2> HIDE DEF D
  <2> QED
    BY <1>1, <1>2, Induct
<1> QED
  BY <1>3

\* The sums behind m are differences of the sums from 1 on.
Shift(w, n, i, m, j) ==
  \A f, g : Sums(f, w, i, j) /\ Sums(g, w, 1, n) /\ g[m] \in Nat
              => \A k \in m .. j : f[k] \in Nat /\ g[k] = g[m] + f[k]

\* By induction on the number of terms behind m.
LEMMA SumsShift ==
  ASSUME NEW w, NEW n \in Nat, \A k \in 1 .. n : w[k] \in Nat,
         NEW i \in Nat \ {0}, NEW m, m = i - 1, NEW j \in Nat, m <= j, j <= n
  PROVE  Shift(w, n, i, m, j)
<1> SUFFICES ASSUME i - 1 <= j, NEW f, Sums(f, w, i, j), NEW g, Sums(g, w, 1, n),
                    g[i - 1] \in Nat
             PROVE  \A k \in i - 1 .. j : f[k] \in Nat /\ g[k] = g[i - 1] + f[k]
  BY DEF Shift
<1> DEFINE D == {d \in Nat : i - 1 + d <= j =>
                   f[i - 1 + d] \in Nat /\ g[i - 1 + d] = g[i - 1] + f[i - 1 + d]}
<1>1. 0 \in D
  <2>1. f[i - 1] = 0 /\ i - 1 + 0 = i - 1 /\ g[i - 1] = g[i - 1] + 0
    BY SMT DEF Sums
  <2>2. 0 \in Nat
    BY SMT
  <2> QED
    BY <2>1, <2>2
<1>2. ASSUME NEW d \in Nat, d \in D PROVE d + 1 \in D
  <2> SUFFICES ASSUME i - 1 + (d + 1) <= j
               PROVE  /\ f[i - 1 + (d + 1)] \in Nat
                      /\ g[i - 1 + (d + 1)] = g[i - 1] + f[i - 1 + (d + 1)]
    BY SMT
  <2>1. PICK k : k = i - 1 + d
    OBVIOUS
  <2>2. /\ k \in Nat /\ k + 1 \in i .. j /\ k + 1 \in 1 .. n /\ k + 1 - 1 = k
        /\ k <= j /\ i - 1 + (d + 1) = k + 1
    BY SMT, <2>1
  <2>3. f[k] \in Nat /\ g[k] = g[i - 1] + f[k]
    BY <1>2, <2>1, <2>2
  <2>4. f[k + 1] = f[k] + w[k + 1] /\ g[k + 1] = g[k] + w[k + 1] /\ w[k + 1] \in Nat
    <3>1. \A l \in i .. j : f[l] = f[l - 1] + w[l]
      BY DEF Sums
    <3>2. \A l \in 1 .. n : g[l] = g[l - 1] + w[l]
      BY DEF Sums
    <3>3. PICK l : l = k + 1
      OBVIOUS
    <3>4. l \in i .. j /\ l \in 1 .. n /\ l - 1 = k
      BY SMT, <2>2, <3>3
    <3>5. f[l] = f[k] + w[l] /\ g[l] = g[k] + w[l] /\ w[l] \in Nat
      BY <3>1, <3>2, <3>4
    <3> QED
      BY <3>3, <3>5
  <2>5. f[k + 1] \in Nat /\ g[k + 1] = g[i - 1] + f[k + 1]
    BY SMT, <2>3, <2>4
  <2> QED
    BY <2>2, <2>5
<1>3. Nat \subseteq D
  <2> HIDE DEF D
  <2> QED
    BY <1>1, <1>2, Induct
<1>4. ASSUME NEW k \in i - 1 .. j PROVE f[k] \in Nat /\ g[k] = g[i - 1] + f[k]
  <2>1. PICK d : d = k - (i - 1)
    OBVIOUS
  <2>2. d \in Nat /\ i - 1 + d = k /\ k <= j
    BY SMT, <2>1
  <2>3. d \in D
    BY <1>3, <2>2
  <2> QED
    BY <2>2, <2>3
<1> QED
  BY <1>4

\* Sums up to m and those behind it add up.
AddUp(w, i, m, j) ==
  \A f, g, h : Sums(f, w, i, j) /\ Sums(g, w, 1, j) /\ Sums(h, w, 1, m)
                 => f[j] \in Nat /\ h[m] \in Nat /\ g[j] = h[m] + f[j]

\* SumsShift, once from 1 and once from i.
LEMMA SumsAdd ==
  ASSUME NEW w, NEW i \in Nat \ {0}, NEW m \in Nat, m = i - 1, NEW j \in Nat, m <= j,
         \A k \in 1 .. j : w[k] \in Nat
  PROVE  AddUp(w, i, m, j)
<1> SUFFICES ASSUME NEW f, NEW g, NEW h,
                    Sums(f, w, i, j), Sums(g, w, 1, j), Sums(h, w, 1, m)
             PROVE  f[j] \in Nat /\ h[m] \in Nat /\ g[j] = h[m] + f[j]
  BY DEF AddUp
<1>1. /\ 1 \in Nat \ {0} /\ 0 = 1 - 1 /\ 0 \in Nat /\ 0 <= m /\ j <= j
      /\ m \in 0 .. m /\ j \in m .. j
  BY SMT
<1>2. g[0] = 0
  BY <1>1 DEF Sums
<1>3. h[m] \in Nat /\ g[m] = g[0] + h[m]
  <2>1. Shift(w, j, 1, 0, m)
    BY <1>1, SumsShift
  <2> QED
    BY <1>1, <1>2, <2>1 DEF Shift
<1>4. g[m] = h[m]
  BY SMT, <1>2, <1>3
<1>5. f[j] \in Nat /\ g[j] = g[m] + f[j]
  <2>1. Shift(w, j, i, m, j)
    BY <1>1, SumsShift
  <2>2. g[m] \in Nat
    BY <1>3, <1>4
  <2> QED
    BY <1>1, <2>1, <2>2 DEF Shift
<1> QED
  BY <1>3, <1>4, <1>5

\* The WRs of the k-th operation for p.
SendsOf(ops, p) == [k \in Nat |-> IF ops[k].to = p THEN ops[k].s ELSE 0]
RecvsOf(ops, p) == [k \in Nat |-> IF ops[k].from = p THEN ops[k].r ELSE 0]

\* f is the function that Wrs defines by recursion.
Adds(f, w, i, j) ==
  f = [k \in i - 1 .. j |-> IF k < i THEN 0 ELSE f[k - 1] + w[k]]

\* The recursion and the sums are the same functions, ...
LEMMA AddsIsSums ==
  ASSUME NEW w, NEW i \in Nat \ {0}, NEW j \in Nat, i - 1 <= j, NEW f
  PROVE  Adds(f, w, i, j) <=> Sums(f, w, i, j)
<1> DEFINE R(k) == IF k < i THEN 0 ELSE f[k - 1] + w[k]
<1>1. ASSUME Adds(f, w, i, j) PROVE Sums(f, w, i, j)
  <2>0. f = [k \in i - 1 .. j |-> R(k)]
    BY <1>1 DEF Adds
  <2>1. \A k \in i - 1 .. j : f[k] = R(k)
    <3> HIDE DEF R
    <3> QED
      BY <2>0
  <2>2. f = [k \in i - 1 .. j |-> f[k]]
    <3> HIDE DEF R
    <3> QED
      BY <2>0, <2>1
  <2>3. i - 1 \in i - 1 .. j /\ i - 1 < i
    BY SMT
  <2>4. f[i - 1] = 0
    BY <2>1, <2>3
  <2>5. ASSUME NEW k \in i .. j PROVE f[k] = f[k - 1] + w[k]
    <3>1. k \in i - 1 .. j /\ ~(k < i)
      BY SMT
    <3> QED
      BY <2>1, <3>1
  <2> QED
    BY <2>2, <2>4, <2>5 DEF Sums
<1>2. ASSUME Sums(f, w, i, j) PROVE Adds(f, w, i, j)
  <2>1. ASSUME NEW k \in i - 1 .. j PROVE f[k] = R(k)
    <3>1. CASE k < i
      <4>1. k = i - 1
        BY SMT, <3>1
      <4> QED
        BY <1>2, <3>1, <4>1 DEF Sums
    <3>2. CASE ~(k < i)
      <4>1. k \in i .. j
        BY SMT, <3>2
      <4> QED
        BY <1>2, <3>2, <4>1 DEF Sums
    <3> QED
      BY <3>1, <3>2
  <2>2. f = [k \in i - 1 .. j |-> f[k]]
    BY <1>2 DEF Sums
  <2>3. f = [k \in i - 1 .. j |-> R(k)]
    <3> HIDE DEF R
    <3> QED
      BY <2>1, <2>2
  <2> QED
    BY <2>3 DEF Adds
<1> QED
  BY <1>1, <1>2

\* ... and so the recursion has a solution.
LEMMA AddsExists ==
  ASSUME NEW w, NEW i \in Nat \ {0}, NEW j \in Nat, i - 1 <= j
  PROVE  \E f : Adds(f, w, i, j)
<1>1. PICK n : n = j - (i - 1)
  OBVIOUS
<1>2. n \in Nat /\ i - 1 + n = j
  BY SMT, <1>1
<1>3. PICK f : Sums(f, w, i, j)
  BY <1>2, SumsExist
<1> QED
  BY <1>3, AddsIsSums

\* What Wrs counts are the sums.
LEMMA WrsSums ==
  ASSUME NEW ops, NEW p, NEW i \in Nat \ {0}, NEW j \in Nat, i - 1 <= j
  PROVE  \E f, g : /\ Sums(f, SendsOf(ops, p), i, j) /\ Sums(g, RecvsOf(ops, p), i, j)
                   /\ Wrs(ops, p, i, j) = [s |-> f[j], r |-> g[j]]
<1> DEFINE S == CHOOSE f : f = [k \in i - 1 .. j |-> IF k < i THEN 0
                      ELSE f[k - 1] + (IF ops[k].to = p THEN ops[k].s ELSE 0)]
           R == CHOOSE f : f = [k \in i - 1 .. j |-> IF k < i THEN 0
                      ELSE f[k - 1] + (IF ops[k].from = p THEN ops[k].r ELSE 0)]
<1>1. \A k \in i - 1 .. j : k \in Nat
  BY SMT
<1>2. \A k \in i - 1 .. j :
        /\ SendsOf(ops, p)[k] = IF ops[k].to = p THEN ops[k].s ELSE 0
        /\ RecvsOf(ops, p)[k] = IF ops[k].from = p THEN ops[k].r ELSE 0
  BY <1>1 DEF SendsOf, RecvsOf
<1>3. Adds(S, SendsOf(ops, p), i, j)
  <2>1. \A f : Adds(f, SendsOf(ops, p), i, j) <=>
               f = [k \in i - 1 .. j |-> IF k < i THEN 0
                      ELSE f[k - 1] + (IF ops[k].to = p THEN ops[k].s ELSE 0)]
    BY <1>2 DEF Adds
  <2>2. PICK f : Adds(f, SendsOf(ops, p), i, j)
    BY AddsExists
  <2> QED
    BY <2>1, <2>2
<1>4. Adds(R, RecvsOf(ops, p), i, j)
  <2>1. \A f : Adds(f, RecvsOf(ops, p), i, j) <=>
               f = [k \in i - 1 .. j |-> IF k < i THEN 0
                      ELSE f[k - 1] + (IF ops[k].from = p THEN ops[k].r ELSE 0)]
    BY <1>2 DEF Adds
  <2>2. PICK f : Adds(f, RecvsOf(ops, p), i, j)
    BY AddsExists
  <2> QED
    BY <2>1, <2>2
<1>5. Wrs(ops, p, i, j) = [s |-> S[j], r |-> R[j]]
  BY DEF Wrs
<1> HIDE DEF S, R
<1> QED
  BY <1>3, <1>4, <1>5, AddsIsSums

Wr == [s : Nat, r : Nat]

\* WRs of a batch add up: those of the operations up to m and those behind.
WrsAddUp(ops, p, i, m, j) ==
  /\ Wrs(ops, p, i, j) \in Wr
  /\ Wrs(ops, p, i, j).s \in Nat /\ Wrs(ops, p, i, j).r \in Nat
  /\ Wrs(ops, p, 1, m).s \in Nat /\ Wrs(ops, p, 1, m).r \in Nat
  /\ Wrs(ops, p, 1, j).s = Wrs(ops, p, 1, m).s + Wrs(ops, p, i, j).s
  /\ Wrs(ops, p, 1, j).r = Wrs(ops, p, 1, m).r + Wrs(ops, p, i, j).r

\* SumsAdd for the sends and for the receives.
LEMMA WrsAdd ==
  ASSUME NEW ops \in Seq(Call), NEW p, NEW i \in Nat \ {0}, NEW h, h = i - 1,
         NEW j \in Nat, h <= j, j <= Len(ops)
  PROVE  WrsAddUp(ops, p, i, h, j)
<1>0. PICK ss, rs, u : ss = SendsOf(ops, p) /\ rs = RecvsOf(ops, p) /\ u = 1
  OBVIOUS
<1>1. Len(ops) \in Nat /\ h \in Nat /\ u \in Nat \ {0} /\ u - 1 <= h /\ u - 1 <= j
  BY SMT, <1>0
<1>2. ASSUME NEW k \in 1 .. j PROVE ss[k] \in Nat /\ rs[k] \in Nat
  <2>1. k \in Nat /\ k \in 1 .. Len(ops)
    BY SMT, <1>1
  <2>2. ops[k] \in Call
    BY SMT, <2>1
  <2>3. ops[k].s \in Nat /\ ops[k].r \in Nat
    BY <2>2 DEF Call
  <2>4. 0 \in Nat
    BY SMT
  <2> QED
    BY <1>0, <2>1, <2>3, <2>4 DEF SendsOf, RecvsOf
<1>3. ASSUME NEW a \in Nat \ {0}, NEW b \in Nat, a - 1 <= b
      PROVE  \E fs, fr : /\ Sums(fs, ss, a, b) /\ Sums(fr, rs, a, b)
                         /\ Wrs(ops, p, a, b) = [s |-> fs[b], r |-> fr[b]]
  <2>1. \E f, g : /\ Sums(f, SendsOf(ops, p), a, b) /\ Sums(g, RecvsOf(ops, p), a, b)
                   /\ Wrs(ops, p, a, b) = [s |-> f[b], r |-> g[b]]
    BY <1>3, WrsSums
  <2> QED
    BY <1>0, <2>1
<1>4. PICK fs, fr : /\ Sums(fs, ss, i, j) /\ Sums(fr, rs, i, j)
                    /\ Wrs(ops, p, i, j) = [s |-> fs[j], r |-> fr[j]]
  BY <1>3
<1>5. PICK gs, gr : /\ Sums(gs, ss, u, j) /\ Sums(gr, rs, u, j)
                    /\ Wrs(ops, p, u, j) = [s |-> gs[j], r |-> gr[j]]
  BY <1>1, <1>3
<1>6. PICK hs, hr : /\ Sums(hs, ss, u, h) /\ Sums(hr, rs, u, h)
                    /\ Wrs(ops, p, u, h) = [s |-> hs[h], r |-> hr[h]]
  BY <1>1, <1>3
<1>7. ASSUME NEW w, \A k \in 1 .. j : w[k] \in Nat, NEW f, Sums(f, w, i, j),
             NEW g, Sums(g, w, u, j), NEW e, Sums(e, w, u, h)
      PROVE  f[j] \in Nat /\ e[h] \in Nat /\ g[j] = e[h] + f[j]
  <2>1. Sums(g, w, 1, j) /\ Sums(e, w, 1, h) /\ h = i - 1 /\ h <= j
    BY <1>0, <1>7
  <2>2. AddUp(w, i, h, j)
    BY <1>1, <1>7, <2>1, SumsAdd
  <2> QED
    BY <1>7, <2>1, <2>2 DEF AddUp
<1>8. fs[j] \in Nat /\ hs[h] \in Nat /\ gs[j] = hs[h] + fs[j]
  BY <1>2, <1>4, <1>5, <1>6, <1>7
<1>9. fr[j] \in Nat /\ hr[h] \in Nat /\ gr[j] = hr[h] + fr[j]
  BY <1>2, <1>4, <1>5, <1>6, <1>7
<1>10. ASSUME NEW a, NEW b, NEW e, e = [s |-> a, r |-> b]
       PROVE  e.s = a /\ e.r = b /\ (a \in Nat /\ b \in Nat => e \in Wr)
  BY SMT, <1>10 DEF Wr
<1>11. /\ Wrs(ops, p, i, j).s = fs[j] /\ Wrs(ops, p, i, j).r = fr[j]
       /\ Wrs(ops, p, i, j) \in Wr
  BY <1>4, <1>8, <1>9, <1>10
<1>12. Wrs(ops, p, u, j).s = gs[j] /\ Wrs(ops, p, u, j).r = gr[j]
  BY SMT, <1>5
<1>13. Wrs(ops, p, u, h).s = hs[h] /\ Wrs(ops, p, u, h).r = hr[h]
  BY SMT, <1>6
<1>14. /\ Wrs(ops, p, u, h).s \in Nat /\ Wrs(ops, p, u, h).r \in Nat
       /\ Wrs(ops, p, i, j).s \in Nat /\ Wrs(ops, p, i, j).r \in Nat
       /\ Wrs(ops, p, u, j).s = Wrs(ops, p, u, h).s + Wrs(ops, p, i, j).s
       /\ Wrs(ops, p, u, j).r = Wrs(ops, p, u, h).r + Wrs(ops, p, i, j).r
  BY <1>8, <1>9, <1>11, <1>12, <1>13
<1> QED
  BY <1>0, <1>11, <1>14 DEF WrsAddUp

\* Before the first operation there are none.
LEMMA WrsNone ==
  ASSUME NEW ops, NEW p
  PROVE  Wrs(ops, p, 1, 0).s = 0 /\ Wrs(ops, p, 1, 0).r = 0
<1>1. 1 \in Nat \ {0} /\ 0 \in Nat /\ 1 - 1 <= 0 /\ 1 - 1 = 0
  BY SMT
<1>2. PICK f, g : /\ Sums(f, SendsOf(ops, p), 1, 0) /\ Sums(g, RecvsOf(ops, p), 1, 0)
                  /\ Wrs(ops, p, 1, 0) = [s |-> f[0], r |-> g[0]]
  BY <1>1, WrsSums
<1>3. f[0] = 0 /\ g[0] = 0
  BY <1>1, <1>2 DEF Sums
<1> QED
  BY SMT, <1>2, <1>3

----------------------------------------------------------------------------
(* The largest and the smallest of a set, and where a wave ends.           *)

\* Sets of numbers below a bound have a largest element, ...
LEMMA MaxIn ==
  ASSUME NEW n \in Nat, NEW S \in SUBSET (0 .. n), S # {}
  PROVE  Max(S) \in S
<1> DEFINE D == {n - x : x \in S}
<1>1. D \in SUBSET Nat /\ D # {}
  <2>1. \A x \in S : n - x \in Nat
    BY SMT
  <2> QED
    BY <2>1
<1>2. PICK d \in D : \A e \in D : d <= e
  BY <1>1, Least
<1>3. PICK x \in S : d = n - x
  BY <1>2
<1>4. \A y \in S : n - x <= n - y
  BY <1>2, <1>3
<1>5. \A y \in S : x >= y
  BY SMT, <1>4
<1> QED
  BY <1>5 DEF Max

\* ... and all sets of numbers a smallest.
LEMMA MinIn ==
  ASSUME NEW S \in SUBSET Nat, S # {}
  PROVE  Min(S) \in S
<1>1. PICK x \in S : \A y \in S : x <= y
  BY Least
<1> QED
  BY <1>1 DEF Min

\* A wave has an operation at least, and ends with the batch.
LEMMA WaveEnds ==
  ASSUME NEW ops \in Seq(Call), NEW i \in Nat \ {0}, i <= Len(ops)
  PROVE  waveEnd(ops, i) \in i + 1 .. Len(ops) + 1
<1> DEFINE S == {i} \cup {j \in i .. Len(ops) : \A p \in Rank : Fits(Wrs(ops, p, i, j))}
<1>1. Len(ops) \in Nat /\ ~(i > Len(ops))
  BY SMT
<1>2. S \in SUBSET (0 .. Len(ops)) /\ S # {} /\ S \subseteq i .. Len(ops)
  BY SMT, <1>1
<1>3. waveEnd(ops, i) = Max(S) + 1
  BY <1>1 DEF waveEnd
<1> HIDE DEF S
<1>4. Max(S) \in i .. Len(ops)
  BY <1>1, <1>2, MaxIn
<1> QED
  BY SMT, <1>1, <1>3, <1>4

----------------------------------------------------------------------------
(* The invariant.                                                          *)

Count == [Rank -> [Rank -> Nat]]

BatchTypeOK ==
  /\ calls \in Programs /\ pc \in [Rank -> Nat \ {0}]
  /\ phase \in [Rank -> {"call", "loop", "failed", "crashed"}]
  /\ sendPosted \in Count /\ recvPosted \in Count /\ arrived \in Count
  /\ acked \in Count /\ sendReaped \in Count /\ recvReaped \in Count
  /\ got \in Count
  /\ posted \in [Rank -> [Rank -> Wr]] /\ done \in [Rank -> [Rank -> Wr]]
  /\ turn \in [Rank -> SUBSET Rank]
  /\ asked = [r \in Rank |-> [p \in Rank |-> Wrs(calls[r], p, 1, Len(calls[r]))]]

\* What is reaped has completed, and what has completed was sent.
BatchOrder ==
  \A r, p \in Rank :
    /\ recvReaped[r][p] <= arrived[r][p] /\ arrived[r][p] <= sendPosted[p][r]
    /\ sendReaped[r][p] <= acked[r][p] /\ acked[r][p] <= arrived[p][r]

\* The WRs of the waves so far.
Sofar(r, p) == Wrs(calls[r], p, 1, pc[r] - 1)

\* A live rank has posted the waves up to pc; between two waves all is reaped,
\* within one what the wave does not still wait for.  The batch reports nothing
\* received before its last wave is done.
RankInv(r) ==
  /\ pc[r] <= Len(calls[r]) + 1
  /\ phase[r] = "loop" => pc[r] > 1
  /\ \A p \in Rank :
       /\ sendPosted[r][p] <= asked[r][p].s
       /\ phase[r] \in {"call", "loop"} => /\ sendPosted[r][p] = Sofar(r, p).s
                                           /\ recvPosted[r][p] = Sofar(r, p).r
       /\ phase[r] = "call" => /\ sendPosted[r][p] <= sendReaped[r][p]
                               /\ recvPosted[r][p] <= recvReaped[r][p]
       /\ phase[r] = "loop" =>
            /\ sendPosted[r][p] + done[r][p].s <= sendReaped[r][p] + posted[r][p].s
            /\ recvPosted[r][p] + done[r][p].r <= recvReaped[r][p] + posted[r][p].r
       /\ phase[r] = "loop" \/ pc[r] \in DOMAIN calls[r] => got[r][p] = 0

BatchInv == BatchTypeOK /\ BatchOrder /\ \A r \in Rank : RankInv(r)

\* The operations of a rank.
LEMMA OpsType ==
  ASSUME BatchTypeOK, NEW r \in Rank
  PROVE  /\ calls[r] \in Seq(Call) /\ Len(calls[r]) \in Nat
         /\ DOMAIN calls[r] = 1 .. Len(calls[r])
         /\ pc[r] \in Nat \ {0} /\ pc[r] - 1 \in Nat /\ pc[r] - 1 <= pc[r] - 1
<1>1. calls[r] \in Seq(Call) /\ pc[r] \in Nat \ {0}
  BY SMT, ProgramsAssumption DEF BatchTypeOK
<1> QED
  BY SMT, <1>1

\* The entries of the tables are numbers.
LEMMA BatchEntry ==
  ASSUME BatchTypeOK, NEW r \in Rank, NEW p \in Rank
  PROVE  /\ sendPosted[r][p] \in Nat /\ recvPosted[r][p] \in Nat
         /\ arrived[r][p] \in Nat /\ acked[r][p] \in Nat
         /\ sendReaped[r][p] \in Nat /\ recvReaped[r][p] \in Nat
         /\ got[r][p] \in Nat
         /\ posted[r][p].s \in Nat /\ posted[r][p].r \in Nat
         /\ done[r][p].s \in Nat /\ done[r][p].r \in Nat
<1>1. posted[r][p] \in Wr /\ done[r][p] \in Wr
  BY DEF BatchTypeOK
<1>2. \A w \in Wr : w.s \in Nat /\ w.r \in Nat
  BY DEF Wr
<1>3. /\ sendPosted[r][p] \in Nat /\ recvPosted[r][p] \in Nat
      /\ arrived[r][p] \in Nat /\ acked[r][p] \in Nat
      /\ sendReaped[r][p] \in Nat /\ recvReaped[r][p] \in Nat
      /\ got[r][p] \in Nat
  BY SMT DEF BatchTypeOK, Count
<1> QED
  BY <1>1, <1>2, <1>3

\* What the whole batch asks for: the waves so far and the rest.
LEMMA SofarType ==
  ASSUME BatchTypeOK, NEW r \in Rank, NEW p \in Rank, pc[r] <= Len(calls[r]) + 1
  PROVE  /\ Sofar(r, p).s \in Nat /\ Sofar(r, p).r \in Nat
         /\ asked[r][p].s \in Nat /\ asked[r][p].r \in Nat
         /\ Sofar(r, p).s <= asked[r][p].s /\ Sofar(r, p).r <= asked[r][p].r
         /\ pc[r] = Len(calls[r]) + 1 => asked[r][p] = Sofar(r, p)
<1>1. /\ calls[r] \in Seq(Call) /\ Len(calls[r]) \in Nat /\ pc[r] \in Nat \ {0}
      /\ asked[r][p] = Wrs(calls[r], p, 1, Len(calls[r]))
  BY OpsType DEF BatchTypeOK
<1>2. pc[r] - 1 <= Len(calls[r]) /\ Len(calls[r]) <= Len(calls[r])
  BY SMT, <1>1
<1>3. /\ Wrs(calls[r], p, pc[r], Len(calls[r])).s \in Nat
      /\ Wrs(calls[r], p, pc[r], Len(calls[r])).r \in Nat
      /\ Wrs(calls[r], p, 1, pc[r] - 1).s \in Nat
      /\ Wrs(calls[r], p, 1, pc[r] - 1).r \in Nat
      /\ Wrs(calls[r], p, 1, Len(calls[r])).s
           = Wrs(calls[r], p, 1, pc[r] - 1).s + Wrs(calls[r], p, pc[r], Len(calls[r])).s
      /\ Wrs(calls[r], p, 1, Len(calls[r])).r
           = Wrs(calls[r], p, 1, pc[r] - 1).r + Wrs(calls[r], p, pc[r], Len(calls[r])).r
  <2>1. PICK ops, k, n : ops = calls[r] /\ k = pc[r] /\ n = Len(calls[r])
    OBVIOUS
  <2>2. ops \in Seq(Call) /\ k \in Nat \ {0} /\ n \in Nat /\ k - 1 <= n /\ n <= Len(ops)
    BY <1>1, <1>2, <2>1
  <2>3. /\ Wrs(ops, p, k, n).s \in Nat /\ Wrs(ops, p, k, n).r \in Nat
        /\ Wrs(ops, p, 1, k - 1).s \in Nat /\ Wrs(ops, p, 1, k - 1).r \in Nat
        /\ Wrs(ops, p, 1, n).s = Wrs(ops, p, 1, k - 1).s + Wrs(ops, p, k, n).s
        /\ Wrs(ops, p, 1, n).r = Wrs(ops, p, 1, k - 1).r + Wrs(ops, p, k, n).r
    <3>1. WrsAddUp(ops, p, k, k - 1, n)
      BY <2>2, WrsAdd
    <3> QED
      BY <3>1 DEF WrsAddUp
  <2> QED
    BY <2>1, <2>3
<1>4. pc[r] = Len(calls[r]) + 1 => pc[r] - 1 = Len(calls[r])
  BY SMT, <1>1
<1>5. pc[r] = Len(calls[r]) + 1 => asked[r][p] = Sofar(r, p)
  BY <1>1, <1>4 DEF Sofar
<1>6. ASSUME NEW a \in Nat, NEW b \in Nat PROVE a + b \in Nat /\ a <= a + b
  BY SMT
<1> QED
  BY <1>1, <1>3, <1>5, <1>6 DEF Sofar

\* The state starts so.
LEMMA BatchInvInit == BatchInit => BatchInv
<1> SUFFICES ASSUME BatchInit PROVE BatchInv
  OBVIOUS
<1>1. [s |-> 0, r |-> 0] \in Wr /\ 0 \in Nat /\ 1 \in Nat \ {0}
  BY SMT DEF Wr
<1>2. /\ calls \in Programs /\ pc = [r \in Rank |-> 1]
      /\ phase = [r \in Rank |-> "call"]
      /\ sendPosted = PerPeer(0) /\ recvPosted = PerPeer(0) /\ arrived = PerPeer(0)
      /\ acked = PerPeer(0) /\ sendReaped = PerPeer(0) /\ recvReaped = PerPeer(0)
      /\ got = PerPeer(0)
      /\ posted = [r \in Rank |-> NoWrs] /\ done = posted
      /\ turn = [r \in Rank |-> {}]
      /\ asked = [r \in Rank |-> [p \in Rank |-> Wrs(calls[r], p, 1, Len(calls[r]))]]
  BY DEF BatchInit, Init
<1>3. PerPeer(0) \in Count
  BY <1>1 DEF PerPeer, Count
<1>4. [r \in Rank |-> NoWrs] \in [Rank -> [Rank -> Wr]]
  BY <1>1 DEF NoWrs
<1>5. BatchTypeOK
  BY <1>1, <1>2, <1>3, <1>4 DEF BatchTypeOK
<1>6. \A r, p \in Rank :
        /\ sendPosted[r][p] = 0 /\ recvPosted[r][p] = 0 /\ arrived[r][p] = 0
        /\ acked[r][p] = 0 /\ sendReaped[r][p] = 0 /\ recvReaped[r][p] = 0
        /\ got[r][p] = 0
  BY <1>2 DEF PerPeer
<1>7. 0 <= 0
  BY SMT
<1>8. BatchOrder
  BY <1>6, <1>7 DEF BatchOrder
<1>9. ASSUME NEW r \in Rank PROVE RankInv(r)
  <2>1. pc[r] = 1 /\ phase[r] = "call" /\ Len(calls[r]) \in Nat
    BY <1>2, <1>5, OpsType
  <2>2. pc[r] <= Len(calls[r]) + 1 /\ pc[r] - 1 = 0
    BY SMT, <2>1
  <2>3. ASSUME NEW p \in Rank
        PROVE  Sofar(r, p).s = 0 /\ Sofar(r, p).r = 0 /\ 0 <= asked[r][p].s
    <3>1. Sofar(r, p).s = 0 /\ Sofar(r, p).r = 0
      BY <2>2, WrsNone DEF Sofar
    <3>2. asked[r][p].s \in Nat
      BY <1>5, <2>2, SofarType
    <3> QED
      BY SMT, <3>1, <3>2
  <2> QED
    BY <1>6, <1>7, <2>1, <2>2, <2>3 DEF RankInv
<1> QED
  BY <1>5, <1>8, <1>9 DEF BatchInv

\* A rank whose part of the state does not change keeps the invariant, ...
LEMMA RankSame ==
  ASSUME NEW q \in Rank, RankInv(q),
         UNCHANGED <<calls, pc[q], phase[q], sendPosted[q], recvPosted[q],
                     sendReaped[q], recvReaped[q], posted[q], done[q], asked[q],
                     got[q]>>
  PROVE  RankInv(q)'
BY DEF RankInv, Sofar

\* ... and so does one that gives up or dies.
LEMMA RankStops ==
  ASSUME NEW q \in Rank, RankInv(q), phase'[q] \in {"failed", "crashed"},
         UNCHANGED <<calls, pc[q], sendPosted[q], asked[q], got[q]>>
  PROVE  RankInv(q)'
BY DEF RankInv

----------------------------------------------------------------------------
(* The kinds of steps.                                                     *)

\* All that the invariant is about but phase, ...
work == <<calls, pc, sendPosted, recvPosted, arrived, acked, sendReaped,
          recvReaped, got, posted, done, asked>>

\* A call fails, or its process dies.
Stops(r) ==
  /\ \E x \in {"failed", "crashed"} : phase' = [phase EXCEPT ![r] = x]
  /\ UNCHANGED <<work, turn>>

\* ... a poll that reaps, ...
Reaps(r, p) ==
  /\ phase[r] = "loop"
  /\ \E w \in Reapable(r, p) :
       /\ sendReaped' = At(sendReaped, r, p, sendReaped[r][p] + w[1])
       /\ recvReaped' = At(recvReaped, r, p, recvReaped[r][p] + w[2])
       /\ done' = At(done, r, p, [s |-> done[r][p].s + w[1],
                                  r |-> done[r][p].r + w[2]])
  /\ turn' = [turn EXCEPT ![r] = @ \ {p}]
  /\ UNCHANGED <<calls, pc, phase, sendPosted, recvPosted, arrived, acked, got,
                 posted, asked>>

\* ... the end of a wave, ...
EndsWave(r) ==
  /\ phase[r] = "loop" /\ Pending(r) = {}
  /\ phase' = [phase EXCEPT ![r] = "call"]
  /\ got' = IF pc[r] \in DOMAIN calls[r] THEN got
            ELSE [got EXCEPT ![r] = [p \in Rank |-> asked[r][p].r]]
  /\ UNCHANGED <<calls, pc, sendPosted, recvPosted, arrived, acked, sendReaped,
                 recvReaped, posted, done, asked, turn>>

\* ... and a step that none of this notices.
Unnoticed == UNCHANGED <<work, phase>> /\ turn' \in [Rank -> SUBSET Rank]

LEMMA BatchSteps ==
  ASSUME BatchTypeOK, [BatchNext]_batchVars
  PROVE  \/ \E r \in Rank : PostWave(r) \/ WavePostFails(r) \/ Stops(r) \/ EndsWave(r)
         \/ \E r, p \in Rank : Reaps(r, p)
         \/ \E p, r \in Rank : Land(p, r) /\ UNCHANGED wave
         \/ \E p, r \in Rank : Ack(p, r) /\ UNCHANGED wave
         \/ Unnoticed
<1>1. turn \in [Rank -> SUBSET Rank]
  BY DEF BatchTypeOK
<1>2. ASSUME NEW r \in Rank, PollWave(r)
      PROVE  Stops(r) \/ \E p \in Rank : Reaps(r, p)
  <2>1. turn[r] # {} /\ turn[r] \subseteq Rank
    BY <1>1, <1>2 DEF PollWave
  <2>2. turn[r] \in SUBSET Nat
    BY <2>1, RankAssumption
  <2>3. PICK p \in Rank : p = Min(turn[r])
    BY <2>1, <2>2, MinIn
  <2>4. CASE /\ Fail(r) /\ UNCHANGED <<sendReaped, recvReaped, wave>>
             /\ UNCHANGED <<nic, flags, sendPosted, recvPosted, got>>
    BY <2>4 DEF Fail, Stops, work, wave, nic
  <2>5. CASE /\ \E w \in Reapable(r, p) :
                  /\ sendReaped' = At(sendReaped, r, p, sendReaped[r][p] + w[1])
                  /\ recvReaped' = At(recvReaped, r, p, recvReaped[r][p] + w[2])
                  /\ done' = At(done, r, p, [s |-> done[r][p].s + w[1],
                                             r |-> done[r][p].r + w[2]])
             /\ turn' = [turn EXCEPT ![r] = @ \ {p}]
             /\ UNCHANGED <<local, credit, posted, asked>>
             /\ UNCHANGED <<nic, flags, sendPosted, recvPosted, got>>
    <3>1. phase[r] = "loop"
      BY <1>2 DEF PollWave
    <3> QED
      BY <2>5, <3>1 DEF Reaps, local, nic
  <2> QED
    BY <1>2, <2>3, <2>4, <2>5 DEF PollWave
<1>3. ASSUME NEW r \in Rank, SweepEnds(r)
      PROVE  Stops(r) \/ EndsWave(r) \/ Unnoticed
  <2>1. UNCHANGED <<arrived, acked, sendPosted, recvPosted, sendReaped,
                    recvReaped, posted, done, asked>> /\ phase[r] = "loop"
    BY <1>3 DEF SweepEnds, nic
  <2>2. CASE Fail(r) /\ UNCHANGED <<got, turn>>
    BY <2>1, <2>2 DEF Fail, Stops, work
  <2>3. CASE turn' = [turn EXCEPT ![r] = Pending(r)] /\ UNCHANGED <<local, credit, got>>
    <3>1. Pending(r) \in SUBSET Rank
      BY DEF Pending
    <3> QED
      BY <1>1, <2>1, <2>3, <3>1 DEF Unnoticed, work, local
  <2>4. CASE /\ WaveDone(r) /\ phase' = [phase EXCEPT ![r] = "call"]
             /\ got' = IF pc[r] \in DOMAIN calls[r] THEN got
                       ELSE [got EXCEPT ![r] = [p \in Rank |-> asked[r][p].r]]
             /\ UNCHANGED <<calls, pc, sendDone, recvDone, recvNeed, credit, turn>>
    BY <2>1, <2>4 DEF EndsWave, WaveDone
  <2> QED
    BY <1>3, <2>2, <2>3, <2>4 DEF SweepEnds
<1>4. ASSUME NEW r \in Rank, WaveExpired(r) PROVE Stops(r)
  BY <1>4 DEF WaveExpired, Fail, Stops, work, wave, nic
<1>5. ASSUME NEW r \in Rank, Crash(r), UNCHANGED wave PROVE Stops(r)
  BY <1>5 DEF Crash, Stops, work, wave, nic
<1>6. ASSUME NEW r \in Rank, NEW p \in Rank,
             Abort(r) \/ AsyncFatal(r) \/ RetryExceeded(r, p), UNCHANGED wave
      PROVE  Unnoticed
  BY <1>1, <1>6 DEF Abort, AsyncFatal, RetryExceeded, Unnoticed, work, wave, local, nic
<1>7. ASSUME UNCHANGED batchVars PROVE Unnoticed
  BY <1>1, <1>7 DEF batchVars, vars, wave, Unnoticed, work, local, nic
<1>8. ASSUME NEW r \in Rank, BatchStep(r)
      PROVE  \/ PostWave(r) \/ WavePostFails(r) \/ Stops(r) \/ EndsWave(r)
             \/ (\E p \in Rank : Reaps(r, p)) \/ Unnoticed
  BY <1>2, <1>3, <1>4, <1>8 DEF BatchStep
<1>9. CASE Surroundings
  <2>1. UNCHANGED wave
    BY <1>9 DEF Surroundings
  <2>2. CASE \E r \in Rank : Crash(r) \/ Abort(r) \/ AsyncFatal(r)
    BY <1>5, <1>6, <2>1, <2>2
  <2>3. CASE \E p, r \in Rank : Land(p, r) \/ Ack(p, r) \/ RetryExceeded(p, r)
    BY <1>6, <2>1, <2>3
  <2> QED
    BY <1>9, <2>2, <2>3 DEF Surroundings
<1> QED
  BY <1>7, <1>8, <1>9 DEF BatchNext

----------------------------------------------------------------------------
(* Posting.                                                                *)

\* g is f with the numbers w added in the row of r.
CountedAt(f, g, r, w) ==
  /\ g \in Count
  /\ \A p \in Rank : g[r][p] = f[r][p] + w[p]
  /\ \A q \in Rank \ {r} : g[q] = f[q]

\* What Counted does to the row of r.
LEMMA CountedApply ==
  ASSUME NEW f \in Count, NEW r \in Rank, NEW w \in [Rank -> Nat]
  PROVE  CountedAt(f, Counted(f, r, w), r, w)
<1>1. PICK g : g = [p \in Rank |-> f[r][p] + w[p]]
  OBVIOUS
<1>2. \A p \in Rank : f[r][p] \in Nat /\ w[p] \in Nat
  BY DEF Count
<1>3. g \in [Rank -> Nat]
  BY SMT, <1>1, <1>2
<1>4. Counted(f, r, w) = [f EXCEPT ![r] = g]
  BY <1>1 DEF Counted
<1>5. f = [q \in Rank |-> f[q]]
  BY DEF Count
<1>6. Counted(f, r, w) \in Count
  BY <1>3, <1>4 DEF Count
<1>7. Counted(f, r, w)[r] = g /\ \A q \in Rank \ {r} : Counted(f, r, w)[q] = f[q]
  BY <1>4, <1>5
<1> QED
  BY <1>1, <1>6, <1>7 DEF CountedAt

\* r has posted the WRs wrs, those of its operations up to j.
HasPosted(r, j, wrs) ==
  /\ wrs \in [Rank -> Wr]
  /\ sendPosted' \in Count /\ recvPosted' \in Count
  /\ \A q \in Rank \ {r} : /\ sendPosted'[q] = sendPosted[q]
                           /\ recvPosted'[q] = recvPosted[q]
  /\ \A p \in Rank :
       /\ wrs[p].s \in Nat /\ wrs[p].r \in Nat
       /\ sendPosted'[r][p] = sendPosted[r][p] + wrs[p].s
       /\ recvPosted'[r][p] = recvPosted[r][p] + wrs[p].r
       /\ sendPosted'[r][p] = Wrs(calls[r], p, 1, j).s
       /\ recvPosted'[r][p] = Wrs(calls[r], p, 1, j).r
       /\ sendPosted'[r][p] <= asked[r][p].s
       /\ sendPosted[r][p] <= sendPosted'[r][p]

\* Posting what operations pc .. j have.
LEMMA PostsUpto ==
  ASSUME BatchTypeOK, NEW r \in Rank, RankInv(r), phase[r] = "call",
         NEW j \in Nat, pc[r] - 1 <= j, j <= Len(calls[r]),
         NEW wrs, wrs = [p \in Rank |-> Wrs(calls[r], p, pc[r], j)],
         PostWrs(r, wrs)
  PROVE  HasPosted(r, j, wrs)
<1>1. calls[r] \in Seq(Call) /\ Len(calls[r]) \in Nat /\ pc[r] \in Nat \ {0}
  BY OpsType
<1>2. ASSUME NEW p \in Rank
      PROVE  /\ wrs[p] \in Wr /\ wrs[p].s \in Nat /\ wrs[p].r \in Nat
             /\ Wrs(calls[r], p, 1, j).s = sendPosted[r][p] + wrs[p].s
             /\ Wrs(calls[r], p, 1, j).r = recvPosted[r][p] + wrs[p].r
  <2>1. wrs[p] = Wrs(calls[r], p, pc[r], j)
    OBVIOUS
  <2>2. /\ sendPosted[r][p] = Wrs(calls[r], p, 1, pc[r] - 1).s
        /\ recvPosted[r][p] = Wrs(calls[r], p, 1, pc[r] - 1).r
    BY DEF RankInv, Sofar
  <2>3. WrsAddUp(calls[r], p, pc[r], pc[r] - 1, j)
    BY <1>1, WrsAdd
  <2> QED
    BY <2>1, <2>2, <2>3 DEF WrsAddUp
<1>3. wrs \in [Rank -> Wr]
  BY <1>2
<1>4. PICK ws, wr : ws = [p \in Rank |-> wrs[p].s] /\ wr = [p \in Rank |-> wrs[p].r]
  OBVIOUS
<1>5. ws \in [Rank -> Nat] /\ wr \in [Rank -> Nat]
  BY <1>2, <1>4
<1>6. sendPosted' = Counted(sendPosted, r, ws) /\ recvPosted' = Counted(recvPosted, r, wr)
  BY <1>4 DEF PostWrs
<1>7. sendPosted \in Count /\ recvPosted \in Count
  BY DEF BatchTypeOK
<1>8. /\ sendPosted' \in Count
      /\ \A p \in Rank : sendPosted'[r][p] = sendPosted[r][p] + ws[p]
      /\ \A q \in Rank \ {r} : sendPosted'[q] = sendPosted[q]
  <2>1. CountedAt(sendPosted, Counted(sendPosted, r, ws), r, ws)
    BY <1>5, <1>7, CountedApply
  <2> QED
    BY <1>6, <2>1 DEF CountedAt
<1>9. /\ recvPosted' \in Count
      /\ \A p \in Rank : recvPosted'[r][p] = recvPosted[r][p] + wr[p]
      /\ \A q \in Rank \ {r} : recvPosted'[q] = recvPosted[q]
  <2>1. CountedAt(recvPosted, Counted(recvPosted, r, wr), r, wr)
    BY <1>5, <1>7, CountedApply
  <2> QED
    BY <1>6, <2>1 DEF CountedAt
<1>10. ASSUME NEW p \in Rank
       PROVE  /\ sendPosted'[r][p] <= asked[r][p].s
              /\ sendPosted[r][p] <= sendPosted'[r][p]
  <2>1. ws[p] = wrs[p].s /\ sendPosted'[r][p] = sendPosted[r][p] + ws[p]
    BY <1>4, <1>8
  <2>2. sendPosted'[r][p] = Wrs(calls[r], p, 1, j).s
    BY <1>2, <2>1
  <2>3. asked[r][p] = Wrs(calls[r], p, 1, Len(calls[r]))
    BY DEF BatchTypeOK
  <2>4. PICK i \in Nat \ {0} : i = j + 1
    BY SMT
  <2>5. i - 1 = j /\ i - 1 <= Len(calls[r]) /\ Len(calls[r]) <= Len(calls[r])
    BY SMT, <1>1, <2>4
  <2>6. /\ Wrs(calls[r], p, 1, j).s \in Nat /\ Wrs(calls[r], p, i, Len(calls[r])).s \in Nat
        /\ asked[r][p].s = Wrs(calls[r], p, 1, j).s + Wrs(calls[r], p, i, Len(calls[r])).s
    <3>1. j = i - 1 /\ Len(calls[r]) <= Len(calls[r])
      BY <2>5
    <3>2. WrsAddUp(calls[r], p, i, j, Len(calls[r]))
      BY <1>1, <3>1, WrsAdd
    <3> QED
      BY <2>3, <3>2 DEF WrsAddUp
  <2>7. sendPosted[r][p] \in Nat /\ wrs[p].s \in Nat
    BY <1>2, BatchEntry
  <2>8. ASSUME NEW a \in Nat, NEW b \in Nat PROVE a <= a + b
    BY SMT
  <2> QED
    BY <2>1, <2>2, <2>6, <2>7, <2>8
<1> QED
  BY <1>2, <1>3, <1>4, <1>8, <1>9, <1>10 DEF HasPosted

\* The operations of the wave that is posted.
LEMMA PostWaveEffect ==
  ASSUME BatchTypeOK, NEW r \in Rank, PostWave(r)
  PROVE  \E j, wrs :
           /\ j \in Nat /\ pc[r] - 1 <= j /\ j <= Len(calls[r]) /\ pc[r] <= j
           /\ wrs = [p \in Rank |-> Wrs(calls[r], p, pc[r], j)]
           /\ PostWrs(r, wrs)
           /\ posted' = [posted EXCEPT ![r] = wrs]
           /\ done' = [done EXCEPT ![r] = NoWrs]
           /\ turn' = [turn EXCEPT ![r] = {p \in Rank : wrs[p] # NoWrs[p]}]
           /\ pc' = [pc EXCEPT ![r] = j + 1]
<1>1. /\ calls[r] \in Seq(Call) /\ Len(calls[r]) \in Nat /\ pc[r] \in Nat \ {0}
      /\ DOMAIN calls[r] = 1 .. Len(calls[r])
  BY OpsType
<1>2. pc[r] \in DOMAIN calls[r]
  BY DEF PostWave
<1>3. pc[r] <= Len(calls[r])
  BY SMT, <1>1, <1>2
<1>4. PICK end : end = waveEnd(calls[r], pc[r])
  OBVIOUS
<1>5. end \in pc[r] + 1 .. Len(calls[r]) + 1
  BY <1>1, <1>3, <1>4, WaveEnds
<1>6. PICK j : j = end - 1
  OBVIOUS
<1>7. j \in Nat /\ pc[r] - 1 <= j /\ j <= Len(calls[r]) /\ pc[r] <= j /\ end = j + 1
  BY SMT, <1>1, <1>5, <1>6
<1>8. PICK wrs : wrs = [p \in Rank |-> Wrs(calls[r], p, pc[r], j)]
  OBVIOUS
<1>9. /\ PostWrs(r, wrs)
      /\ posted' = [posted EXCEPT ![r] = wrs]
      /\ done' = [done EXCEPT ![r] = NoWrs]
      /\ turn' = [turn EXCEPT ![r] = {p \in Rank : wrs[p] # NoWrs[p]}]
      /\ pc' = [pc EXCEPT ![r] = end]
  BY <1>4, <1>6, <1>8 DEF PostWave
<1> QED
  BY <1>7, <1>8, <1>9

\* Posting more keeps the order of the counters.
LEMMA OrderPosts ==
  ASSUME BatchTypeOK, BatchOrder, NEW r \in Rank, sendPosted' \in Count,
         \A q \in Rank \ {r} : sendPosted'[q] = sendPosted[q],
         \A p \in Rank : sendPosted[r][p] <= sendPosted'[r][p],
         UNCHANGED <<arrived, acked, sendReaped, recvReaped>>
  PROVE  BatchOrder'
<1> SUFFICES ASSUME NEW q \in Rank, NEW x \in Rank
             PROVE  arrived[q][x] <= sendPosted'[x][q]
  BY DEF BatchOrder
<1>1. arrived[q][x] <= sendPosted[x][q]
  BY DEF BatchOrder
<1>2. CASE x = r
  <2>1. arrived[q][r] \in Nat /\ sendPosted[r][q] \in Nat /\ sendPosted'[r][q] \in Nat
    BY BatchEntry DEF Count
  <2>2. arrived[q][r] <= sendPosted[r][q] /\ sendPosted[r][q] <= sendPosted'[r][q]
    BY <1>1, <1>2
  <2>3. arrived[q][r] <= sendPosted'[r][q]
    BY SMT, <2>1, <2>2
  <2> QED
    BY <1>2, <2>3
<1>3. CASE x # r
  BY <1>1, <1>3
<1> QED
  BY <1>2, <1>3

\* A wave is posted.
LEMMA PostWaveInv ==
  ASSUME BatchInv, NEW r \in Rank, PostWave(r)
  PROVE  BatchInv'
<1>0. BatchTypeOK /\ BatchOrder /\ RankInv(r) /\ phase[r] = "call"
      /\ pc[r] \in DOMAIN calls[r]
  BY DEF BatchInv, PostWave
<1>1. PICK j, wrs :
           /\ j \in Nat /\ pc[r] - 1 <= j /\ j <= Len(calls[r]) /\ pc[r] <= j
           /\ wrs = [p \in Rank |-> Wrs(calls[r], p, pc[r], j)]
           /\ PostWrs(r, wrs)
           /\ posted' = [posted EXCEPT ![r] = wrs]
           /\ done' = [done EXCEPT ![r] = NoWrs]
           /\ turn' = [turn EXCEPT ![r] = {p \in Rank : wrs[p] # NoWrs[p]}]
           /\ pc' = [pc EXCEPT ![r] = j + 1]
  BY <1>0, PostWaveEffect
<1>2. /\ wrs \in [Rank -> Wr]
      /\ sendPosted' \in Count /\ recvPosted' \in Count
      /\ \A q \in Rank \ {r} : /\ sendPosted'[q] = sendPosted[q]
                               /\ recvPosted'[q] = recvPosted[q]
      /\ \A p \in Rank :
           /\ wrs[p].s \in Nat /\ wrs[p].r \in Nat
           /\ sendPosted'[r][p] = sendPosted[r][p] + wrs[p].s
           /\ recvPosted'[r][p] = recvPosted[r][p] + wrs[p].r
           /\ sendPosted'[r][p] = Wrs(calls[r], p, 1, j).s
           /\ recvPosted'[r][p] = Wrs(calls[r], p, 1, j).r
           /\ sendPosted'[r][p] <= asked[r][p].s
           /\ sendPosted[r][p] <= sendPosted'[r][p]
  <2>1. HasPosted(r, j, wrs)
    BY <1>0, <1>1, PostsUpto
  <2> QED
    BY <2>1 DEF HasPosted
<1>3. /\ phase' = [phase EXCEPT ![r] = "loop"]
      /\ UNCHANGED <<calls, arrived, acked, sendReaped, recvReaped, got, asked>>
  BY DEF PostWave, nic
<1>4. j + 1 \in Nat \ {0} /\ j + 1 - 1 = j /\ j + 1 > 1 /\ j + 1 <= Len(calls[r]) + 1
  <2>1. Len(calls[r]) \in Nat /\ pc[r] \in Nat \ {0}
    BY <1>0, OpsType
  <2> QED
    BY SMT, <1>1, <2>1
<1>5. [s |-> 0, r |-> 0] \in Wr /\ NoWrs \in [Rank -> Wr]
      /\ \A p \in Rank : NoWrs[p].s = 0 /\ NoWrs[p].r = 0
  <2>1. [s |-> 0, r |-> 0] \in Wr /\ [s |-> 0, r |-> 0].s = 0 /\ [s |-> 0, r |-> 0].r = 0
    BY SMT DEF Wr
  <2> QED
    BY <2>1 DEF NoWrs
<1>6. /\ pc \in [Rank -> Nat \ {0}]
      /\ phase \in [Rank -> {"call", "loop", "failed", "crashed"}]
      /\ posted \in [Rank -> [Rank -> Wr]] /\ done \in [Rank -> [Rank -> Wr]]
      /\ turn \in [Rank -> SUBSET Rank]
  BY <1>0 DEF BatchTypeOK
<1>7. /\ pc' \in [Rank -> Nat \ {0}]
      /\ phase' \in [Rank -> {"call", "loop", "failed", "crashed"}]
      /\ posted' \in [Rank -> [Rank -> Wr]] /\ done' \in [Rank -> [Rank -> Wr]]
      /\ turn' \in [Rank -> SUBSET Rank]
  BY <1>1, <1>2, <1>3, <1>4, <1>5, <1>6
<1>8. BatchTypeOK'
  <2>1. asked' = [q \in Rank |-> [p \in Rank |-> Wrs(calls'[q], p, 1, Len(calls'[q]))]]
    BY <1>0, <1>3 DEF BatchTypeOK
  <2> QED
    BY <1>0, <1>2, <1>3, <1>7, <2>1 DEF BatchTypeOK
<1>9. BatchOrder'
  BY <1>0, <1>2, <1>3, OrderPosts
<1>10. RankInv(r)'
  <2>1. /\ pc'[r] = j + 1 /\ phase'[r] = "loop" /\ posted'[r] = wrs /\ done'[r] = NoWrs
        /\ calls' = calls /\ asked' = asked
    <3>1. pc'[r] = j + 1
      BY <1>1, <1>6
    <3>2. posted'[r] = wrs
      BY <1>1, <1>6
    <3>3. done'[r] = NoWrs
      BY <1>1, <1>6
    <3> QED
      BY <1>3, <1>6, <3>1, <3>2, <3>3
  <2>2. pc'[r] <= Len(calls'[r]) + 1 /\ pc'[r] > 1 /\ pc'[r] - 1 = j
    <3>1. Len(calls'[r]) = Len(calls[r])
      BY <2>1
    <3>2. pc'[r] > 1
      BY <1>4, <2>1
    <3>3. pc'[r] - 1 = j
      <4>1. PICK c : c = j + 1
        OBVIOUS
      <4>2. j \in Nat
        BY <1>1
      <4>3. c - 1 = j
        BY SMT, <4>1, <4>2
      <4> QED
        BY <2>1, <4>1, <4>3
    <3>4. pc'[r] <= Len(calls[r]) + 1
      BY <1>4, <2>1
    <3> QED
      BY <3>1, <3>2, <3>3, <3>4
  <2>3. ASSUME NEW p \in Rank
        PROVE  /\ sendPosted'[r][p] + done'[r][p].s <= sendReaped[r][p] + posted'[r][p].s
               /\ recvPosted'[r][p] + done'[r][p].r <= recvReaped[r][p] + posted'[r][p].r
    <3>1. /\ sendPosted[r][p] \in Nat /\ sendReaped[r][p] \in Nat
          /\ recvPosted[r][p] \in Nat /\ recvReaped[r][p] \in Nat
      BY <1>0, BatchEntry
    <3>2. /\ sendPosted[r][p] <= sendReaped[r][p]
          /\ recvPosted[r][p] <= recvReaped[r][p]
      BY <1>0 DEF RankInv
    <3>3. ASSUME NEW a \in Nat, NEW b \in Nat, NEW c \in Nat, a <= b
          PROVE  a + c + 0 <= b + c
      BY SMT, <3>3
    <3>4. /\ sendPosted[r][p] + wrs[p].s + 0 <= sendReaped[r][p] + wrs[p].s
          /\ recvPosted[r][p] + wrs[p].r + 0 <= recvReaped[r][p] + wrs[p].r
      BY <1>2, <3>1, <3>2, <3>3
    <3> QED
      BY <1>2, <1>5, <2>1, <3>4
  <2>4. \A p \in Rank : Sofar(r, p)' = Wrs(calls[r], p, 1, j)
    BY <2>1, <2>2 DEF Sofar
  <2>5. \A p \in Rank : got'[r][p] = 0
    BY <1>0, <1>3 DEF RankInv
  <2>6. sendReaped' = sendReaped /\ recvReaped' = recvReaped
    BY <1>3
  <2> QED
    BY <1>2, <2>1, <2>2, <2>3, <2>4, <2>5, <2>6 DEF RankInv
<1>11. ASSUME NEW q \in Rank, q # r PROVE RankInv(q)'
  <2>1. RankInv(q)
    BY DEF BatchInv
  <2>2. UNCHANGED <<calls, pc[q], phase[q], sendPosted[q], recvPosted[q],
                    sendReaped[q], recvReaped[q], posted[q], done[q], asked[q],
                    got[q]>>
    BY <1>1, <1>2, <1>3, <1>6, <1>11
  <2> QED
    BY <2>1, <2>2, RankSame
<1> QED
  BY <1>8, <1>9, <1>10, <1>11 DEF BatchInv

\* Posting fails behind some of the operations.
LEMMA PostFailsEffect ==
  ASSUME BatchInv, NEW r \in Rank, WavePostFails(r)
  PROVE  /\ sendPosted' \in Count /\ recvPosted' \in Count
         /\ \A q \in Rank \ {r} : /\ sendPosted'[q] = sendPosted[q]
                                  /\ recvPosted'[q] = recvPosted[q]
         /\ \A p \in Rank : /\ sendPosted'[r][p] <= asked[r][p].s
                            /\ sendPosted[r][p] <= sendPosted'[r][p]
         /\ phase[r] = "call" /\ pc[r] \in DOMAIN calls[r]
         /\ phase' = [phase EXCEPT ![r] = "failed"]
         /\ UNCHANGED <<calls, pc, arrived, acked, sendReaped, recvReaped, got,
                        posted, done, turn, asked>>
<1>0. BatchTypeOK /\ RankInv(r) /\ phase[r] = "call" /\ pc[r] \in DOMAIN calls[r]
  BY DEF BatchInv, WavePostFails
<1>1. /\ calls[r] \in Seq(Call) /\ Len(calls[r]) \in Nat /\ pc[r] \in Nat \ {0}
      /\ DOMAIN calls[r] = 1 .. Len(calls[r])
  BY <1>0, OpsType
<1>2. pc[r] <= Len(calls[r])
  BY SMT, <1>0, <1>1
<1>3. PICK end : end = waveEnd(calls[r], pc[r])
  OBVIOUS
<1>4. end \in pc[r] + 1 .. Len(calls[r]) + 1
  BY <1>1, <1>2, <1>3, WaveEnds
<1>5. PICK j \in pc[r] - 1 .. end - 2 :
        PostWrs(r, [p \in Rank |-> Wrs(calls[r], p, pc[r], j)])
  BY <1>3 DEF WavePostFails
<1>6. j \in Nat /\ pc[r] - 1 <= j /\ j <= Len(calls[r])
  BY SMT, <1>1, <1>4, <1>5
<1>7. PICK wrs : wrs = [p \in Rank |-> Wrs(calls[r], p, pc[r], j)]
  OBVIOUS
<1>8. /\ sendPosted' \in Count /\ recvPosted' \in Count
      /\ \A q \in Rank \ {r} : /\ sendPosted'[q] = sendPosted[q]
                               /\ recvPosted'[q] = recvPosted[q]
      /\ \A p \in Rank : /\ sendPosted'[r][p] <= asked[r][p].s
                         /\ sendPosted[r][p] <= sendPosted'[r][p]
  <2>1. HasPosted(r, j, wrs)
    BY <1>0, <1>5, <1>6, <1>7, PostsUpto
  <2> QED
    BY <2>1 DEF HasPosted
<1>9. /\ phase' = [phase EXCEPT ![r] = "failed"]
      /\ UNCHANGED <<calls, pc, arrived, acked, sendReaped, recvReaped, got,
                     posted, done, turn, asked>>
  BY DEF WavePostFails, Fail, nic, wave
<1> QED
  BY <1>0, <1>8, <1>9

\* What was posted before the failure stays posted.
LEMMA WavePostFailsInv ==
  ASSUME BatchInv, NEW r \in Rank, WavePostFails(r)
  PROVE  BatchInv'
<1>0. BatchTypeOK /\ BatchOrder /\ RankInv(r)
  BY DEF BatchInv
<1>1. /\ sendPosted' \in Count /\ recvPosted' \in Count
      /\ \A q \in Rank \ {r} : /\ sendPosted'[q] = sendPosted[q]
                               /\ recvPosted'[q] = recvPosted[q]
      /\ \A p \in Rank : /\ sendPosted'[r][p] <= asked[r][p].s
                         /\ sendPosted[r][p] <= sendPosted'[r][p]
      /\ phase' = [phase EXCEPT ![r] = "failed"]
      /\ UNCHANGED <<calls, pc, arrived, acked, sendReaped, recvReaped, got,
                     posted, done, turn, asked>>
  BY PostFailsEffect
<1>2. phase \in [Rank -> {"call", "loop", "failed", "crashed"}]
  BY <1>0 DEF BatchTypeOK
<1>3. phase' \in [Rank -> {"call", "loop", "failed", "crashed"}]
  BY <1>1, <1>2
<1>4. BatchTypeOK'
  BY <1>0, <1>1, <1>3 DEF BatchTypeOK
<1>5. BatchOrder'
  BY <1>0, <1>1, OrderPosts
<1>6. RankInv(r)'
  <2>1. phase'[r] = "failed"
    BY <1>1, <1>2
  <2> QED
    BY <1>0, <1>1, <2>1 DEF RankInv
<1>7. ASSUME NEW q \in Rank, q # r PROVE RankInv(q)'
  <2>1. RankInv(q)
    BY DEF BatchInv
  <2>2. UNCHANGED <<calls, pc[q], phase[q], sendPosted[q], recvPosted[q],
                    sendReaped[q], recvReaped[q], posted[q], done[q], asked[q],
                    got[q]>>
    BY <1>1, <1>2, <1>7
  <2> QED
    BY <2>1, <2>2, RankSame
<1> QED
  BY <1>4, <1>5, <1>6, <1>7 DEF BatchInv

\* A rank gives up or dies.
LEMMA StopsInv ==
  ASSUME BatchInv, NEW r \in Rank, Stops(r)
  PROVE  BatchInv'
<1>0. BatchTypeOK /\ BatchOrder
  BY DEF BatchInv
<1>1. PICK x \in {"failed", "crashed"} : phase' = [phase EXCEPT ![r] = x]
  BY DEF Stops
<1>2. UNCHANGED <<calls, pc, sendPosted, recvPosted, arrived, acked, sendReaped,
                  recvReaped, got, posted, done, asked, turn>>
  BY DEF Stops, work
<1>3. phase \in [Rank -> {"call", "loop", "failed", "crashed"}]
  BY <1>0 DEF BatchTypeOK
<1>4. phase' \in [Rank -> {"call", "loop", "failed", "crashed"}]
  BY <1>1, <1>3
<1>5. BatchTypeOK'
  BY <1>0, <1>2, <1>4 DEF BatchTypeOK
<1>6. BatchOrder'
  BY <1>0, <1>2 DEF BatchOrder
<1>7. ASSUME NEW q \in Rank PROVE RankInv(q)'
  <2>1. RankInv(q)
    BY DEF BatchInv
  <2>2. phase'[q] = phase[q] \/ phase'[q] \in {"failed", "crashed"}
    BY <1>1, <1>3
  <2> QED
    BY <1>2, <2>1, <2>2, RankSame, RankStops
<1> QED
  BY <1>5, <1>6, <1>7 DEF BatchInv

\* Nothing the invariant is about changes.
LEMMA UnnoticedInv ==
  ASSUME BatchInv, Unnoticed
  PROVE  BatchInv'
<1>1. UNCHANGED <<calls, pc, phase, sendPosted, recvPosted, arrived, acked,
                  sendReaped, recvReaped, got, posted, done, asked>>
      /\ turn' \in [Rank -> SUBSET Rank]
  BY DEF Unnoticed, work
<1>2. BatchTypeOK'
  BY <1>1 DEF BatchInv, BatchTypeOK
<1>3. BatchOrder'
  BY <1>1 DEF BatchInv, BatchOrder
<1>4. \A q \in Rank : RankInv(q)'
  BY <1>1, RankSame DEF BatchInv
<1> QED
  BY <1>2, <1>3, <1>4 DEF BatchInv

\* A message lands, or is acknowledged.
LEMMA NicInv ==
  ASSUME BatchInv, NEW p \in Rank, NEW r \in Rank, Land(p, r) \/ Ack(p, r),
         UNCHANGED wave
  PROVE  BatchInv'
<1>0. /\ BatchTypeOK /\ BatchOrder /\ arrived \in Count /\ acked \in Count
  BY DEF BatchInv, BatchTypeOK
<1>1. UNCHANGED <<calls, pc, phase, sendPosted, recvPosted, sendReaped,
                  recvReaped, got, posted, done, asked, turn>>
  BY DEF Land, Ack, local, wave
<1>2. \A q \in Rank : RankInv(q)'
  BY <1>1, RankSame DEF BatchInv
<1>3. CASE Land(p, r)
  <2>1. /\ arrived' = At(arrived, r, p, arrived[r][p] + 1) /\ UNCHANGED acked
        /\ arrived[r][p] < sendPosted[p][r]
    BY <1>3 DEF Land
  <2>2. arrived[r][p] + 1 \in Nat /\ arrived[r][p] \in Nat /\ sendPosted[p][r] \in Nat
    BY SMT, <1>0, BatchEntry
  <2>3. arrived' \in Count
    BY <1>0, <2>1, <2>2 DEF At, Count
  <2>4. BatchTypeOK'
    BY <1>0, <1>1, <2>1, <2>3 DEF BatchTypeOK
  <2>5. ASSUME NEW q \in Rank, NEW x \in Rank
        PROVE  /\ arrived[q][x] <= arrived'[q][x]
               /\ arrived'[q][x] <= sendPosted[x][q]
               /\ arrived'[q][x] \in Nat
    <3>1. arrived[q][x] \in Nat /\ arrived[q][x] <= sendPosted[x][q]
      BY <1>0, BatchEntry DEF BatchOrder
    <3>2. CASE q = r /\ x = p
      <4>1. arrived'[r][p] = arrived[r][p] + 1
        BY <1>0, <2>1 DEF At, Count
      <4>2. /\ arrived[r][p] <= arrived[r][p] + 1
            /\ arrived[r][p] + 1 <= sendPosted[p][r]
        BY SMT, <2>1, <2>2
      <4> QED
        BY <2>2, <3>2, <4>1, <4>2
    <3>3. CASE ~(q = r /\ x = p)
      <4>1. arrived'[q][x] = arrived[q][x]
        BY <1>0, <2>1, <3>3 DEF At, Count
      <4>2. arrived[q][x] <= arrived[q][x]
        BY SMT, <3>1
      <4> QED
        BY <3>1, <4>1, <4>2
    <3> QED
      BY <3>2, <3>3
  <2>6. ASSUME NEW q \in Rank, NEW x \in Rank
        PROVE  recvReaped[q][x] <= arrived'[q][x] /\ acked[x][q] <= arrived'[q][x]
    <3>1. /\ recvReaped[q][x] \in Nat /\ acked[x][q] \in Nat /\ arrived[q][x] \in Nat
          /\ arrived'[q][x] \in Nat /\ arrived[q][x] <= arrived'[q][x]
          /\ recvReaped[q][x] <= arrived[q][x] /\ acked[x][q] <= arrived[q][x]
      BY <1>0, <2>5, BatchEntry DEF BatchOrder
    <3> QED
      BY SMT, <3>1
  <2>7. BatchOrder'
    BY <1>0, <1>1, <2>1, <2>5, <2>6 DEF BatchOrder
  <2> QED
    BY <1>2, <2>4, <2>7 DEF BatchInv
<1>4. CASE Ack(p, r)
  <2>1. /\ acked' = At(acked, p, r, acked[p][r] + 1) /\ UNCHANGED arrived
        /\ acked[p][r] < arrived[r][p]
    BY <1>4 DEF Ack
  <2>2. acked[p][r] + 1 \in Nat /\ acked[p][r] \in Nat /\ arrived[r][p] \in Nat
    BY SMT, <1>0, BatchEntry
  <2>3. acked' \in Count
    BY <1>0, <2>1, <2>2 DEF At, Count
  <2>4. BatchTypeOK'
    BY <1>0, <1>1, <2>1, <2>3 DEF BatchTypeOK
  <2>5. ASSUME NEW q \in Rank, NEW x \in Rank
        PROVE  sendReaped[q][x] <= acked'[q][x] /\ acked'[q][x] <= arrived[x][q]
    <3>1. CASE q = p /\ x = r
      <4>1. acked'[p][r] = acked[p][r] + 1
        BY <1>0, <2>1 DEF At, Count
      <4>2. sendReaped[p][r] <= acked[p][r] /\ sendReaped[p][r] \in Nat
        BY <1>0, BatchEntry DEF BatchOrder
      <4>3. /\ sendReaped[p][r] <= acked[p][r] + 1
            /\ acked[p][r] + 1 <= arrived[r][p]
        BY SMT, <2>1, <2>2, <4>2
      <4> QED
        BY <3>1, <4>1, <4>3
    <3>2. CASE ~(q = p /\ x = r)
      <4>1. acked'[q][x] = acked[q][x]
        BY <1>0, <2>1, <3>2 DEF At, Count
      <4> QED
        BY <1>0, <4>1 DEF BatchOrder
    <3> QED
      BY <3>1, <3>2
  <2>6. BatchOrder'
    BY <1>0, <1>1, <2>1, <2>5 DEF BatchOrder
  <2> QED
    BY <1>2, <2>4, <2>6 DEF BatchInv
<1> QED
  BY <1>3, <1>4

\* What a poll reaps is in the queue.
LEMMA ReapableType ==
  ASSUME BatchTypeOK, NEW r \in Rank, NEW p \in Rank, NEW w \in Reapable(r, p)
  PROVE  /\ w[1] \in Nat /\ sendReaped[r][p] + w[1] <= acked[r][p]
         /\ w[2] \in Nat /\ recvReaped[r][p] + w[2] <= arrived[r][p]
<1>1. /\ sendReaped[r][p] \in Nat /\ acked[r][p] \in Nat
      /\ recvReaped[r][p] \in Nat /\ arrived[r][p] \in Nat
  BY BatchEntry
<1>2. w[1] \in 0 .. CqSend(r, p) /\ w[2] \in 0 .. CqRecv(r, p)
  BY DEF Reapable
<1>3. PICK a, b : a = w[1] /\ b = w[2]
  OBVIOUS
<1>4. a \in 0 .. acked[r][p] - sendReaped[r][p] /\ b \in 0 .. arrived[r][p] - recvReaped[r][p]
  BY <1>2, <1>3 DEF CqSend, CqRecv
<1>5. /\ a \in Nat /\ sendReaped[r][p] + a <= acked[r][p]
      /\ b \in Nat /\ recvReaped[r][p] + b <= arrived[r][p]
  BY SMT, <1>1, <1>4
<1> QED
  BY <1>3, <1>5

\* A poll reaps.
LEMMA ReapsInv ==
  ASSUME BatchInv, NEW r \in Rank, NEW p \in Rank, Reaps(r, p)
  PROVE  BatchInv'
<1>0. /\ BatchTypeOK /\ BatchOrder /\ RankInv(r) /\ phase[r] = "loop"
      /\ sendReaped \in Count /\ recvReaped \in Count
      /\ done \in [Rank -> [Rank -> Wr]] /\ turn \in [Rank -> SUBSET Rank]
  BY DEF BatchInv, BatchTypeOK, Reaps
<1>1. PICK w \in Reapable(r, p) :
        /\ sendReaped' = At(sendReaped, r, p, sendReaped[r][p] + w[1])
        /\ recvReaped' = At(recvReaped, r, p, recvReaped[r][p] + w[2])
        /\ done' = At(done, r, p, [s |-> done[r][p].s + w[1],
                                   r |-> done[r][p].r + w[2]])
  BY DEF Reaps
<1>2. PICK a, b : a = w[1] /\ b = w[2]
  OBVIOUS
<1>3. /\ a \in Nat /\ sendReaped[r][p] + a <= acked[r][p]
      /\ b \in Nat /\ recvReaped[r][p] + b <= arrived[r][p]
  BY <1>0, <1>2, ReapableType
<1>4. /\ sendReaped[r][p] \in Nat /\ recvReaped[r][p] \in Nat
      /\ done[r][p].s \in Nat /\ done[r][p].r \in Nat
      /\ posted[r][p].s \in Nat /\ posted[r][p].r \in Nat
      /\ sendPosted[r][p] \in Nat /\ recvPosted[r][p] \in Nat
  BY <1>0, BatchEntry
<1>5. PICK e, f, d, c : /\ e = sendReaped[r][p] + a /\ f = recvReaped[r][p] + b
                        /\ d = done[r][p].s + a /\ c = done[r][p].r + b
  OBVIOUS
<1>6. e \in Nat /\ f \in Nat /\ d \in Nat /\ c \in Nat
  BY SMT, <1>3, <1>4, <1>5
<1>7. PICK g : g = [s |-> d, r |-> c]
  OBVIOUS
<1>8. g \in Wr /\ g.s = d /\ g.r = c
  BY SMT, <1>6, <1>7 DEF Wr
<1>9. /\ sendReaped' = At(sendReaped, r, p, e) /\ recvReaped' = At(recvReaped, r, p, f)
      /\ done' = At(done, r, p, g)
  BY <1>1, <1>2, <1>5, <1>7
<1>10. /\ sendReaped' \in Count /\ recvReaped' \in Count
       /\ done' \in [Rank -> [Rank -> Wr]]
  BY <1>0, <1>6, <1>8, <1>9 DEF At, Count
<1>11. /\ turn' = [turn EXCEPT ![r] = @ \ {p}]
       /\ UNCHANGED <<calls, pc, phase, sendPosted, recvPosted, arrived, acked, got,
                      posted, asked>>
  BY DEF Reaps
<1>12. turn' \in [Rank -> SUBSET Rank]
  BY <1>0, <1>11
<1>13. BatchTypeOK'
  <2>1. asked' = [q \in Rank |-> [x \in Rank |-> Wrs(calls'[q], x, 1, Len(calls'[q]))]]
    BY <1>0, <1>11 DEF BatchTypeOK
  <2> QED
    BY <1>0, <1>10, <1>11, <1>12, <2>1 DEF BatchTypeOK
<1>14. /\ sendReaped'[r][p] = e /\ recvReaped'[r][p] = f /\ done'[r][p] = g
       /\ \A q, x \in Rank : ~(q = r /\ x = p) =>
            /\ sendReaped'[q][x] = sendReaped[q][x]
            /\ recvReaped'[q][x] = recvReaped[q][x]
            /\ done'[q][x] = done[q][x]
       /\ \A q \in Rank \ {r} : /\ sendReaped'[q] = sendReaped[q]
                                /\ recvReaped'[q] = recvReaped[q]
                                /\ done'[q] = done[q]
  BY <1>0, <1>9 DEF At, Count
<1>15. ASSUME NEW q \in Rank, NEW x \in Rank
       PROVE  sendReaped'[q][x] <= acked[q][x] /\ recvReaped'[q][x] <= arrived[q][x]
  <2>1. CASE q = r /\ x = p
    BY <1>3, <1>5, <1>14, <2>1
  <2>2. CASE ~(q = r /\ x = p)
    BY <1>0, <1>14, <2>2 DEF BatchOrder
  <2> QED
    BY <2>1, <2>2
<1>16. BatchOrder'
  BY <1>0, <1>11, <1>15 DEF BatchOrder
<1>17. RankInv(r)'
  <2>1. ASSUME NEW x \in Rank
        PROVE  /\ sendPosted[r][x] + done'[r][x].s <= sendReaped'[r][x] + posted[r][x].s
               /\ recvPosted[r][x] + done'[r][x].r <= recvReaped'[r][x] + posted[r][x].r
    <3>1. /\ sendPosted[r][x] + done[r][x].s <= sendReaped[r][x] + posted[r][x].s
          /\ recvPosted[r][x] + done[r][x].r <= recvReaped[r][x] + posted[r][x].r
      BY <1>0 DEF RankInv
    <3>2. CASE x = p
      <4>1. /\ sendPosted[r][p] + d <= e + posted[r][p].s
            /\ recvPosted[r][p] + c <= f + posted[r][p].r
        <5>1. ASSUME NEW i \in Nat, NEW j \in Nat, NEW k \in Nat, NEW l \in Nat,
                     NEW m \in Nat, i + j <= k + l
              PROVE  i + (j + m) <= (k + m) + l
          BY SMT, <5>1
        <5> QED
          BY <1>3, <1>4, <1>5, <3>1, <3>2, <5>1
      <4> QED
        BY <1>8, <1>14, <3>2, <4>1
    <3>3. CASE x # p
      BY <1>14, <3>1, <3>3
    <3> QED
      BY <3>2, <3>3
  <2> QED
    BY <1>0, <1>11, <2>1 DEF RankInv, Sofar
<1>18. ASSUME NEW q \in Rank, q # r PROVE RankInv(q)'
  BY <1>11, <1>14, <1>18, RankSame DEF BatchInv
<1> QED
  BY <1>13, <1>16, <1>17, <1>18 DEF BatchInv

\* A wave that waits for nothing has all its WRs reaped.
LEMMA NothingPending ==
  ASSUME BatchInv, NEW r \in Rank, phase[r] = "loop", Pending(r) = {},
         NEW p \in Rank
  PROVE  /\ sendPosted[r][p] <= sendReaped[r][p]
         /\ recvPosted[r][p] <= recvReaped[r][p]
<1>1. /\ sendPosted[r][p] \in Nat /\ recvPosted[r][p] \in Nat
      /\ sendReaped[r][p] \in Nat /\ recvReaped[r][p] \in Nat
      /\ posted[r][p].s \in Nat /\ posted[r][p].r \in Nat
      /\ done[r][p].s \in Nat /\ done[r][p].r \in Nat
  BY BatchEntry DEF BatchInv
<1>2. /\ sendPosted[r][p] + done[r][p].s <= sendReaped[r][p] + posted[r][p].s
      /\ recvPosted[r][p] + done[r][p].r <= recvReaped[r][p] + posted[r][p].r
  BY DEF BatchInv, RankInv
<1>3. ~(done[r][p].s < posted[r][p].s) /\ ~(done[r][p].r < posted[r][p].r)
  BY DEF Pending
<1> QED
  BY SMT, <1>1, <1>2, <1>3

\* A wave ends.
LEMMA EndsWaveInv ==
  ASSUME BatchInv, NEW r \in Rank, EndsWave(r)
  PROVE  BatchInv'
<1>0. /\ BatchTypeOK /\ BatchOrder /\ RankInv(r) /\ phase[r] = "loop" /\ got \in Count
      /\ phase \in [Rank -> {"call", "loop", "failed", "crashed"}]
  BY DEF BatchInv, BatchTypeOK, EndsWave
<1>1. /\ phase' = [phase EXCEPT ![r] = "call"] /\ Pending(r) = {}
      /\ UNCHANGED <<calls, pc, sendPosted, recvPosted, arrived, acked, sendReaped,
                     recvReaped, posted, done, asked, turn>>
  BY DEF EndsWave
<1>2. phase' \in [Rank -> {"call", "loop", "failed", "crashed"}] /\ phase'[r] = "call"
      /\ \A q \in Rank \ {r} : phase'[q] = phase[q]
  BY <1>0, <1>1
<1>3. PICK g : g = [p \in Rank |-> asked[r][p].r]
  OBVIOUS
<1>4. g \in [Rank -> Nat]
  <2>1. \A p \in Rank : asked[r][p].r \in Nat
    BY <1>0, SofarType DEF RankInv
  <2> QED
    BY <1>3, <2>1
<1>5. got' = IF pc[r] \in DOMAIN calls[r] THEN got ELSE [got EXCEPT ![r] = g]
  BY <1>3 DEF EndsWave
<1>6. /\ got' \in Count /\ \A q \in Rank \ {r} : got'[q] = got[q]
      /\ pc[r] \in DOMAIN calls[r] => got'[r] = got[r]
  BY <1>0, <1>4, <1>5 DEF Count
<1>7. BatchTypeOK'
  BY <1>0, <1>1, <1>2, <1>6 DEF BatchTypeOK
<1>8. BatchOrder'
  BY <1>0, <1>1 DEF BatchOrder
<1>9. RankInv(r)'
  <2>1. \A p \in Rank : /\ sendPosted[r][p] <= sendReaped[r][p]
                        /\ recvPosted[r][p] <= recvReaped[r][p]
    BY <1>0, <1>1, NothingPending
  <2> QED
    BY <1>0, <1>1, <1>2, <1>6, <2>1 DEF RankInv, Sofar
<1>10. ASSUME NEW q \in Rank, q # r PROVE RankInv(q)'
  BY <1>1, <1>2, <1>6, <1>10, RankSame DEF BatchInv
<1> QED
  BY <1>7, <1>8, <1>9, <1>10 DEF BatchInv

\* Every step keeps the invariant.
LEMMA BatchInvStep == BatchInv /\ [BatchNext]_batchVars => BatchInv'
<1> SUFFICES ASSUME BatchInv, [BatchNext]_batchVars PROVE BatchInv'
  OBVIOUS
<1>1. BatchTypeOK
  BY DEF BatchInv
<1> QED
  BY <1>1, BatchSteps, PostWaveInv, WavePostFailsInv, StopsInv, UnnoticedInv,
     NicInv, ReapsInv, EndsWaveInv

----------------------------------------------------------------------------
(* What a step shows of a rank.                                            *)

\* Nothing, when the step is of another rank.
LEMMA ShowsSame ==
  ASSUME NEW q \in Rank,
         UNCHANGED <<calls, pc[q], phase[q], asked[q], sendPosted[q]>>
  PROVE  UNCHANGED <<state[q], handed[q], due[q]>>
<1>1. UNCHANGED <<Busy(q), Started(q)>>
  BY DEF Busy, Waiting, Started, Finished
<1> QED
  BY <1>1 DEF state, handed, due

\* A rank in a batch is due all the batch asks for, ...
LEMMA ShowsBusy ==
  ASSUME NEW q \in Rank,
         \/ phase[q] = "loop"
         \/ phase[q] = "call" /\ pc[q] > 1 /\ pc[q] \in DOMAIN calls[q]
  PROVE  state[q] = "busy" /\ due[q] = [p \in Rank |-> asked[q][p].r]
<1>1. Busy(q) /\ phase[q] \notin {"failed", "crashed"}
  BY DEF Busy, Waiting, Started, Finished
<1> QED
  BY <1>1 DEF state, due

\* ... and has handed over all of it from the first wave on.
LEMMA ShowsHanded ==
  ASSUME NEW q \in Rank
  PROVE  /\ pc[q] > 1 => handed[q] = [p \in Rank |-> asked[q][p].s]
         /\ ~(pc[q] > 1) => handed[q] = [p \in Rank |-> sendPosted[q][p]]
BY DEF handed, Started

\* Before and after the batch, and when it has failed, it is due nothing.
LEMMA ShowsIdle ==
  ASSUME NEW q \in Rank, phase[q] = "call",
         ~(pc[q] > 1) \/ pc[q] \notin DOMAIN calls[q]
  PROVE  state[q] = "idle" /\ due[q] = T!Nothing
<1>1. ~Busy(q) /\ phase[q] \notin {"failed", "crashed"}
  BY DEF Busy, Waiting, Started, Finished
<1> QED
  BY <1>1 DEF state, due, T!Nothing

LEMMA ShowsFailed ==
  ASSUME NEW q \in Rank, phase[q] \in {"failed", "crashed"}
  PROVE  state[q] = "failed" /\ due[q] = T!Nothing
<1>1. ~Busy(q)
  BY DEF Busy, Waiting
<1> QED
  BY <1>1 DEF state, due, T!Nothing

\* What is handed over and what is due are numbers of WRs, and what has arrived
\* was handed over.
ShownOK == /\ handed \in T!Table /\ due \in T!Table
           /\ \A p, r \in Rank : moved[p][r] <= handed[p][r]

LEMMA ShownType == BatchInv => ShownOK
<1> SUFFICES ASSUME BatchInv PROVE ShownOK
  OBVIOUS
<1>1. ASSUME NEW r \in Rank, NEW p \in Rank
      PROVE  /\ asked[r][p].s \in Nat /\ asked[r][p].r \in Nat
             /\ sendPosted[r][p] \in Nat /\ arrived[p][r] \in Nat
             /\ arrived[p][r] <= sendPosted[r][p] /\ sendPosted[r][p] <= asked[r][p].s
  BY SofarType, BatchEntry DEF BatchInv, RankInv, BatchOrder
<1>2. 0 \in Nat
  BY SMT
<1>3. due \in T!Table
  BY <1>1, <1>2 DEF due, T!Table
<1>4. handed \in T!Table
  BY <1>1 DEF handed, T!Table
<1>5. ASSUME NEW p \in Rank, NEW r \in Rank PROVE moved[p][r] <= handed[p][r]
  <2>1. arrived[r][p] <= asked[p][r].s
    <3>1. /\ asked[p][r].s \in Nat /\ sendPosted[p][r] \in Nat /\ arrived[r][p] \in Nat
          /\ arrived[r][p] <= sendPosted[p][r] /\ sendPosted[p][r] <= asked[p][r].s
      BY <1>1
    <3> QED
      BY SMT, <3>1
  <2>2. handed[p][r] = asked[p][r].s \/ handed[p][r] = sendPosted[p][r]
    BY DEF handed
  <2>3. moved[p][r] = arrived[r][p]
    BY DEF moved
  <2> QED
    BY <1>1, <2>1, <2>2, <2>3
<1> QED
  BY <1>3, <1>4, <1>5 DEF ShownOK

\* When all ranks show the same nothing is to be seen.
LEMMA Unseen ==
  ASSUME \A q \in Rank : UNCHANGED <<state[q], handed[q], due[q]>>,
         UNCHANGED <<arrived, got>>
  PROVE  UNCHANGED T!vars
<1>1. UNCHANGED state
  BY DEF state
<1>2. UNCHANGED handed
  BY DEF handed
<1>3. UNCHANGED due
  BY DEF due
<1>4. UNCHANGED moved
  BY DEF moved
<1> QED
  BY <1>1, <1>2, <1>3, <1>4 DEF T!vars

\* A step that changes what one rank shows.
LEMMA OnlyShown ==
  ASSUME NEW r \in Rank, NEW s, NEW d,
         \A q \in Rank \ {r} : UNCHANGED <<state[q], due[q]>>,
         state'[r] = s, due'[r] = d
  PROVE  state' = [state EXCEPT ![r] = s] /\ due' = [due EXCEPT ![r] = d]
<1>1. /\ state = [q \in Rank |-> state[q]] /\ state' = [q \in Rank |-> state'[q]]
  BY DEF state
<1>2. /\ due = [q \in Rank |-> due[q]] /\ due' = [q \in Rank |-> due'[q]]
  BY DEF due
<1>3. state' = [state EXCEPT ![r] = s]
  BY <1>1
<1>4. due' = [due EXCEPT ![r] = d]
  BY <1>2
<1> QED
  BY <1>3, <1>4

\* What r hands over grows.
LEMMA HandedGrows ==
  ASSUME BatchInv, BatchInv', NEW r \in Rank,
         \A q \in Rank \ {r} : UNCHANGED handed[q],
         \A p \in Rank : handed[r][p] <= handed'[r][p]
  PROVE  T!GrowsAt(handed, handed', r)
<1>1. (BatchInv => ShownOK)'
  BY ShownType, PTL
<1>2. handed' \in T!Table
  <2>1. ShownOK'
    BY <1>1
  <2> QED
    BY <2>1 DEF ShownOK, T!Table
<1> QED
  BY <1>2 DEF T!GrowsAt

----------------------------------------------------------------------------
(* The steps.                                                              *)

\* The first wave is the call, the later ones show nothing.
LEMMA PostWaveRefined ==
  ASSUME BatchInv, BatchInv', NEW r \in Rank, PostWave(r)
  PROVE  T!Call(r) \/ UNCHANGED T!vars
<1>0. /\ BatchTypeOK /\ RankInv(r) /\ phase[r] = "call" /\ pc[r] \in DOMAIN calls[r]
      /\ pc \in [Rank -> Nat \ {0}]
      /\ phase \in [Rank -> {"call", "loop", "failed", "crashed"}]
  BY DEF BatchInv, BatchTypeOK, PostWave
<1>1. PICK j, wrs :
           /\ j \in Nat /\ pc[r] - 1 <= j /\ j <= Len(calls[r]) /\ pc[r] <= j
           /\ wrs = [p \in Rank |-> Wrs(calls[r], p, pc[r], j)]
           /\ PostWrs(r, wrs)
           /\ pc' = [pc EXCEPT ![r] = j + 1]
  BY <1>0, PostWaveEffect
<1>2. \A q \in Rank \ {r} : sendPosted'[q] = sendPosted[q]
  BY <1>0, <1>1, PostsUpto DEF HasPosted
<1>3. /\ phase' = [phase EXCEPT ![r] = "loop"]
      /\ UNCHANGED <<calls, arrived, got, asked>>
  BY DEF PostWave, nic
<1>4. phase'[r] = "loop" /\ pc'[r] = j + 1
      /\ \A q \in Rank \ {r} : pc'[q] = pc[q] /\ phase'[q] = phase[q]
  BY <1>0, <1>1, <1>3
<1>5. pc'[r] > 1
  <2>1. pc[r] \in Nat \ {0}
    BY <1>0
  <2>2. j + 1 > 1
    BY SMT, <1>1, <2>1
  <2> QED
    BY <1>4, <2>2
<1>6. \A q \in Rank \ {r} : UNCHANGED <<state[q], handed[q], due[q]>>
  BY <1>2, <1>3, <1>4, ShowsSame
<1>7. /\ state'[r] = "busy" /\ due'[r] = [p \in Rank |-> asked[r][p].r]
      /\ handed'[r] = [p \in Rank |-> asked[r][p].s]
  <2>1. Busy(r)' /\ Started(r)'
    BY <1>4, <1>5 DEF Busy, Waiting, Started
  <2> QED
    BY <1>3, <1>4, <2>1 DEF state, due, handed
<1>8. CASE pc[r] > 1
  <2>1. UNCHANGED <<state[r], handed[r], due[r]>>
    BY <1>0, <1>7, <1>8, ShowsBusy, ShowsHanded
  <2>2. \A q \in Rank : UNCHANGED <<state[q], handed[q], due[q]>>
    BY <1>6, <2>1
  <2> QED
    BY <1>3, <2>2, Unseen
<1>9. CASE ~(pc[r] > 1)
  <2>1. state[r] = "idle" /\ due[r] = T!Nothing
    BY <1>0, <1>9, ShowsIdle
  <2>2. state' = [state EXCEPT ![r] = "busy"]
    BY <1>6, <1>7, OnlyShown
  <2>3. \A p \in Rank : handed[r][p] <= handed'[r][p]
    <3>1. handed[r] = [p \in Rank |-> sendPosted[r][p]]
      BY <1>9, ShowsHanded
    <3>2. \A p \in Rank : sendPosted[r][p] <= asked[r][p].s
      BY <1>0 DEF RankInv
    <3> QED
      BY <1>7, <3>1, <3>2
  <2>4. T!GrowsAt(handed, handed', r)
    BY <1>6, <2>3, HandedGrows
  <2>5. T!GrowsAt(due, due', r)
    <3>1. (BatchInv => ShownOK)'
      BY ShownType, PTL
    <3>2. due' \in T!Table
      <4>1. ShownOK'
        BY <3>1
      <4> QED
        BY <4>1 DEF ShownOK, T!Table
    <3>3. ASSUME NEW p \in Rank PROVE due[r][p] <= due'[r][p]
      <4>1. due[r][p] = 0 /\ due'[r][p] \in Nat
        BY <2>1, <3>2 DEF T!Nothing, T!Table
      <4> QED
        BY SMT, <4>1
    <3> QED
      BY <1>6, <3>2, <3>3 DEF T!GrowsAt
  <2>6. UNCHANGED moved
    BY <1>3 DEF moved
  <2> QED
    BY <1>3, <2>1, <2>2, <2>4, <2>5, <2>6 DEF T!Call
<1> QED
  BY <1>8, <1>9

\* A post that fails, another error return and a crash are failures; of a rank
\* that had failed they show nothing.
LEMMA FailRefined ==
  ASSUME BatchInv, BatchInv', NEW r \in Rank,
         phase'[r] \in {"failed", "crashed"},
         \A q \in Rank \ {r} : phase'[q] = phase[q] /\ sendPosted'[q] = sendPosted[q],
         \A p \in Rank : sendPosted[r][p] <= sendPosted'[r][p],
         phase[r] \in {"failed", "crashed"} => UNCHANGED sendPosted,
         UNCHANGED <<calls, pc, arrived, got, asked>>
  PROVE  T!Fail(r) \/ UNCHANGED T!vars
<1>0. BatchTypeOK /\ RankInv(r)
      /\ phase \in [Rank -> {"call", "loop", "failed", "crashed"}]
  BY DEF BatchInv, BatchTypeOK
<1>1. \A q \in Rank \ {r} : UNCHANGED <<state[q], handed[q], due[q]>>
  BY ShowsSame
<1>2. state'[r] = "failed" /\ due'[r] = T!Nothing
  <2>1. ~Busy(r)'
    BY DEF Busy, Waiting
  <2> QED
    BY <2>1 DEF state, due, T!Nothing
<1>3. CASE phase[r] \in {"failed", "crashed"}
  <2>1. UNCHANGED <<state[r], due[r]>>
    BY <1>2, <1>3, ShowsFailed
  <2>2. UNCHANGED handed[r]
    BY <1>3 DEF handed, Started
  <2>3. \A q \in Rank : UNCHANGED <<state[q], handed[q], due[q]>>
    BY <1>1, <2>1, <2>2
  <2> QED
    BY <2>3, Unseen
<1>4. CASE phase[r] \notin {"failed", "crashed"}
  <2>1. state[r] # "failed"
    BY <1>4 DEF state
  <2>2. /\ state' = [state EXCEPT ![r] = "failed"]
        /\ due' = [due EXCEPT ![r] = T!Nothing]
    BY <1>1, <1>2, OnlyShown
  <2>3. ASSUME NEW p \in Rank PROVE handed[r][p] <= handed'[r][p]
    <3>1. CASE Started(r)
      <4>1. handed[r][p] = asked[r][p].s /\ handed'[r][p] = asked[r][p].s
        BY <3>1 DEF handed, Started
      <4>2. asked[r][p].s \in Nat
        BY <1>0, SofarType DEF RankInv
      <4>3. asked[r][p].s <= asked[r][p].s
        BY SMT, <4>2
      <4> QED
        BY <4>1, <4>3
    <3>2. CASE ~Started(r)
      <4>1. handed[r][p] = sendPosted[r][p] /\ handed'[r][p] = sendPosted'[r][p]
        BY <3>2 DEF handed, Started
      <4> QED
        BY <4>1
    <3> QED
      BY <3>1, <3>2
  <2>4. T!GrowsAt(handed, handed', r)
    BY <1>1, <2>3, HandedGrows
  <2>5. UNCHANGED moved
    BY DEF moved
  <2> QED
    BY <2>1, <2>2, <2>4, <2>5 DEF T!Fail
<1> QED
  BY <1>3, <1>4

\* The end of the last wave is a successful return, that of another shows
\* nothing.
LEMMA EndsWaveRefined ==
  ASSUME BatchInv, BatchInv', NEW r \in Rank, EndsWave(r)
  PROVE  T!Return(r) \/ UNCHANGED T!vars
<1>0. /\ BatchTypeOK /\ RankInv(r) /\ BatchOrder /\ got \in Count
      /\ phase \in [Rank -> {"call", "loop", "failed", "crashed"}]
  BY DEF BatchInv, BatchTypeOK
<1>1. /\ phase[r] = "loop" /\ Pending(r) = {}
      /\ phase' = [phase EXCEPT ![r] = "call"]
      /\ UNCHANGED <<calls, pc, sendPosted, arrived, asked>>
  BY DEF EndsWave
<1>2. phase'[r] = "call" /\ \A q \in Rank \ {r} : phase'[q] = phase[q]
  BY <1>0, <1>1
<1>3. \A q \in Rank \ {r} : UNCHANGED <<state[q], handed[q], due[q]>>
  BY <1>1, <1>2, ShowsSame
<1>4. state[r] = "busy" /\ due[r] = [p \in Rank |-> asked[r][p].r] /\ pc[r] > 1
  BY <1>0, <1>1, ShowsBusy DEF RankInv
<1>5. UNCHANGED handed
  BY <1>1 DEF handed, Started
<1>6. UNCHANGED moved
  BY <1>1 DEF moved
<1>7. CASE pc[r] \in DOMAIN calls[r]
  <2>1. UNCHANGED got
    BY <1>7 DEF EndsWave
  <2>2. state'[r] = "busy" /\ due'[r] = [p \in Rank |-> asked[r][p].r]
    <3>1. Busy(r)'
      BY <1>1, <1>2, <1>4, <1>7 DEF Busy, Started, Finished
    <3> QED
      BY <1>1, <1>2, <3>1 DEF state, due
  <2>3. \A q \in Rank : UNCHANGED <<state[q], handed[q], due[q]>>
    BY <1>3, <1>4, <1>5, <2>2
  <2> QED
    BY <1>1, <2>1, <2>3, Unseen
<1>8. CASE pc[r] \notin DOMAIN calls[r]
  <2>1. pc[r] = Len(calls[r]) + 1
    <3>1. /\ pc[r] \in Nat \ {0} /\ Len(calls[r]) \in Nat
          /\ DOMAIN calls[r] = 1 .. Len(calls[r])
      BY <1>0, OpsType
    <3>2. pc[r] <= Len(calls[r]) + 1
      BY <1>0 DEF RankInv
    <3> QED
      BY SMT, <1>8, <3>1, <3>2
  <2>2. state'[r] = "idle" /\ due'[r] = T!Nothing
    <3>1. ~Busy(r)'
      BY <1>1, <1>2, <1>8 DEF Busy, Waiting, Finished
    <3> QED
      BY <1>2, <3>1 DEF state, due, T!Nothing
  <2>3. /\ state' = [state EXCEPT ![r] = "idle"]
        /\ due' = [due EXCEPT ![r] = T!Nothing]
    BY <1>3, <2>2, OnlyShown
  <2>4. ASSUME NEW p \in Rank
        PROVE  /\ moved[r][p] = handed[r][p]
               /\ got[r][p] + due[r][p] <= moved[p][r]
               /\ got[r][p] + due[r][p] = asked[r][p].r
    <3>1. /\ asked[r][p].s = sendPosted[r][p] /\ asked[r][p].r = recvPosted[r][p]
          /\ got[r][p] = 0 /\ pc[r] <= Len(calls[r]) + 1
      <4>1. /\ sendPosted[r][p] = Sofar(r, p).s /\ recvPosted[r][p] = Sofar(r, p).r
            /\ got[r][p] = 0 /\ pc[r] <= Len(calls[r]) + 1
        BY <1>0, <1>1 DEF RankInv
      <4> QED
        BY <1>0, <2>1, <4>1, SofarType
    <3>2. sendPosted[r][p] <= sendReaped[r][p] /\ recvPosted[r][p] <= recvReaped[r][p]
      BY <1>1, NothingPending
    <3>3. /\ recvReaped[r][p] <= arrived[r][p] /\ sendReaped[r][p] <= acked[r][p]
          /\ acked[r][p] <= arrived[p][r] /\ arrived[p][r] <= sendPosted[r][p]
      BY <1>0 DEF BatchOrder
    <3>4. /\ sendPosted[r][p] \in Nat /\ sendReaped[r][p] \in Nat /\ acked[r][p] \in Nat
          /\ arrived[p][r] \in Nat /\ recvPosted[r][p] \in Nat
          /\ recvReaped[r][p] \in Nat /\ arrived[r][p] \in Nat
      BY <1>0, BatchEntry
    <3>5. /\ arrived[p][r] = sendPosted[r][p]
          /\ 0 + recvPosted[r][p] <= arrived[r][p] /\ 0 + recvPosted[r][p] = recvPosted[r][p]
      BY SMT, <3>2, <3>3, <3>4
    <3>6. /\ moved[r][p] = arrived[p][r] /\ moved[p][r] = arrived[r][p]
          /\ handed[r][p] = asked[r][p].s /\ due[r][p] = asked[r][p].r
      BY <1>4 DEF moved, handed, Started
    <3> QED
      BY <3>1, <3>5, <3>6
  <2>5. got' = [got EXCEPT ![r] = [p \in Rank |-> got[r][p] + due[r][p]]]
    <3>1. [p \in Rank |-> got[r][p] + due[r][p]] = [p \in Rank |-> asked[r][p].r]
      BY <2>4
    <3>2. got' = [got EXCEPT ![r] = [p \in Rank |-> asked[r][p].r]]
      BY <1>8 DEF EndsWave
    <3> QED
      BY <3>1, <3>2
  <2> QED
    BY <1>4, <1>5, <1>6, <2>3, <2>4, <2>5 DEF T!Return
<1> QED
  BY <1>7, <1>8

\* Land moves data.
LEMMA MoveRefined ==
  ASSUME BatchInv, BatchInv', NEW p \in Rank, NEW r \in Rank, Land(p, r),
         UNCHANGED wave
  PROVE  T!Move(p)
<1>1. /\ UNCHANGED <<calls, pc, phase, sendPosted, got, asked>>
      /\ arrived' = At(arrived, r, p, arrived[r][p] + 1)
  BY DEF Land, local, wave
<1>2. arrived \in Count /\ arrived' \in Count
  BY DEF BatchInv, BatchTypeOK, Count
<1>3. UNCHANGED <<state, handed, due>>
  BY <1>1 DEF state, handed, due, Busy, Waiting, Started, Finished
<1>4. ASSUME NEW q \in Rank, NEW x \in Rank
      PROVE  /\ arrived[q][x] <= arrived'[q][x]
             /\ x # p => arrived'[q][x] = arrived[q][x]
  <2>1. arrived[q][x] \in Nat
    BY <1>2 DEF Count
  <2>2. arrived'[q][x] = arrived[q][x] + 1 \/ arrived'[q][x] = arrived[q][x]
    BY <1>1, <1>2 DEF At, Count
  <2>3. arrived[q][x] <= arrived'[q][x]
    BY SMT, <2>1, <2>2
  <2>4. x # p => arrived'[q][x] = arrived[q][x]
    BY <1>1, <1>2 DEF At, Count
  <2> QED
    BY <2>3, <2>4
<1>5. T!GrowsAt(moved, moved', p)
  <2>1. moved' \in T!Table
    BY <1>2 DEF moved, T!Table, Count
  <2>2. \A q \in Rank \ {p} : moved'[q] = moved[q]
    BY <1>4 DEF moved
  <2>3. \A x \in Rank : moved[p][x] <= moved'[p][x]
    BY <1>4 DEF moved
  <2> QED
    BY <2>1, <2>2, <2>3 DEF T!GrowsAt
<1>6. \A x \in Rank : moved'[p][x] <= handed[p][x]
  <2>1. (BatchInv => ShownOK)'
    BY ShownType, PTL
  <2>2. ShownOK'
    BY <2>1
  <2>3. \A x \in Rank : moved'[p][x] <= handed'[p][x]
    BY <2>2 DEF ShownOK
  <2> QED
    BY <1>3, <2>3
<1> QED
  BY <1>1, <1>3, <1>5, <1>6 DEF T!Move

\* Every step is a step of the contract or shows nothing of it.
LEMMA BatchStepRefined ==
  ASSUME BatchInv, BatchInv', [BatchNext]_batchVars
  PROVE  [T!Next]_(T!vars)
<1>0. BatchTypeOK /\ phase \in [Rank -> {"call", "loop", "failed", "crashed"}]
  BY DEF BatchInv, BatchTypeOK
<1>1. ASSUME NEW r \in Rank, T!Call(r) \/ T!Move(r) \/ T!Return(r) \/ T!Fail(r)
      PROVE  T!Next
  BY <1>1 DEF T!Next
<1>2. ASSUME NEW r \in Rank, PostWave(r) PROVE [T!Next]_(T!vars)
  BY <1>1, <1>2, PostWaveRefined
<1>3. ASSUME NEW r \in Rank, WavePostFails(r) PROVE [T!Next]_(T!vars)
  <2>1. /\ \A q \in Rank \ {r} : sendPosted'[q] = sendPosted[q]
        /\ \A p \in Rank : sendPosted[r][p] <= sendPosted'[r][p]
        /\ phase[r] = "call" /\ phase' = [phase EXCEPT ![r] = "failed"]
        /\ UNCHANGED <<calls, pc, arrived, got, asked>>
    BY <1>3, PostFailsEffect
  <2>2. phase'[r] = "failed" /\ \A q \in Rank \ {r} : phase'[q] = phase[q]
    BY <1>0, <2>1
  <2> QED
    BY <1>1, <2>1, <2>2, FailRefined
<1>4. ASSUME NEW r \in Rank, Stops(r) PROVE [T!Next]_(T!vars)
  <2>1. UNCHANGED <<calls, pc, sendPosted, arrived, got, asked>>
    BY <1>4 DEF Stops, work
  <2>2. /\ phase'[r] \in {"failed", "crashed"}
        /\ \A q \in Rank \ {r} : phase'[q] = phase[q]
    BY <1>0, <1>4 DEF Stops
  <2>3. ASSUME NEW p \in Rank PROVE sendPosted[r][p] <= sendPosted'[r][p]
    <3>1. sendPosted[r][p] \in Nat
      BY <1>0, BatchEntry
    <3>2. sendPosted[r][p] <= sendPosted[r][p]
      BY SMT, <3>1
    <3> QED
      BY <2>1, <3>2
  <2> QED
    BY <1>1, <2>1, <2>2, <2>3, FailRefined
<1>5. ASSUME NEW r \in Rank, EndsWave(r) PROVE [T!Next]_(T!vars)
  BY <1>1, <1>5, EndsWaveRefined
<1>6. ASSUME NEW p \in Rank, NEW r \in Rank, Land(p, r), UNCHANGED wave
      PROVE  T!Next
  BY <1>1, <1>6, MoveRefined
<1>7. ASSUME UNCHANGED <<calls, pc, phase, asked, sendPosted, arrived, got>>
      PROVE  UNCHANGED T!vars
  <2>1. \A q \in Rank : UNCHANGED <<state[q], handed[q], due[q]>>
    BY <1>7, ShowsSame
  <2> QED
    BY <1>7, <2>1, Unseen
<1>8. ASSUME NEW r \in Rank, NEW p \in Rank, Reaps(r, p) PROVE UNCHANGED T!vars
  BY <1>7, <1>8 DEF Reaps
<1>9. ASSUME NEW p \in Rank, NEW r \in Rank, Ack(p, r), UNCHANGED wave
      PROVE  UNCHANGED T!vars
  BY <1>7, <1>9 DEF Ack, local, wave
<1>10. ASSUME Unnoticed PROVE UNCHANGED T!vars
  BY <1>7, <1>10 DEF Unnoticed, work
<1> QED
  BY <1>0, <1>2, <1>3, <1>4, <1>5, <1>6, <1>8, <1>9, <1>10, BatchSteps

\* VerbsTransport::batch keeps the contract of transport.h: it returns success
\* only with all its sends out of their buffers and all its receives filled,
\* however the queue depth cuts the batch into waves, in whatever order the
\* completions are found, and whatever fails.
THEOREM BatchImplementsTransport == BatchSpec => ImplementsTransport
<1>1. BatchInit => T!Init
  <2> SUFFICES ASSUME BatchInit PROVE T!Init
    OBVIOUS
  <2>1. /\ pc = [r \in Rank |-> 1] /\ phase = [r \in Rank |-> "call"]
        /\ sendPosted = PerPeer(0) /\ arrived = PerPeer(0) /\ got = PerPeer(0)
    BY DEF BatchInit, Init
  <2>2. ~(1 > 1)
    BY SMT
  <2>3. \A r \in Rank : pc[r] = 1 /\ phase[r] = "call"
    BY <2>1
  <2>4. \A r \in Rank : state[r] = "idle" /\ due[r] = T!Nothing
    BY <2>2, <2>3, ShowsIdle
  <2>5. state = [r \in Rank |-> "idle"]
    BY <2>4 DEF state
  <2>6. due = [r \in Rank |-> T!Nothing]
    BY <2>4 DEF due
  <2>7. handed = [r \in Rank |-> T!Nothing]
    <3>1. \A r \in Rank : ~Started(r)
      BY <2>2, <2>3 DEF Started
    <3> QED
      BY <2>1, <3>1 DEF handed, PerPeer, T!Nothing
  <2>8. moved = [r \in Rank |-> T!Nothing] /\ got = [r \in Rank |-> T!Nothing]
    BY <2>1 DEF moved, PerPeer, T!Nothing
  <2> QED
    BY <2>5, <2>6, <2>7, <2>8 DEF T!Init
<1>2. BatchInv /\ BatchInv' /\ [BatchNext]_batchVars => [T!Next]_(T!vars)
  BY BatchStepRefined
<1> QED
  BY <1>1, <1>2, BatchInvInit, BatchInvStep, PTL
     DEF BatchSpec, ImplementsTransport, T!Spec

============================================================================
