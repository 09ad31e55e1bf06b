---------------------------- MODULE FilterProofs ----------------------------
(***************************************************************************)
(* Induction over the numbers, and what Filter keeps of a sequence: proved *)
(* once, for the modules that filter lists.                                *)
(***************************************************************************)
EXTENDS Filters, WellFoundedInduction, TLAPS

----------------------------------------------------------------------------
(* Induction, with a set in place of a predicate.                          *)

LEMMA Least ==
  ASSUME NEW T \in SUBSET Nat, T # {}
  PROVE  \E x \in T : \A y \in T : x <= y
<1>1. \E x \in T : \A y \in T : ~ (<<y, x>> \in OpToRel(<,Nat))
  BY NatLessThanWellFounded, WFMin
<1>2. PICK x \in T : \A y \in T : ~ (<<y, x>> \in OpToRel(<,Nat))
  BY <1>1
<1>3. \A y \in T : <<y, x>> \in OpToRel(<,Nat) <=> y < x
  BY DEF OpToRel
<1>4. \A y \in T : ~ (y < x)
  BY <1>2, <1>3
<1> QED BY <1>4

LEMMA Induct ==
  ASSUME NEW A, 0 \in A, \A n \in Nat : n \in A => n + 1 \in A
  PROVE  Nat \subseteq A
<1> SUFFICES ASSUME Nat \ A # {} PROVE FALSE
  OBVIOUS
<1>1. PICK x \in Nat \ A : \A y \in Nat \ A : x <= y
  BY Least
<1>2. x # 0 BY <1>1
<1>3. x - 1 \in Nat /\ x - 1 + 1 = x BY <1>2
<1>4. x - 1 \in A BY <1>1, <1>3
<1> QED BY <1>3, <1>4

\* F[i] is the filtered prefix of length i of s.
Scans(F, s, A, n) ==
  /\ F = [i \in 0 .. n |-> F[i]]
  /\ F[0] = <<>>
  /\ \A i \in 1 .. n : F[i] = IF s[i] \in A THEN Append(F[i - 1], s[i]) ELSE F[i - 1]

LEMMA ScanExists ==
  ASSUME NEW S, NEW s \in Seq(S), NEW A
  PROVE  \A n \in Nat : n <= Len(s) => \E F : Scans(F, s, A, n)
<1> DEFINE T == {n \in Nat : n <= Len(s) => \E F : Scans(F, s, A, n)}
<1>1. 0 \in T
  <2>1. Scans([i \in 0 .. 0 |-> <<>>], s, A, 0) BY DEF Scans
  <2> QED BY <2>1
<1>2. ASSUME NEW n \in Nat, n \in T PROVE n + 1 \in T
  <2> SUFFICES ASSUME n + 1 <= Len(s) PROVE \E F : Scans(F, s, A, n + 1)
    OBVIOUS
  <2>1. PICK F : Scans(F, s, A, n) BY <1>2
  <2> DEFINE e == IF s[n + 1] \in A THEN Append(F[n], s[n + 1]) ELSE F[n]
             G == [i \in 0 .. n + 1 |-> IF i = n + 1 THEN e ELSE F[i]]
  <2>2. G = [i \in 0 .. n + 1 |-> G[i]] /\ G[0] = <<>> BY <2>1 DEF Scans
  <2>3. ASSUME NEW i \in 1 .. n + 1
        PROVE  G[i] = IF s[i] \in A THEN Append(G[i - 1], s[i]) ELSE G[i - 1]
    <3>1. CASE i = n + 1
      <4>1. G[i] = e /\ G[i - 1] = F[n] /\ i - 1 = n BY <3>1
      <4> QED BY <4>1, <3>1
    <3>2. CASE i # n + 1
      <4>1. i \in 1 .. n BY <3>2
      <4>2. G[i] = F[i] /\ G[i - 1] = F[i - 1] BY <4>1
      <4> QED BY <4>1, <4>2, <2>1 DEF Scans
    <3> QED BY <3>1, <3>2
  <2> HIDE DEF G
  <2>4. Scans(G, s, A, n + 1) BY <2>2, <2>3 DEF Scans
  <2> QED BY <2>4
<1>3. Nat \subseteq T
  <2> HIDE DEF T
  <2> QED BY <1>1, <1>2, Induct
<1> QED BY <1>3

LEMMA FilterScans ==
  ASSUME NEW S, NEW s \in Seq(S), NEW A
  PROVE  \E F : Scans(F, s, A, Len(s)) /\ Filter(s, A) = F[Len(s)]
<1> DEFINE Rec(F) == F = [i \in 0 .. Len(s) |->
                            IF i = 0 THEN <<>>
                            ELSE IF s[i] \in A THEN Append(F[i - 1], s[i]) ELSE F[i - 1]]
           C == CHOOSE F : Rec(F)
<1>1. Len(s) \in Nat OBVIOUS
<1>2. PICK F : Scans(F, s, A, Len(s)) BY <1>1, ScanExists
<1>3. Rec(F) BY <1>1, <1>2 DEF Scans
<1>4. Rec(C) BY <1>3
<1>5. Scans(C, s, A, Len(s))
  <2> HIDE DEF C
  <2> DEFINE R(i) == IF i = 0 THEN <<>>
                     ELSE IF s[i] \in A THEN Append(C[i - 1], s[i]) ELSE C[i - 1]
  <2>0. C = [i \in 0 .. Len(s) |-> R(i)] BY <1>4
  <2> HIDE DEF R
  <2>3. \A i \in 0 .. Len(s) : C[i] = R(i) BY <2>0
  <2>1. C = [i \in 0 .. Len(s) |-> C[i]] /\ C[0] = <<>> BY <2>0, <2>3, <1>1 DEF R
  <2>2. ASSUME NEW i \in 1 .. Len(s)
        PROVE  C[i] = IF s[i] \in A THEN Append(C[i - 1], s[i]) ELSE C[i - 1]
    BY <2>3, <1>1 DEF R
  <2> QED BY <2>1, <2>2 DEF Scans
<1>6. Filter(s, A) = C[Len(s)]
  BY DEF Filter
<1> QED BY <1>5, <1>6

\* Two scans of sequences that agree so far have kept the same.
LEMMA ScansAgree ==
  ASSUME NEW s, NEW r, NEW A, NEW F, NEW G, NEW n \in Nat, NEW m \in Nat,
         NEW l \in Nat, l <= n, l <= m,
         Scans(F, s, A, n), Scans(G, r, A, m), \A i \in 1 .. l : s[i] = r[i]
  PROVE  F[l] = G[l]
<1> DEFINE T == {k \in Nat : k <= l => F[k] = G[k]}
<1>1. 0 \in T BY DEF Scans
<1>2. ASSUME NEW k \in Nat, k \in T PROVE k + 1 \in T
  <2> SUFFICES ASSUME k + 1 <= l PROVE F[k + 1] = G[k + 1]
    OBVIOUS
  <2>1. k + 1 \in 1 .. n /\ k + 1 \in 1 .. m /\ k + 1 \in 1 .. l /\ (k + 1) - 1 = k
    OBVIOUS
  <2>2. F[k] = G[k] BY <1>2
  <2>3. F[k + 1] = IF s[k + 1] \in A THEN Append(F[k], s[k + 1]) ELSE F[k]
    BY <2>1 DEF Scans
  <2>4. G[k + 1] = IF r[k + 1] \in A THEN Append(G[k], r[k + 1]) ELSE G[k]
    BY <2>1 DEF Scans
  <2>5. s[k + 1] = r[k + 1] BY <2>1
  <2> QED BY <2>2, <2>3, <2>4, <2>5
<1>3. Nat \subseteq T
  <2> HIDE DEF T
  <2> QED BY <1>1, <1>2, Induct
<1> QED BY <1>3

\* An element more is kept last or not at all.
LEMMA FilterAppend ==
  ASSUME NEW S, NEW s \in Seq(S), NEW e \in S, NEW A
  PROVE  Filter(Append(s, e), A) = IF e \in A THEN Append(Filter(s, A), e)
                                   ELSE Filter(s, A)
<1> DEFINE r == Append(s, e)
<1>1. r \in Seq(S) /\ Len(r) = Len(s) + 1 /\ r[Len(s) + 1] = e
      /\ (\A i \in 1 .. Len(s) : r[i] = s[i]) /\ Len(s) \in Nat
  OBVIOUS
<1> HIDE DEF r
<1>2. PICK F : Scans(F, s, A, Len(s)) /\ Filter(s, A) = F[Len(s)]
  BY FilterScans
<1>3. PICK G : Scans(G, r, A, Len(r)) /\ Filter(r, A) = G[Len(r)]
  BY FilterScans, <1>1
<1>4. F[Len(s)] = G[Len(s)]
  BY <1>1, <1>2, <1>3, ScansAgree
<1>5. G[Len(s) + 1] = IF e \in A THEN Append(G[Len(s)], e) ELSE G[Len(s)]
  <2>1. Len(s) + 1 \in 1 .. Len(r) /\ (Len(s) + 1) - 1 = Len(s) BY <1>1
  <2> QED BY <2>1, <1>1, <1>3 DEF Scans
<1>6. Filter(r, A) = IF e \in A THEN Append(Filter(s, A), e) ELSE Filter(s, A)
  BY <1>1, <1>2, <1>3, <1>4, <1>5
<1> QED BY <1>6 DEF r

\* t is s without the elements outside A, at the places f.
Places(f, t, s, A, n) ==
  /\ f \in [1 .. Len(t) -> 1 .. n]
  /\ \A i, j \in 1 .. Len(t) : i < j => f[i] < f[j]
  /\ \A i \in 1 .. Len(t) : t[i] = s[f[i]] /\ s[f[i]] \in A
  /\ \A j \in 1 .. n : s[j] \in A => \E i \in 1 .. Len(t) : f[i] = j

LEMMA FilterPlaces ==
  ASSUME NEW S, NEW s \in Seq(S), NEW A
  PROVE  Filter(s, A) \in Seq(S) /\ \E f : Places(f, Filter(s, A), s, A, Len(s))
<1>1. Len(s) \in Nat OBVIOUS
<1>2. PICK F : Scans(F, s, A, Len(s)) /\ Filter(s, A) = F[Len(s)]
  BY FilterScans
<1> DEFINE T == {n \in Nat : n <= Len(s) =>
                    F[n] \in Seq(S) /\ \E f : Places(f, F[n], s, A, n)}
<1>3. 0 \in T
  <2>1. F[0] = <<>> BY <1>2 DEF Scans
  <2>2. Places([i \in 1 .. 0 |-> 0], <<>>, s, A, 0) BY DEF Places
  <2>3. \E f : Places(f, F[0], s, A, 0) BY <2>1, <2>2
  <2>4. F[0] \in Seq(S) BY <2>1
  <2> QED BY <2>3, <2>4
<1>4. ASSUME NEW n \in Nat, n \in T PROVE n + 1 \in T
  <2> SUFFICES ASSUME n + 1 <= Len(s)
               PROVE  F[n + 1] \in Seq(S) /\ \E f : Places(f, F[n + 1], s, A, n + 1)
    OBVIOUS
  <2>1. F[n] \in Seq(S) /\ \E f : Places(f, F[n], s, A, n) BY <1>4
  <2>2. PICK f : Places(f, F[n], s, A, n) BY <2>1
  <2>3. F[n + 1] = IF s[n + 1] \in A THEN Append(F[n], s[n + 1]) ELSE F[n]
    <3>1. n + 1 \in 1 .. Len(s) /\ (n + 1) - 1 = n BY <1>1
    <3> QED BY <3>1, <1>2 DEF Scans
  <2>4. s[n + 1] \in S BY <1>1
  <2>5. CASE s[n + 1] \notin A
    <3>1. F[n + 1] = F[n] BY <2>3, <2>5
    <3>2. Len(F[n]) \in Nat BY <2>1
    <3>3. Places(f, F[n], s, A, n + 1) BY <2>2, <2>5, <3>2 DEF Places
    <3> QED BY <2>1, <3>1, <3>3
  <2>6. CASE s[n + 1] \in A
    <3> DEFINE t == Append(F[n], s[n + 1])
               l == Len(F[n])
               g == [i \in 1 .. l + 1 |-> IF i = l + 1 THEN n + 1 ELSE f[i]]
    <3>1. t \in Seq(S) /\ Len(t) = l + 1 /\ t[l + 1] = s[n + 1] /\ l \in Nat
          /\ \A i \in 1 .. l : t[i] = F[n][i]
      BY <2>1, <2>4
    <3>2. f \in [1 .. l -> 1 .. n] BY <2>2 DEF Places
    <3>3. g[l + 1] = n + 1 /\ (\A i \in 1 .. l : g[i] = f[i])
          /\ g \in [1 .. l + 1 -> 1 .. n + 1]
      BY <3>1, <3>2
    <3>4. \A i, j \in 1 .. l : i < j => f[i] < f[j] BY <2>2 DEF Places
    <3>5. \A i \in 1 .. l : F[n][i] = s[f[i]] /\ s[f[i]] \in A BY <2>2 DEF Places
    <3>6. \A j \in 1 .. n : s[j] \in A => \E i \in 1 .. l : f[i] = j BY <2>2 DEF Places
    <3> HIDE DEF t, l, g
    <3>7. \A i, j \in 1 .. l + 1 : i < j => g[i] < g[j] BY <3>1, <3>2, <3>3, <3>4
    <3>8. \A i \in 1 .. l + 1 : t[i] = s[g[i]] /\ s[g[i]] \in A
      BY <3>1, <3>3, <3>5, <2>6
    <3>9. \A j \in 1 .. n + 1 : s[j] \in A => \E i \in 1 .. l + 1 : g[i] = j
      BY <3>1, <3>3, <3>6
    <3>10. Places(g, t, s, A, n + 1) BY <3>1, <3>3, <3>7, <3>8, <3>9 DEF Places
    <3>11. F[n + 1] = t BY <2>3, <2>6 DEF t
    <3> QED BY <3>1, <3>10, <3>11
  <2> QED BY <2>5, <2>6
<1>5. Nat \subseteq T
  <2> HIDE DEF T
  <2> QED BY <1>3, <1>4, Induct
<1>6. Len(s) \in T BY <1>1, <1>5
<1> QED BY <1>1, <1>2, <1>6

LEMMA FilterNone == ASSUME NEW A PROVE Len(Filter(<<>>, A)) = 0
<1>1. PICK F : Scans(F, <<>>, A, Len(<<>>)) /\ Filter(<<>>, A) = F[Len(<<>>)]
  <2>1. <<>> \in Seq({})
    OBVIOUS
  <2> QED
    BY <2>1, FilterScans
<1>2. Filter(<<>>, A) = F[0]
  BY <1>1
<1>3. F[0] = <<>>
  BY <1>1 DEF Scans
<1> QED
  BY <1>2, <1>3

============================================================================
