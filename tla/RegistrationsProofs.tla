------------------------ MODULE RegistrationsProofs ------------------------
(***************************************************************************)
(* Registrations, for any memory, ranges, capacities of the cache and      *)
(* bounds: every region has one owner, the cache stays within its          *)
(* capacity, and no region is stale while memory is freed as vccl.h asks.  *)
(***************************************************************************)
EXTENDS Registrations, FilterProofs, FiniteSetTheorems

\* Zenon proves the leaves that name no prover.
USE Zenon

----------------------------------------------------------------------------
(* The invariant.                                                          *)

Handle == 1 .. MaxRegions + 1

ScratchRange == <<-1, 1>>

AnyRange == Blocks \cup Ranges \cup {ScratchRange}

Region == [h : Handle, range : AnyRange, fresh : BOOLEAN, staging : BOOLEAN]

Entry == [range : Ranges, h : Handle]

Distinct(s) == \A i, j \in DOMAIN s : s[i].h = s[j].h => i = j

\* The handles of rs belong to the cache, to the user, to the scratch or to
\* the running collective, and to one of them only.
Owned(rs, cache, users, sh, held) ==
  /\ rs \in Seq(Region) /\ Distinct(rs)
  /\ cache \in Seq(Entry) /\ Distinct(cache)
  /\ Handles(rs) = Handles(cache) \cup {x.h : x \in users} \cup ({sh} \ {0}) \cup held
  /\ Handles(cache) \cap {x.h : x \in users} = {}
  /\ (Handles(cache) \cup {x.h : x \in users}) \cap ({sh} \ {0}) = {}
  /\ (Handles(cache) \cup {x.h : x \in users} \cup ({sh} \ {0})) \cap held = {}

\* A region of the user or of the scratch pins what its owner says, and
\* unless memory is freed under the cache every region is fresh.
Pins(x, users, sh) ==
  /\ \A u \in users : x.h = u.h => x.range = u.range
  /\ x.h = sh => x.range = ScratchRange
  /\ ~FreeAny => x.fresh

Pinned(rs, users, sh) == \A i \in DOMAIN rs : Pins(rs[i], users, sh)

Users ==
  /\ registrations \subseteq [h : Handle, range : Blocks] /\ IsFiniteSet(registrations)
  /\ \A x, y \in registrations : x.h = y.h => x = y

\* What is registered is mapped, and a dmabuf is registered once.
Memory ==
  /\ mapped \subseteq Blocks /\ dmabuf \subseteq mapped
  /\ \A b, c \in mapped : b # c => Pages(b) \cap Pages(c) = {}
  /\ \A x \in registrations : Usable(x.range)
  /\ \A x, y \in registrations :
       x # y /\ x.range \in dmabuf => Pages(x.range) \cap Pages(y.range) = {}

Inv ==
  /\ cap \in Nat /\ CacheBounded
  /\ scratch.h \in Handle \cup {0} /\ scratch.size \in Nat
  /\ scratch = [size |-> scratch.size, h |-> scratch.h]
  /\ Users /\ Memory
  /\ Owned(regions_, mrCache, registrations, scratch.h, {})
  /\ Pinned(regions_, registrations, scratch.h)
  /\ NeverStale \/ FreeAny
----------------------------------------------------------------------------
(* The region list.                                                        *)

LEMMA RegionTypes ==
  ASSUME NEW x \in Region
  PROVE  x.h \in Handle /\ x.h \in Nat /\ x.h # 0 /\ x.range \in AnyRange
BY SMT, BoundsAssumption DEF Region, Handle

LEMMA FreshOk ==
  ASSUME NEW rs \in Seq(Region), Len(rs) <= MaxRegions
  PROVE  FreshHandle(rs) \in Handle /\ FreshHandle(rs) \notin Handles(rs)
<1> DEFINE n == Len(rs)
<1>1. n \in Nat /\ DOMAIN rs = 1 .. n /\ n < MaxRegions + 1 /\ MaxRegions \in Nat
  BY SMT, BoundsAssumption
<1> HIDE DEF n
<1>2. \E h \in Handle : \A i \in DOMAIN rs : rs[i].h # h
  <2> SUFFICES ASSUME \A h \in Handle : \E i \in DOMAIN rs : rs[i].h = h
               PROVE  FALSE
    OBVIOUS
  <2> DEFINE f == [h \in Handle |-> CHOOSE i \in DOMAIN rs : rs[i].h = h]
  <2>1. ASSUME NEW h \in Handle PROVE f[h] \in DOMAIN rs /\ rs[f[h]].h = h
    <3>1. f[h] = CHOOSE i \in DOMAIN rs : rs[i].h = h
      OBVIOUS
    <3>2. \E i \in DOMAIN rs : rs[i].h = h
      OBVIOUS
    <3> HIDE DEF f
    <3> QED
      BY <3>1, <3>2
  <2>2. f \in [Handle -> DOMAIN rs]
    BY <2>1
  <2> HIDE DEF f
  <2>3. IsFiniteSet(Handle) /\ Cardinality(Handle) = MaxRegions + 1
    <3>1. PICK k \in Int : k = MaxRegions + 1 /\ ~(1 > k)
      BY SMT, <1>1
    <3>2. IsFiniteSet(1 .. k) /\ Cardinality(1 .. k) = k
      BY SMT, <3>1, FS_Interval
    <3> QED
      BY <3>1, <3>2 DEF Handle
  <2>4. IsFiniteSet(DOMAIN rs) /\ Cardinality(DOMAIN rs) = n
    BY SMT, <1>1, FS_Interval
  <2>5. \E x, y \in Handle : x # y /\ f[x] = f[y]
    BY SMT, <2>2, <2>3, <2>4, <1>1, FS_PigeonHole
  <2> QED
    BY <2>1, <2>5
<1> DEFINE T == {h \in Handle : \A i \in DOMAIN rs : rs[i].h # h}
<1>3. T \in SUBSET Nat /\ T # {}
  BY SMT, <1>1, <1>2 DEF Handle
<1>4. PICK h \in T : \A g \in T : h <= g
  BY <1>3, Least
<1>5. h \in Handle /\ \A i \in DOMAIN rs : rs[i].h # h
  BY <1>4
<1>6. ASSUME NEW g \in 1 .. h - 1 PROVE \E i \in DOMAIN rs : rs[i].h = g
  <2>1. g \in Handle /\ ~(h <= g)
    BY SMT, <1>1, <1>5 DEF Handle
  <2>2. g \notin T
    BY <2>1, <1>4
  <2> QED
    BY <2>1, <2>2
<1> HIDE DEF T
<1>7. \E k \in 1 .. MaxRegions + 1 :
        /\ \A i \in DOMAIN rs : rs[i].h # k
        /\ \A g \in 1 .. k - 1 : \E i \in DOMAIN rs : rs[i].h = g
  BY <1>5, <1>6 DEF Handle
<1>8. /\ FreshHandle(rs) \in 1 .. MaxRegions + 1
      /\ \A i \in DOMAIN rs : rs[i].h # FreshHandle(rs)
  BY <1>7 DEF FreshHandle
<1> QED
  BY <1>8 DEF Handle, Handles

\* A new region is last, and its handle is new.
LEMMA RegOk ==
  ASSUME NEW rs \in Seq(Region), Distinct(rs), Len(rs) <= MaxRegions,
         NEW b \in AnyRange, NEW staging \in BOOLEAN
  PROVE  /\ regMr(rs, b, staging) \in Seq(Region) /\ Distinct(regMr(rs, b, staging))
         /\ Len(regMr(rs, b, staging)) = Len(rs) + 1
         /\ Handles(regMr(rs, b, staging)) = Handles(rs) \cup {FreshHandle(rs)}
         /\ \A i \in DOMAIN regMr(rs, b, staging) :
              \/ i \in DOMAIN rs /\ regMr(rs, b, staging)[i] = rs[i]
              \/ regMr(rs, b, staging)[i] = [h |-> FreshHandle(rs), range |-> b,
                                             fresh |-> TRUE, staging |-> staging]
<1> DEFINE x == [h |-> FreshHandle(rs), range |-> b, fresh |-> TRUE, staging |-> staging]
<1>1. FreshHandle(rs) \in Handle /\ FreshHandle(rs) \notin Handles(rs)
  BY FreshOk
<1>2. x \in Region /\ x.h = FreshHandle(rs)
  BY <1>1 DEF Region
<1>3. regMr(rs, b, staging) = Append(rs, x)
  BY DEF regMr
<1> HIDE DEF x
<1>4. PICK n \in Nat : n = Len(rs)
  BY SMT
<1>5. PICK ss : ss = Append(rs, x)
  OBVIOUS
<1>6. /\ ss \in Seq(Region) /\ Len(ss) = n + 1 /\ DOMAIN ss = 1 .. n + 1 /\ ss[n + 1] = x
      /\ DOMAIN rs = 1 .. n /\ \A i \in 1 .. n : ss[i] = rs[i]
  BY SMT, <1>2, <1>4, <1>5
<1>7. \A i \in 1 .. n : ss[i].h # x.h
  BY <1>1, <1>2, <1>6 DEF Handles
<1>8. ASSUME NEW i \in 1 .. n + 1, NEW j \in 1 .. n + 1, ss[i].h = ss[j].h PROVE i = j
  <2>1. CASE i \in 1 .. n /\ j \in 1 .. n
    BY <2>1, <1>6, <1>8 DEF Distinct
  <2>2. CASE i = n + 1 \/ j = n + 1
    BY SMT, <2>2, <1>6, <1>7, <1>8
  <2> QED
    BY SMT, <2>1, <2>2
<1>9. Distinct(ss)
  BY <1>6, <1>8 DEF Distinct
<1>10. Handles(ss) = Handles(rs) \cup {x.h}
  <2>1. \A h : h \in Handles(ss) <=> \E i \in 1 .. n + 1 : ss[i].h = h
    BY <1>6 DEF Handles
  <2>2. \A h : h \in Handles(rs) <=> \E i \in 1 .. n : rs[i].h = h
    BY <1>6 DEF Handles
  <2>3. \A h : h \in Handles(ss) <=> h \in Handles(rs) \/ h = x.h
    BY SMT, <2>1, <2>2, <1>6
  <2> QED
    BY <2>3
<1>11. \A i \in 1 .. n + 1 : (i \in 1 .. n /\ ss[i] = rs[i]) \/ ss[i] = x
  BY SMT, <1>6
<1>12. regMr(rs, b, staging) = ss
  BY <1>3, <1>5
<1> QED
  BY <1>2, <1>4, <1>6, <1>9, <1>10, <1>11, <1>12 DEF x

\* What is dropped is gone, and the others stay.
LEMMA DropOk ==
  ASSUME NEW rs \in Seq(Region), Distinct(rs), NEW H
  PROVE  /\ Drop(rs, H) \in Seq(Region) /\ Distinct(Drop(rs, H))
         /\ Len(Drop(rs, H)) <= Len(rs)
         /\ Handles(Drop(rs, H)) = Handles(rs) \ H
         /\ \A i \in DOMAIN Drop(rs, H) : \E j \in DOMAIN rs : Drop(rs, H)[i] = rs[j]
<1> DEFINE A == {x \in Range(rs) : x.h \notin H}
<1>1. PICK t : t = Filter(rs, A)
  OBVIOUS
<1>2. Drop(rs, H) = t
  BY <1>1 DEF Drop
<1>3. t \in Seq(Region) /\ \E f : Places(f, t, rs, A, Len(rs))
  BY <1>1, FilterPlaces
<1>4. PICK n \in Nat, m \in Nat : n = Len(rs) /\ m = Len(t)
  BY SMT, <1>3
<1>5. PICK f : Places(f, t, rs, A, n)
  BY <1>3, <1>4
<1>6. DOMAIN rs = 1 .. n /\ DOMAIN t = 1 .. m
  BY SMT, <1>3, <1>4
<1>7. \A j \in 1 .. n : rs[j] \in A <=> rs[j].h \notin H
  BY <1>6 DEF Range
<1> HIDE DEF A
<1>8. /\ f \in [1 .. m -> 1 .. n]
      /\ \A i, j \in 1 .. m : i < j => f[i] < f[j]
      /\ \A i \in 1 .. m : t[i] = rs[f[i]] /\ rs[f[i]] \in A
      /\ \A j \in 1 .. n : rs[j] \in A => \E i \in 1 .. m : f[i] = j
  BY <1>4, <1>5 DEF Places
<1>9. \A i, j \in 1 .. m : f[i] = f[j] => i = j
  <2> SUFFICES ASSUME NEW i \in 1 .. m, NEW j \in 1 .. m, f[i] = f[j], i # j PROVE FALSE
    OBVIOUS
  <2>1. f[i] \in Nat /\ f[j] \in Nat /\ (i < j \/ j < i)
    BY SMT, <1>8
  <2> QED
    BY SMT, <2>1, <1>8
<1>10. Distinct(t)
  <2> SUFFICES ASSUME NEW i \in 1 .. m, NEW j \in 1 .. m, t[i].h = t[j].h PROVE i = j
    BY <1>6 DEF Distinct
  <2>1. f[i] = f[j]
    BY SMT, <1>6, <1>8 DEF Distinct
  <2> QED
    BY <2>1, <1>9
<1>11. m <= n
  <2> SUFFICES ASSUME n < m PROVE FALSE
    BY SMT
  <2>1. IsFiniteSet(1 .. m) /\ IsFiniteSet(1 .. n) /\ Cardinality(1 .. n) < Cardinality(1 .. m)
    <3>1. 1 \in Int /\ m \in Int /\ n \in Int /\ ~(1 > m)
      BY SMT
    <3>2. IsFiniteSet(1 .. m) /\ Cardinality(1 .. m) = m
      BY SMT, <3>1, FS_Interval
    <3>3. IsFiniteSet(1 .. n) /\ Cardinality(1 .. n) = n
      BY SMT, <3>1, FS_Interval
    <3> QED
      BY <3>2, <3>3
  <2>2. PICK S, T : S = 1 .. m /\ T = 1 .. n
    OBVIOUS
  <2>3. /\ IsFiniteSet(S) /\ IsFiniteSet(T) /\ Cardinality(T) < Cardinality(S)
        /\ f \in [S -> T]
    BY <2>1, <2>2, <1>8
  <2>4. \E i, j \in S : i # j /\ f[i] = f[j]
    BY <2>3, FS_PigeonHole
  <2> QED
    BY <2>2, <2>4, <1>9
<1>12. Handles(t) = Handles(rs) \ H
  <2>1. \A h : h \in Handles(t) <=> \E i \in 1 .. m : t[i].h = h
    BY <1>6 DEF Handles
  <2>2. \A h : h \in Handles(rs) <=> \E i \in 1 .. n : rs[i].h = h
    BY <1>6 DEF Handles
  <2>3. ASSUME NEW i \in 1 .. m PROVE t[i].h \in Handles(rs) \ H
    BY <2>2, <1>7, <1>8
  <2>4. ASSUME NEW j \in 1 .. n, rs[j].h \notin H PROVE rs[j].h \in Handles(t)
    <3>1. PICK i \in 1 .. m : f[i] = j
      BY <2>4, <1>7, <1>8
    <3> QED
      BY <3>1, <2>1, <1>8
  <2> QED
    BY <2>1, <2>2, <2>3, <2>4
<1>13. \A i \in 1 .. m : \E j \in 1 .. n : t[i] = rs[j]
  BY <1>8
<1> QED
  BY <1>2, <1>3, <1>4, <1>6, <1>10, <1>11, <1>12, <1>13

\* The cache: what is appended, what is cut off in front, what is moved.
LEMMA CacheAppend ==
  ASSUME NEW c \in Seq(Entry), Distinct(c), NEW e \in Entry, e.h \notin Handles(c)
  PROVE  /\ Append(c, e) \in Seq(Entry) /\ Distinct(Append(c, e))
         /\ Len(Append(c, e)) = Len(c) + 1
         /\ Handles(Append(c, e)) = Handles(c) \cup {e.h}
<1>1. PICK n \in Nat : n = Len(c)
  BY SMT
<1>2. PICK s : s = Append(c, e)
  OBVIOUS
<1>3. /\ s \in Seq(Entry) /\ Len(s) = n + 1 /\ DOMAIN s = 1 .. n + 1 /\ s[n + 1] = e
      /\ DOMAIN c = 1 .. n /\ \A i \in 1 .. n : s[i] = c[i]
  BY SMT, <1>1, <1>2
<1>4. \A i \in 1 .. n : s[i].h # e.h
  BY <1>3 DEF Handles
<1>5. ASSUME NEW i \in 1 .. n + 1, NEW j \in 1 .. n + 1, s[i].h = s[j].h PROVE i = j
  <2>1. CASE i \in 1 .. n /\ j \in 1 .. n
    BY <2>1, <1>3, <1>5 DEF Distinct
  <2>2. CASE i = n + 1 \/ j = n + 1
    BY SMT, <2>2, <1>3, <1>4, <1>5
  <2> QED
    BY SMT, <2>1, <2>2
<1>6. Handles(s) = Handles(c) \cup {e.h}
  <2>1. \A h : h \in Handles(s) <=> \E i \in 1 .. n + 1 : s[i].h = h
    BY <1>3 DEF Handles
  <2>2. \A h : h \in Handles(c) <=> \E i \in 1 .. n : c[i].h = h
    BY <1>3 DEF Handles
  <2>3. \A h : h \in Handles(s) <=> h \in Handles(c) \/ h = e.h
    BY SMT, <2>1, <2>2, <1>3
  <2> QED
    BY <2>3
<1> QED
  BY <1>1, <1>2, <1>3, <1>5, <1>6 DEF Distinct

\* s has the entries of c other than the i-th, which Restamp moves and, with
\* i = 1, mrCachePut evicts.
Skips(s, c, i) ==
  /\ Len(s) = Len(c) - 1
  /\ \A k \in DOMAIN s : s[k] = c[IF k < i THEN k ELSE k + 1]

LEMMA CacheWithout ==
  ASSUME NEW c \in Seq(Entry), Distinct(c), NEW i \in DOMAIN c,
         NEW s \in Seq(Entry), Skips(s, c, i)
  PROVE  Distinct(s) /\ Handles(s) = Handles(c) \ {c[i].h}
<1>1. PICK n \in Nat : n = Len(c)
  BY SMT
<1>2. i \in 1 .. n /\ DOMAIN c = 1 .. n /\ DOMAIN s = 1 .. n - 1
  BY SMT, <1>1 DEF Skips
<1> DEFINE at(k) == IF k < i THEN k ELSE k + 1
<1>3. \A k \in 1 .. n - 1 : at(k) \in 1 .. n /\ at(k) # i /\ s[k] = c[at(k)]
  BY SMT, <1>2 DEF Skips
<1>4. \A k, l \in 1 .. n - 1 : at(k) = at(l) => k = l
  BY SMT, <1>2
<1>5. \A j \in 1 .. n : j # i => \E k \in 1 .. n - 1 : at(k) = j
  <2> SUFFICES ASSUME NEW j \in 1 .. n, j # i PROVE \E k \in 1 .. n - 1 : at(k) = j
    OBVIOUS
  <2>1. CASE j < i
    <3>1. j \in 1 .. n - 1 /\ at(j) = j
      BY SMT, <2>1, <1>2
    <3> QED
      BY <3>1
  <2>2. CASE j > i
    <3>1. j - 1 \in 1 .. n - 1 /\ at(j - 1) = j
      BY SMT, <2>2, <1>2
    <3> QED
      BY <3>1
  <2> QED
    BY SMT, <2>1, <2>2, <1>2
<1> HIDE DEF at
<1>6. \A k, l \in 1 .. n : c[k].h = c[l].h => k = l
  BY <1>2 DEF Distinct
<1>7. Distinct(s)
  BY SMT, <1>2, <1>3, <1>4, <1>6 DEF Distinct
<1>8. \A h : h \in Handles(s) <=> \E k \in 1 .. n - 1 : s[k].h = h
  BY <1>2 DEF Handles
<1>9. \A h : h \in Handles(c) <=> \E k \in 1 .. n : c[k].h = h
  BY <1>2 DEF Handles
<1>10. ASSUME NEW h PROVE h \in Handles(s) <=> h \in Handles(c) /\ h # c[i].h
  <2>1. ASSUME h \in Handles(s) PROVE h \in Handles(c) /\ h # c[i].h
    BY SMT, <2>1, <1>2, <1>3, <1>6, <1>8, <1>9
  <2>2. ASSUME h \in Handles(c), h # c[i].h PROVE h \in Handles(s)
    <3>1. PICK j \in 1 .. n : c[j].h = h
      BY <2>2, <1>9
    <3>2. PICK k \in 1 .. n - 1 : at(k) = j
      BY <3>1, <2>2, <1>5
    <3> QED
      BY <3>1, <3>2, <1>3, <1>8
  <2> QED
    BY <2>1, <2>2
<1> QED
  BY <1>7, <1>10

LEMMA CacheTail ==
  ASSUME NEW c \in Seq(Entry), Distinct(c), c # <<>>
  PROVE  /\ Tail(c) \in Seq(Entry) /\ Distinct(Tail(c)) /\ Len(Tail(c)) = Len(c) - 1
         /\ Handles(Tail(c)) = Handles(c) \ {Head(c).h} /\ Head(c) \in Entry
         /\ Head(c).h \in Handles(c)
<1>1. 1 \in DOMAIN c /\ Head(c) = c[1] /\ Len(c) \in Nat /\ DOMAIN c = 1 .. Len(c)
  BY SMT
<1>2. PICK s : s = Tail(c)
  OBVIOUS
<1>3. s \in Seq(Entry) /\ Len(s) = Len(c) - 1
      /\ \A k \in DOMAIN s : s[k] = c[k + 1] /\ ~(k < 1)
  <2>1. s \in Seq(Entry) /\ Len(s) = Len(c) - 1
    BY SMT, <1>2
  <2>2. DOMAIN s = 1 .. Len(c) - 1
    BY SMT, <2>1
  <2> QED
    BY SMT, <2>1, <2>2, <1>1, <1>2
<1>4. Skips(s, c, 1)
  BY <1>3 DEF Skips
<1>5. Distinct(s) /\ Handles(s) = Handles(c) \ {c[1].h}
  BY <1>1, <1>3, <1>4, CacheWithout
<1>6. Head(c) \in Entry /\ Head(c).h \in Handles(c)
  BY SMT, <1>1 DEF Handles
<1> QED
  BY <1>1, <1>2, <1>3, <1>5, <1>6

LEMMA CacheMoved ==
  ASSUME NEW c \in Seq(Entry), Distinct(c), NEW i \in DOMAIN c
  PROVE  /\ Append(AllBut(c, i), c[i]) \in Seq(Entry)
         /\ Distinct(Append(AllBut(c, i), c[i]))
         /\ Len(Append(AllBut(c, i), c[i])) = Len(c)
         /\ Handles(Append(AllBut(c, i), c[i])) = Handles(c)
<1>1. PICK n \in Nat : n = Len(c)
  BY SMT
<1>2. i \in 1 .. n /\ DOMAIN c = 1 .. n /\ c[i] \in Entry
  BY SMT, <1>1
<1>3. PICK a, b : a = SubSeq(c, 1, i - 1) /\ b = SubSeq(c, i + 1, n)
  OBVIOUS
<1>4. a \in Seq(Entry) /\ Len(a) = i - 1 /\ \A k \in 1 .. i - 1 : a[k] = c[k]
  BY SMT, <1>1, <1>2, <1>3
<1>5. b \in Seq(Entry) /\ Len(b) = n - i /\ \A k \in 1 .. n - i : b[k] = c[k + i]
  <2>1. b \in Seq(Entry) /\ Len(b) = n - i
    BY SMT, <1>1, <1>2, <1>3
  <2>2. ASSUME NEW k \in 1 .. n - i PROVE b[k] = c[k + i]
    <3>1. b[k] = c[(i + 1) + k - 1]
      BY SMT, <1>1, <1>2, <1>3
    <3>2. (i + 1) + k - 1 = k + i
      BY SMT, <1>2
    <3> QED
      BY <3>1, <3>2
  <2> QED
    BY <2>1, <2>2
<1>6. PICK s : s = a \o b
  OBVIOUS
<1>7. s = AllBut(c, i)
  BY <1>1, <1>3, <1>6 DEF AllBut
<1>8. s \in Seq(Entry) /\ Len(s) = n - 1
  <2>1. a \o b \in Seq(Entry) /\ Len(a \o b) = Len(a) + Len(b)
    <3>1. a \in Seq(Entry) /\ b \in Seq(Entry)
      BY <1>4, <1>5
    <3> QED
      BY SMT, <3>1
  <2>2. Len(a) + Len(b) = n - 1
    BY SMT, <1>2, <1>4, <1>5
  <2> QED
    BY <2>1, <2>2, <1>6
<1>9. DOMAIN s = 1 .. n - 1
  BY SMT, <1>8
<1>10. ASSUME NEW k \in 1 .. n - 1 PROVE s[k] = c[IF k < i THEN k ELSE k + 1]
  <2>1. CASE k < i
    BY SMT, <2>1, <1>2, <1>4, <1>5, <1>6
  <2>2. CASE ~(k < i)
    <3>1. k - (i - 1) \in 1 .. n - i /\ k - (i - 1) + i = k + 1
      BY SMT, <2>2, <1>2
    <3>2. s[k] = b[k - (i - 1)]
      BY SMT, <2>2, <1>2, <1>4, <1>5, <1>6
    <3> QED
      BY <2>2, <3>1, <3>2, <1>5
  <2> QED
    BY <2>1, <2>2
<1>11. Distinct(s) /\ Handles(s) = Handles(c) \ {c[i].h}
  <2>1. Skips(s, c, i)
    BY <1>1, <1>8, <1>9, <1>10 DEF Skips
  <2> QED
    BY <2>1, <1>8, CacheWithout
<1>12. c[i].h \in Handles(c)
  BY <1>2 DEF Handles
<1>13. PICK e : e = c[i]
  OBVIOUS
<1>14. e \in Entry /\ e.h \notin Handles(s)
  BY <1>2, <1>11, <1>13
<1>15. /\ Append(s, e) \in Seq(Entry) /\ Distinct(Append(s, e))
       /\ Len(Append(s, e)) = n /\ Handles(Append(s, e)) = Handles(s) \cup {e.h}
  BY SMT, <1>8, <1>11, <1>14, CacheAppend
<1> QED
  BY <1>1, <1>7, <1>11, <1>12, <1>13, <1>15

LEMMA PinnedReg ==
  ASSUME NEW rs \in Seq(Region), Distinct(rs), Len(rs) <= MaxRegions,
         NEW b \in AnyRange, NEW staging \in BOOLEAN, NEW users, NEW sh,
         \A u \in users : u.h \in Handles(rs), sh \in Handles(rs) \cup {0},
         Pinned(rs, users, sh)
  PROVE  Pinned(regMr(rs, b, staging), users, sh)
<1>1. PICK h : h = FreshHandle(rs)
  OBVIOUS
<1>2. h \in Handle /\ h \notin Handles(rs) /\ h # 0
  BY SMT, <1>1, FreshOk, BoundsAssumption DEF Handle
<1>3. PICK x : x = [h |-> h, range |-> b, fresh |-> TRUE, staging |-> staging]
  OBVIOUS
<1>4. x.h = h /\ x.fresh
  BY <1>3
<1>5. Pins(x, users, sh)
  BY <1>2, <1>4 DEF Pins
<1>6. PICK ss : ss = regMr(rs, b, staging)
  OBVIOUS
<1>7. \A i \in DOMAIN ss : (i \in DOMAIN rs /\ ss[i] = rs[i]) \/ ss[i] = x
  BY <1>1, <1>3, <1>6, RegOk
<1> QED
  BY <1>5, <1>6, <1>7 DEF Pinned

LEMMA PinnedDrop ==
  ASSUME NEW rs \in Seq(Region), Distinct(rs), NEW H, NEW users, NEW sh,
         Pinned(rs, users, sh)
  PROVE  Pinned(Drop(rs, H), users, sh)
<1>1. \A i \in DOMAIN Drop(rs, H) : \E j \in DOMAIN rs : Drop(rs, H)[i] = rs[j]
  BY DropOk
<1> HIDE DEF Drop
<1> QED
  BY <1>1 DEF Pinned

----------------------------------------------------------------------------
(* A collective.                                                           *)

Stage == [regions : Seq(Region), cache : Seq(Entry), handles : SUBSET Handle,
          failed : BOOLEAN]

\* What holds between two buffers of a collective, with at most n regions.
StageOk(st, n) ==
  /\ st \in Stage /\ Len(st.regions) <= n /\ Len(st.cache) <= cap
  /\ Owned(st.regions, st.cache, registrations, scratch.h, st.handles)
  /\ Pinned(st.regions, registrations, scratch.h)

LEMMA StageParts ==
  ASSUME NEW st \in Stage
  PROVE  /\ st.regions \in Seq(Region) /\ st.cache \in Seq(Entry)
         /\ st.handles \subseteq Handle /\ st.failed \in BOOLEAN
         /\ \A rs \in Seq(Region) : [st EXCEPT !.regions = rs] \in Stage
         /\ \A c \in Seq(Entry) : [st EXCEPT !.cache = c] \in Stage
         /\ \A H \in SUBSET Handle : [st EXCEPT !.handles = H] \in Stage
BY DEF Stage

LEMMA Known ==
  ASSUME NEW rs, NEW cache, NEW users, NEW sh, NEW held,
         Owned(rs, cache, users, sh, held)
  PROVE  /\ rs \in Seq(Region) /\ Distinct(rs) /\ cache \in Seq(Entry) /\ Distinct(cache)
         /\ \A u \in users : u.h \in Handles(rs)
         /\ sh \in Handles(rs) \cup {0}
         /\ Handles(cache) \subseteq Handles(rs) /\ held \subseteq Handles(rs)
BY DEF Owned

LEMMA RestampOk ==
  ASSUME NEW st, NEW n, StageOk(st, n), NEW i \in DOMAIN st.cache
  PROVE  StageOk(Restamp(st, i), n)
<1>1. st \in Stage /\ st.cache \in Seq(Entry) /\ Distinct(st.cache)
  BY Known DEF StageOk
<1>2. PICK c : c = st.cache
  OBVIOUS
<1>3. PICK d : d = Append(AllBut(c, i), c[i])
  OBVIOUS
<1>4. d \in Seq(Entry) /\ Distinct(d) /\ Len(d) = Len(c) /\ Handles(d) = Handles(c)
  BY <1>1, <1>2, <1>3, CacheMoved
<1>5. PICK t : t = [st EXCEPT !.cache = d]
  OBVIOUS
<1>6. t = Restamp(st, i)
  BY <1>2, <1>3, <1>5 DEF Restamp
<1>7. /\ t \in Stage /\ t.regions = st.regions /\ t.cache = d /\ t.handles = st.handles
  BY <1>1, <1>4, <1>5 DEF Stage
<1>8. Owned(t.regions, t.cache, registrations, scratch.h, t.handles)
  BY <1>2, <1>4, <1>7 DEF StageOk, Owned
<1>9. StageOk(t, n)
  BY <1>2, <1>4, <1>7, <1>8 DEF StageOk
<1> QED
  BY <1>6, <1>9

\* A region more, for the cache when it has a place.
LEMMA PutOk ==
  ASSUME cap \in Nat, cap > 0, NEW st, NEW n \in Nat, StageOk(st, n), n <= MaxRegions,
         NEW b \in Ranges
  PROVE  StageOk(mrCachePut([st EXCEPT !.regions = regMr(@, b, FALSE)], b,
                            FreshHandle(st.regions)), n + 1)
<1>1. /\ st \in Stage /\ st.regions \in Seq(Region) /\ Distinct(st.regions)
      /\ st.cache \in Seq(Entry) /\ Distinct(st.cache) /\ Len(st.cache) <= cap
      /\ Len(st.regions) <= n /\ Len(st.regions) \in Nat /\ MaxRegions \in Nat
      /\ Pinned(st.regions, registrations, scratch.h)
  BY SMT, Known, BoundsAssumption DEF StageOk
<1>2. PICK rs, c, h, H : rs = st.regions /\ c = st.cache /\ h = FreshHandle(rs) /\ H = st.handles
  OBVIOUS
<1>3. PICK ss : ss = regMr(rs, b, FALSE)
  OBVIOUS
<1>4. b \in AnyRange /\ FALSE \in BOOLEAN /\ Len(rs) <= MaxRegions
  BY SMT, <1>1, <1>2 DEF AnyRange
<1>5. /\ ss \in Seq(Region) /\ Distinct(ss) /\ Len(ss) = Len(rs) + 1
      /\ Handles(ss) = Handles(rs) \cup {h}
  BY <1>1, <1>2, <1>3, <1>4, RegOk
<1>6. Pinned(ss, registrations, scratch.h)
  <2>1. (\A u \in registrations : u.h \in Handles(rs)) /\ scratch.h \in Handles(rs) \cup {0}
    BY <1>2, Known DEF StageOk
  <2> QED
    BY <2>1, <1>1, <1>2, <1>3, <1>4, PinnedReg
<1>7. h \in Handle /\ h \notin Handles(rs)
  BY <1>1, <1>2, <1>4, FreshOk
<1>8. PICK e : e = [range |-> b, h |-> h]
  OBVIOUS
<1>9. e \in Entry /\ e.h = h
  BY <1>7, <1>8 DEF Entry
<1>10. PICK p : p = [st EXCEPT !.regions = ss]
  OBVIOUS
<1>11. p \in Stage /\ p.regions = ss /\ p.cache = c /\ p.handles = H
       /\ p = [st EXCEPT !.regions = regMr(@, b, FALSE)]
  BY <1>1, <1>2, <1>3, <1>5, <1>10 DEF Stage
<1>12. PICK Us, Ss : Us = {x.h : x \in registrations} /\ Ss = {scratch.h} \ {0}
  OBVIOUS
<1>13. /\ Handles(rs) = Handles(c) \cup Us \cup Ss \cup H
       /\ Handles(c) \cap Us = {} /\ (Handles(c) \cup Us) \cap Ss = {}
       /\ (Handles(c) \cup Us \cup Ss) \cap H = {}
  BY <1>2, <1>12 DEF StageOk, Owned
<1>14. CASE ~(Len(c) >= cap)
  <2>1. PICK d : d = Append(c, e)
    OBVIOUS
  <2>2. /\ d \in Seq(Entry) /\ Distinct(d) /\ Len(d) = Len(c) + 1
        /\ Handles(d) = Handles(c) \cup {h}
    BY SMT, <2>1, <1>1, <1>2, <1>7, <1>9, <1>13, CacheAppend
  <2>3. PICK q : q = [p EXCEPT !.cache = d]
    OBVIOUS
  <2>4. q \in Stage /\ q.regions = ss /\ q.cache = d /\ q.handles = H
    BY <2>2, <2>3, <1>11 DEF Stage
  <2>5. mrCachePut(p, b, h) = q
    BY <2>1, <2>3, <1>8, <1>11, <1>14, <1>2 DEF mrCachePut, Stage
  <2>6. /\ Handles(ss) = Handles(d) \cup Us \cup Ss \cup H
        /\ Handles(d) \cap Us = {} /\ (Handles(d) \cup Us) \cap Ss = {}
        /\ (Handles(d) \cup Us \cup Ss) \cap H = {}
    BY <2>2, <1>5, <1>7, <1>13
  <2>7. Owned(ss, d, registrations, scratch.h, H)
    BY <2>2, <2>6, <1>5, <1>12 DEF Owned
  <2>8. Len(d) <= cap /\ Len(ss) <= n + 1
    BY SMT, <2>2, <1>1, <1>2, <1>5, <1>14
  <2> QED
    BY <2>4, <2>5, <2>7, <2>8, <1>2, <1>6, <1>11 DEF StageOk
<1>15. CASE Len(c) >= cap
  <2>1. c # <<>>
    BY SMT, <1>15, <1>1, <1>2
  <2>2. PICK t, g : t = Tail(c) /\ g = Head(c).h
    OBVIOUS
  <2>3. /\ t \in Seq(Entry) /\ Distinct(t) /\ Len(t) = Len(c) - 1
        /\ Handles(t) = Handles(c) \ {g} /\ g \in Handles(c)
    BY <2>1, <2>2, <1>1, <1>2, CacheTail
  <2>4. PICK d : d = Append(t, e)
    OBVIOUS
  <2>5. /\ d \in Seq(Entry) /\ Distinct(d) /\ Len(d) = Len(t) + 1
        /\ Handles(d) = Handles(t) \cup {h}
    BY <2>3, <2>4, <1>7, <1>9, <1>13, CacheAppend
  <2>6. PICK rt : rt = deregMr(ss, g)
    OBVIOUS
  <2>7. /\ rt \in Seq(Region) /\ Distinct(rt) /\ Len(rt) <= Len(ss)
        /\ Handles(rt) = Handles(ss) \ {g}
    BY <2>6, <1>5, DropOk DEF deregMr
  <2>8. PICK q : q = [p EXCEPT !.cache = d, !.regions = rt]
    OBVIOUS
  <2>9. q \in Stage /\ q.regions = rt /\ q.cache = d /\ q.handles = H
    BY <2>5, <2>7, <2>8, <1>11 DEF Stage
  <2>10. mrCachePut(p, b, h) = q
    BY <2>2, <2>4, <2>6, <2>8, <1>8, <1>11, <1>15, <1>2 DEF mrCachePut, Stage
  <2>11. /\ Handles(rt) = Handles(d) \cup Us \cup Ss \cup H
         /\ Handles(d) \cap Us = {} /\ (Handles(d) \cup Us) \cap Ss = {}
         /\ (Handles(d) \cup Us \cup Ss) \cap H = {}
    BY SMT, <2>3, <2>5, <2>7, <1>5, <1>7, <1>13
  <2>12. Owned(rt, d, registrations, scratch.h, H)
    BY <2>5, <2>7, <2>11, <1>12 DEF Owned
  <2>13. Len(d) <= cap /\ Len(rt) <= n + 1
    BY SMT, <2>3, <2>5, <2>7, <1>1, <1>2, <1>5
  <2>14. Pinned(rt, registrations, scratch.h)
    BY <2>6, <1>5, <1>6, PinnedDrop DEF deregMr
  <2> QED
    BY <2>9, <2>10, <2>12, <2>13, <2>14, <1>2, <1>11 DEF StageOk
<1> QED
  BY <1>14, <1>15

LEMMA AddOk ==
  ASSUME cap \in Nat, NEW st, NEW n \in Nat, StageOk(st, n), n <= MaxRegions,
         NEW b \in Ranges
  PROVE  StageOk(add(st, b), n + 1)
<1>1. /\ st \in Stage /\ st.regions \in Seq(Region) /\ Distinct(st.regions)
      /\ Len(st.regions) \in Nat /\ Len(st.regions) <= n /\ MaxRegions \in Nat
  BY SMT, Known, BoundsAssumption DEF StageOk
<1>2. StageOk(st, n + 1)
  BY SMT, <1>1 DEF StageOk
<1>3. CASE covers(st.regions, b)
  BY <1>2, <1>3 DEF add
<1>4. CASE ~covers(st.regions, b) /\ cap > 0 /\ mrCacheGet(st, b) # 0
  <2>1. mrCacheGet(st, b) \in DOMAIN st.cache
    BY <1>4 DEF mrCacheGet
  <2>2. StageOk(Restamp(st, mrCacheGet(st, b)), n + 1)
    BY <2>1, <1>2, RestampOk
  <2> QED
    BY <2>2, <1>4 DEF add
<1>5. CASE ~covers(st.regions, b) /\ cap > 0 /\ mrCacheGet(st, b) = 0
  <2>1. StageOk(mrCachePut([st EXCEPT !.regions = regMr(@, b, FALSE)], b,
                           FreshHandle(st.regions)), n + 1)
    BY <1>5, PutOk
  <2> QED
    BY <2>1, <1>5 DEF add
<1>6. CASE ~covers(st.regions, b) /\ ~(cap > 0)
  <2>1. PICK rs, h, H : rs = st.regions /\ h = FreshHandle(rs) /\ H = st.handles
    OBVIOUS
  <2>2. PICK ss : ss = regMr(rs, b, FALSE)
    OBVIOUS
  <2>3. b \in AnyRange /\ FALSE \in BOOLEAN /\ Len(rs) <= MaxRegions
    BY SMT, <2>1, <1>1 DEF AnyRange
  <2>4. /\ ss \in Seq(Region) /\ Distinct(ss) /\ Len(ss) = Len(rs) + 1
        /\ Handles(ss) = Handles(rs) \cup {h}
    BY <2>1, <2>2, <2>3, <1>1, RegOk
  <2>5. Pinned(ss, registrations, scratch.h)
    <3>1. (\A u \in registrations : u.h \in Handles(rs)) /\ scratch.h \in Handles(rs) \cup {0}
          /\ Pinned(rs, registrations, scratch.h)
      BY <2>1, Known DEF StageOk
    <3> QED
      BY <3>1, <2>1, <2>2, <2>3, <1>1, PinnedReg
  <2>6. h \in Handle /\ h \notin Handles(rs)
    BY <2>1, <2>3, <1>1, FreshOk
  <2>7. PICK q : q = [st EXCEPT !.regions = ss, !.handles = H \cup {h}]
    OBVIOUS
  <2>8. q \in Stage /\ q.regions = ss /\ q.cache = st.cache /\ q.handles = H \cup {h}
    BY <2>1, <2>4, <2>6, <2>7, <1>1 DEF Stage
  <2>9. add(st, b) = q
    BY <2>1, <2>2, <2>7, <1>1, <1>6 DEF add, Stage
  <2>10. PICK Us, Ss, c : Us = {x.h : x \in registrations} /\ Ss = {scratch.h} \ {0}
                          /\ c = st.cache
    OBVIOUS
  <2>11. /\ Handles(rs) = Handles(c) \cup Us \cup Ss \cup H
         /\ Handles(c) \cap Us = {} /\ (Handles(c) \cup Us) \cap Ss = {}
         /\ (Handles(c) \cup Us \cup Ss) \cap H = {}
         /\ c \in Seq(Entry) /\ Distinct(c)
    BY <2>1, <2>10 DEF StageOk, Owned
  <2>12. /\ Handles(ss) = Handles(c) \cup Us \cup Ss \cup (H \cup {h})
         /\ (Handles(c) \cup Us \cup Ss) \cap (H \cup {h}) = {}
    BY <2>4, <2>6, <2>11
  <2>13. Owned(ss, c, registrations, scratch.h, H \cup {h})
    BY <2>4, <2>10, <2>11, <2>12 DEF Owned
  <2>14. Len(ss) <= n + 1 /\ Len(c) <= cap
    BY SMT, <2>1, <2>4, <2>10, <1>1 DEF StageOk
  <2> QED
    BY <2>5, <2>8, <2>9, <2>10, <2>13, <2>14 DEF StageOk
<1> QED
  BY <1>1, <1>3, <1>4, <1>5, <1>6

\* The scratch gets a new region or loses its own.
ScratchOk(rs, s, c, H, n) ==
  /\ s = [size |-> s.size, h |-> s.h] /\ s.h \in Handle \cup {0} /\ s.size \in Nat
  /\ Owned(rs, c, registrations, s.h, H) /\ Pinned(rs, registrations, s.h)
  /\ Len(rs) <= n

LEMMA GrowOk ==
  ASSUME NEW rs, NEW s, NEW c, NEW H, NEW n \in Nat, ScratchOk(rs, s, c, H, n),
         n <= MaxRegions, NEW size \in Nat, NEW ok \in BOOLEAN
  PROVE  ScratchOk(scratchAt(rs, s, size, ok).regions,
                   scratchAt(rs, s, size, ok).scratch, c, H, n + 1)
<1>1. /\ rs \in Seq(Region) /\ Distinct(rs) /\ Len(rs) \in Nat /\ Len(rs) <= n
      /\ s.h \in Handle \cup {0} /\ Pinned(rs, registrations, s.h) /\ MaxRegions \in Nat
      /\ c \in Seq(Entry) /\ Distinct(c)
  BY SMT, Known, BoundsAssumption DEF ScratchOk
<1>2. CASE size <= s.size
  <2>1. ScratchOk(rs, s, c, H, n + 1)
    BY SMT, <1>1 DEF ScratchOk
  <2>2. scratchAt(rs, s, size, ok) = [regions |-> rs, scratch |-> s]
    BY <1>2 DEF scratchAt
  <2> QED
    BY SMT, <2>1, <2>2
<1>3. CASE ~(size <= s.size)
  <2>1. PICK old : old = deregMr(rs, s.h)
    OBVIOUS
  <2>2. /\ old \in Seq(Region) /\ Distinct(old) /\ Len(old) <= Len(rs)
        /\ Handles(old) = Handles(rs) \ {s.h} /\ Len(old) \in Nat
    BY SMT, <2>1, <1>1, DropOk DEF deregMr
  <2>3. Pinned(old, registrations, s.h)
    BY <2>1, <1>1, PinnedDrop DEF deregMr
  <2>4. PICK Us, Cs : Us = {x.h : x \in registrations} /\ Cs = Handles(c)
    OBVIOUS
  <2>5. /\ Handles(rs) = Cs \cup Us \cup ({s.h} \ {0}) \cup H
        /\ Cs \cap Us = {} /\ (Cs \cup Us) \cap ({s.h} \ {0}) = {}
        /\ (Cs \cup Us \cup ({s.h} \ {0})) \cap H = {}
    BY <2>4 DEF ScratchOk, Owned
  <2>6. 0 \notin Handles(rs)
    <3>1. \A i \in DOMAIN rs : rs[i] \in Region
      BY SMT, <1>1
    <3> QED
      BY <3>1, RegionTypes DEF Handles
  <2>7. Handles(old) = Cs \cup Us \cup H /\ (Cs \cup Us) \cap H = {}
    BY <2>2, <2>5, <2>6
  <2>8. \A i \in DOMAIN old : old[i].h # s.h
    BY <2>2 DEF Handles
  <2>9. Pinned(old, registrations, 0)
    <3>1. \A i \in DOMAIN old : old[i].h # 0
      BY <2>6, <2>2 DEF Handles
    <3> QED
      BY <3>1, <2>3 DEF Pinned, Pins
  <2>10. CASE ok
    <3>1. PICK h, ss : h = FreshHandle(old) /\ ss = regMr(old, ScratchRange, FALSE)
      OBVIOUS
    <3>2. ScratchRange \in AnyRange /\ FALSE \in BOOLEAN /\ Len(old) <= MaxRegions
      BY SMT, <2>2, <1>1 DEF AnyRange
    <3>3. /\ ss \in Seq(Region) /\ Distinct(ss) /\ Len(ss) = Len(old) + 1
          /\ Handles(ss) = Handles(old) \cup {h}
      BY <3>1, <3>2, <2>2, RegOk
    <3>4. h \in Handle /\ h \notin Handles(old) /\ h # 0
      BY SMT, <3>1, <3>2, <2>2, FreshOk, BoundsAssumption DEF Handle
    <3>5. PICK x : x = [h |-> h, range |-> ScratchRange, fresh |-> TRUE, staging |-> FALSE]
      OBVIOUS
    <3>6. \A i \in DOMAIN ss : (i \in DOMAIN old /\ ss[i] = old[i]) \/ ss[i] = x
      BY <3>1, <3>2, <3>5, <2>2, RegOk
    <3>7. Pins(x, registrations, h)
      <4>1. \A u \in registrations : u.h \in Handles(old)
        BY <2>4, <2>7
      <4> QED
        BY <4>1, <3>4, <3>5 DEF Pins
    <3>8. \A i \in DOMAIN old : Pins(old[i], registrations, h)
      <4>1. \A i \in DOMAIN old : old[i].h # h
        BY <3>4 DEF Handles
      <4> QED
        BY <4>1, <2>9 DEF Pinned, Pins
    <3>9. Pinned(ss, registrations, h)
      BY <3>6, <3>7, <3>8 DEF Pinned
    <3>10. Owned(ss, c, registrations, h, H)
      <4>1. /\ Handles(ss) = Cs \cup Us \cup ({h} \ {0}) \cup H
            /\ (Cs \cup Us) \cap ({h} \ {0}) = {}
            /\ (Cs \cup Us \cup ({h} \ {0})) \cap H = {}
        BY <3>3, <3>4, <2>7
      <4> QED
        BY <4>1, <3>3, <2>4, <2>5, <1>1 DEF Owned
    <3>11. PICK s2 : s2 = [size |-> size, h |-> h]
      OBVIOUS
    <3>12. s2.h = h /\ s2.size = size /\ s2 = [size |-> s2.size, h |-> s2.h]
      BY <3>11
    <3>13. scratchAt(rs, s, size, ok) = [regions |-> ss, scratch |-> s2]
      BY <3>1, <3>11, <2>1, <2>10, <1>3 DEF scratchAt, ScratchRange
    <3>14. Len(ss) <= n + 1
      BY SMT, <3>3, <2>2, <1>1
    <3>15. ScratchOk(ss, s2, c, H, n + 1)
      BY <3>4, <3>9, <3>10, <3>12, <3>14 DEF ScratchOk
    <3> QED
      BY SMT, <3>13, <3>15
  <2>11. CASE ~ok
    <3>1. PICK s2 : s2 = [size |-> size, h |-> 0]
      OBVIOUS
    <3>2. s2.h = 0 /\ s2.size = size /\ s2 = [size |-> s2.size, h |-> s2.h]
      BY <3>1
    <3>3. Owned(old, c, registrations, 0, H)
      <4>1. /\ Handles(old) = Cs \cup Us \cup ({0} \ {0}) \cup H
            /\ (Cs \cup Us) \cap ({0} \ {0}) = {}
            /\ (Cs \cup Us \cup ({0} \ {0})) \cap H = {}
        BY <2>7
      <4> QED
        BY <4>1, <2>2, <2>4, <2>5, <1>1 DEF Owned
    <3>4. scratchAt(rs, s, size, ok) = [regions |-> old, scratch |-> s2]
      BY <3>1, <2>1, <2>11, <1>3 DEF scratchAt
    <3>5. ScratchOk(old, s2, c, H, n + 1)
      BY SMT, <3>2, <3>3, <2>2, <2>9, <1>1 DEF ScratchOk
    <3> QED
      BY SMT, <3>4, <3>5
  <2> QED
    BY <2>10, <2>11
<1> QED
  BY <1>2, <1>3

\* ~ScopedReg takes what the collective held.
LEMMA ReleaseOk ==
  ASSUME NEW rs, NEW s, NEW c, NEW H, NEW n, ScratchOk(rs, s, c, H, n)
  PROVE  Owned(Drop(rs, H), c, registrations, s.h, {})
         /\ Pinned(Drop(rs, H), registrations, s.h)
<1>1. rs \in Seq(Region) /\ Distinct(rs) /\ Pinned(rs, registrations, s.h)
  BY Known DEF ScratchOk
<1>2. PICK ss : ss = Drop(rs, H)
  OBVIOUS
<1>3. ss \in Seq(Region) /\ Distinct(ss) /\ Handles(ss) = Handles(rs) \ H
  BY <1>1, <1>2, DropOk
<1>4. Owned(ss, c, registrations, s.h, {})
  BY <1>3 DEF ScratchOk, Owned
<1>5. Pinned(ss, registrations, s.h)
  BY <1>1, <1>2, PinnedDrop
<1> QED
  BY <1>2, <1>4, <1>5

\* Fresh regions resolve to fresh memory.
LEMMA ResolveOk ==
  ASSUME NEW rs \in Seq(Region), \A i \in DOMAIN rs : rs[i].fresh, NEW b
  PROVE  resolve(rs, b) # "stale"
<1>1. CASE ~covers(rs, b)
  BY <1>1 DEF resolve
<1>2. CASE covers(rs, b)
  <2> DEFINE T == {i \in DOMAIN rs : Inside(b, rs[i].range)}
  <2>1. DOMAIN rs = 1 .. Len(rs) /\ Len(rs) \in Nat
    BY SMT
  <2>2. T \in SUBSET Nat /\ T # {}
    BY SMT, <2>1, <1>2 DEF covers
  <2>3. PICK k \in T : \A j \in T : k <= j
    BY <2>2, Least
  <2>4. k \in DOMAIN rs /\ Inside(b, rs[k].range)
    BY <2>3
  <2>5. \A j \in 1 .. k - 1 : ~Inside(b, rs[j].range)
    <3> SUFFICES ASSUME NEW j \in 1 .. k - 1, Inside(b, rs[j].range) PROVE FALSE
      OBVIOUS
    <3>1. j \in T /\ ~(k <= j)
      BY SMT, <2>1, <2>4
    <3> QED
      BY <3>1, <2>3
  <2> HIDE DEF T
  <2> DEFINE First(i) == Inside(b, rs[i].range) /\ \A j \in 1 .. i - 1 : ~Inside(b, rs[j].range)
             i == CHOOSE i \in DOMAIN rs : First(i)
  <2>6. \E i0 \in DOMAIN rs : First(i0)
    BY <2>4, <2>5
  <2>7. i \in DOMAIN rs
    <3> HIDE DEF First
    <3> QED
      BY <2>6
  <2>8. resolve(rs, b) = IF rs[i].fresh THEN "fresh" ELSE "stale"
    BY <1>2 DEF resolve
  <2> HIDE DEF i
  <2> QED
    BY <2>7, <2>8
<1> QED
  BY <1>1, <1>2

TryAdd(st, b, refused) ==
  IF st.failed \/ (~covers(st.regions, b) /\ (b = refused \/ ~Pinnable(b)))
  THEN [st EXCEPT !.failed = TRUE] ELSE add(st, b)

LEMMA TryOk ==
  ASSUME cap \in Nat, NEW st, NEW n \in Nat, StageOk(st, n), n <= MaxRegions,
         NEW b \in Ranges, NEW refused
  PROVE  StageOk(TryAdd(st, b, refused), n + 1)
<1>1. CASE st.failed \/ (~covers(st.regions, b) /\ (b = refused \/ ~Pinnable(b)))
  <2>1. PICK t : t = [st EXCEPT !.failed = TRUE]
    OBVIOUS
  <2>2. t \in Stage /\ t.regions = st.regions /\ t.cache = st.cache /\ t.handles = st.handles
    BY <2>1 DEF StageOk, Stage
  <2>3. Len(st.regions) \in Nat
    BY SMT DEF StageOk, Stage
  <2>4. StageOk(t, n + 1)
    BY SMT, <2>2, <2>3 DEF StageOk
  <2> QED
    BY <2>1, <2>4, <1>1 DEF TryAdd
<1>2. CASE ~(st.failed \/ (~covers(st.regions, b) /\ (b = refused \/ ~Pinnable(b))))
  <2>1. TryAdd(st, b, refused) = add(st, b)
    BY <1>2 DEF TryAdd
  <2> QED
    BY <2>1, AddOk
<1> QED
  BY <1>1, <1>2

Both(rs, c, b1, b2, refused) ==
  LET start == [regions |-> rs, cache |-> c, handles |-> {}, failed |-> FALSE]
  IN  TryAdd(TryAdd(start, b1, refused), b2, refused)

Grown(st, size, ok) ==
  IF st.failed THEN [regions |-> st.regions, scratch |-> scratch]
  ELSE scratchAt(st.regions, scratch, size, ok)

WithGrown(st, g) == [st EXCEPT !.regions = g.regions]

\* The action in the terms above.
LEMMA CollectiveParts ==
  ASSUME NEW sendbuff, NEW recvbuff, NEW size, NEW ok, NEW refused,
         Collective(sendbuff, recvbuff, size, ok, refused),
         NEW st, st = Both(regions_, mrCache, sendbuff, recvbuff, refused),
         NEW g, g = Grown(st, size, ok), NEW used, used = WithGrown(st, g)
  PROVE  /\ last' = IF st.failed THEN {}
                    ELSE {resolve(used.regions, b) : b \in {sendbuff, recvbuff}}
         /\ regions_' = Release(used).regions
         /\ mrCache' = used.cache
         /\ scratch' = g.scratch
<1> DEFINE S == Both(regions_, mrCache, sendbuff, recvbuff, refused)
           G == Grown(S, size, ok)
           U == WithGrown(S, G)
<1>1. last' = IF S.failed THEN {} ELSE {resolve(U.regions, b) : b \in {sendbuff, recvbuff}}
  BY DEF Collective, Both, TryAdd, Grown, WithGrown
<1>2. regions_' = Release(U).regions
  BY DEF Collective, Both, TryAdd, Grown, WithGrown
<1>3. mrCache' = U.cache
  BY DEF Collective, Both, TryAdd, Grown, WithGrown
<1>4. scratch' = G.scratch
  BY DEF Collective, Both, TryAdd, Grown, WithGrown
<1> HIDE DEF S, G, U
<1>5. S = st /\ G = g /\ U = used
  BY DEF S, G, U
<1> QED
  BY <1>1, <1>2, <1>3, <1>4, <1>5

LEMMA CollectiveInv ==
  ASSUME Inv, NEW sendbuff \in Ranges, NEW recvbuff \in Ranges, NEW size \in Nat,
         NEW ok \in BOOLEAN, NEW refused,
         Collective(sendbuff, recvbuff, size, ok, refused)
  PROVE  Inv'
<1>1. PICK n \in Nat : n = Len(regions_)
  BY SMT, Known DEF Inv
<1>2. /\ n + 3 <= MaxRegions /\ MaxRegions \in Nat /\ cap \in Nat
      /\ UNCHANGED <<cap, mapped, dmabuf, registrations, alive>>
  BY <1>1, BoundsAssumption DEF Collective, Inv
<1>3. PICK start : start = [regions |-> regions_, cache |-> mrCache, handles |-> {},
                            failed |-> FALSE]
  OBVIOUS
<1>4. StageOk(start, n)
  <2>1. /\ start.regions = regions_ /\ start.cache = mrCache /\ start.handles = {}
        /\ start.failed = FALSE
    BY <1>3
  <2>2. regions_ \in Seq(Region) /\ mrCache \in Seq(Entry)
    BY Known DEF Inv
  <2>3. start \in Stage
    BY <2>2, <1>3 DEF Stage
  <2> QED
    BY SMT, <2>1, <2>3, <1>1 DEF StageOk, Inv, CacheBounded
<1>5. PICK st1 : st1 = TryAdd(start, sendbuff, refused)
  OBVIOUS
<1>6. StageOk(st1, n + 1)
  BY SMT, <1>2, <1>4, <1>5, TryOk
<1>7. PICK st : st = TryAdd(st1, recvbuff, refused)
  OBVIOUS
<1>8. StageOk(st, (n + 1) + 1)
  BY SMT, <1>2, <1>6, <1>7, TryOk
<1>9. PICK m \in Nat : m = (n + 1) + 1 /\ m <= MaxRegions
  BY SMT, <1>2
<1>10. PICK g : g = IF st.failed THEN [regions |-> st.regions, scratch |-> scratch]
                    ELSE scratchAt(st.regions, scratch, size, ok)
  OBVIOUS
<1>11. PICK used : used = [st EXCEPT !.regions = g.regions]
  OBVIOUS
<1>12. /\ last' = IF st.failed THEN {}
                  ELSE {resolve(used.regions, b) : b \in {sendbuff, recvbuff}}
       /\ regions_' = Release(used).regions
       /\ mrCache' = used.cache
       /\ scratch' = g.scratch
  <2>1. st = Both(regions_, mrCache, sendbuff, recvbuff, refused)
    BY <1>3, <1>5, <1>7 DEF Both
  <2>2. g = Grown(st, size, ok) /\ used = WithGrown(st, g)
    BY <1>10, <1>11 DEF Grown, WithGrown
  <2> QED
    BY SMT, <2>1, <2>2, CollectiveParts
<1>13. ScratchOk(st.regions, scratch, st.cache, st.handles, m)
  BY <1>8, <1>9 DEF StageOk, ScratchOk, Inv
<1>14. ScratchOk(g.regions, g.scratch, st.cache, st.handles, m + 1)
  <2>1. CASE st.failed
    <3>1. g.regions = st.regions /\ g.scratch = scratch
      BY <2>1, <1>10
    <3>2. Len(st.regions) \in Nat
      BY SMT, <1>8 DEF StageOk, Stage
    <3> QED
      BY SMT, <3>1, <3>2, <1>9, <1>13 DEF ScratchOk
  <2>2. CASE ~st.failed
    BY <2>2, <1>9, <1>10, <1>13, GrowOk
  <2> QED
    BY <2>1, <2>2
<1>15. PICK rs, s, c, H : rs = g.regions /\ s = g.scratch /\ c = st.cache /\ H = st.handles
  OBVIOUS
<1>16. ScratchOk(rs, s, c, H, m + 1) /\ rs \in Seq(Region)
  BY <1>14, <1>15, Known DEF ScratchOk
<1>17. used.regions = rs /\ used.cache = c /\ used.handles = H /\ used \in Stage
  BY <1>8, <1>11, <1>15, <1>16 DEF StageOk, Stage
<1>18. regions_' = Drop(rs, H)
  BY <1>12, <1>17 DEF Release, Stage
<1>19. Owned(regions_', c, registrations, s.h, {}) /\ Pinned(regions_', registrations, s.h)
  BY <1>16, <1>18, ReleaseOk
<1>20. Len(c) <= cap
  BY <1>8, <1>15 DEF StageOk
<1>21. mrCache' = c /\ scratch' = s
  BY <1>12, <1>15, <1>17
<1>22. NeverStale' \/ FreeAny
  <2> SUFFICES ASSUME ~FreeAny PROVE "stale" \notin last'
    BY DEF NeverStale
  <2>1. \A i \in DOMAIN rs : rs[i].fresh
    BY <1>16 DEF ScratchOk, Pinned, Pins
  <2>2. resolve(rs, sendbuff) # "stale" /\ resolve(rs, recvbuff) # "stale"
    BY <2>1, <1>16, ResolveOk
  <2>3. last' \subseteq {resolve(rs, sendbuff), resolve(rs, recvbuff)}
    BY <1>12, <1>17
  <2> QED
    BY <2>2, <2>3
<1>23. Users' /\ Memory'
  BY <1>2 DEF Inv, Users, Memory, Usable
<1>24. /\ s.h \in Handle \cup {0} /\ s.size \in Nat /\ s = [size |-> s.size, h |-> s.h]
  BY <1>16 DEF ScratchOk
<1> QED
  BY <1>2, <1>19, <1>20, <1>21, <1>22, <1>23, <1>24 DEF Inv, CacheBounded

----------------------------------------------------------------------------
(* A user registration is made and taken back.                             *)

Adds(b, staging, x, us, ss) ==
  /\ Len(regions_) < MaxRegions /\ x = [h |-> FreshHandle(regions_), range |-> b]
  /\ us = registrations \cup {x} /\ ss = regMr(regions_, b, staging)

Added(b, x, us, ss) ==
  /\ us \subseteq [h : Handle, range : Blocks] /\ IsFiniteSet(us)
  /\ \A y, z \in us : y.h = z.h => y = z
  /\ x \notin registrations /\ x.range = b
  /\ Owned(ss, mrCache, us, scratch.h, {}) /\ Pinned(ss, us, scratch.h)

LEMMA UserOk ==
  ASSUME Inv, NEW b \in Blocks, NEW staging \in BOOLEAN, NEW x, NEW us, NEW ss,
         Adds(b, staging, x, us, ss)
  PROVE  Added(b, x, us, ss)
<1> SUFFICES ASSUME Len(regions_) < MaxRegions,
                    x = [h |-> FreshHandle(regions_), range |-> b],
                    us = registrations \cup {x}, ss = regMr(regions_, b, staging)
             PROVE  /\ us \subseteq [h : Handle, range : Blocks] /\ IsFiniteSet(us)
                    /\ \A y, z \in us : y.h = z.h => y = z
                    /\ x \notin registrations /\ x.range = b
                    /\ Owned(ss, mrCache, us, scratch.h, {}) /\ Pinned(ss, us, scratch.h)
  BY DEF Adds, Added
<1>1. /\ regions_ \in Seq(Region) /\ Distinct(regions_) /\ Len(regions_) <= MaxRegions
      /\ mrCache \in Seq(Entry) /\ Distinct(mrCache)
      /\ \A u \in registrations : u.h \in Handles(regions_)
      /\ scratch.h \in Handles(regions_) \cup {0}
      /\ Handles(mrCache) \subseteq Handles(regions_)
  <2>1. Len(regions_) \in Nat /\ MaxRegions \in Nat
    BY SMT, Known, BoundsAssumption DEF Inv
  <2> QED
    BY SMT, <2>1, Known DEF Inv
<1>2. PICK h : h = FreshHandle(regions_)
  OBVIOUS
<1>3. h \in Handle /\ h \notin Handles(regions_) /\ h # 0
  BY SMT, <1>1, <1>2, FreshOk, BoundsAssumption DEF Handle
<1>4. x.h = h /\ x.range = b /\ x \in [h : Handle, range : Blocks]
  BY <1>2, <1>3
<1>5. x \notin registrations
  BY <1>1, <1>3, <1>4
<1>6. us \subseteq [h : Handle, range : Blocks] /\ IsFiniteSet(us)
  BY <1>4, FS_AddElement DEF Inv, Users
<1>7. \A y, z \in us : y.h = z.h => y = z
  BY <1>1, <1>3, <1>4 DEF Inv, Users
<1>8. b \in AnyRange
  BY DEF AnyRange
<1>9. /\ ss \in Seq(Region) /\ Distinct(ss) /\ Handles(ss) = Handles(regions_) \cup {h}
      /\ \A i \in DOMAIN ss : ss[i].h = h => ss[i].range = b
      /\ Pinned(ss, registrations, scratch.h)
  <2>1. Pinned(ss, registrations, scratch.h)
    BY <1>1, <1>8, PinnedReg DEF Inv
  <2>2. /\ regMr(regions_, b, staging) \in Seq(Region)
        /\ Distinct(regMr(regions_, b, staging))
        /\ Handles(regMr(regions_, b, staging)) = Handles(regions_) \cup {FreshHandle(regions_)}
    BY <1>1, <1>8, RegOk
  <2>3. \A i \in DOMAIN ss : ss[i].h = h => ss[i].range = b
    <3>1. \A i \in DOMAIN regMr(regions_, b, staging) :
            \/ /\ regMr(regions_, b, staging)[i].h = FreshHandle(regions_)
               /\ regMr(regions_, b, staging)[i].range = b
            \/ regMr(regions_, b, staging)[i].h \in Handles(regions_)
      <4>1. PICK n \in Nat : n = Len(regions_)
        BY SMT, <1>1
      <4> QED
        BY SMT, <1>1, <1>8, RegOk DEF Handles
    <3> QED
      BY <3>1, <1>2, <1>3
  <2> QED
    BY <2>1, <2>2, <2>3, <1>2
<1>10. {y.h : y \in us} = {y.h : y \in registrations} \cup {h}
  BY <1>4
<1>11. Owned(ss, mrCache, us, scratch.h, {})
  <2>1. /\ Handles(regions_) = Handles(mrCache) \cup {y.h : y \in registrations}
                               \cup ({scratch.h} \ {0})
        /\ Handles(mrCache) \cap {y.h : y \in registrations} = {}
        /\ (Handles(mrCache) \cup {y.h : y \in registrations}) \cap ({scratch.h} \ {0}) = {}
    BY DEF Inv, Owned
  <2>2. PICK R, C, U, S, D : /\ R = Handles(regions_) /\ C = Handles(mrCache)
                             /\ U = {y.h : y \in registrations} /\ S = {scratch.h} \ {0}
                             /\ D = {y.h : y \in us}
    OBVIOUS
  <2>3. h \notin R /\ Handles(ss) = R \cup {h} /\ D = U \cup {h}
    BY <2>2, <1>3, <1>9, <1>10
  <2>4. R = C \cup U \cup S /\ C \cap U = {} /\ (C \cup U) \cap S = {}
    BY <2>1, <2>2
  <2>5. Handles(ss) = C \cup D \cup S /\ C \cap D = {} /\ (C \cup D) \cap S = {}
    BY <2>3, <2>4
  <2> QED
    BY <2>2, <2>5, <1>1, <1>9 DEF Owned
<1>12. Pinned(ss, us, scratch.h)
  BY SMT, <1>4, <1>9 DEF Pinned, Pins
<1> QED
  BY <1>4, <1>5, <1>6, <1>7, <1>11, <1>12

LEMMA RegisterInv ==
  ASSUME Inv, NEW b \in Blocks, vcclCommRegister(b)
  PROVE  Inv'
<1>1. /\ Len(regions_) < MaxRegions /\ Usable(b) /\ Pinnable(b) /\ last' = {}
      /\ regions_' = regMr(regions_, b, FALSE)
      /\ registrations' = registrations \cup {[h |-> FreshHandle(regions_), range |-> b]}
      /\ UNCHANGED <<cap, mapped, dmabuf, mrCache, scratch, alive>>
  BY DEF vcclCommRegister
<1>2. PICK x : x = [h |-> FreshHandle(regions_), range |-> b]
  OBVIOUS
<1>3. registrations' = registrations \cup {x}
  BY <1>1, <1>2
<1>4. /\ registrations' \subseteq [h : Handle, range : Blocks] /\ IsFiniteSet(registrations')
      /\ \A y, z \in registrations' : y.h = z.h => y = z
      /\ x \notin registrations /\ x.range = b
      /\ Owned(regions_', mrCache, registrations', scratch.h, {})
      /\ Pinned(regions_', registrations', scratch.h)
  <2>1. PICK us, ss : us = registrations' /\ ss = regions_'
    OBVIOUS
  <2>0. PICK staging \in BOOLEAN : staging = FALSE
    OBVIOUS
  <2>2. us = registrations \cup {x} /\ ss = regMr(regions_, b, staging)
    BY <2>0, <2>1, <1>1, <1>3
  <2>3. Adds(b, staging, x, us, ss)
    BY <2>2, <1>1, <1>2 DEF Adds
  <2>4. Added(b, x, us, ss)
    BY <2>3, UserOk
  <2> QED
    BY <2>1, <2>4 DEF Added
<1>5. Memory'
  <2>1. \A y \in registrations' : Usable(y.range)'
    <3>1. \A y \in registrations : Usable(y.range)'
      BY <1>1 DEF Inv, Memory, Usable
    <3>2. Usable(b)'
      BY <1>1 DEF Usable
    <3> QED
      BY <3>1, <3>2, <1>3, <1>4
  <2>2. ASSUME NEW y \in registrations', NEW z \in registrations', y # z, y.range \in dmabuf
        PROVE  Pages(y.range) \cap Pages(z.range) = {}
    <3>1. CASE y \in registrations /\ z \in registrations
      BY <2>2, <3>1 DEF Inv, Memory
    <3>2. CASE z = x
      BY <2>2, <3>2, <1>1, <1>4 DEF Pinnable
    <3>3. CASE y = x
      <4>1. Pages(b) \cap Pages(b) = {}
        BY <2>2, <3>3, <1>1, <1>4 DEF Pinnable
      <4>2. b \in Nat \X (Nat \ {0})
        BY MemoryAssumption
      <4>3. b[1] \in Pages(b)
        BY SMT, <4>2 DEF Pages
      <4> QED
        BY <4>1, <4>3
    <3> QED
      BY <1>3, <3>1, <3>2, <3>3
  <2> QED
    BY <2>1, <2>2, <1>1 DEF Inv, Memory
<1> QED
  BY <1>1, <1>4, <1>5 DEF Inv, Users, NeverStale, CacheBounded

LEMMA RegisterDmaBufInv ==
  ASSUME Inv, NEW b \in Blocks, NEW staging \in BOOLEAN, vcclCommRegisterDmaBuf(b, staging)
  PROVE  Inv'
<1>1. /\ Len(regions_) < MaxRegions /\ Unused(b) /\ last' = {}
      /\ mapped' = mapped \cup {b} /\ dmabuf' = dmabuf \cup {b}
      /\ regions_' = regMr(regions_, b, staging)
      /\ registrations' = registrations \cup {[h |-> FreshHandle(regions_), range |-> b]}
      /\ UNCHANGED <<cap, mrCache, scratch, alive>>
  BY DEF vcclCommRegisterDmaBuf
<1>2. PICK x : x = [h |-> FreshHandle(regions_), range |-> b]
  OBVIOUS
<1>3. registrations' = registrations \cup {x}
  BY <1>1, <1>2
<1>4. /\ registrations' \subseteq [h : Handle, range : Blocks] /\ IsFiniteSet(registrations')
      /\ \A y, z \in registrations' : y.h = z.h => y = z
      /\ x \notin registrations /\ x.range = b
      /\ Owned(regions_', mrCache, registrations', scratch.h, {})
      /\ Pinned(regions_', registrations', scratch.h)
  <2>1. PICK us, ss : us = registrations' /\ ss = regions_'
    OBVIOUS
  <2>2. us = registrations \cup {x} /\ ss = regMr(regions_, b, staging)
    BY <2>1, <1>1, <1>3
  <2>3. Adds(b, staging, x, us, ss)
    BY <2>2, <1>1, <1>2 DEF Adds
  <2>4. Added(b, x, us, ss)
    BY <2>3, UserOk
  <2> QED
    BY <2>1, <2>4 DEF Added
<1>5. ASSUME NEW y \in registrations PROVE Pages(y.range) \cap Pages(b) = {}
  <2>1. Pages(y.range) \subseteq UNION {Pages(c) : c \in mapped}
    BY DEF Inv, Memory, Usable
  <2>2. \A c \in mapped : Pages(b) \cap Pages(c) = {}
    BY <1>1 DEF Unused
  <2> QED
    BY SMT, <2>1, <2>2
<1>6. Memory'
  <2>1. \A y \in registrations' : Usable(y.range)'
    <3>1. \A y \in registrations : Usable(y.range)'
      BY <1>1 DEF Inv, Memory, Usable
    <3>2. Usable(b)'
      BY <1>1 DEF Usable
    <3> QED
      BY <3>1, <3>2, <1>3, <1>4
  <2>2. ASSUME NEW y \in registrations', NEW z \in registrations', y # z, y.range \in dmabuf'
        PROVE  Pages(y.range) \cap Pages(z.range) = {}
    <3>1. CASE y \in registrations /\ z \in registrations
      <4>1. CASE y.range \in dmabuf
        BY <2>2, <3>1, <4>1 DEF Inv, Memory
      <4>2. CASE y.range = b
        BY <4>2, <3>1, <1>5
      <4> QED
        BY <4>1, <4>2, <2>2, <1>1
    <3>2. CASE z = x /\ y \in registrations
      BY <3>2, <1>4, <1>5
    <3>3. CASE y = x /\ z \in registrations
      BY <3>3, <1>4, <1>5
    <3> QED
      BY <1>3, <2>2, <3>1, <3>2, <3>3
  <2>3. \A c, d \in mapped' : c # d => Pages(c) \cap Pages(d) = {}
    BY <1>1 DEF Inv, Memory, Unused
  <2>4. mapped' \subseteq Blocks /\ dmabuf' \subseteq mapped'
    BY <1>1 DEF Inv, Memory
  <2> QED
    BY <2>1, <2>2, <2>3, <2>4 DEF Memory
<1> QED
  BY <1>1, <1>4, <1>6 DEF Inv, Users, NeverStale, CacheBounded

LEMMA UnmapOk ==
  ASSUME NEW rs \in Seq(Region), NEW b
  PROVE  /\ Unmap(rs, b) \in Seq(Region) /\ Len(Unmap(rs, b)) = Len(rs)
         /\ DOMAIN Unmap(rs, b) = DOMAIN rs
         /\ \A i \in DOMAIN rs :
              /\ Unmap(rs, b)[i].h = rs[i].h /\ Unmap(rs, b)[i].range = rs[i].range
              /\ Pages(rs[i].range) \cap Pages(b) = {} => Unmap(rs, b)[i].fresh = rs[i].fresh
<1>1. PICK n \in Nat : n = Len(rs)
  BY SMT
<1>2. DOMAIN rs = 1 .. n /\ \A i \in 1 .. n : rs[i] \in Region
  BY SMT, <1>1
<1>3. PICK s : s = Unmap(rs, b)
  OBVIOUS
<1>4. s = [i \in 1 .. n |-> IF Pages(rs[i].range) \cap Pages(b) = {} THEN rs[i]
                            ELSE [rs[i] EXCEPT !.fresh = FALSE]]
  BY <1>2, <1>3 DEF Unmap
<1>5. ASSUME NEW i \in 1 .. n
      PROVE  /\ s[i] \in Region /\ s[i].h = rs[i].h /\ s[i].range = rs[i].range
             /\ Pages(rs[i].range) \cap Pages(b) = {} => s[i].fresh = rs[i].fresh
  <2>1. PICK x \in Region : x = rs[i]
    BY <1>2
  <2>2. s[i] = IF Pages(x.range) \cap Pages(b) = {} THEN x ELSE [x EXCEPT !.fresh = FALSE]
    BY <2>1, <1>4
  <2>3. CASE Pages(x.range) \cap Pages(b) = {}
    BY <2>1, <2>2, <2>3
  <2>4. CASE Pages(x.range) \cap Pages(b) # {}
    <3>1. PICK y : y = [x EXCEPT !.fresh = FALSE]
      OBVIOUS
    <3>2. y \in Region /\ y.h = x.h /\ y.range = x.range
      BY <3>1 DEF Region
    <3> QED
      BY <3>1, <3>2, <2>1, <2>2, <2>4
  <2> QED
    BY <2>3, <2>4
<1>6. DOMAIN s = 1 .. n
  BY <1>4
<1>7. s = [i \in 1 .. n |-> s[i]]
  BY <1>4
<1>8. s \in Seq(Region) /\ Len(s) = n
  BY SMT, <1>5, <1>6, <1>7
<1> QED
  BY <1>1, <1>2, <1>3, <1>5, <1>6, <1>8

LEMMA OwnedUnmap ==
  ASSUME NEW rs, NEW cache, NEW users, NEW sh, Owned(rs, cache, users, sh, {}),
         Pinned(rs, users, sh), NEW b,
         FreeAny \/ \A i \in DOMAIN rs : Pages(rs[i].range) \cap Pages(b) = {}
  PROVE  Owned(Unmap(rs, b), cache, users, sh, {}) /\ Pinned(Unmap(rs, b), users, sh)
<1>1. rs \in Seq(Region) /\ Distinct(rs)
  BY DEF Owned
<1>2. PICK s : s = Unmap(rs, b)
  OBVIOUS
<1>3. /\ s \in Seq(Region) /\ DOMAIN s = DOMAIN rs
      /\ \A i \in DOMAIN rs :
           /\ s[i].h = rs[i].h /\ s[i].range = rs[i].range
           /\ Pages(rs[i].range) \cap Pages(b) = {} => s[i].fresh = rs[i].fresh
  BY SMT, <1>1, <1>2, UnmapOk
<1>4. Distinct(s) /\ Handles(s) = Handles(rs)
  BY SMT, <1>1, <1>3 DEF Distinct, Handles
<1>5. Owned(s, cache, users, sh, {})
  BY <1>3, <1>4 DEF Owned
<1>6. Pinned(s, users, sh)
  BY <1>3 DEF Pinned, Pins
<1> QED
  BY <1>2, <1>5, <1>6

\* The scratch lies outside the pages of the blocks.
LEMMA ScratchApart ==
  ASSUME NEW b \in Blocks
  PROVE  Pages(ScratchRange) \cap Pages(b) = {}
<1>1. b \in Nat \X (Nat \ {0})
  BY MemoryAssumption
<1>2. b[1] \in Nat /\ b[2] \in Nat
  BY <1>1
<1>3. Pages(ScratchRange) = {-1}
  BY SMT DEF ScratchRange, Pages
<1>4. -1 \notin Pages(b)
  BY SMT, <1>2 DEF Pages
<1> QED
  BY <1>3, <1>4

\* What a deregistration leaves: the other users' regions and the scratch.
Kept(rs, us) ==
  /\ Owned(rs, <<>>, us, scratch.h, {}) /\ Pinned(rs, us, scratch.h)
  /\ \A i \in DOMAIN rs : \/ rs[i].range = ScratchRange
                          \/ \E y \in us : rs[i].range = y.range

LEMMA KeptOk ==
  ASSUME Inv, NEW x \in registrations, NEW kept,
         kept = deregMr(Without(regions_, mrCache), x.h)
  PROVE  Kept(kept, registrations \ {x})
<1>1. /\ regions_ \in Seq(Region) /\ Distinct(regions_)
      /\ Pinned(regions_, registrations, scratch.h)
      /\ Handles(regions_) = Handles(mrCache) \cup {y.h : y \in registrations}
                             \cup ({scratch.h} \ {0})
      /\ Handles(mrCache) \cap {y.h : y \in registrations} = {}
      /\ (Handles(mrCache) \cup {y.h : y \in registrations}) \cap ({scratch.h} \ {0}) = {}
      /\ \A y, z \in registrations : y.h = z.h => y = z
      /\ registrations \subseteq [h : Handle, range : Blocks]
  BY DEF Inv, Owned, Users
<1>2. PICK flushed : flushed = Without(regions_, mrCache)
  OBVIOUS
<1>3. flushed = Drop(regions_, Handles(mrCache))
  BY <1>2 DEF Without, Handles
<1>4. /\ flushed \in Seq(Region) /\ Distinct(flushed)
      /\ Handles(flushed) = Handles(regions_) \ Handles(mrCache)
      /\ Pinned(flushed, registrations, scratch.h)
  BY <1>1, <1>3, DropOk, PinnedDrop
<1>5. kept = Drop(flushed, {x.h})
  BY <1>2 DEF deregMr
<1>6. /\ kept \in Seq(Region) /\ Distinct(kept) /\ Handles(kept) = Handles(flushed) \ {x.h}
      /\ Pinned(kept, registrations, scratch.h)
  BY SMT, <1>4, <1>5, DropOk, PinnedDrop
<1>7. {y.h : y \in registrations \ {x}} = {y.h : y \in registrations} \ {x.h}
  BY <1>1
<1>8. Handles(kept) = {y.h : y \in registrations \ {x}} \cup ({scratch.h} \ {0})
  BY SMT, <1>1, <1>4, <1>6, <1>7
<1>9. PICK none : none = <<>>
  OBVIOUS
<1>10. none \in Seq(Entry) /\ Distinct(none) /\ Handles(none) = {}
  BY SMT, <1>9 DEF Distinct, Handles
<1>11. Owned(kept, none, registrations \ {x}, scratch.h, {})
  BY <1>1, <1>6, <1>7, <1>8, <1>10 DEF Owned
<1>12. Pinned(kept, registrations \ {x}, scratch.h)
  BY <1>6 DEF Pinned, Pins
<1>13. ASSUME NEW i \in DOMAIN kept
       PROVE  \/ kept[i].range = ScratchRange
              \/ \E y \in registrations \ {x} : kept[i].range = y.range
  <2>1. kept[i].h \in Handles(kept)
    BY DEF Handles
  <2> QED
    BY <2>1, <1>8, <1>12 DEF Pinned, Pins
<1> QED
  BY <1>9, <1>11, <1>12, <1>13 DEF Kept

\* Memory apart from a block that goes stays usable.
LEMMA UsableApart ==
  ASSUME NEW b, NEW r, Usable(r), Pages(r) \cap Pages(b) = {}
  PROVE  Pages(r) \subseteq UNION {Pages(c) : c \in mapped \ {b}}
<1>1. Pages(r) \subseteq UNION {Pages(c) : c \in mapped}
  BY DEF Usable
<1> QED
  BY <1>1

LEMMA DeregisterInv ==
  ASSUME Inv, NEW x \in registrations, NEW free \in BOOLEAN, vcclCommDeregister(x, free)
  PROVE  Inv'
<1> DEFINE gone == IF free \/ x.range \in dmabuf THEN {x.range} ELSE {}
<1>1. PICK kept : kept = deregMr(Without(regions_, mrCache), x.h)
  OBVIOUS
<1>2. /\ free => x.range \in mapped /\ \A y \in registrations \ {x} :
                                         Pages(x.range) \cap Pages(y.range) = {}
      /\ mrCache' = <<>> /\ registrations' = registrations \ {x}
      /\ regions_' = IF gone = {} THEN kept ELSE Unmap(kept, x.range)
      /\ mapped' = mapped \ gone /\ dmabuf' = dmabuf \ gone /\ last' = {}
      /\ UNCHANGED <<cap, scratch, alive>>
  BY <1>1 DEF vcclCommDeregister
<1>3. /\ Owned(kept, <<>>, registrations \ {x}, scratch.h, {})
      /\ Pinned(kept, registrations \ {x}, scratch.h)
      /\ \A i \in DOMAIN kept :
           \/ kept[i].range = ScratchRange
           \/ \E y \in registrations \ {x} : kept[i].range = y.range
  <2>1. Kept(kept, registrations \ {x})
    BY <1>1, KeptOk
  <2> QED
    BY <2>1 DEF Kept
<1>4. x.range \in Blocks
  BY DEF Inv, Users
<1>5. Users'
  BY <1>2, FS_RemoveElement DEF Inv, Users
<1>6. ASSUME gone # {}, NEW y \in registrations \ {x}
      PROVE  Pages(y.range) \cap Pages(x.range) = {}
  <2>1. CASE free
    BY <2>1, <1>2
  <2>2. CASE x.range \in dmabuf
    BY <2>2 DEF Inv, Memory
  <2> QED
    BY <1>6, <2>1, <2>2
<1>7. Owned(regions_', mrCache', registrations', scratch.h, {})
      /\ Pinned(regions_', registrations', scratch.h)
  <2>1. CASE gone = {}
    BY <2>1, <1>2, <1>3
  <2>2. CASE gone # {}
    <3>1. \A i \in DOMAIN kept : Pages(kept[i].range) \cap Pages(x.range) = {}
      BY <2>2, <1>3, <1>4, <1>6, ScratchApart
    <3>2. /\ Owned(Unmap(kept, x.range), <<>>, registrations \ {x}, scratch.h, {})
          /\ Pinned(Unmap(kept, x.range), registrations \ {x}, scratch.h)
      BY <3>1, <1>3, OwnedUnmap
    <3>3. regions_' = Unmap(kept, x.range)
      BY <2>2, <1>2
    <3> QED
      BY <3>2, <3>3, <1>2
  <2> QED
    BY <2>1, <2>2
<1>8. Memory'
  <2>1. ASSUME NEW y \in registrations' PROVE Usable(y.range)'
    <3>1. y \in registrations \ {x} /\ Usable(y.range)
      BY <1>2 DEF Inv, Memory
    <3>2. CASE gone = {}
      BY <3>1, <3>2, <1>2 DEF Usable
    <3>3. CASE gone = {x.range}
      <4>1. Pages(y.range) \subseteq UNION {Pages(c) : c \in mapped \ {x.range}}
        BY <3>1, <3>3, <1>6, UsableApart
      <4> QED
        BY <4>1, <3>3, <1>2 DEF Usable
    <3> QED
      BY <3>2, <3>3
  <2>2. /\ mapped' \subseteq mapped /\ dmabuf' \subseteq dmabuf /\ dmabuf' \subseteq mapped'
        /\ registrations' \subseteq registrations
    BY <1>2 DEF Inv, Memory
  <2> QED
    BY <2>1, <2>2 DEF Inv, Memory
<1>9. CacheBounded'
  <2>1. Len(<<>>) <= cap
    BY SMT DEF Inv
  <2> QED
    BY <2>1, <1>2 DEF CacheBounded
<1> QED
  BY <1>2, <1>5, <1>7, <1>8, <1>9 DEF Inv, NeverStale

LEMMA MemAllocInv ==
  ASSUME Inv, NEW b \in Blocks, vcclMemAlloc(b)
  PROVE  Inv'
<1>1. /\ Unused(b) /\ mapped' = mapped \cup {b} /\ last' = {}
      /\ UNCHANGED <<cap, dmabuf, regions_, mrCache, registrations, scratch, alive>>
  BY DEF vcclMemAlloc
<1>2. \A y \in registrations : Usable(y.range)'
  BY <1>1 DEF Inv, Memory, Usable
<1>3. \A c, d \in mapped' : c # d => Pages(c) \cap Pages(d) = {}
  BY <1>1 DEF Inv, Memory, Unused
<1>4. Memory'
  BY <1>1, <1>2, <1>3 DEF Inv, Memory
<1> QED
  BY <1>1, <1>4 DEF Inv, Users, NeverStale, CacheBounded

LEMMA MemFreeInv ==
  ASSUME Inv, NEW b \in Blocks, vcclMemFree(b)
  PROVE  Inv'
<1>1. /\ b \in mapped \ dmabuf /\ mapped' = mapped \ {b} /\ last' = {}
      /\ FreeAny \/ \A i \in DOMAIN regions_ : Pages(regions_[i].range) \cap Pages(b) = {}
      /\ \A x \in registrations : Pages(x.range) \cap Pages(b) = {}
      /\ regions_' = Unmap(regions_, b)
      /\ UNCHANGED <<cap, dmabuf, mrCache, registrations, scratch, alive>>
  BY DEF vcclMemFree
<1>2. /\ Owned(Unmap(regions_, b), mrCache, registrations, scratch.h, {})
      /\ Pinned(Unmap(regions_, b), registrations, scratch.h)
  BY <1>1, OwnedUnmap DEF Inv
<1>3. ASSUME NEW y \in registrations PROVE Usable(y.range)'
  <2>1. Pages(y.range) \subseteq UNION {Pages(c) : c \in mapped \ {b}}
    BY <1>1, UsableApart DEF Inv, Memory
  <2> QED
    BY <2>1, <1>1 DEF Usable
<1>4. Memory'
  BY <1>1, <1>3 DEF Inv, Memory
<1> QED
  BY <1>1, <1>2, <1>4 DEF Inv, Users, NeverStale, CacheBounded

LEMMA NothingOwned ==
  Owned(<<>>, <<>>, {}, 0, {}) /\ Pinned(<<>>, {}, 0)
<1>1. PICK rs, c : rs = <<>> /\ c = <<>>
  OBVIOUS
<1>2. /\ rs \in Seq(Region) /\ c \in Seq(Entry)
      /\ Distinct(rs) /\ Distinct(c) /\ Handles(rs) = {} /\ Handles(c) = {}
      /\ \A i \in DOMAIN rs : FALSE
  BY SMT, <1>1 DEF Distinct, Handles
<1>3. PICK us : us = {}
  OBVIOUS
<1>4. {x.h : x \in us} = {} /\ ({0} \ {0}) = {}
  BY <1>3
<1>5. Owned(rs, c, us, 0, {}) /\ Pinned(rs, us, 0)
  BY <1>2, <1>4 DEF Owned, Pinned
<1> QED
  BY <1>1, <1>3, <1>5

LEMMA DestroyInv ==
  ASSUME Inv, vcclCommDestroy
  PROVE  Inv'
<1>1. /\ regions_' = <<>> /\ mrCache' = <<>> /\ registrations' = {}
      /\ mapped' = mapped \ dmabuf /\ dmabuf' = {} /\ last' = {}
      /\ scratch' = [size |-> 0, h |-> 0] /\ cap' = cap
  BY DEF vcclCommDestroy
<1>2. scratch'.h = 0 /\ scratch'.size = 0 /\ scratch' = [size |-> scratch'.size, h |-> scratch'.h]
  BY <1>1
<1>3. Users' /\ Memory'
  BY <1>1, FS_EmptySet DEF Inv, Users, Memory
<1>4. CacheBounded'
  <2>1. Len(<<>>) <= cap
    BY SMT DEF Inv
  <2> QED
    BY <2>1, <1>1 DEF CacheBounded
<1>5. Owned(regions_', mrCache', registrations', scratch'.h, {})
      /\ Pinned(regions_', registrations', scratch'.h)
  BY <1>1, <1>2, NothingOwned
<1> QED
  BY <1>1, <1>2, <1>3, <1>4, <1>5 DEF Inv, NeverStale

LEMMA InitInv ==
  Init => Inv
<1> SUFFICES ASSUME Init PROVE Inv
  OBVIOUS
<1>1. /\ regions_ = <<>> /\ mrCache = <<>> /\ registrations = {}
      /\ mapped = {} /\ dmabuf = {} /\ last = {}
      /\ scratch = [size |-> 0, h |-> 0] /\ cap \in Nat
  BY MemoryAssumption DEF Init
<1>2. scratch.h = 0 /\ scratch.size = 0 /\ scratch = [size |-> scratch.size, h |-> scratch.h]
  BY <1>1
<1>3. Users /\ Memory
  BY <1>1, FS_EmptySet DEF Users, Memory
<1>4. CacheBounded
  <2>1. Len(<<>>) <= cap
    BY SMT, <1>1
  <2> QED
    BY <2>1, <1>1 DEF CacheBounded
<1>5. Owned(regions_, mrCache, registrations, scratch.h, {})
      /\ Pinned(regions_, registrations, scratch.h)
  BY <1>1, <1>2, NothingOwned
<1> QED
  BY <1>1, <1>2, <1>3, <1>4, <1>5 DEF Inv, NeverStale

LEMMA StepInv ==
  Inv /\ [Next]_vars => Inv'
<1> SUFFICES ASSUME Inv, [Next]_vars PROVE Inv'
  OBVIOUS
<1>1. CASE RunCollective
  <2>1. PICK sendbuff \in Ranges, recvbuff \in Ranges, size \in 0 .. MaxScratch,
             ok \in BOOLEAN :
          \E refused : Collective(sendbuff, recvbuff, size, ok, refused)
    BY <1>1 DEF RunCollective
  <2>2. size \in Nat
    BY SMT, BoundsAssumption
  <2> QED
    BY <2>1, <2>2, CollectiveInv
<1>2. CASE \E b \in Blocks : \/ vcclCommRegister(b) \/ vcclMemAlloc(b) \/ vcclMemFree(b)
                            \/ \E s \in BOOLEAN : vcclCommRegisterDmaBuf(b, s)
  BY <1>2, RegisterInv, MemAllocInv, MemFreeInv, RegisterDmaBufInv
<1>3. CASE \E x \in registrations, free \in BOOLEAN : vcclCommDeregister(x, free)
  BY <1>3, DeregisterInv
<1>4. CASE vcclCommDestroy
  BY <1>4, DestroyInv
<1>5. CASE UNCHANGED vars
  BY <1>5 DEF vars, Inv, Users, Memory, Usable, NeverStale, CacheBounded
<1> QED
  BY <1>1, <1>2, <1>3, <1>4, <1>5 DEF Next

LEMMA InvHolds ==
  Spec => []Inv
BY InitInv, StepInv, PTL DEF Spec

----------------------------------------------------------------------------
(* The theorems.                                                           *)

\* Items with handles of their own are as many as their handles.
LEMMA CountSeq ==
  ASSUME NEW S, NEW s \in Seq(S), Distinct(s)
  PROVE  IsFiniteSet(Handles(s)) /\ Cardinality(Handles(s)) = Len(s) /\ Len(s) \in Nat
<1>1. PICK n \in Nat : n = Len(s)
  BY SMT
<1>2. DOMAIN s = 1 .. n
  BY SMT, <1>1
<1>3. PICK D : D = 1 .. n
  OBVIOUS
<1>4. IsFiniteSet(D) /\ Cardinality(D) = n
  <2>1. IsFiniteSet(1 .. n) /\ Cardinality(1 .. n) = IF 1 > n THEN 0 ELSE n - 1 + 1
    BY SMT, FS_Interval
  <2> QED
    BY SMT, <2>1, <1>3
<1>5. PICK T : T = Handles(s)
  OBVIOUS
<1>6. PICK f : f = [i \in D |-> s[i].h]
  OBVIOUS
<1>7. T = {s[i].h : i \in D} /\ \A i, j \in D : s[i].h = s[j].h => i = j
  BY <1>2, <1>3, <1>5 DEF Handles, Distinct
<1>8. f \in Bijection(D, T)
  BY <1>6, <1>7 DEF Bijection, Injection, Surjection, IsInjective
<1>9. IsFiniteSet(T) /\ Cardinality(T) = Cardinality(D)
  BY <1>4, <1>8, FS_Bijection DEF ExistsBijection
<1> QED
  BY <1>1, <1>4, <1>5, <1>9

LEMMA CountUsers ==
  ASSUME Users
  PROVE  /\ IsFiniteSet({x.h : x \in registrations})
         /\ Cardinality({x.h : x \in registrations}) = Cardinality(registrations)
<1>1. PICK T : T = {x.h : x \in registrations}
  OBVIOUS
<1>2. PICK f : f = [x \in registrations |-> x.h]
  OBVIOUS
<1>3. f \in Bijection(registrations, T)
  BY <1>1, <1>2 DEF Users, Bijection, Injection, Surjection, IsInjective
<1>4. IsFiniteSet(T) /\ Cardinality(T) = Cardinality(registrations)
  BY <1>3, FS_Bijection DEF ExistsBijection, Users
<1> QED
  BY <1>1, <1>4

LEMMA CountApart ==
  ASSUME NEW A, IsFiniteSet(A), NEW B, IsFiniteSet(B), A \cap B = {}
  PROVE  IsFiniteSet(A \cup B) /\ Cardinality(A \cup B) = Cardinality(A) + Cardinality(B)
<1>1. Cardinality(A \cup B) = Cardinality(A) + Cardinality(B) - Cardinality(A \cap B)
      /\ IsFiniteSet(A \cup B)
  BY FS_Union
<1>2. Cardinality(A \cap B) = 0
  BY FS_EmptySet
<1>3. Cardinality(A) \in Nat /\ Cardinality(B) \in Nat
  BY FS_CardinalityType
<1> QED
  BY SMT, <1>1, <1>2, <1>3

LEMMA InvOwned ==
  ASSUME Inv
  PROVE  OwnedOnce
<1>1. PICK A, B, C : /\ A = Handles(mrCache) /\ B = {x.h : x \in registrations}
                     /\ C = {scratch.h} \ {0}
  OBVIOUS
<1>2. /\ regions_ \in Seq(Region) /\ Distinct(regions_)
      /\ mrCache \in Seq(Entry) /\ Distinct(mrCache) /\ Users
      /\ Handles(regions_) = A \cup B \cup C /\ A \cap B = {} /\ (A \cup B) \cap C = {}
  BY <1>1 DEF Inv, Owned
<1>3. Cardinality(Handles(regions_)) = Len(regions_)
  BY <1>2, CountSeq
<1>4. IsFiniteSet(A) /\ Cardinality(A) = Len(mrCache)
  BY <1>1, <1>2, CountSeq
<1>5. IsFiniteSet(B) /\ Cardinality(B) = Cardinality(registrations)
  BY <1>1, <1>2, CountUsers
<1>6. IsFiniteSet(C)
  BY <1>1, FS_Singleton, FS_Difference
<1>7. IsFiniteSet(A \cup B) /\ Cardinality(A \cup B) = Cardinality(A) + Cardinality(B)
  BY <1>2, <1>4, <1>5, CountApart
<1>8. PICK D : D = A \cup B
  OBVIOUS
<1>9. Cardinality(D \cup C) = Cardinality(D) + Cardinality(C)
  BY <1>2, <1>6, <1>7, <1>8, CountApart
<1>10. Len(regions_) = Len(mrCache) + Cardinality(registrations) + Cardinality(C)
  BY <1>2, <1>3, <1>4, <1>5, <1>7, <1>8, <1>9
<1> QED
  BY <1>1, <1>2, <1>3, <1>10 DEF OwnedOnce

\* Every region has one owner, the cache, the user or the scratch, and every
\* owner's region is there, through evictions, flushes, collectives that fail
\* half way and the reuse of handles: for any blocks, ranges and capacities,
\* and also when memory is freed under the cache.
THEOREM RegionsOwned ==
  Spec => []OwnedOnce
BY InvHolds, InvOwned, PTL

\* mrCachePut evicts in time for every capacity, 0 included: the cache never
\* pins more than cap ranges.
THEOREM CacheWithinCap ==
  Spec => []CacheBounded
<1>1. Inv => CacheBounded
  BY DEF Inv
<1> QED
  BY <1>1, InvHolds, PTL

\* As long as the process does not free memory the cache still pins, the
\* flush of vcclCommDeregister is enough: no transfer goes through a region
\* whose memory is gone.
THEOREM FlushSuffices ==
  ~FreeAny => (Spec => []NeverStale)
<1> SUFFICES ASSUME ~FreeAny PROVE Spec => []NeverStale
  OBVIOUS
<1>1. Inv => NeverStale
  BY DEF Inv
<1> QED
  BY <1>1, InvHolds, PTL

============================================================================
