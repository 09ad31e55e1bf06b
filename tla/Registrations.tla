--------------------------- MODULE Registrations ---------------------------
(***************************************************************************)
(* Memory registration of one communicator on the RDMA transport: user     *)
(* registrations and dmabuf imports (src/core/comm.cc), the transient      *)
(* registration cache and ScopedReg (src/core/comm.h), the scratch, and    *)
(* the region list of src/transport/verbs.cc they all live in.             *)
(*                                                                         *)
(* Memory is a row of pages; a range is <<first page, number of pages>>.   *)
(* A region pins the pages its range was mapped to; it is fresh while the  *)
(* range is still mapped to them.  The communicator runs one operation at  *)
(* a time (the concurrency contract of include/vccl.h), so an operation    *)
(* is one step.                                                            *)
(***************************************************************************)
EXTENDS Integers, Sequences, FiniteSets, Functions, Filters

CONSTANTS Blocks,     \* ranges the process may allocate
          Ranges,     \* ranges it hands to collectives
          Caps,       \* cache capacities (VCCL_MR_CACHE)
          MaxRegions, \* bound on live regions
          MaxUserRegs,\* bound on user registrations
          MaxScratch, \* bound on the size of the scratch
          FreeAny     \* the process also frees memory the cache still pins

ASSUME BoundsAssumption ==
  MaxRegions \in Nat /\ MaxUserRegs \in Nat /\ MaxScratch \in Nat

ASSUME MemoryAssumption ==
  Blocks \subseteq Nat \X (Nat \ {0}) /\ Ranges \subseteq Nat \X Nat /\ Caps \subseteq Nat

VARIABLES
  cap,           \* mrCacheCap
  mapped,        \* blocks allocated, ...
  dmabuf,        \* ... and blocks that are mappings of a dmabuf
  regions_,      \* the transport's regions, in the order of the list
  mrCache,       \* cached ranges and handles, least recently stamped first
  registrations, \* user registrations: [h, range]
  scratch,       \* [size, h]: scratchRegHandle, 0 for nullptr
  last,          \* how each range of the last collective was resolved
  alive          \* the communicator exists

vars == <<cap, mapped, dmabuf, regions_, mrCache, registrations, scratch, last,
          alive>>

Pages(b) == b[1] .. b[1] + b[2] - 1

Inside(b, c) == Pages(b) \subseteq Pages(c)

Init ==
  /\ cap \in Caps
  /\ mapped = {} /\ dmabuf = {}
  /\ regions_ = <<>> /\ mrCache = <<>> /\ registrations = {}
  /\ scratch = [size |-> 0, h |-> 0]
  /\ last = {}
  /\ alive = TRUE

----------------------------------------------------------------------------
(* The transport.  A handle is the address of a list node: one that was    *)
(* freed may be given out again.                                           *)

FreshHandle(rs) ==
  CHOOSE h \in 1 .. MaxRegions + 1 :
    /\ \A i \in DOMAIN rs : rs[i].h # h
    /\ \A g \in 1 .. h - 1 : \E i \in DOMAIN rs : rs[i].h = g

regMr(rs, b, staging) ==
  Append(rs, [h |-> FreshHandle(rs), range |-> b, fresh |-> TRUE,
              staging |-> staging])

\* The list without the regions of the handles H.
Drop(rs, H) == Filter(rs, {x \in Range(rs) : x.h \notin H})

deregMr(rs, h) == Drop(rs, {h})

covers(rs, b) == \E i \in DOMAIN rs : Inside(b, rs[i].range)

\* The first region that covers b, or a temporary one, which ends with the call
\* and has no state here.
resolve(rs, b) ==
  IF ~covers(rs, b) THEN "temp"
  ELSE LET i == CHOOSE i \in DOMAIN rs :
                  /\ Inside(b, rs[i].range)
                  /\ \A j \in 1 .. i - 1 : ~Inside(b, rs[j].range)
       IN IF rs[i].fresh THEN "fresh" ELSE "stale"

----------------------------------------------------------------------------
(* The cache.  st is what a collective changes: the regions, the cache and *)
(* the handles of its ScopedReg.                                           *)

BugNeverEvict(st, b, h) ==
  [st EXCEPT !.cache = Append(@, [range |-> b, h |-> h])]
mrCachePut(st, b, h) ==
  LET full == Len(st.cache) >= cap IN
  [st EXCEPT !.cache = Append(IF full THEN Tail(@) ELSE @, [range |-> b, h |-> h]),
             !.regions = IF full THEN deregMr(@, Head(st.cache).h) ELSE @]

\* The index of an exact hit, 0 for none.
mrCacheGet(st, b) ==
  IF \E i \in DOMAIN st.cache : st.cache[i].range = b
  THEN CHOOSE i \in DOMAIN st.cache : st.cache[i].range = b ELSE 0

AllBut(s, i) == SubSeq(s, 1, i - 1) \o SubSeq(s, i + 1, Len(s))

Restamp(st, i) ==
  [st EXCEPT !.cache = Append(AllBut(@, i), @[i])]

\* ScopedReg::add.
add(st, b) ==
  LET h == FreshHandle(st.regions)
      pinned == [st EXCEPT !.regions = regMr(@, b, FALSE)] IN
  IF covers(st.regions, b) THEN st
  ELSE IF cap > 0
  THEN IF mrCacheGet(st, b) # 0 THEN Restamp(st, mrCacheGet(st, b))
       ELSE mrCachePut(pinned, b, h)
  ELSE [pinned EXCEPT !.handles = @ \cup {h}]

BugLeakOnError(st) ==
  IF st.failed THEN st ELSE [st EXCEPT !.regions = Drop(@, st.handles)]
\* ~ScopedReg.
Release(st) == [st EXCEPT !.regions = Drop(@, st.handles)]

Without(rs, cache) == Drop(rs, {cache[i].h : i \in DOMAIN cache})

\* The scratch grows into a region of its own, outside the pages above.  Its
\* registration may fail, which scratchAt ignores.
scratchAt(rs, s, size, ok) ==
  LET old == deregMr(rs, s.h) IN
  IF size <= s.size THEN [regions |-> rs, scratch |-> s]
  ELSE IF ok THEN [regions |-> regMr(old, <<-1, 1>>, FALSE),
                   scratch |-> [size |-> size, h |-> FreshHandle(old)]]
  ELSE [regions |-> old, scratch |-> [size |-> size, h |-> 0]]

----------------------------------------------------------------------------
(* The operations.                                                         *)

Usable(b) == Pages(b) \subseteq UNION {Pages(x) : x \in mapped}

\* The system maps a block where nothing is mapped.
Unused(b) == \A x \in mapped : Pages(b) \cap Pages(x) = {}

\* A dmabuf mapping cannot be pinned: regMr fails on it.
Pinnable(b) == \A x \in dmabuf : Pages(b) \cap Pages(x) = {}

\* A collective that registers its send and its receive buffer, which may be
\* one, up to the first that cannot be pinned or that the device refuses, and
\* then transfers.  st is what that leaves, grown what the scratch makes of it;
\* each is named by a bound variable, which TLC evaluates once.
Collective(sendbuff, recvbuff, size, ok, refused) ==
  LET Try(st, b) ==
        IF st.failed \/ (~covers(st.regions, b) /\ (b = refused \/ ~Pinnable(b)))
        THEN [st EXCEPT !.failed = TRUE] ELSE add(st, b)
      start == [regions |-> regions_, cache |-> mrCache, handles |-> {},
                failed |-> FALSE]
      Grow(st) == IF st.failed THEN [regions |-> st.regions, scratch |-> scratch]
                  ELSE scratchAt(st.regions, scratch, size, ok)
  IN /\ alive /\ Len(regions_) + 3 <= MaxRegions
     /\ Usable(sendbuff) /\ Usable(recvbuff)
     /\ \E st \in {Try(Try(start, sendbuff), recvbuff)} : \E grown \in {Grow(st)} :
          LET used == [st EXCEPT !.regions = grown.regions] IN
          /\ last' = IF st.failed THEN {}
                     ELSE {resolve(used.regions, b) : b \in {sendbuff, recvbuff}}
          /\ regions_' = Release(used).regions
          /\ mrCache' = used.cache
          /\ scratch' = grown.scratch
     /\ UNCHANGED <<cap, mapped, dmabuf, registrations, alive>>

RunCollective ==
  \E sendbuff, recvbuff \in Ranges, size \in 0 .. MaxScratch, ok \in BOOLEAN :
    \E refused \in {<<>>, sendbuff, recvbuff} :
      /\ size <= scratch.size \/ refused # <<>> => ok
      /\ Collective(sendbuff, recvbuff, size, ok, refused)

vcclCommRegister(b) ==
  /\ alive /\ Cardinality(registrations) < MaxUserRegs
  /\ Len(regions_) < MaxRegions /\ Usable(b) /\ Pinnable(b)
  /\ regions_' = regMr(regions_, b, FALSE)
  /\ registrations' = registrations \cup
                        {[h |-> FreshHandle(regions_), range |-> b]}
  /\ last' = {}
  /\ UNCHANGED <<cap, mapped, dmabuf, mrCache, scratch, alive>>

\* The device takes the dmabuf itself or has it staged.
vcclCommRegisterDmaBuf(b, staging) ==
  /\ alive /\ Cardinality(registrations) < MaxUserRegs
  /\ Len(regions_) < MaxRegions /\ Unused(b)
  /\ mapped' = mapped \cup {b}
  /\ dmabuf' = dmabuf \cup {b}
  /\ regions_' = regMr(regions_, b, staging)
  /\ registrations' = registrations \cup
                        {[h |-> FreshHandle(regions_), range |-> b]}
  /\ last' = {}
  /\ UNCHANGED <<cap, mrCache, scratch, alive>>

\* The pages of b are gone: regions that pin them are no longer fresh.
Unmap(rs, b) ==
  [i \in DOMAIN rs |-> IF Pages(rs[i].range) \cap Pages(b) = {} THEN rs[i]
                       ELSE [rs[i] EXCEPT !.fresh = FALSE]]

BugKeepCache(x, free) ==
  /\ alive /\ x \in registrations
  /\ (free => x.range \in mapped /\ \A y \in registrations \ {x} :
                                      Pages(x.range) \cap Pages(y.range) = {})
  /\ registrations' = registrations \ {x}
  /\ LET kept == deregMr(regions_, x.h)
         gone == IF free \/ x.range \in dmabuf THEN {x.range} ELSE {} IN
     /\ regions_' = IF gone = {} THEN kept ELSE Unmap(kept, x.range)
     /\ mapped' = mapped \ gone
     /\ dmabuf' = dmabuf \ gone
  /\ last' = {}
  /\ UNCHANGED <<cap, mrCache, scratch, alive>>
\* The registration goes, the cache is flushed, a dmabuf is unmapped.  With
\* free the caller frees the block it registered right after.
vcclCommDeregister(x, free) ==
  /\ alive /\ x \in registrations
  /\ (free => x.range \in mapped /\ \A y \in registrations \ {x} :
                                      Pages(x.range) \cap Pages(y.range) = {})
  /\ mrCache' = <<>>
  /\ registrations' = registrations \ {x}
  /\ LET kept == deregMr(Without(regions_, mrCache), x.h)
         gone == IF free \/ x.range \in dmabuf THEN {x.range} ELSE {} IN
     /\ regions_' = IF gone = {} THEN kept ELSE Unmap(kept, x.range)
     /\ mapped' = mapped \ gone
     /\ dmabuf' = dmabuf \ gone
  /\ last' = {}
  /\ UNCHANGED <<cap, scratch, alive>>

vcclMemAlloc(b) ==
  /\ Unused(b)
  /\ mapped' = mapped \cup {b}
  /\ last' = {}
  /\ UNCHANGED <<cap, dmabuf, regions_, mrCache, registrations, scratch, alive>>

\* vcclMemFree of a block no registration names any more.
vcclMemFree(b) ==
  /\ b \in mapped \ dmabuf
  /\ FreeAny \/ \A i \in DOMAIN regions_ :
                  Pages(regions_[i].range) \cap Pages(b) = {}
  /\ \A x \in registrations : Pages(x.range) \cap Pages(b) = {}
  /\ mapped' = mapped \ {b}
  /\ regions_' = Unmap(regions_, b)
  /\ last' = {}
  /\ UNCHANGED <<cap, dmabuf, mrCache, registrations, scratch, alive>>

\* The cache, the user registrations and the dmabuf mappings go; the
\* transport's destructor takes what is left in its list.
vcclCommDestroy ==
  /\ alive /\ alive' = FALSE
  /\ regions_' = <<>> /\ mrCache' = <<>> /\ registrations' = {}
  /\ mapped' = mapped \ dmabuf /\ dmabuf' = {}
  /\ scratch' = [size |-> 0, h |-> 0]
  /\ last' = {}
  /\ UNCHANGED cap

Next ==
  \/ RunCollective
  \/ \E b \in Blocks : \/ vcclCommRegister(b) \/ vcclMemAlloc(b)
                       \/ vcclMemFree(b)
                       \/ \E s \in BOOLEAN : vcclCommRegisterDmaBuf(b, s)
  \/ \E x \in registrations, free \in BOOLEAN : vcclCommDeregister(x, free)
  \/ vcclCommDestroy

Spec == Init /\ [][Next]_vars

----------------------------------------------------------------------------
(* Properties.                                                             *)

Handles(s) == {s[i].h : i \in DOMAIN s}

\* Every region has one owner and every owner's region is there: nothing is
\* registered twice under one handle, nothing leaks until the transport is
\* destroyed, and no cached or public handle dangles, though handles are
\* reused.
OwnedOnce ==
  LET owners == <<Handles(mrCache), {x.h : x \in registrations},
                  {scratch.h} \ {0}>> IN
  /\ Handles(regions_) = owners[1] \cup owners[2] \cup owners[3]
  /\ Cardinality(Handles(regions_)) = Len(regions_)
  /\ Len(regions_) = Len(mrCache) + Cardinality(registrations)
                     + Cardinality(owners[3])

\* The cache never pins more ranges than VCCL_MR_CACHE allows.
CacheBounded == Len(mrCache) <= cap

\* "a freed+remapped range can never leave the NIC pinned to stale pages":
\* no transfer goes through a region whose memory has been freed.
NeverStale == "stale" \notin last

============================================================================
