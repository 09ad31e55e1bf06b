----------------------------- MODULE Transport -----------------------------
(***************************************************************************)
(* What class Transport of src/transport/transport.h promises, whichever   *)
(* transport is behind it: "All calls are blocking; send/recv pairs must   *)
(* match in size."  A call hands data over for other ranks and is due data *)
(* from them.  It returns success when the buffers it sent from are the    *)
(* caller's again and what it was due is there; or it fails, and the rank  *)
(* makes no other call.  The unit is what the transport counts in: work    *)
(* requests for verbs, bytes for TCP.                                      *)
(***************************************************************************)
EXTENDS Integers

CONSTANT Rank

VARIABLES
  state,  \* per rank: between two calls, in one, or given up
  handed, \* handed[p][r]: what the calls of p have handed over for r, ...
  moved,  \* ... and how much of it has left the buffers of p
  due,    \* due[r][p]: what the current call of r is to receive from p
  got     \* got[r][p]: what calls of r that returned success received from p

vars == <<state, handed, moved, due, got>>

Table == [Rank -> [Rank -> Nat]]
Nothing == [p \in Rank |-> 0]

\* g is f but for the entries of r, and those are no smaller.
GrowsAt(f, g, r) ==
  /\ g \in Table
  /\ \A q \in Rank \ {r} : g[q] = f[q]
  /\ \A p \in Rank : f[r][p] <= g[r][p]

Init ==
  /\ state = [r \in Rank |-> "idle"]
  /\ handed = [r \in Rank |-> Nothing]
  /\ moved = [r \in Rank |-> Nothing]
  /\ due = [r \in Rank |-> Nothing]
  /\ got = [r \in Rank |-> Nothing]

\* send, recv, sendRecv or batch is called.
Call(r) ==
  /\ state[r] = "idle" /\ state' = [state EXCEPT ![r] = "busy"]
  /\ GrowsAt(handed, handed', r)
  /\ due[r] = Nothing /\ GrowsAt(due, due', r)
  /\ UNCHANGED <<moved, got>>

\* Data of p is on its way to r.
Move(p) ==
  /\ GrowsAt(moved, moved', p)
  /\ \A r \in Rank : moved'[p][r] <= handed[p][r]
  /\ UNCHANGED <<state, handed, due, got>>

\* The call returns vcclSuccess.
Return(r) ==
  /\ state[r] = "busy" /\ state' = [state EXCEPT ![r] = "idle"]
  /\ \A p \in Rank : moved[r][p] = handed[r][p]
  /\ \A p \in Rank : got[r][p] + due[r][p] <= moved[p][r]
  /\ got' = [got EXCEPT ![r] = [p \in Rank |-> got[r][p] + due[r][p]]]
  /\ due' = [due EXCEPT ![r] = Nothing]
  /\ UNCHANGED <<handed, moved>>

\* It returns an error, or the rank dies.  A part may have been handed over.
\* The error is noted, as that of a collective or a group is: no call follows.
Fail(r) ==
  /\ state[r] # "failed" /\ state' = [state EXCEPT ![r] = "failed"]
  /\ GrowsAt(handed, handed', r)
  /\ due' = [due EXCEPT ![r] = Nothing]
  /\ UNCHANGED <<moved, got>>

Next == \E r \in Rank : Call(r) \/ Move(r) \/ Return(r) \/ Fail(r)

Spec == Init /\ [][Next]_vars

============================================================================
