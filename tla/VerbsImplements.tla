-------------------------- MODULE VerbsImplements --------------------------
(***************************************************************************)
(* The RDMA transport is a Transport: VerbsTransport under the mapping     *)
(* that forgets queues and completions.  Data has left its buffer when it  *)
(* has landed in the receiver's.                                           *)
(***************************************************************************)
EXTENDS VerbsTransport

state == [r \in Rank |-> IF phase[r] = "call" THEN "idle"
                         ELSE IF Waiting(r) THEN "busy" ELSE "failed"]

moved == [p \in Rank |-> [r \in Rank |-> arrived[r][p]]]

due == [r \in Rank |-> [p \in Rank |->
          IF Waiting(r) /\ Cur(r).from = p THEN Cur(r).r ELSE 0]]

T == INSTANCE Transport WITH handed <- sendPosted

\* Every call of the RDMA transport keeps the contract of transport.h: it
\* returns success only with its own buffers free and its data received,
\* although completions of several calls share a queue and receives are
\* posted ahead.
ImplementsTransport == T!Spec

============================================================================
