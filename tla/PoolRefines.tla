---------------------------- MODULE PoolRefines ----------------------------
(***************************************************************************)
(* Pool implements AddrPool: the vector and the callers' leases, counted   *)
(* by address, only ever change by one of the abstract operations, however *)
(* the callers, the importer and the tasks that add and remove interleave. *)
(***************************************************************************)
EXTENDS Pool

PooledAt == [a \in Addrs |-> Cardinality(At(state, a))]

HeldAt ==
  [a \in Addrs |-> Cardinality({c \in Callers : pc[c] \in Holding /\ lease[c].addr = a})]

ByAddress == INSTANCE AddrPool WITH pooled <- PooledAt, held <- HeldAt

(* Pool's behaviour, address by address, is AddrPool's. *)
ImplementsAddrPool == ByAddress!AddrSpec

=============================================================================
