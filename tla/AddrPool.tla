------------------------------ MODULE AddrPool ------------------------------
(***************************************************************************)
(* What the pool of src/server.rs promises the tasks around it, seen by    *)
(* address: how many entries at each address are pooled and how many are   *)
(* checked out.  Pool implements this specification (PoolRefines), and     *)
(* LivePool composes it with the tasks that change a pool in service.      *)
(***************************************************************************)
EXTENDS Integers, FiniteSets

CONSTANT Addrs

VARIABLES
  pooled, \* entries of Pool.state, by address
  held    \* proxies callers have checked out, by address

addrVars == <<pooled, held>>

More(f, a) == [f EXCEPT ![a] = @ + 1]
Less(f, a) == [f EXCEPT ![a] = @ - 1]

AddrInit ==
  /\ pooled \in [Addrs -> Nat]
  /\ held = [a \in Addrs |-> 0]

(* The importer pushes without a look at the address. *)
Admit(a) ==
  /\ pooled' = More(pooled, a)
  /\ UNCHANGED held

(* The effect of add on the vector: nothing when the address is pooled. *)
AddedUnchecked(f, a) == More(f, a)

Added(f, a) == IF f[a] > 0 THEN f ELSE More(f, a)

AddAddr(a) ==
  /\ pooled' = Added(pooled, a)
  /\ UNCHANGED held

(* remove: every entry at the address; a checked-out proxy is not one. *)
RemoveAddr(a) ==
  /\ pooled' = [pooled EXCEPT ![a] = 0]
  /\ UNCHANGED held

(* get and try_get *)
CheckOut(a) ==
  /\ pooled[a] > 0
  /\ pooled' = Less(pooled, a)
  /\ held' = More(held, a)

(* put_ok and put_failed of a healthy proxy *)
GiveBack(a) ==
  /\ held[a] > 0
  /\ held' = Less(held, a)
  /\ pooled' = More(pooled, a)

(* An eviction, or a caller dropped with its proxy. *)
Dismiss(a) ==
  /\ held[a] > 0
  /\ held' = Less(held, a)
  /\ UNCHANGED pooled

AddrNext ==
  \E a \in Addrs :
    Admit(a) \/ AddAddr(a) \/ RemoveAddr(a) \/ CheckOut(a) \/ GiveBack(a) \/ Dismiss(a)

AddrSpec == AddrInit /\ [][AddrNext]_addrVars

=============================================================================
