------------------------------- MODULE MCPool -------------------------------
(* Constants for model-checking Pool: two proxies at one address.           *)
EXTENDS SelectionCheck, TLC

CONSTANT k1

(* The callers run the same code. *)
CallerSymmetry == Permutations(Callers \ Gates)

Born(id, addr, types, country, reqs, errs, rsum) ==
  [id |-> id, addr |-> addr, types |-> types, country |-> country, floor |-> 0,
   reqs |-> reqs, errs |-> errs, rsum |-> rsum, rn |-> reqs - errs]

(* A proxy that has been slow, and a second value at its address, of equal   *)
(* health: add meets it pooled and leased, and rejects it or not.            *)
Slow == Born(1, "a", {"Http", "Connect80"}, "US", 1, 0, 900)
Twin == Born(2, "a", {"Socks5", "Connect80"}, "US", 1, 0, 900)

JustSlow == {Slow}
JustTwin == {Twin}
None     == {}
OnlyUS   == {"US"}

HttpOnly == {[scheme |-> "Http", key |-> k1]}

=============================================================================
