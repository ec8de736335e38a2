---------------------------- MODULE MCConnector ----------------------------
(* Constants for model-checking Connector: three proxies that tunnel in      *)
(* different ways, all of them for both schemes, and one the country filter  *)
(* rejects.                                                                  *)
EXTENDS Connector

Tunnelling(id, addr, types, country) ==
  [id |-> id, addr |-> addr, types |-> types, country |-> country, floor |-> 0,
   reqs |-> 0, errs |-> 0, rsum |-> 0, rn |-> 0]

ThreeAndForeign ==
  {Tunnelling(1, "a", {"Socks5"}, "US"), Tunnelling(2, "b", {"Http", "Https"}, "US"),
   Tunnelling(3, "c", {"Connect80", "Https"}, "US"), Tunnelling(4, "d", {"Socks5"}, "DE")}

OnlyUS == {"US"}

None == {}

Secure == [scheme : {"Https"}, key : {AnyClient}]

(* What the proof of NobodyStarves assumes of the constants. *)
ASSUME RotatingAssumption == Rotating

=============================================================================
