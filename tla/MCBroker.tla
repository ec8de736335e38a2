------------------------------ MODULE MCBroker ------------------------------
(* Constants for model-checking Broker: two providers that share an address, *)
(* and a list a user typed.                                                  *)
EXTENDS Broker

Ip(s)   == [is |-> "ip", of |-> s]
Port(n) == [is |-> "port", of |-> n]

(* A plain address, one with leading zeros, one of another country, the      *)
(* unspecified one, and what only looks like an address.                     *)
Spellings ==
  [a    |-> [host |-> "A", strict |-> TRUE, octet |-> 10],
   b    |-> [host |-> "B", strict |-> TRUE, octet |-> NoPort],
   zero |-> [host |-> "A", strict |-> FALSE, octet |-> 10],
   de   |-> [host |-> "D", strict |-> TRUE, octet |-> 80],
   any  |-> [host |-> Unspecified, strict |-> TRUE, octet |-> NoPort],
   junk |-> [host |-> NoHost, strict |-> FALSE, octet |-> 99]]

Places == [A |-> "US", B |-> "US", D |-> "DE"]

(* Ports out of range, an address followed by another, one at the end. *)
ListPages ==
  [p1 |-> <<Ip("a"), Port(80), Ip("any"), Port(80), Ip("b"), Ip("b"), Port(81), Ip("a")>>,
   p2 |-> <<Ip("b"), Port(81), Ip("zero"), Port(80), Ip("de"), Port(80), Ip("a"), Port(65536), Ip("a"), Port(0)>>,
   p3 |-> <<Ip("b"), Port(81), Ip("b"), Port(65535), Ip("junk"), Port(80)>>]

File(id, ext, disabled, type) ==
  [id |-> id, ext |-> ext, disabled |-> disabled, parses |-> TRUE, type |-> type]

ConfigFiles ==
  {File("p3", "yml", FALSE, "simple"), File("p4", "txt", FALSE, "none"),
   File("p5", "json", TRUE, "none"), File("p6", "json", FALSE, "api")}

(* An octet of the second line's second address is taken for the port. *)
Typed == <<<<Ip("zero"), Port(80)>>, <<Port(12), Ip("a"), Ip("de"), Port(99)>>, <<Ip("b")>>, <<Port(99)>>>>

Addr(h, p, n) == [host |-> h, port |-> p, line |-> n]

Addresses ==
  {Addr("A", 80, 0), Addr("B", 81, 0), Addr("B", 65535, 0), Addr("D", 80, 0), Addr("A", 80, 1), Addr("A", 80, 2)}

=============================================================================
