----------------------------- MODULE MCCommands -----------------------------
(* Constants for model-checking Commands. *)
EXTENDS Commands

Outcome(types, requests, errors, latency, verdict) ==
  [types |-> types, requests |-> requests, errors |-> errors, latency |-> latency * Unit,
   verdict |-> verdict]

High == [Http |-> "High"]
Seen == [Http |-> "Transparent"]

(* It works after a retry; works at a level that was not asked for, faster   *)
(* than the clock shows; answers, and a strict filter strips its only type;  *)
(* is listed in a DNSBL and never tried; never answers.                      *)
Retried  == Outcome(High, 2, 1, 2, TRUE)
WrongLvl == Outcome(Seen, 1, 0, 0, FALSE)
Stripped == Outcome(NoTypes, 1, 0, 4, FALSE)
Listed   == Outcome(NoTypes, 0, 0, 0, FALSE)
Dead     == Outcome(NoTypes, 3, 3, 0, FALSE)

EveryOutcome == {Retried, WrongLvl, Stripped, Listed, Dead}

Places == [a \in Addrs |-> IF a = "us" THEN "US" ELSE "DE"]

Line(a) == [NewProxy(a) EXCEPT !.types = High, !.geo = Places[a]]

Files == {EmptyBag, SetToBag({Line(a) : a \in Addrs})}

(* One address twice, as in a list pasted together from two sources. *)
Text == SetToBag(Addrs) (+) SetToBag({"us"})

Find        == [Idle EXCEPT !.kind = "find", !.state = TRUE, !.save = TRUE]
CheckSave   == [Idle EXCEPT !.kind = "check", !.save = TRUE, !.countries = {"US"}]
CheckLoad   == [CheckSave EXCEPT !.load = TRUE]
ServeUS     == [Idle EXCEPT !.kind = "serve", !.state = TRUE, !.recheck = TRUE, !.countries = {"US"}]
ServeFile   == [ServeUS EXCEPT !.load = TRUE, !.countries = {}]
ServeWatch  == [Idle EXCEPT !.kind = "serve", !.state = TRUE, !.load = TRUE, !.watch = TRUE]
ServeMemory == [Idle EXCEPT !.kind = "serve", !.recheck = TRUE, !.load = TRUE]

(* Three folds of a score of 300 / 1000, rounded down at each. *)
Lowest == [k \in 0..MaxFolds |-> <<300, 210, 147, 102>>[k + 1]]

ASSUME UnitIsPrecise == Precise(Lowest)

Everything == {Find, CheckSave, CheckLoad, ServeUS, ServeFile, ServeWatch, ServeMemory}

=============================================================================
