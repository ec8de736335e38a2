----------------------------- MODULE MCLivePool -----------------------------
(* Instances of LivePool for TLC. *)
EXTENDS LivePool

CONSTANTS a1, a2

Both == {a1, a2}

(* The file lists a1; or find yields a1, which the history had too, and a2. *)
ListsOne    == [a \in Both |-> IF a = a1 THEN 1 ELSE 0]
YieldsThree == [a \in Both |-> IF a = a1 THEN 2 ELSE 1]
ListsBoth   == [a \in Both |-> 1]
YieldsNone  == [a \in Both |-> 0]

=============================================================================
