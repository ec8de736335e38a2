--------------------------- MODULE MCCheckStream ---------------------------
(* Instances of CheckStream for TLC. *)
EXTENDS CheckStream

CONSTANTS i1, i2, i3

Three == {i1, i2, i3}
=============================================================================
