--------------------------- MODULE MCClientInput ---------------------------
(* Small sets of streams for the runs of ClientInput. *)
EXTENDS ClientInput

CONSTANTS s1, s2

One == {s1}
Two == {s1, s2}
=============================================================================
