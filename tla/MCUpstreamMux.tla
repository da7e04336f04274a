--------------------------- MODULE MCUpstreamMux ---------------------------
(* Small sets of streams for the runs of UpstreamMux. *)
EXTENDS UpstreamMux, TLC

CONSTANTS t1, t2

One == {t1}
Two == {t1, t2}

Symmetric == Permutations(Two)
=============================================================================
