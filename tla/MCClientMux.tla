---------------------------- MODULE MCClientMux ----------------------------
(* Instances of ClientMux for TLC.                                         *)
EXTENDS ClientMux

CONSTANTS s1, s2

One == {s1}
Two == {s1, s2}
OneUot == {s2}
None == {}
=============================================================================
