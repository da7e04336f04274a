------------------------------- MODULE MCUot -------------------------------
(* Small sets of streams and peers for the runs of Uot. *)
EXTENDS Uot

CONSTANTS s1, s2, d1, d2, ip

One == {s1}
Two == {s1, s2}
OneDomain == {d1}
TwoDomains == {d1, d2}
OneIp == {ip}
=============================================================================
