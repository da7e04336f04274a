--------------------------- MODULE MCStreamTable ---------------------------
(* Four ids, three of which share a home slot, in a table of four slots.   *)
EXTENDS StreamTable

MCIds == {0, 4, 8, 3}
=============================================================================
