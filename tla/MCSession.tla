----------------------------- MODULE MCSession ------------------------------
(* A session with two stream ids for TLC. *)
EXTENDS Session, TLC

CONSTANTS s1, s2

\* an address that comes at once, and one that two frames may carry
MCAddrLen == [ip |-> 1, name |-> 2, bad |-> 1]
=============================================================================
