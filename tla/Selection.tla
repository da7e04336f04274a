----------------------------- MODULE Selection -----------------------------
(***************************************************************************)
(* The elements of a queue that a loop over it (ngx_queue_next) takes out  *)
(* or leaves in place, by their places and in the order of the queue.      *)
(***************************************************************************)
EXTENDS Integers, Sequences, FiniteSets, Functions

\* the places I of a queue, from the first to the last
Ascending(I) ==
    CHOOSE e \in [1 .. Cardinality(I) -> I] :
        Range(e) = I /\ \A j, k \in DOMAIN e : j < k => e[j] < e[k]

\* what stands there, in this order
Picked(q, I) == LET e == Ascending(I) IN [j \in DOMAIN e |-> q[e[j]]]
=============================================================================
