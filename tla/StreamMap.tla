----------------------------- MODULE StreamMap -----------------------------
(***************************************************************************)
(* What the per-session stream table promises to the protocol code: a      *)
(* finite map from stream id to stream, of at most MaxStreams entries,     *)
(* in which a stream closed by the protocol keeps its id taken but is no   *)
(* longer found.                                                           *)
(***************************************************************************)
EXTENDS Naturals, FiniteSets

CONSTANTS Ids,         (* the stream ids a client may use                   *)
          MaxStreams   (* anytls_max_streams                                *)

VARIABLES live,        (* ids that have an entry                            *)
          closed,      (* live ids that the protocol has closed             *)
          ret          (* what the last operation answered                  *)

mvars == <<live, closed, ret>>

Answer(op, id, res) == [op |-> op, id |-> id, res |-> res]

Init == live = {} /\ closed = {} /\ ret = Answer("none", 0, "none")

(* SYN: an existing entry is returned, whatever its state; a new one is    *)
(* made only below the limit.                                              *)
Create(id) ==
    \/ /\ id \in live
       /\ ret' = Answer("create", id, "existing")
       /\ UNCHANGED <<live, closed>>
    \/ /\ id \notin live /\ Cardinality(live) < MaxStreams
       /\ live' = live \cup {id}
       /\ ret' = Answer("create", id, "created")
       /\ UNCHANGED closed
    \/ /\ id \notin live /\ Cardinality(live) >= MaxStreams
       /\ ret' = Answer("create", id, "refused")
       /\ UNCHANGED <<live, closed>>

(* A frame for a stream finds it unless the protocol closed it.            *)
Find(id) ==
    /\ ret' = Answer("find", id, IF id \in live \ closed THEN "found" ELSE "absent")
    /\ UNCHANGED <<live, closed>>

MarkClosed(id) ==
    /\ id \in live
    /\ closed' = closed \cup {id}
    /\ ret' = Answer("mark", id, "none")
    /\ UNCHANGED live

Close(id) ==
    /\ id \in live
    /\ live' = live \ {id}
    /\ closed' = closed \ {id}
    /\ ret' = Answer("close", id, "none")

Next == \E id \in Ids : Create(id) \/ Find(id) \/ MarkClosed(id) \/ Close(id)

Spec == Init /\ [][Next]_mvars
=============================================================================
