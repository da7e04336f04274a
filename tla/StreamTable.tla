---------------------------- MODULE StreamTable ----------------------------
(***************************************************************************)
(* The stream table of one session (ngx_anytls_stream.c): open addressing  *)
(* with linear probing and tombstones.  A slot is empty, a tombstone, or   *)
(* the stream of an id.  Probing an id starts at id & mask, which for a    *)
(* power-of-two Size is id % Size, and wraps round.                        *)
(***************************************************************************)
EXTENDS Naturals, FiniteSets

CONSTANTS Ids,         (* the stream ids a client may use                   *)
          Size,        (* slots of the table, stream_ht_mask + 1            *)
          MaxStreams,  (* anytls_max_streams                                *)
          Empty,       (* NULL                                              *)
          Tomb         (* NGX_ANYTLS_STREAM_HT_TOMB                         *)

\* connection init sizes the table to at least twice max_streams; the proofs
\* only need one slot more than there can be streams.
ASSUME TableAssumption ==
    /\ Ids \subseteq Nat
    /\ Size \in Nat /\ MaxStreams \in Nat /\ MaxStreams < Size
    /\ Empty \notin Ids /\ Tomb \notin Ids /\ Empty # Tomb

VARIABLES table,       (* ac->stream_ht                                     *)
          active,      (* ac->active_streams                                *)
          closed,      (* ids whose stream has closed_by_protocol set       *)
          ret          (* what the last operation returned to its caller    *)

vars == <<table, active, closed, ret>>

Slots == 0 .. Size - 1

Answer(op, id, res) == [op |-> op, id |-> id, res |-> res]

(***************************************************************************)
(* Probing                                                                 *)
(***************************************************************************)

\* The first slot tried for an id.
Home(id) == id % Size

\* The slot tried after i steps.
Probe(id, i) == IF Home(id) + i < Size THEN Home(id) + i ELSE Home(id) + i - Size

\* mutant of HtFind: a tombstone ends the search
FindStopsAtTomb(id) ==
    \E i \in Slots : /\ table[Probe(id, i)] = id
                     /\ \A j \in 0 .. i - 1 : table[Probe(id, j)] \notin {Empty, Tomb}

\* ht_find stops at the first empty slot and skips tombstones.
HtFind(id) ==
    \E i \in Slots : /\ table[Probe(id, i)] = id
                     /\ \A j \in 0 .. i - 1 : table[Probe(id, j)] # Empty

\* mutant of Free: tombstones are not reused
FreeIfEmpty(k) == table[k] = Empty

Free(k) == table[k] \in {Empty, Tomb}

\* ht_insert takes the first slot that is empty or a tombstone.
InsertsAt(id, i) == Free(Probe(id, i)) /\ \A j \in 0 .. i - 1 : ~Free(Probe(id, j))

HtInsert(id, i) ==
    /\ InsertsAt(id, i)
    /\ table' = [table EXCEPT ![Probe(id, i)] = id]

\* ht_remove walks over empty slots too, until it meets the stream itself.
RemovesAt(id, i) ==
    table[Probe(id, i)] = id /\ \A j \in 0 .. i - 1 : table[Probe(id, j)] # id

\* mutant of HtRemove: the slot is emptied
RemoveToEmpty(id) ==
    \E i \in Slots : RemovesAt(id, i) /\ table' = [table EXCEPT ![Probe(id, i)] = Empty]

HtRemove(id) ==
    \E i \in Slots : RemovesAt(id, i) /\ table' = [table EXCEPT ![Probe(id, i)] = Tomb]

(***************************************************************************)
(* Operations                                                              *)
(***************************************************************************)

\* The streams that exist: the ones the session can reach through stream_list.
Live == {id \in Ids : \E k \in Slots : table[k] = id}

Init ==
    /\ table = [k \in Slots |-> Empty]
    /\ active = 0
    /\ closed = {}
    /\ ret = Answer("none", 0, "none")

CreateExisting(id) ==
    /\ HtFind(id)
    /\ ret' = Answer("create", id, "existing")
    /\ UNCHANGED <<table, active, closed>>

CreateRefused(id) ==
    /\ ~HtFind(id)
    /\ active >= MaxStreams
    /\ ret' = Answer("create", id, "refused")
    /\ UNCHANGED <<table, active, closed>>

\* ngx_anytls_stream_alloc gives up when ht_insert finds no slot.
Alloc(id) ==
    IF \E i \in Slots : InsertsAt(id, i)
    THEN /\ \E i \in Slots : HtInsert(id, i)
         /\ active' = active + 1
         /\ ret' = Answer("create", id, "created")
    ELSE /\ ret' = Answer("create", id, "noslot")
         /\ UNCHANGED <<table, active>>

\* mutant of CreateNew: the limit is off by one
CreateNewAtLimit(id) ==
    /\ ~HtFind(id)
    /\ active <= MaxStreams
    /\ Alloc(id)
    /\ UNCHANGED closed

CreateNew(id) ==
    /\ ~HtFind(id)
    /\ active < MaxStreams
    /\ Alloc(id)
    /\ UNCHANGED closed

\* ngx_anytls_stream_create_if_absent
Create(id) == CreateExisting(id) \/ CreateRefused(id) \/ CreateNew(id)

\* mutant of Find: closed_by_protocol is not looked at
FindClosedToo(id) ==
    /\ ret' = Answer("find", id, IF HtFind(id) THEN "found" ELSE "absent")
    /\ UNCHANGED <<table, active, closed>>

\* ngx_anytls_stream_find
Find(id) ==
    /\ ret' = Answer("find", id, IF HtFind(id) /\ id \notin closed THEN "found" ELSE "absent")
    /\ UNCHANGED <<table, active, closed>>

\* ngx_anytls_stream_mark_closed_by_protocol, on a stream that exists
MarkClosed(id) ==
    /\ id \in Live
    /\ closed' = closed \cup {id}
    /\ ret' = Answer("mark", id, "none")
    /\ UNCHANGED <<table, active>>

\* mutant of Close: the CLOSED early return is missing
CloseTwice(id) ==
    /\ HtRemove(id) \/ (id \notin Live /\ UNCHANGED table)
    /\ active' = active - 1
    /\ closed' = closed \ {id}
    /\ ret' = Answer("close", id, "none")

\* the end of ngx_anytls_stream_close, on a stream that exists
Close(id) ==
    /\ id \in Live
    /\ HtRemove(id)
    /\ active' = active - 1
    /\ closed' = closed \ {id}
    /\ ret' = Answer("close", id, "none")

Next == \E id \in Ids : Create(id) \/ Find(id) \/ MarkClosed(id) \/ Close(id)

Spec == Init /\ [][Next]_vars
-----------------------------------------------------------------------------
\* The types.  closed holds ids only, so mark_closed and close agree on them.
TypeOK ==
    /\ table \in [Slots -> Ids \cup {Empty, Tomb}]
    /\ active \in Nat
    /\ closed \subseteq Ids
    /\ ret \in [op : {"none", "create", "find", "mark", "close"}, id : Nat,
                res : {"none", "existing", "created", "refused", "noslot", "found", "absent"}]

\* A stream sits in one slot only: a second entry would be stranded behind
\* the first (the comment of create_if_absent).
OneSlotEach == \A k, l \in Slots : table[k] = table[l] /\ ~Free(k) => k = l

\* ht_find reaches every stream that exists: no removal leaves an empty slot
\* between an id's first probe and its entry.
EveryStreamFound == \A id \in Live : HtFind(id)

\* active_streams counts the entries, so the max_streams limit is the real one.
ActiveIsCount == active = Cardinality(Live) /\ active <= MaxStreams /\ closed \subseteq Live

\* A session below its stream limit never lacks a slot, however many
\* tombstones earlier streams left behind.
NeverOutOfSlots == ret.res # "noslot"

\* The table implements the map the protocol code relies on.
Map == INSTANCE StreamMap WITH live <- Live
MapSpec == Map!Spec
=============================================================================
