------------------------- MODULE StreamTableProofs -------------------------
(***************************************************************************)
(* Proofs about StreamTable for every set of ids, table size and stream    *)
(* limit: the table is consistent, and it implements StreamMap.            *)
(***************************************************************************)
EXTENDS StreamTable, TLAPS, FiniteSetTheorems, WellFoundedInduction

\* The inductive invariant: a lookup answers by probing, so that it is right
\* (EveryStreamFound) is what keeps an insertion from making a second entry
\* (OneSlotEach), which in turn lets a removal be undone by one tombstone.
TableInv ==
    /\ TypeOK
    /\ OneSlotEach
    /\ EveryStreamFound
    /\ IsFiniteSet(Live)
    /\ ActiveIsCount
    /\ NeverOutOfSlots
-----------------------------------------------------------------------------
(* Probing an id stays inside the table.                                   *)
LEMMA ProbeType ==
    ASSUME NEW id \in Ids, NEW i \in Slots
    PROVE  Probe(id, i) \in Slots
  <1>1. Home(id) \in Slots
    BY TableAssumption DEF Home, Slots
  <1> QED
    BY <1>1, TableAssumption DEF Probe, Slots

(* Probing an id visits every slot of the table.                           *)
LEMMA ProbeOnto ==
    ASSUME NEW id \in Ids, NEW k \in Slots
    PROVE  \E i \in Slots : Probe(id, i) = k
  <1>1. Home(id) \in Slots
    BY TableAssumption DEF Home, Slots
  <1>2. CASE Home(id) <= k
    <2>1. k - Home(id) \in Slots /\ Probe(id, k - Home(id)) = k
      BY <1>1, <1>2, TableAssumption DEF Probe, Slots
    <2> QED  BY <2>1
  <1>3. CASE k < Home(id)
    <2>1. k + Size - Home(id) \in Slots /\ Probe(id, k + Size - Home(id)) = k
      BY <1>1, <1>3, TableAssumption DEF Probe, Slots
    <2> QED  BY <2>1
  <1> QED
    BY <1>1, <1>2, <1>3, TableAssumption DEF Slots

(* A nonempty set of slots has a least element.                            *)
LEMMA LeastSlot ==
    ASSUME NEW T \in SUBSET Slots, T # {}
    PROVE  \E i \in T : \A j \in 0 .. i - 1 : j \notin T
  <1>1. T \subseteq Nat
    BY TableAssumption DEF Slots
  <1>2. PICK i \in T : \A j \in T : ~ (<<j, i>> \in OpToRel(<, Nat))
    BY <1>1, NatLessThanWellFounded, WFMin
  <1>3. \A j \in T : ~ (j < i)
    BY <1>1, <1>2 DEF OpToRel
  <1> QED
    BY <1>1, <1>3

(* Below its stream limit the table has a free slot on every probe path:   *)
(* ngx_anytls_stream_alloc never fails for lack of a slot.                 *)
LEMMA SlotForEveryStream ==
    ASSUME TypeOK, OneSlotEach, IsFiniteSet(Live), ActiveIsCount,
           active < MaxStreams, NEW id \in Ids
    PROVE  \E i \in Slots : InsertsAt(id, i)
  <1>1. \E k \in Slots : Free(k)
    <2> SUFFICES ASSUME \A k \in Slots : ~Free(k)
                 PROVE  FALSE
      OBVIOUS
    <2>1. table \in [Slots -> Live]
      BY DEF Live, TypeOK, Free
    <2>2. IsFiniteSet(Slots) /\ Cardinality(Slots) = Size
      <3>1. 0 \in Int /\ Size - 1 \in Int /\ Size > 0 /\ Size - 1 - 0 + 1 = Size
        BY TableAssumption
      <3>2. IsFiniteSet(0 .. Size - 1)
            /\ Cardinality(0 .. Size - 1) = IF 0 > Size - 1 THEN 0 ELSE Size - 1 - 0 + 1
        BY <3>1, FS_Interval
      <3> QED  BY <3>1, <3>2, TableAssumption DEF Slots
    <2>3. Cardinality(Live) < Cardinality(Slots)
      BY <2>2, TableAssumption DEF ActiveIsCount, TypeOK
    <2>4. \E k, l \in Slots : k # l /\ table[k] = table[l]
      BY <2>1, <2>2, <2>3, FS_PigeonHole
    <2> QED
      BY <2>4 DEF OneSlotEach
  <1> DEFINE T == {i \in Slots : Free(Probe(id, i))}
  <1>2. T # {}
    BY <1>1, ProbeOnto
  <1>3. PICK i \in T : \A j \in 0 .. i - 1 : j \notin T
    <2>1. T \in SUBSET Slots
      OBVIOUS
    <2> QED  BY <1>2, <2>1, LeastSlot
  <1>4. \A j \in 0 .. i - 1 : j \in Slots
    BY TableAssumption DEF Slots
  <1> QED
    BY <1>3, <1>4 DEF InsertsAt
-----------------------------------------------------------------------------
(* The session starts with a consistent, empty table.                      *)
LEMMA InitInv == Init => TableInv
  <1> SUFFICES ASSUME Init PROVE TableInv
    OBVIOUS
  <1>1. Live = {}
    BY TableAssumption DEF Init, Live
  <1>2. TypeOK
    BY TableAssumption DEF Init, TypeOK, Answer
  <1>3. OneSlotEach /\ EveryStreamFound /\ NeverOutOfSlots
    BY <1>1 DEF Init, OneSlotEach, EveryStreamFound, NeverOutOfSlots, Free, Answer
  <1>4. IsFiniteSet(Live) /\ ActiveIsCount
    BY <1>1, FS_EmptySet, TableAssumption DEF Init, ActiveIsCount
  <1> QED
    BY <1>2, <1>3, <1>4 DEF TableInv

(* What an insertion does to the set of streams.                           *)
LEMMA InsertStep ==
    ASSUME TableInv, NEW id \in Ids, ~HtFind(id), NEW i \in Slots, HtInsert(id, i)
    PROVE  /\ table' \in [Slots -> Ids \cup {Empty, Tomb}]
           /\ id \notin Live /\ Live' = Live \cup {id}
           /\ OneSlotEach' /\ EveryStreamFound'
  <1> DEFINE k == Probe(id, i)
  <1>1. k \in Slots
    BY ProbeType
  <1>2. id \notin Live
    BY DEF TableInv, EveryStreamFound
  <1>3. table \in [Slots -> Ids \cup {Empty, Tomb}] /\ table' = [table EXCEPT ![k] = id]
    BY DEF HtInsert, TableInv, TypeOK
  <1>4. table[k] \in {Empty, Tomb}
    BY DEF HtInsert, InsertsAt, Free
  <1>5. Live' = Live \cup {id}
    BY <1>1, <1>3, <1>4, TableAssumption DEF Live
  <1>6. OneSlotEach'
    BY <1>1, <1>2, <1>3, TableAssumption DEF TableInv, OneSlotEach, Free, Live
  <1>7. ASSUME NEW d \in Live' PROVE HtFind(d)'
    <2>1. CASE d = id
      <3>1. \A j \in 0 .. i - 1 : j \in Slots /\ Probe(id, j) \in Slots /\ ~Free(Probe(id, j))
        BY ProbeType, TableAssumption DEF HtInsert, InsertsAt, Slots
      <3>2. \A j \in 0 .. i - 1 : table'[Probe(id, j)] # Empty
        BY <1>1, <1>3, <3>1, TableAssumption DEF Free
      <3>3. table'[Probe(id, i)] = id
        BY <1>1, <1>3
      <3> QED
        BY <2>1, <3>2, <3>3 DEF HtFind, Probe, Home
    <2>2. CASE d # id
      <3>1. d \in Live
        BY <1>5, <2>2
      <3>2. d \in Ids
        BY <3>1 DEF Live
      <3>3. PICK m \in Slots : /\ table[Probe(d, m)] = d
                               /\ \A j \in 0 .. m - 1 : table[Probe(d, j)] # Empty
        BY <3>1 DEF TableInv, EveryStreamFound, HtFind
      <3>4. \A j \in 0 .. m : Probe(d, j) \in Slots
        BY <3>2, ProbeType, TableAssumption DEF Slots
      <3>5. \A j \in 0 .. m - 1 : table'[Probe(d, j)] # Empty
        BY <1>3, <3>3, <3>4, TableAssumption DEF Slots
      <3>6. table'[Probe(d, m)] = d
        BY <1>3, <1>4, <3>2, <3>3, <3>4, TableAssumption DEF Slots
      <3> QED
        BY <3>5, <3>6 DEF HtFind, Probe, Home
    <2> QED
      BY <2>1, <2>2
  <1> QED
    BY <1>1, <1>2, <1>3, <1>5, <1>6, <1>7 DEF EveryStreamFound

(* What a removal does to the set of streams.                              *)
LEMMA RemoveStep ==
    ASSUME TableInv, NEW id \in Live, HtRemove(id)
    PROVE  /\ table' \in [Slots -> Ids \cup {Empty, Tomb}]
           /\ Live' = Live \ {id}
           /\ OneSlotEach' /\ EveryStreamFound'
  <1>1. id \in Ids
    BY DEF Live
  <1>2. PICK i \in Slots : RemovesAt(id, i) /\ table' = [table EXCEPT ![Probe(id, i)] = Tomb]
    BY DEF HtRemove
  <1> DEFINE k == Probe(id, i)
  <1>3. k \in Slots /\ table[k] = id
    BY <1>1, <1>2, ProbeType DEF RemovesAt
  <1>4. table \in [Slots -> Ids \cup {Empty, Tomb}]
    BY DEF TableInv, TypeOK
  <1>5. \A l \in Slots : table[l] = id => l = k
    BY <1>1, <1>3, TableAssumption DEF TableInv, OneSlotEach, Free
  <1>6. Live' = Live \ {id}
    BY <1>2, <1>3, <1>4, <1>5, TableAssumption DEF Live
  <1>7. OneSlotEach'
    BY <1>2, <1>3, <1>4, TableAssumption DEF TableInv, OneSlotEach, Free
  <1>8. ASSUME NEW d \in Live' PROVE HtFind(d)'
    <2>1. d \in Live /\ d # id /\ d \in Ids
      BY <1>6 DEF Live
    <2>2. PICK m \in Slots : /\ table[Probe(d, m)] = d
                             /\ \A j \in 0 .. m - 1 : table[Probe(d, j)] # Empty
      BY <2>1 DEF TableInv, EveryStreamFound, HtFind
    <2>3. \A j \in 0 .. m : Probe(d, j) \in Slots
      BY <2>1, ProbeType, TableAssumption DEF Slots
    <2>4. \A j \in 0 .. m - 1 : table'[Probe(d, j)] # Empty
      BY <1>2, <1>3, <1>4, <2>2, <2>3, TableAssumption DEF Slots
    <2>5. table'[Probe(d, m)] = d
      BY <1>2, <1>3, <1>4, <2>1, <2>2, <2>3, TableAssumption DEF Slots
    <2> QED
      BY <2>4, <2>5 DEF HtFind, Probe, Home
  <1> QED
    BY <1>2, <1>3, <1>4, <1>6, <1>7, <1>8 DEF EveryStreamFound

(* Every operation of the table keeps it consistent.                       *)
LEMMA NextInv == TableInv /\ [Next]_vars => TableInv'
  <1> SUFFICES ASSUME TableInv, [Next]_vars PROVE TableInv'
    OBVIOUS
  <1> USE TableAssumption
  <1>1. ASSUME UNCHANGED <<table, active>>, closed' \subseteq Live, NeverOutOfSlots',
               ret' \in [op : {"none", "create", "find", "mark", "close"}, id : Nat,
                         res : {"none", "existing", "created", "refused", "noslot",
                                "found", "absent"}]
        PROVE  TableInv'
    <2>1. Live' = Live
      BY <1>1 DEF Live
    <2>2. TypeOK'
      BY <1>1 DEF TableInv, TypeOK, Live
    <2>3. OneSlotEach' /\ EveryStreamFound'
      BY <1>1, <2>1 DEF TableInv, OneSlotEach, EveryStreamFound, HtFind, Free
    <2>4. IsFiniteSet(Live') /\ ActiveIsCount'
      BY <1>1, <2>1 DEF TableInv, ActiveIsCount
    <2> QED
      BY <1>1, <2>2, <2>3, <2>4, <2>1 DEF TableInv
  <1>2. ASSUME NEW id \in Ids, CreateNew(id) PROVE TableInv'
    <2>1. PICK i \in Slots : HtInsert(id, i)
      BY <1>2, SlotForEveryStream DEF CreateNew, Alloc, TableInv
    <2>2. active' = active + 1 /\ ret' = Answer("create", id, "created") /\ closed' = closed
      BY <1>2, SlotForEveryStream DEF CreateNew, Alloc, TableInv
    <2>3. /\ table' \in [Slots -> Ids \cup {Empty, Tomb}]
          /\ id \notin Live /\ Live' = Live \cup {id}
          /\ OneSlotEach' /\ EveryStreamFound'
      BY <1>2, <2>1, InsertStep DEF CreateNew
    <2>4. IsFiniteSet(Live') /\ Cardinality(Live') = Cardinality(Live) + 1
      BY <2>3, FS_AddElement DEF TableInv
    <2>5. ActiveIsCount'
      BY <1>2, <2>2, <2>3, <2>4 DEF CreateNew, TableInv, ActiveIsCount, TypeOK
    <2>6. TypeOK' /\ NeverOutOfSlots'
      BY <2>2, <2>3 DEF TableInv, TypeOK, NeverOutOfSlots, Answer
    <2> QED
      BY <2>3, <2>4, <2>5, <2>6 DEF TableInv
  <1>3. ASSUME NEW id \in Ids, Close(id) PROVE TableInv'
    <2>1. /\ table' \in [Slots -> Ids \cup {Empty, Tomb}]
          /\ Live' = Live \ {id}
          /\ OneSlotEach' /\ EveryStreamFound'
      BY <1>3, RemoveStep DEF Close
    <2>2. IsFiniteSet(Live') /\ Cardinality(Live') = Cardinality(Live) - 1 /\ Cardinality(Live') \in Nat
      BY <1>3, <2>1, FS_RemoveElement, FS_CardinalityType DEF Close, TableInv
    <2>3. ActiveIsCount' /\ active' \in Nat
      BY <1>3, <2>1, <2>2 DEF Close, TableInv, ActiveIsCount, TypeOK
    <2>4. TypeOK' /\ NeverOutOfSlots'
      BY <1>3, <2>1, <2>3 DEF Close, TableInv, TypeOK, NeverOutOfSlots, Answer
    <2> QED
      BY <2>1, <2>2, <2>3, <2>4 DEF TableInv
  <1>4. ASSUME NEW id \in Ids, CreateExisting(id) \/ CreateRefused(id) PROVE TableInv'
    BY <1>1, <1>4 DEF CreateExisting, CreateRefused, Answer, TableInv, ActiveIsCount, NeverOutOfSlots
  <1>5. ASSUME NEW id \in Ids, Find(id) PROVE TableInv'
    BY <1>1, <1>5 DEF Find, Answer, TableInv, ActiveIsCount, NeverOutOfSlots
  <1>6. ASSUME NEW id \in Ids, MarkClosed(id) PROVE TableInv'
    BY <1>1, <1>6 DEF MarkClosed, Answer, TableInv, ActiveIsCount, NeverOutOfSlots
  <1>7. CASE UNCHANGED vars
    BY <1>1, <1>7 DEF vars, TableInv, ActiveIsCount, NeverOutOfSlots, TypeOK
  <1> QED
    BY <1>2, <1>3, <1>4, <1>5, <1>6, <1>7 DEF Next, Create

(* The table of every session stays consistent.                            *)
THEOREM TableConsistent == Spec => []TableInv
  BY InitInv, NextInv, PTL DEF Spec

(* The variables have their types: each slot holds an id of a client, a    *)
(* tombstone or nothing, and every answer is one the callers handle.       *)
THEOREM TableTypes == Spec => []TypeOK
  <1>1. TableInv => TypeOK
    BY DEF TableInv
  <1> QED  BY <1>1, TableConsistent, PTL

(* ht_find reaches every stream that exists, in every reachable table.     *)
THEOREM StreamsFound == Spec => []EveryStreamFound
  <1>1. TableInv => EveryStreamFound
    BY DEF TableInv
  <1> QED  BY <1>1, TableConsistent, PTL

(* active_streams counts the entries and stays within max_streams.         *)
THEOREM LimitIsExact == Spec => []ActiveIsCount
  <1>1. TableInv => ActiveIsCount
    BY DEF TableInv
  <1> QED  BY <1>1, TableConsistent, PTL

(* A session below max_streams always gets a slot for a new stream.        *)
THEOREM SlotsSuffice == Spec => []NeverOutOfSlots
  <1>1. TableInv => NeverOutOfSlots
    BY DEF TableInv
  <1> QED  BY <1>1, TableConsistent, PTL
-----------------------------------------------------------------------------
(* An id is found by probing exactly when it has an entry.                 *)
LEMMA FindIsMembership ==
    ASSUME TableInv, NEW id \in Ids
    PROVE  HtFind(id) <=> id \in Live
  <1>1. HtFind(id) => id \in Live
    BY ProbeType DEF HtFind, Live
  <1> QED
    BY <1>1 DEF TableInv, EveryStreamFound

(* The open-addressing table implements the map the protocol code uses:    *)
(* create_if_absent, find, mark and close answer as the map does.          *)
THEOREM TableImplementsMap == Spec => MapSpec
  <1>1. Init => Map!Init
    BY TableAssumption DEF Init, Map!Init, Live, Answer, Map!Answer
  <1>2. TableInv /\ TableInv' /\ [Next]_vars => [Map!Next]_(Map!mvars)
    <2> SUFFICES ASSUME TableInv, TableInv', [Next]_vars
                 PROVE  Map!Next \/ UNCHANGED Map!mvars
      OBVIOUS
    <2>1. ASSUME UNCHANGED table PROVE Live' = Live
      BY <2>1 DEF Live
    <2>2. active = Cardinality(Live)
      BY DEF TableInv, ActiveIsCount
    <2>3. ASSUME NEW id \in Ids, CreateExisting(id) PROVE Map!Create(id)
      BY <2>1, <2>3, FindIsMembership DEF CreateExisting, Map!Create, Answer, Map!Answer
    <2>4. ASSUME NEW id \in Ids, CreateRefused(id) PROVE Map!Create(id)
      BY <2>1, <2>2, <2>4, FindIsMembership DEF CreateRefused, Map!Create, Answer, Map!Answer, Cardinality, Map!Cardinality
    <2>5. ASSUME NEW id \in Ids, CreateNew(id) PROVE Map!Create(id)
      <3>1. PICK i \in Slots : HtInsert(id, i)
        BY <2>5, SlotForEveryStream DEF CreateNew, Alloc, TableInv
      <3>2. ret' = Answer("create", id, "created") /\ closed' = closed /\ active < MaxStreams
        BY <2>5, SlotForEveryStream DEF CreateNew, Alloc, TableInv
      <3>3. id \notin Live /\ Live' = Live \cup {id}
        BY <2>5, <3>1, InsertStep DEF CreateNew
      <3> QED
        BY <2>2, <3>2, <3>3 DEF Map!Create, Answer, Map!Answer, Cardinality, Map!Cardinality
    <2>6. ASSUME NEW id \in Ids, Find(id) PROVE Map!Find(id)
      BY <2>1, <2>6, FindIsMembership DEF Find, Map!Find, Answer, Map!Answer
    <2>7. ASSUME NEW id \in Ids, MarkClosed(id) PROVE Map!MarkClosed(id)
      BY <2>1, <2>7 DEF MarkClosed, Map!MarkClosed, Answer, Map!Answer
    <2>8. ASSUME NEW id \in Ids, Close(id) PROVE Map!Close(id)
      BY <2>8, RemoveStep DEF Close, Map!Close, Answer, Map!Answer
    <2>9. CASE UNCHANGED vars
      BY <2>1, <2>9 DEF vars, Map!mvars
    <2> QED
      BY <2>3, <2>4, <2>5, <2>6, <2>7, <2>8, <2>9 DEF Next, Create, Map!Next
  <1> QED
    BY <1>1, <1>2, TableConsistent, PTL DEF Spec, MapSpec, Map!Spec
=============================================================================
