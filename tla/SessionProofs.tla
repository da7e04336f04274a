--------------------------- MODULE SessionProofs ----------------------------
(***************************************************************************)
(* Proofs about Session for every set of ids, every length of the          *)
(* addresses and every limit: what the upstreams get, what the log says,   *)
(* who waits for whom, and that a stream is answered once.                 *)
(***************************************************************************)
EXTENDS Session, TLAPS, FiniteSetTheorems, SequenceTheorems

\* The bytes behind byte number from up to the one with number to.
Bytes(from, to) == [k \in 1 .. to - from |-> from + k]

\* A stream whose address is not complete yet has nothing of what comes later.
Idle(f) ==
    /\ f.state \in {"none", "init"} /\ f.acc = f.got /\ f.acc < AddrLen[f.target]
    /\ ~f.delayed /\ ~f.query /\ f.net = "none" /\ ~f.timer /\ ~f.posted
    /\ f.pend = <<>> /\ f.up = <<>> /\ f.synack = "no" /\ f.queued = 0 /\ f.rec = 0

\* A stream is in the table or nothing is left of it, and opens when the address
\* is complete.
TableOk(f) ==
    /\ f.acc < MaxAddr
    /\ f.state = "none" => f = NoStream
    /\ ~f.seen => Idle(f)

\* What PayloadAfterAddress says of one stream, with the address behind it.
PayloadOk(f) ==
    f.seen => /\ f.got >= AddrLen[f.target]
              /\ ~f.delayed => f.up \o f.pend = Bytes(AddrLen[f.target], f.got)

\* What the handlers rely on: who holds a socket has a record, who is posted has a
\* socket, who has frames queued was answered, who is delayed holds nothing.
HoldsOk(f) ==
    /\ f.query => f.net = "none"
    /\ f.timer => f.state = "connecting" /\ f.net # "none"
    /\ f.posted => f.net # "none"
    /\ f.net # "none" => f.rec > 0
    /\ f.rec = 0 => f.counted = 0
    /\ f.state \in {"connected", "half_closed"} => f.synack # "no"
    /\ f.queued > 0 => f.synack # "no"
    /\ f.delayed => /\ f.closed /\ f.synack # "no"
                    /\ ~f.query /\ f.net = "none" /\ f.pend = <<>>

StreamOk(f) == f \in Stream /\ TableOk(f) /\ PayloadOk(f) /\ HoldsOk(f)

\* What a handler leaves behind besides: while connecting, somebody will answer.
Held(f) == f.state = "connecting" /\ f.synack = "no" => (f.query # (f.net # "none" /\ f.timer))

\* Streams s and log l belong together.
LogOk(s, l) ==
    /\ l \in Seq(Record)
    /\ \A i \in Ids : s[i].rec \in 0 .. Len(l)
    /\ \A i \in Ids : s[i].rec > 0 =>
          IF s[i].delayed THEN l[s[i].rec].final
          ELSE ~l[s[i].rec].final /\ l[s[i].rec].wrote = s[i].counted
    /\ \A i, j \in Ids : i # j /\ s[i].rec > 0 => s[i].rec # s[j].rec
    /\ \A r \in 1 .. Len(l) : IF l[r].final THEN l[r].sent = l[r].wrote
                              ELSE \E i \in Ids : s[i].rec = r /\ ~s[i].delayed

InTable == {id \in Ids : st[id].state # "none"}

\* The inductive invariant.
SessionInv ==
    /\ TypeOK
    /\ IsFiniteSet(InTable)
    /\ \A id \in Ids : StreamOk(st[id]) /\ Held(st[id])
    /\ LogOk(st, log)
    /\ ~open => st = [id \in Ids |-> NoStream]

\* What the operations on a stream work on.
Result == [f : Stream, log : Seq(Record), rc : {"ok", "error"}]

\* x came about by work on one stream that had record b (0: none) while the log
\* was l: other records are as they were, and its own ones are right.
Own(b, l, x) ==
    /\ Len(x.log) >= Len(l)
    /\ \A r \in 1 .. Len(l) : r # b => x.log[r] = l[r]
    /\ x.f.rec \in 0 .. Len(x.log) /\ (x.f.rec \in {0, b} \/ x.f.rec > Len(l))
    /\ \A r \in 1 .. Len(x.log) : r = b \/ r > Len(l) =>
          IF x.log[r].final THEN x.log[r].sent = x.log[r].wrote
          ELSE x.f.rec = r /\ ~x.f.delayed
    /\ x.f.rec > 0 => IF x.f.delayed THEN x.log[x.f.rec].final
                      ELSE ~x.log[x.f.rec].final /\ x.log[x.f.rec].wrote = x.f.counted

Good(b, l, x) == x \in Result /\ StreamOk(x.f) /\ Own(b, l, x)

\* Work can go on for the stream of x.
Running(x) == x.f.seen /\ ~x.f.delayed

\* An answer that was given stays as it is, and nothing is queued.
SameAnswer(f, g) == f.synack # "no" => g.synack = f.synack /\ g.queued = f.queued

\* The same for a handler that may have closed the stream.
Answered(f, g) == g.state = "none" \/ SameAnswer(f, g)
-----------------------------------------------------------------------------
(* A stream that is not there satisfies what is asked of one.              *)
LEMMA NoStreamOk ==
    NoStream \in Stream /\ StreamOk(NoStream) /\ Held(NoStream) /\ ~NoStream.seen
    /\ NoStream.rec = 0 /\ NoStream.state = "none"
  <1>1. NoStream \in Stream
    BY SessionAssumption DEF NoStream, Stream, Targets
  <1>2. TableOk(NoStream)
    <2>1. AddrLen["ip"] > 0
      BY SessionAssumption DEF Targets
    <2> QED  BY <2>1, SessionAssumption DEF NoStream, Idle, TableOk
  <1>3. PayloadOk(NoStream) /\ HoldsOk(NoStream) /\ Held(NoStream)
    BY DEF NoStream, PayloadOk, HoldsOk, Held
  <1> QED
    BY <1>1, <1>2, <1>3 DEF StreamOk, NoStream

(* Only the record, the delay and the count of a stream matter to the log. *)
LEMMA OwnSame ==
    ASSUME NEW b \in Nat, NEW l \in Seq(Record), NEW x, NEW y,
           Own(b, l, x), y.log = x.log, y.f.rec = x.f.rec, y.f.delayed = x.f.delayed,
           y.f.counted = x.f.counted
    PROVE  Own(b, l, y)
  BY DEF Own

(* A stream that changes alone.                                            *)
LEMMA WithStream ==
    ASSUME NEW x \in Result, NEW g \in Stream, NEW y, y = [x EXCEPT !.f = g]
    PROVE  y \in Result /\ y.f = g /\ y.log = x.log /\ y.rc = x.rc
  BY DEF Result

(* ngx_anytls_upstream_state_open: a running stream has a record after it. *)
LEMMA StateOpenGood ==
    ASSUME NEW b \in Nat, NEW l \in Seq(Record), NEW x,
           Good(b, l, x), Running(x), NEW y, y = StateOpen(x)
    PROVE  /\ y.rc = x.rc /\ y.f = [x.f EXCEPT !.rec = y.f.rec] /\ y.f.rec > 0
           /\ Good(b, l, y)
  <1> DEFINE n == Len(x.log) + 1
             new == [sent |-> 0, final |-> FALSE, wrote |-> 0]
             g == [x.f EXCEPT !.rec = n]
  <1>0. x \in Result /\ x.f \in Stream /\ x.log \in Seq(Record) /\ StreamOk(x.f) /\ Own(b, l, x)
    BY DEF Good, Result
  <1>1. CASE x.f.rec > 0
    <2>1. y = x
      BY <1>1 DEF StateOpen
    <2> QED  BY <2>1, <1>0, <1>1 DEF Stream
  <1>2. CASE ~(x.f.rec > 0)
    <2>1. x.f.rec = 0 /\ new \in Record /\ n \in Nat /\ n > 0 /\ Len(x.log) \in Nat /\ Len(l) \in Nat
      BY <1>0, <1>2 DEF Stream, Record
    <2>2. y.log = Append(x.log, new) /\ y.f = g /\ y.rc = x.rc
      BY <1>0, <1>2 DEF StateOpen, Result
    <2>3. /\ y.log \in Seq(Record) /\ Len(y.log) = Len(x.log) + 1
          /\ \A r \in 1 .. Len(x.log) : y.log[r] = x.log[r]
          /\ y.log[n] = new
      <3> HIDE DEF new
      <3> QED  BY <1>0, <2>1, <2>2, AppendProperties
    <2>4. g \in Stream
      BY <1>0, <2>1 DEF Stream
    <2>5. y \in Result
      <3>1. y = [f |-> g, log |-> Append(x.log, new), rc |-> x.rc]
        BY <1>0, <1>2 DEF StateOpen, Result
      <3>2. x.rc \in {"ok", "error"}
        BY <1>0 DEF Result
      <3> HIDE DEF g
      <3> QED  BY <2>2, <2>3, <2>4, <3>1, <3>2 DEF Result
    <2>6. StreamOk(g)
      <3>1. TableOk(g)
        BY <1>0, <2>4, NoStreamOk DEF StreamOk, TableOk, Stream, Running
      <3>2. PayloadOk(g)
        BY <1>0, <2>4 DEF StreamOk, PayloadOk, Stream
      <3>3. HoldsOk(g)
        BY <1>0, <2>1, <2>4 DEF StreamOk, HoldsOk, Stream
      <3> QED  BY <2>4, <3>1, <3>2, <3>3 DEF StreamOk
    <2>7. g.rec = n /\ g.delayed = FALSE /\ g.counted = 0
      BY <1>0, <2>1 DEF Stream, Running, StreamOk, HoldsOk
    <2> HIDE DEF g
    <2>8. Own(b, l, y)
      <3>1. Len(y.log) >= Len(l)
        BY <1>0, <2>1, <2>3 DEF Own
      <3>2. \A r \in 1 .. Len(l) : r # b => y.log[r] = l[r]
        BY <1>0, <2>1, <2>3 DEF Own
      <3>3. y.f.rec \in 0 .. Len(y.log) /\ (y.f.rec \in {0, b} \/ y.f.rec > Len(l))
        BY <1>0, <2>1, <2>2, <2>3, <2>7 DEF Own
      <3>4. ASSUME NEW r \in 1 .. Len(y.log), r = b \/ r > Len(l)
            PROVE  IF y.log[r].final THEN y.log[r].sent = y.log[r].wrote
                   ELSE y.f.rec = r /\ ~y.f.delayed
        <4>1. CASE r \in 1 .. Len(x.log)
          <5>1. y.log[r] = x.log[r]
            BY <2>3, <4>1
          <5>2. x.log[r].final /\ x.log[r].sent = x.log[r].wrote
            BY <1>0, <2>1, <3>4, <4>1 DEF Own
          <5> QED  BY <5>1, <5>2
        <4>2. CASE r = n
          BY <2>2, <2>3, <2>7, <4>2
        <4> QED  BY <2>1, <2>3, <4>1, <4>2
      <3>5. y.f.rec > 0 => IF y.f.delayed THEN y.log[y.f.rec].final
                           ELSE ~y.log[y.f.rec].final /\ y.log[y.f.rec].wrote = y.f.counted
        BY <2>2, <2>3, <2>7
      <3> QED  BY <3>1, <3>2, <3>3, <3>4, <3>5 DEF Own
    <2> QED  BY <2>1, <2>2, <2>5, <2>6, <2>7, <2>8 DEF Good, g
  <1> QED  BY <1>1, <1>2

(* ngx_anytls_upstream_state_finalize: every record of the stream is final *)
(* after it, with the bytes its upstream was sent.                         *)
LEMMA StateFinalizeProps ==
    ASSUME NEW b \in Nat, NEW l \in Seq(Record), NEW x \in Result, Own(b, l, x),
           NEW y, y = StateFinalize(x)
    PROVE  /\ y \in Result /\ y.f = x.f /\ y.rc = x.rc
           /\ Len(y.log) = Len(x.log) /\ Len(y.log) >= Len(l)
           /\ \A r \in 1 .. Len(l) : r # b => y.log[r] = l[r]
           /\ \A r \in 1 .. Len(y.log) : r = b \/ r > Len(l) =>
                 y.log[r].final /\ y.log[r].sent = y.log[r].wrote
  <1> DEFINE r0 == x.f.rec
             e == [x.log[r0] EXCEPT !.sent = x.f.counted, !.final = TRUE]
  <1>0. /\ x.f \in Stream /\ x.log \in Seq(Record) /\ r0 \in Nat /\ x.f.counted \in Nat
        /\ Len(l) \in Nat /\ Len(x.log) \in Nat /\ r0 \in 0 .. Len(x.log)
        /\ (r0 \in {0, b} \/ r0 > Len(l))
    BY DEF Result, Stream, Own
  <1>1. CASE r0 = 0 \/ x.log[r0].final
    <2>1. y = x
      BY <1>1 DEF StateFinalize
    <2> QED  BY <1>0, <1>1, <2>1 DEF Own
  <1>2. CASE r0 # 0 /\ ~x.log[r0].final
    <2>1. r0 \in 1 .. Len(x.log) /\ x.log[r0] \in Record
      <3>1. r0 \in 1 .. Len(x.log)
        BY <1>0, <1>2
      <3>2. x.log[r0] \in Record
        BY <1>0, <3>1, ElementOfSeq
      <3> QED  BY <3>1, <3>2
    <2>2. y.f = x.f /\ y.rc = x.rc
      BY <1>2 DEF StateFinalize, Result
    <2>4. e \in Record /\ e.final /\ e.sent = x.f.counted /\ e.wrote = x.log[r0].wrote
      <3>1. e = [x.log[r0] EXCEPT !.sent = x.f.counted, !.final = TRUE]
        OBVIOUS
      <3> HIDE DEF e
      <3> QED  BY <1>0, <2>1, <3>1 DEF Record
    <2>5. y.log = [x.log EXCEPT ![r0] = e]
      BY <1>0, <1>2, <2>1 DEF StateFinalize, Result
    <2>6. /\ y.log \in Seq(Record) /\ Len(y.log) = Len(x.log)
          /\ \A r \in 1 .. Len(x.log) : y.log[r] = IF r = r0 THEN e ELSE x.log[r]
      <3> HIDE DEF e
      <3> QED  BY <1>0, <2>1, <2>4, <2>5, ExceptSeq
    <2>7. y \in Result
      <3>1. y = [f |-> y.f, log |-> y.log, rc |-> y.rc]
        BY <1>2 DEF StateFinalize, Result
      <3>2. x.rc \in {"ok", "error"}
        BY DEF Result
      <3> QED  BY <1>0, <2>2, <2>6, <3>1, <3>2 DEF Result
    <2>8. e.final /\ e.sent = e.wrote
      BY <1>0, <1>2, <2>1, <2>4 DEF Own
    <2> HIDE DEF e
    <2>9. \A r \in 1 .. Len(l) : r # b => y.log[r] = l[r]
      BY <1>0, <2>1, <2>6 DEF Own
    <2>10. \A r \in 1 .. Len(y.log) : r = b \/ r > Len(l) =>
              y.log[r].final /\ y.log[r].sent = y.log[r].wrote
      BY <1>0, <2>1, <2>6, <2>8 DEF Own
    <2> QED  BY <1>0, <2>2, <2>6, <2>7, <2>9, <2>10 DEF Own
  <1> QED  BY <1>0, <1>1, <1>2

(* ngx_anytls_stream_close: nothing is left of the stream, or it waits for *)
(* its frames and holds nothing.                                           *)
LEMMA StreamCloseGood ==
    ASSUME NEW b \in Nat, NEW l \in Seq(Record), NEW x, Good(b, l, x),
           NEW y, y = StreamClose(x)
    PROVE  /\ Good(b, l, y) /\ Held(y.f) /\ y.rc = x.rc
           /\ \/ y.f = NoStream
              \/ /\ y.f.state = "closing" /\ y.f.synack = x.f.synack /\ y.f.seen
                 /\ y.f.queued = x.f.queued /\ y.f.synack # "no"
  <1> DEFINE z == StateFinalize(x)
             g == [Release(x.f) EXCEPT !.state = "closing", !.delayed = TRUE]
  <1>0. x \in Result /\ x.f \in Stream /\ StreamOk(x.f) /\ Own(b, l, x)
    BY DEF Good, Result
  <1>1. /\ z \in Result /\ z.f = x.f /\ z.rc = x.rc
        /\ Len(z.log) = Len(x.log) /\ Len(z.log) >= Len(l)
        /\ \A r \in 1 .. Len(l) : r # b => z.log[r] = l[r]
        /\ \A r \in 1 .. Len(z.log) : r = b \/ r > Len(l) =>
              z.log[r].final /\ z.log[r].sent = z.log[r].wrote
    BY <1>0, StateFinalizeProps
  <1> HIDE DEF z
  <1>2. CASE x.f.queued > 0
    <2>1. /\ g \in Stream /\ g.state = "closing" /\ g.delayed /\ g.closed
          /\ ~g.query /\ g.net = "none" /\ ~g.timer /\ ~g.posted
          /\ g.pend = <<>> /\ g.acc = x.f.acc /\ g.seen = x.f.seen /\ g.got = x.f.got
          /\ g.target = x.f.target /\ g.rec = x.f.rec /\ g.counted = x.f.counted
          /\ g.queued = x.f.queued /\ g.synack = x.f.synack
      <3>1. x.f \in Stream
        BY <1>0
      <3>2. g \in Stream
        <4> DEFINE h == Release(x.f)
                   none == <<>>
        <4>1. h \in Stream
          <5>1. none \in Seq(Nat)
            OBVIOUS
          <5>2. h = [x.f EXCEPT !.closed = TRUE, !.query = FALSE, !.net = "none",
                                !.timer = FALSE, !.posted = FALSE, !.pend = none]
            BY DEF Release
          <5> HIDE DEF none, h
          <5> QED  BY <3>1, <5>1, <5>2 DEF Stream
        <4> HIDE DEF h
        <4>2. [h EXCEPT !.state = "closing", !.delayed = TRUE] \in Stream
          BY <4>1 DEF Stream
        <4> QED  BY <4>2 DEF h
      <3>3. /\ g.state = "closing" /\ g.delayed /\ g.closed /\ ~g.query /\ g.net = "none"
            /\ ~g.timer /\ ~g.posted /\ g.pend = <<>>
        BY <3>1 DEF Release, Stream
      <3>4. /\ g.acc = x.f.acc /\ g.seen = x.f.seen /\ g.got = x.f.got
            /\ g.target = x.f.target /\ g.rec = x.f.rec /\ g.counted = x.f.counted
            /\ g.queued = x.f.queued /\ g.synack = x.f.synack
        BY <3>1 DEF Release, Stream
      <3> QED  BY <3>2, <3>3, <3>4
    <2>2. y = [z EXCEPT !.f = g]
      BY <1>2 DEF StreamClose, z
    <2> HIDE DEF g
    <2>3. x.f.synack # "no" /\ x.f.seen
      BY <1>0, <1>2 DEF StreamOk, HoldsOk, TableOk, Idle
    <2>4. TableOk(g)
      BY <1>0, <2>1, <2>3 DEF StreamOk, TableOk
    <2>5. PayloadOk(g)
      BY <1>0, <2>1, <2>3 DEF StreamOk, PayloadOk
    <2>6. HoldsOk(g) /\ Held(g)
      BY <1>0, <2>1, <2>3 DEF StreamOk, HoldsOk, Held
    <2>7. y \in Result /\ y.f = g /\ y.log = z.log /\ y.rc = z.rc
      BY <1>1, <2>1, <2>2, WithStream
    <2>8. Own(b, l, y)
      <3>1. /\ y.f.rec \in 0 .. Len(y.log) /\ (y.f.rec \in {0, b} \/ y.f.rec > Len(l))
            /\ y.f.delayed /\ Len(l) \in Nat /\ Len(y.log) \in Nat
        BY <1>0, <1>1, <2>1, <2>7 DEF Own, Result
      <3>2. \A r \in 1 .. Len(y.log) : r = b \/ r > Len(l) =>
               y.log[r].final /\ y.log[r].sent = y.log[r].wrote
        BY <1>1, <2>7
      <3>3. y.f.rec > 0 => y.log[y.f.rec].final
        BY <3>1, <3>2
      <3> QED  BY <1>1, <2>7, <3>1, <3>2, <3>3 DEF Own
    <2> QED
      BY <1>1, <2>1, <2>3, <2>4, <2>5, <2>6, <2>7, <2>8 DEF StreamOk, Good
  <1>3. CASE ~(x.f.queued > 0)
    <2>1. y = [z EXCEPT !.f = NoStream]
      BY <1>3 DEF StreamClose, z
    <2>2. y \in Result /\ y.f = NoStream /\ y.log = z.log /\ y.rc = z.rc
      BY <1>1, <2>1, NoStreamOk, WithStream
    <2>3. Own(b, l, y)
      BY <1>0, <1>1, <2>2, NoStreamOk DEF Own
    <2> QED
      BY <1>1, <2>2, <2>3, NoStreamOk DEF StreamOk, Good
  <1> QED  BY <1>2, <1>3

(* ngx_anytls_client_mux_send_synack on a stream that is open.             *)
LEMMA SendSynackOk ==
    ASSUME NEW f, StreamOk(f), f.seen, ~f.delayed, NEW a \in {"ok", "error"},
           NEW g, g = SendSynack(f, a)
    PROVE  /\ StreamOk(g) /\ g.synack # "no" /\ SameAnswer(f, g) /\ g.queued \in Nat
           /\ g = [f EXCEPT !.synack = g.synack, !.queued = g.queued]
  <1>0. f \in Stream
    BY DEF StreamOk
  <1>1. CASE f.synack # "no"
    BY <1>0, <1>1 DEF SendSynack, SameAnswer, Stream
  <1>2. CASE f.synack = "no"
    <2> DEFINE q == f.queued + (IF version < 2 THEN 0 ELSE 1)
    <2>1. q \in Nat
      BY <1>0 DEF Stream
    <2>2. g = [f EXCEPT !.synack = a, !.queued = q]
      BY <1>0, <1>2 DEF SendSynack, Stream
    <2> HIDE DEF q
    <2>3. /\ g \in Stream /\ g.synack = a /\ g.queued = q /\ g.state = f.state
          /\ g.delayed = f.delayed /\ g.closed = f.closed /\ g.query = f.query
          /\ g.net = f.net /\ g.timer = f.timer /\ g.posted = f.posted
          /\ g.pend = f.pend /\ g.acc = f.acc /\ g.seen = f.seen /\ g.got = f.got
          /\ g.target = f.target /\ g.rec = f.rec /\ g.counted = f.counted
          /\ g.up = f.up
      BY <1>0, <2>1, <2>2 DEF Stream
    <2>4. TableOk(g)
      BY <2>3, NoStreamOk DEF StreamOk, TableOk
    <2>5. PayloadOk(g)
      BY <2>3 DEF StreamOk, PayloadOk
    <2>6. HoldsOk(g)
      BY <2>3 DEF StreamOk, HoldsOk
    <2> QED
      BY <1>2, <2>1, <2>2, <2>3, <2>4, <2>5, <2>6 DEF StreamOk, SameAnswer
  <1> QED  BY <1>1, <1>2

(* What is behind two runs of bytes that follow each other.                *)
LEMMA BytesJoin ==
    ASSUME NEW from \in Nat, NEW mid \in Nat, NEW to \in Nat, from <= mid, mid <= to
    PROVE  /\ Bytes(from, mid) \in Seq(Nat)
           /\ Bytes(from, mid) \o [k \in 1 .. to - mid |-> mid + k] = Bytes(from, to)
  <1> DEFINE s == Bytes(from, mid)
             t == [k \in 1 .. to - mid |-> mid + k]
             u == Bytes(from, to)
  <1>1. mid - from \in Nat /\ to - mid \in Nat /\ to - from \in Nat
    OBVIOUS
  <1>2. s \in Seq(Nat) /\ Len(s) = mid - from /\ \A k \in 1 .. mid - from : s[k] = from + k
    BY <1>1 DEF Bytes
  <1>3. t \in Seq(Nat) /\ Len(t) = to - mid /\ \A k \in 1 .. to - mid : t[k] = mid + k
    BY <1>1
  <1>4. u \in Seq(Nat) /\ Len(u) = to - from /\ \A k \in 1 .. to - from : u[k] = from + k
    BY <1>1 DEF Bytes
  <1> HIDE DEF s, t, u
  <1>5. /\ s \o t \in Seq(Nat) /\ Len(s \o t) = Len(s) + Len(t)
        /\ \A i \in 1 .. Len(s) + Len(t) : (s \o t)[i] = IF i <= Len(s) THEN s[i] ELSE t[i - Len(s)]
    BY <1>2, <1>3, ConcatProperties
  <1>6. Len(s \o t) = Len(u)
    BY <1>1, <1>2, <1>3, <1>4, <1>5
  <1>7. ASSUME NEW i \in 1 .. Len(s \o t)
        PROVE  (s \o t)[i] = u[i]
    <2>1. /\ i \in 1 .. to - from
          /\ (s \o t)[i] = IF i <= mid - from THEN s[i] ELSE t[i - (mid - from)]
      <3>1. Len(s) + Len(t) = to - from /\ Len(s) = mid - from
        BY <1>1, <1>2, <1>3
      <3>2. i \in 1 .. to - from
        BY <1>5, <3>1
      <3> QED  BY <1>5, <3>1, <3>2
    <2>2. u[i] = from + i
      BY <1>4, <2>1
    <2>3. CASE i <= mid - from
      BY <1>1, <1>2, <2>1, <2>2, <2>3
    <2>4. CASE i > mid - from
      <3>1. i - (mid - from) \in 1 .. to - mid
        BY <1>1, <2>1, <2>4
      <3>2. t[i - (mid - from)] = mid + (i - (mid - from))
        BY <1>3, <3>1
      <3> QED  BY <1>1, <2>1, <2>2, <2>4, <3>2
    <2> QED  BY <1>1, <2>1, <2>3, <2>4
  <1>8. s \o t = u
    BY <1>4, <1>5, <1>6, <1>7, SeqEqual
  <1> QED  BY <1>2, <1>8 DEF s, t, u

\* The n bytes behind byte number mid.
NextBytes(mid, n) == [k \in 1 .. n |-> mid + k]

(* More bytes behind a run of bytes.                                       *)
LEMMA BytesGrow ==
    ASSUME NEW from \in Nat, NEW mid \in Nat, NEW n \in Nat, from <= mid
    PROVE  /\ NextBytes(mid, n) \in Seq(Nat)
           /\ Bytes(from, mid) \o NextBytes(mid, n) = Bytes(from, mid + n)
  <1> DEFINE to == mid + n
  <1>1. NextBytes(mid, n) \in Seq(Nat)
    BY DEF NextBytes
  <1>2. to \in Nat /\ mid <= to /\ to - mid = n
    OBVIOUS
  <1> HIDE DEF to
  <1>3. Bytes(from, mid) \o [k \in 1 .. to - mid |-> mid + k] = Bytes(from, to)
    BY <1>2, BytesJoin, Zenon
  <1>4. [k \in 1 .. to - mid |-> mid + k] = NextBytes(mid, n)
    BY <1>2 DEF NextBytes
  <1> QED  BY <1>1, <1>3, <1>4 DEF to

(* Three parts of the payload join in any grouping.                        *)
LEMMA JoinThree ==
    ASSUME NEW s \in Seq(Nat), NEW t \in Seq(Nat), NEW u \in Seq(Nat)
    PROVE  (s \o t) \o u = s \o (t \o u)
  BY ConcatAssociative, SMT

(* A part of what waits, behind what was sent already.                     *)
LEMMA SplitSeq ==
    ASSUME NEW u \in Seq(Nat), NEW s \in Seq(Nat), NEW n \in 0 .. Len(s)
    PROVE  /\ u \o SubSeq(s, 1, n) \in Seq(Nat) /\ SubSeq(s, n + 1, Len(s)) \in Seq(Nat)
           /\ (u \o SubSeq(s, 1, n)) \o SubSeq(s, n + 1, Len(s)) = u \o s
  <1>1. Len(s) \in Nat /\ \A i \in 1 .. Len(s) : s[i] \in Nat
    BY ElementOfSeq
  <1>2. SubSeq(s, 1, n) \in Seq(Nat) /\ SubSeq(s, n + 1, Len(s)) \in Seq(Nat)
    <2>1. \A i \in 1 .. n : s[i] \in Nat
      BY <1>1
    <2>2. \A i \in n + 1 .. Len(s) : s[i] \in Nat
      BY <1>1
    <2>3. n \in Int /\ n + 1 \in Int /\ Len(s) \in Int /\ 1 \in Int
      BY <1>1
    <2> QED  BY <2>1, <2>2, <2>3, SubSeqProperties
  <1>3. SubSeq(s, 1, n) \o SubSeq(s, n + 1, Len(s)) = SubSeq(s, 1, Len(s))
    <2>1. 1 \in 1 .. Len(s) + 1 /\ n \in 1 - 1 .. Len(s) /\ Len(s) \in n .. Len(s)
      BY <1>1
    <2> QED  BY <2>1, ConcatAdjacentSubSeq
  <1>4. SubSeq(s, 1, n) \o SubSeq(s, n + 1, Len(s)) = s
    BY <1>3, SubSeqFull
  <1> DEFINE p == SubSeq(s, 1, n)
             q == SubSeq(s, n + 1, Len(s))
  <1>5. p \in Seq(Nat) /\ q \in Seq(Nat) /\ p \o q = s
    BY <1>2, <1>4
  <1> HIDE DEF p, q
  <1>6. u \o p \in Seq(Nat)
    BY <1>5, ConcatProperties
  <1>7. (u \o p) \o q = u \o (p \o q)
    BY <1>5, JoinThree, Zenon
  <1> QED  BY <1>5, <1>6, <1>7 DEF p, q

(* The upstream takes bytes of the payload: none is lost or out of order,  *)
(* and the record and the count of the stream go along.                    *)
LEMMA TakeGood ==
    ASSUME NEW b \in Nat, NEW l \in Seq(Record), NEW x, Good(b, l, x), Running(x),
           x.f.rec > 0, NEW n \in 0 .. Len(x.f.pend), NEW y, y = Take(x, n)
    PROVE  /\ Good(b, l, y) /\ y.rc = x.rc /\ SameAnswer(x.f, y.f)
           /\ y.f.state = x.f.state /\ y.f.synack = x.f.synack /\ y.f.query = x.f.query
           /\ y.f.net = x.f.net /\ y.f.timer = x.f.timer /\ Running(y)
           /\ y.f.replies = x.f.replies
  <1> DEFINE a == x.f.up \o SubSeq(x.f.pend, 1, n)
             p == SubSeq(x.f.pend, n + 1, Len(x.f.pend))
             c == x.f.counted + n
             r0 == x.f.rec
             w == x.log[r0].wrote + n
             e == [x.log[r0] EXCEPT !.wrote = w]
  <1>0. /\ x \in Result /\ x.f \in Stream /\ StreamOk(x.f) /\ Own(b, l, x) /\ x.log \in Seq(Record)
        /\ x.f.up \in Seq(Nat) /\ x.f.pend \in Seq(Nat) /\ x.f.counted \in Nat /\ r0 \in Nat
        /\ n \in Nat /\ Len(l) \in Nat /\ Len(x.log) \in Nat
        /\ r0 \in 1 .. Len(x.log) /\ (r0 = b \/ r0 > Len(l))
    <2>1. x \in Result /\ StreamOk(x.f) /\ Own(b, l, x)
      BY DEF Good
    <2>2. x.f \in Stream /\ x.log \in Seq(Record) /\ Len(l) \in Nat /\ Len(x.log) \in Nat
      BY <2>1 DEF Result
    <2>3. x.f.up \in Seq(Nat) /\ x.f.pend \in Seq(Nat) /\ x.f.counted \in Nat /\ r0 \in Nat
      BY <2>2 DEF Stream
    <2>4. r0 \in 1 .. Len(x.log) /\ (r0 = b \/ r0 > Len(l))
      BY <2>1, <2>2, <2>3 DEF Own
    <2>5. n \in Nat
      OBVIOUS
    <2> QED  BY <2>1, <2>2, <2>3, <2>4, <2>5
  <1>1. a \in Seq(Nat) /\ p \in Seq(Nat) /\ a \o p = x.f.up \o x.f.pend
    BY <1>0, SplitSeq
  <1>2. c \in Nat
    BY <1>0
  <1>3. y.f = [x.f EXCEPT !.up = a, !.pend = p, !.counted = c]
    BY <1>0 DEF Take, Result, Stream
  <1>4. y.log = [x.log EXCEPT ![r0] = e] /\ y.rc = x.rc
    BY <1>0 DEF Take, Result
  <1>5. e \in Record /\ e.final = x.log[r0].final /\ e.sent = x.log[r0].sent
        /\ e.wrote = x.log[r0].wrote + n
    <2>1. x.log[r0] \in Record
      BY <1>0, ElementOfSeq
    <2>2. w \in Nat
      <3>1. x.log[r0].wrote \in Nat
        BY <2>1 DEF Record
      <3> QED  BY <3>1
    <2> HIDE DEF w
    <2>3. e \in Record /\ e.final = x.log[r0].final /\ e.sent = x.log[r0].sent /\ e.wrote = w
      BY <2>1, <2>2 DEF Record
    <2> QED  BY <2>3 DEF w
  <1>6. y = [f |-> y.f, log |-> y.log, rc |-> y.rc]
    BY <1>0 DEF Take, Result
  <1> HIDE DEF a, p, c, e
  <1>7. /\ y.f \in Stream /\ y.f.up = a /\ y.f.pend = p /\ y.f.counted = c
        /\ y.f.synack = x.f.synack /\ y.f.queued = x.f.queued /\ y.f.state = x.f.state
        /\ y.f.delayed = x.f.delayed /\ y.f.closed = x.f.closed /\ y.f.query = x.f.query
        /\ y.f.net = x.f.net /\ y.f.timer = x.f.timer /\ y.f.posted = x.f.posted
        /\ y.f.acc = x.f.acc /\ y.f.seen = x.f.seen /\ y.f.got = x.f.got
        /\ y.f.target = x.f.target /\ y.f.rec = x.f.rec /\ y.f.replies = x.f.replies
    BY <1>0, <1>1, <1>2, <1>3 DEF Stream
  <1>8. /\ y.log \in Seq(Record) /\ Len(y.log) = Len(x.log)
        /\ \A r \in 1 .. Len(x.log) : y.log[r] = IF r = r0 THEN e ELSE x.log[r]
    BY <1>0, <1>4, <1>5, ExceptSeq
  <1>9. y \in Result
    <2>1. x.rc \in {"ok", "error"}
      BY <1>0 DEF Result
    <2> QED  BY <1>4, <1>6, <1>7, <1>8, <2>1 DEF Result
  <1>10. StreamOk(y.f)
    <2>1. TableOk(y.f)
      BY <1>0, <1>7, NoStreamOk DEF StreamOk, TableOk, Running
    <2>2. PayloadOk(y.f)
      BY <1>0, <1>1, <1>7 DEF StreamOk, PayloadOk
    <2>3. HoldsOk(y.f)
      BY <1>0, <1>7 DEF StreamOk, HoldsOk, Running
    <2> QED  BY <1>7, <2>1, <2>2, <2>3 DEF StreamOk
  <1>11. Own(b, l, y)
    <2>1. ~x.log[r0].final /\ x.log[r0].wrote = x.f.counted
      BY <1>0 DEF Own, Running
    <2>2. ~e.final /\ e.wrote = y.f.counted
      BY <1>5, <1>7, <2>1 DEF c
    <2>3. Len(y.log) >= Len(l) /\ \A r \in 1 .. Len(l) : r # b => y.log[r] = l[r]
      <3>1. /\ Len(x.log) >= Len(l) /\ \A r \in 1 .. Len(l) : r # b => x.log[r] = l[r]
        BY <1>0 DEF Own
      <3>2. ASSUME NEW r \in 1 .. Len(l), r # b
            PROVE  y.log[r] = l[r]
        <4>1. r \in 1 .. Len(x.log) /\ r # r0
          BY <1>0, <3>1, <3>2
        <4>2. y.log[r] = x.log[r]
          BY <1>8, <4>1
        <4> QED  BY <3>1, <3>2, <4>2
      <3> QED  BY <1>8, <3>1, <3>2
    <2>4. \A r \in 1 .. Len(y.log) : r = b \/ r > Len(l) =>
             IF y.log[r].final THEN y.log[r].sent = y.log[r].wrote
             ELSE y.f.rec = r /\ ~y.f.delayed
      BY <1>0, <1>7, <1>8, <2>2 DEF Own, Running
    <2> QED  BY <1>0, <1>7, <1>8, <2>2, <2>3, <2>4 DEF Own, Running
  <1> QED
    BY <1>4, <1>7, <1>9, <1>10, <1>11 DEF Good, SameAnswer, Running

(* A result that becomes an error.                                         *)
LEMMA WithError ==
    ASSUME NEW b \in Nat, NEW l \in Seq(Record), NEW x, Good(b, l, x),
           NEW y, y = [x EXCEPT !.rc = "error"]
    PROVE  Good(b, l, y) /\ y.f = x.f /\ y.rc = "error"
  <1>1. x \in Result
    BY DEF Good
  <1>2. y \in Result /\ y.f = x.f /\ y.log = x.log /\ y.rc = "error"
    BY <1>1 DEF Result
  <1>3. Own(b, l, y)
    BY <1>2, OwnSame DEF Good
  <1> QED  BY <1>2, <1>3 DEF Good

(* A stream that changes in nothing the log depends on.                    *)
LEMMA StreamChange ==
    ASSUME NEW b \in Nat, NEW l \in Seq(Record), NEW x, Good(b, l, x),
           NEW g, StreamOk(g), g.rec = x.f.rec, g.delayed = x.f.delayed,
           g.counted = x.f.counted, NEW y, y = [x EXCEPT !.f = g]
    PROVE  Good(b, l, y) /\ y.f = g /\ y.rc = x.rc
  <1>1. x \in Result /\ g \in Stream
    BY DEF Good, StreamOk
  <1>2. y \in Result /\ y.f = g /\ y.log = x.log /\ y.rc = x.rc
    BY <1>1, WithStream
  <1>3. Own(b, l, y)
    BY <1>2, OwnSame DEF Good
  <1> QED  BY <1>2, <1>3 DEF Good

(* ngx_anytls_upstream_send_pending                                        *)
LEMMA SendPendingGood ==
    ASSUME NEW b \in Nat, NEW l \in Seq(Record), NEW x, Good(b, l, x), Running(x),
           x.f.rec > 0, NEW y \in SendPending(x)
    PROVE  /\ Good(b, l, y) /\ y.rc \in {x.rc, "error"} /\ SameAnswer(x.f, y.f)
           /\ y.f.state = x.f.state /\ y.f.synack = x.f.synack /\ y.f.query = x.f.query
           /\ y.f.net = x.f.net /\ y.f.timer = x.f.timer /\ Running(y)
           /\ y.f.replies = x.f.replies
  <1>1. CASE x.f.net = "err" /\ x.f.pend # <<>>
    <2>1. y = [x EXCEPT !.rc = "error"]
      BY <1>1 DEF SendPending
    <2>2. Good(b, l, y) /\ y.f = x.f /\ y.rc = "error"
      BY <2>1, WithError
    <2> QED  BY <2>2 DEF SameAnswer, Running
  <1>2. CASE ~(x.f.net = "err" /\ x.f.pend # <<>>)
    <2>1. PICK n \in 0 .. Len(x.f.pend) : y = Take(x, n)
      BY <1>2 DEF SendPending
    <2> QED  BY <2>1, TakeGood
  <1> QED  BY <1>1, <1>2

(* ngx_anytls_upstream_mux_on_connect_ready                                *)
LEMMA ConnectReadyGood ==
    ASSUME NEW b \in Nat, NEW l \in Seq(Record), NEW x, Good(b, l, x), Running(x),
           NEW y, y = ConnectReady(x)
    PROVE  /\ Good(b, l, y) /\ y.rc = x.rc /\ SameAnswer(x.f, y.f) /\ Running(y)
           /\ y.f.state = "connected" /\ y.f.synack # "no" /\ y.f.rec = x.f.rec
           /\ y.f.replies = x.f.replies
  <1> DEFINE h == SendSynack(x.f, "ok")
             g == [h EXCEPT !.state = "connected", !.timer = FALSE, !.posted = FALSE]
  <1>1. StreamOk(x.f) /\ x.f \in Stream
    BY DEF Good, StreamOk
  <1>2. /\ StreamOk(h) /\ h.synack # "no" /\ SameAnswer(x.f, h)
        /\ h = [x.f EXCEPT !.synack = h.synack, !.queued = h.queued]
    BY <1>1, SendSynackOk DEF Running
  <1>3. y = [x EXCEPT !.f = g]
    BY DEF ConnectReady
  <1> HIDE DEF h
  <1>4. /\ h \in Stream /\ h.seen = x.f.seen /\ h.delayed = x.f.delayed /\ h.rec = x.f.rec
        /\ h.counted = x.f.counted /\ h.replies = x.f.replies
    <2>1. h \in Stream
      BY <1>2 DEF StreamOk
    <2> QED  BY <1>1, <1>2, <2>1 DEF Stream
  <1>5. /\ g \in Stream /\ g.state = "connected" /\ ~g.timer /\ ~g.posted
        /\ g.closed = h.closed /\ g.delayed = h.delayed /\ g.target = h.target
        /\ g.got = h.got /\ g.acc = h.acc /\ g.seen = h.seen /\ g.query = h.query
        /\ g.net = h.net /\ g.pend = h.pend /\ g.up = h.up /\ g.synack = h.synack
        /\ g.queued = h.queued /\ g.rec = h.rec /\ g.counted = h.counted
        /\ g.replies = h.replies
    BY <1>4 DEF Stream
  <1> HIDE DEF g
  <1>6. StreamOk(g)
    <2>1. TableOk(g)
      BY <1>2, <1>4, <1>5 DEF StreamOk, TableOk, Running
    <2>2. PayloadOk(g)
      BY <1>2, <1>5 DEF StreamOk, PayloadOk
    <2>3. HoldsOk(g)
      BY <1>2, <1>5 DEF StreamOk, HoldsOk
    <2> QED  BY <1>5, <2>1, <2>2, <2>3 DEF StreamOk
  <1>7. Good(b, l, y) /\ y.f = g /\ y.rc = x.rc
    BY <1>3, <1>4, <1>5, <1>6, StreamChange
  <1> QED  BY <1>2, <1>4, <1>5, <1>7 DEF SameAnswer, Running

(* ngx_anytls_upstream_open_resolved: where it does not fail, the stream   *)
(* is connecting with a timer or it was answered.                          *)
LEMMA OpenResolvedGood ==
    ASSUME NEW b \in Nat, NEW l \in Seq(Record), NEW x, Good(b, l, x), Running(x),
           ~x.f.query, NEW y \in OpenResolved(x)
    PROVE  /\ Good(b, l, y) /\ y.rc \in {x.rc, "error"} /\ SameAnswer(x.f, y.f) /\ Running(y)
           /\ y.rc # "error" => Held(y.f) /\ (y.f.state = "connecting" \/ y.f.synack # "no")
           /\ y.f.replies = x.f.replies
  <1> DEFINE z == StateOpen(x)
  <1>0. x.f \in Stream
    BY DEF Good, StreamOk
  <1>1. z.rc = x.rc /\ z.f = [x.f EXCEPT !.rec = z.f.rec] /\ z.f.rec > 0 /\ Good(b, l, z)
    BY StateOpenGood
  <1>2. y \in {[z EXCEPT !.rc = "error"], [z EXCEPT !.f = Connecting(z.f)]}
              \cup SendPending(ConnectReady([z EXCEPT !.f.net = "up"]))
    BY DEF OpenResolved
  <1> HIDE DEF z
  <1>3. z \in Result /\ z.f \in Stream /\ StreamOk(z.f)
    BY <1>1 DEF Good, StreamOk
  <1>4. /\ z.f.seen = x.f.seen /\ z.f.delayed = x.f.delayed /\ z.f.query = x.f.query
        /\ z.f.synack = x.f.synack /\ z.f.queued = x.f.queued /\ z.f.replies = x.f.replies
    BY <1>0, <1>1, <1>3 DEF Stream
  <1>5. CASE y = [z EXCEPT !.rc = "error"]
    <2>1. Good(b, l, y) /\ y.f = z.f /\ y.rc = "error"
      BY <1>1, <1>5, WithError
    <2> QED  BY <1>4, <2>1 DEF SameAnswer, Running
  <1>6. CASE y = [z EXCEPT !.f = Connecting(z.f)]
    <2> DEFINE g == Connecting(z.f)
    <2>1. /\ g \in Stream /\ g.net = "syn" /\ g.state = "connecting" /\ g.timer
          /\ g.closed = z.f.closed /\ g.delayed = z.f.delayed /\ g.target = z.f.target
          /\ g.got = z.f.got /\ g.acc = z.f.acc /\ g.seen = z.f.seen /\ g.query = z.f.query
          /\ g.posted = z.f.posted /\ g.pend = z.f.pend /\ g.up = z.f.up
          /\ g.synack = z.f.synack /\ g.queued = z.f.queued /\ g.rec = z.f.rec
          /\ g.counted = z.f.counted /\ g.replies = z.f.replies
      BY <1>3 DEF Connecting, Stream
    <2> HIDE DEF g
    <2>2. TableOk(g)
      BY <1>3, <1>4, <2>1 DEF StreamOk, TableOk, Running
    <2>3. PayloadOk(g)
      BY <1>3, <2>1 DEF StreamOk, PayloadOk
    <2>4. HoldsOk(g) /\ Held(g)
      BY <1>1, <1>3, <1>4, <2>1 DEF StreamOk, HoldsOk, Held, Running
    <2>5. Good(b, l, y) /\ y.f = g /\ y.rc = z.rc
      <3>1. StreamOk(g)
        BY <2>1, <2>2, <2>3, <2>4 DEF StreamOk
      <3> QED  BY <1>1, <1>6, <2>1, <3>1, StreamChange DEF g
    <2> QED  BY <1>1, <1>4, <2>1, <2>4, <2>5 DEF SameAnswer, Running
  <1>7. CASE y \in SendPending(ConnectReady([z EXCEPT !.f.net = "up"]))
    <2> DEFINE g == [z.f EXCEPT !.net = "up"]
               w == [z EXCEPT !.f = g]
               v == ConnectReady(w)
    <2>1. /\ g \in Stream /\ g.net = "up" /\ g.state = z.f.state /\ g.timer = z.f.timer
          /\ g.closed = z.f.closed /\ g.delayed = z.f.delayed /\ g.target = z.f.target
          /\ g.got = z.f.got /\ g.acc = z.f.acc /\ g.seen = z.f.seen /\ g.query = z.f.query
          /\ g.posted = z.f.posted /\ g.pend = z.f.pend /\ g.up = z.f.up
          /\ g.synack = z.f.synack /\ g.queued = z.f.queued /\ g.rec = z.f.rec
          /\ g.counted = z.f.counted /\ g.replies = z.f.replies
      BY <1>3 DEF Stream
    <2>2. [z EXCEPT !.f.net = "up"] = w
      BY <1>3
    <2>3. y \in SendPending(v)
      BY <1>7, <2>2
    <2> HIDE DEF g
    <2>4. StreamOk(g)
      <3>1. TableOk(g)
        BY <1>3, <1>4, <2>1, NoStreamOk DEF StreamOk, TableOk, Running
      <3>2. PayloadOk(g)
        BY <1>3, <2>1 DEF StreamOk, PayloadOk
      <3>3. HoldsOk(g)
        BY <1>1, <1>3, <1>4, <2>1 DEF StreamOk, HoldsOk, Running
      <3> QED  BY <2>1, <3>1, <3>2, <3>3 DEF StreamOk
    <2>5. Good(b, l, w) /\ w.f = g /\ w.rc = z.rc
      BY <1>1, <2>1, <2>4, StreamChange
    <2> HIDE DEF w
    <2>6. /\ Good(b, l, v) /\ v.rc = w.rc /\ SameAnswer(w.f, v.f) /\ Running(v)
          /\ v.f.state = "connected" /\ v.f.synack # "no" /\ v.f.rec = w.f.rec
          /\ v.f.replies = w.f.replies
      <3>1. Running(w)
        BY <1>4, <2>1, <2>5 DEF Running
      <3> QED  BY <2>5, <3>1, ConnectReadyGood
    <2> HIDE DEF v
    <2>7. /\ Good(b, l, y) /\ y.rc \in {v.rc, "error"} /\ SameAnswer(v.f, y.f)
          /\ y.f.state = v.f.state /\ y.f.synack = v.f.synack /\ Running(y)
          /\ y.f.replies = v.f.replies
      BY <1>1, <2>1, <2>3, <2>5, <2>6, SendPendingGood
    <2> QED  BY <1>1, <1>4, <2>1, <2>5, <2>6, <2>7 DEF SameAnswer, Held
  <1> QED  BY <1>2, <1>5, <1>6, <1>7

(* The query of a stream is over.                                          *)
LEMMA QueryOver ==
    ASSUME NEW b \in Nat, NEW l \in Seq(Record), NEW x, Good(b, l, x), Running(x),
           NEW y, y = [x EXCEPT !.f.query = FALSE]
    PROVE  /\ Good(b, l, y) /\ y.rc = x.rc /\ Running(y) /\ ~y.f.query
           /\ y.f = [x.f EXCEPT !.query = FALSE]
           /\ y.f.synack = x.f.synack /\ y.f.queued = x.f.queued
  <1> DEFINE g == [x.f EXCEPT !.query = FALSE]
  <1>1. x \in Result /\ x.f \in Stream /\ StreamOk(x.f)
    BY DEF Good, StreamOk
  <1>2. /\ g \in Stream /\ ~g.query /\ g.state = x.f.state /\ g.timer = x.f.timer
        /\ g.closed = x.f.closed /\ g.delayed = x.f.delayed /\ g.target = x.f.target
        /\ g.got = x.f.got /\ g.acc = x.f.acc /\ g.seen = x.f.seen /\ g.net = x.f.net
        /\ g.posted = x.f.posted /\ g.pend = x.f.pend /\ g.up = x.f.up
        /\ g.synack = x.f.synack /\ g.queued = x.f.queued /\ g.rec = x.f.rec
        /\ g.counted = x.f.counted
    BY <1>1 DEF Stream
  <1>3. y = [x EXCEPT !.f = g]
    BY <1>1
  <1> HIDE DEF g
  <1>4. StreamOk(g)
    <2>1. TableOk(g)
      BY <1>1, <1>2, NoStreamOk DEF StreamOk, TableOk, Running
    <2>2. PayloadOk(g)
      BY <1>1, <1>2 DEF StreamOk, PayloadOk
    <2>3. HoldsOk(g)
      BY <1>1, <1>2 DEF StreamOk, HoldsOk
    <2> QED  BY <1>2, <2>1, <2>2, <2>3 DEF StreamOk
  <1>5. Good(b, l, y) /\ y.f = g /\ y.rc = x.rc
    <2>1. y \in Result /\ y.f = g /\ y.log = x.log /\ y.rc = x.rc
      BY <1>1, <1>2, <1>3 DEF Result
    <2>2. Own(b, l, y)
      BY <1>2, <2>1, OwnSame DEF Good
    <2> QED  BY <1>4, <2>1, <2>2 DEF Good
  <1>6. y.f = [x.f EXCEPT !.query = FALSE]
    BY <1>5 DEF g
  <1> QED  BY <1>2, <1>5, <1>6 DEF Running

(* ngx_anytls_resolve_handler with an address: an open that fails closes   *)
(* the stream and not the session.                                         *)
LEMMA ResolvedGood ==
    ASSUME NEW b \in Nat, NEW l \in Seq(Record), NEW x, Good(b, l, x), Running(x),
           x.rc = "ok", NEW y \in Resolved(x)
    PROVE  /\ Good(b, l, y) /\ y.rc = "ok" /\ Held(y.f) /\ Answered(x.f, y.f)
           /\ \/ y.f.state = "none"
              \/ y.f.seen /\ (y.f.state = "connecting" \/ y.f.synack # "no")
  <1> DEFINE w == [x EXCEPT !.f.query = FALSE]
  <1>1. /\ Good(b, l, w) /\ w.rc = x.rc /\ Running(w) /\ ~w.f.query
        /\ w.f.synack = x.f.synack /\ w.f.queued = x.f.queued
    BY QueryOver
  <1>2. PICK z \in OpenResolved(w) :
           y = IF z.rc = "error" THEN [StreamClose(z) EXCEPT !.rc = "ok"] ELSE z
    BY DEF Resolved
  <1> HIDE DEF w
  <1>3. /\ Good(b, l, z) /\ z.rc \in {w.rc, "error"} /\ SameAnswer(w.f, z.f) /\ Running(z)
        /\ z.rc # "error" => Held(z.f) /\ (z.f.state = "connecting" \/ z.f.synack # "no")
    BY <1>1, OpenResolvedGood
  <1>4. CASE z.rc # "error"
    BY <1>1, <1>2, <1>3, <1>4 DEF SameAnswer, Answered, Running
  <1>5. CASE z.rc = "error"
    <2> DEFINE v == StreamClose(z)
    <2>1. y = [v EXCEPT !.rc = "ok"]
      BY <1>2, <1>5
    <2>2. /\ Good(b, l, v) /\ Held(v.f)
          /\ \/ v.f = NoStream
             \/ /\ v.f.state = "closing" /\ v.f.synack = z.f.synack /\ v.f.seen
                /\ v.f.queued = z.f.queued /\ v.f.synack # "no"
      BY <1>3, StreamCloseGood
    <2> HIDE DEF v
    <2>3. y \in Result /\ y.f = v.f /\ y.log = v.log /\ y.rc = "ok"
      BY <2>1, <2>2 DEF Good, Result
    <2>4. Own(b, l, y)
      BY <2>2, <2>3, OwnSame DEF Good
    <2>5. Good(b, l, y) /\ y.rc = "ok" /\ Held(y.f)
      BY <2>2, <2>3, <2>4 DEF Good
    <2>6. CASE v.f = NoStream
      BY <2>3, <2>5, <2>6, NoStreamOk DEF Answered
    <2>7. CASE v.f # NoStream
      BY <1>1, <1>3, <2>2, <2>3, <2>5, <2>7 DEF SameAnswer, Answered
    <2> QED  BY <2>6, <2>7
  <1> QED  BY <1>4, <1>5

(* ngx_anytls_resolve_handler with an error.                               *)
LEMMA ResolveFailedGood ==
    ASSUME NEW b \in Nat, NEW l \in Seq(Record), NEW x, Good(b, l, x), Running(x),
           NEW y \in ResolveFailed(x)
    PROVE  /\ Good(b, l, y) /\ y.rc = x.rc /\ Held(y.f) /\ Answered(x.f, y.f)
           /\ y.f.state = "none" \/ (y.f.seen /\ y.f.synack # "no")
  <1> DEFINE w == [x EXCEPT !.f.query = FALSE]
             g == SendSynack(w.f, "error")
             v == [x EXCEPT !.f = g]
  <1>1. /\ Good(b, l, w) /\ w.rc = x.rc /\ Running(w)
        /\ w.f = [x.f EXCEPT !.query = FALSE]
        /\ w.f.synack = x.f.synack /\ w.f.queued = x.f.queued
    BY QueryOver
  <1>2. y = StreamClose(v)
    BY <1>1 DEF ResolveFailed
  <1> HIDE DEF w
  <1>3. x.f \in Stream /\ StreamOk(w.f) /\ w.f.rec = x.f.rec /\ w.f.delayed = x.f.delayed
        /\ w.f.counted = x.f.counted /\ w.f \in Stream
    BY <1>1 DEF Good, StreamOk, Stream
  <1>4. /\ StreamOk(g) /\ g.synack # "no" /\ SameAnswer(w.f, g) /\ g.queued \in Nat
        /\ g = [w.f EXCEPT !.synack = g.synack, !.queued = g.queued]
    BY <1>1, <1>3, SendSynackOk DEF Running
  <1> HIDE DEF g
  <1>5. g.rec = w.f.rec /\ g.delayed = w.f.delayed /\ g.counted = w.f.counted
    BY <1>3, <1>4 DEF Stream
  <1>6. Good(b, l, v) /\ v.f = g /\ v.rc = x.rc
    BY <1>3, <1>4, <1>5, StreamChange
  <1> HIDE DEF v
  <1>7. /\ Good(b, l, y) /\ Held(y.f) /\ y.rc = v.rc
        /\ \/ y.f = NoStream
           \/ /\ y.f.state = "closing" /\ y.f.synack = v.f.synack /\ y.f.seen
              /\ y.f.queued = v.f.queued /\ y.f.synack # "no"
    BY <1>2, <1>6, StreamCloseGood
  <1>8. CASE y.f = NoStream
    BY <1>6, <1>7, <1>8, NoStreamOk DEF Answered
  <1>9. CASE y.f # NoStream
    BY <1>1, <1>4, <1>6, <1>7, <1>9 DEF SameAnswer, Answered
  <1> QED  BY <1>8, <1>9

(* The state is set when ngx_anytls_upstream_open returns, whatever the    *)
(* handler has made of the stream.                                         *)
LEMMA SetConnectingGood ==
    ASSUME NEW b \in Nat, NEW l \in Seq(Record), NEW x, Good(b, l, x),
           x.f.state = "none" \/ x.f.seen, NEW y, y = SetConnecting(x)
    PROVE  /\ Good(b, l, y) /\ y.rc = x.rc
           /\ x.f.state = "none" => y.f = x.f
           /\ x.f.state # "none" => /\ y.f.synack = x.f.synack /\ y.f.query = x.f.query
                                    /\ y.f.net = x.f.net /\ y.f.timer = x.f.timer
  <1> DEFINE g == [x.f EXCEPT !.state = "connecting"]
  <1>1. x \in Result /\ x.f \in Stream /\ StreamOk(x.f)
    BY DEF Good, StreamOk
  <1>2. CASE x.f.state = "none"
    BY <1>2 DEF SetConnecting
  <1>3. CASE x.f.state # "none"
    <2>1. y = [x EXCEPT !.f = g]
      BY <1>1, <1>3 DEF SetConnecting
    <2>2. /\ g \in Stream /\ g.state = "connecting" /\ g.query = x.f.query
          /\ g.timer = x.f.timer /\ g.closed = x.f.closed /\ g.delayed = x.f.delayed
          /\ g.target = x.f.target /\ g.got = x.f.got /\ g.acc = x.f.acc
          /\ g.seen = x.f.seen /\ g.net = x.f.net /\ g.posted = x.f.posted
          /\ g.pend = x.f.pend /\ g.up = x.f.up /\ g.synack = x.f.synack
          /\ g.queued = x.f.queued /\ g.rec = x.f.rec /\ g.counted = x.f.counted
      BY <1>1 DEF Stream
    <2> HIDE DEF g
    <2>3. StreamOk(g)
      <3>1. TableOk(g)
        BY <1>1, <1>3, <2>2 DEF StreamOk, TableOk
      <3>2. PayloadOk(g)
        BY <1>1, <2>2 DEF StreamOk, PayloadOk
      <3>3. HoldsOk(g)
        BY <1>1, <2>2 DEF StreamOk, HoldsOk
      <3> QED  BY <2>2, <3>1, <3>2, <3>3 DEF StreamOk
    <2>4. Good(b, l, y) /\ y.f = g /\ y.rc = x.rc
      BY <2>1, <2>2, <2>3, StreamChange
    <2> QED  BY <1>3, <2>2, <2>4
  <1> QED  BY <1>2, <1>3

(* ngx_anytls_upstream_open with all the ways the resolver may answer: an  *)
(* error ends the session, and else somebody will answer the stream.       *)
LEMMA UpstreamOpenGood ==
    ASSUME NEW b \in Nat, NEW l \in Seq(Record), NEW x, Good(b, l, x), Running(x),
           x.rc = "ok", ~x.f.query, x.f.net = "none", x.f.synack = "no",
           NEW y \in UpstreamOpen(x)
    PROVE  Good(b, l, y) /\ (y.rc = "ok" => Held(y.f))
  <1>0. x \in Result /\ x.f \in Stream /\ StreamOk(x.f)
    BY DEF Good, StreamOk
  <1>1. CASE y \in OpenResolved(x)
    BY <1>1, OpenResolvedGood
  <1>2. CASE y = [x EXCEPT !.rc = "error"]
    BY <1>2, WithError
  <1>3. CASE y = SetConnecting([x EXCEPT !.f.query = TRUE])
    <2> DEFINE g == [x.f EXCEPT !.query = TRUE]
               w == [x EXCEPT !.f = g]
    <2>1. [x EXCEPT !.f.query = TRUE] = w
      BY <1>0
    <2>2. /\ g \in Stream /\ g.state = x.f.state /\ g.query
          /\ g.timer = x.f.timer /\ g.closed = x.f.closed /\ g.delayed = x.f.delayed
          /\ g.target = x.f.target /\ g.got = x.f.got /\ g.acc = x.f.acc
          /\ g.seen = x.f.seen /\ g.net = x.f.net /\ g.posted = x.f.posted
          /\ g.pend = x.f.pend /\ g.up = x.f.up /\ g.synack = x.f.synack
          /\ g.queued = x.f.queued /\ g.rec = x.f.rec /\ g.counted = x.f.counted
      BY <1>0 DEF Stream
    <2>3. y = SetConnecting(w)
      BY <1>3, <2>1
    <2> HIDE DEF g
    <2>4. StreamOk(g)
      <3>1. TableOk(g)
        BY <1>0, <2>2, NoStreamOk DEF StreamOk, TableOk, Running
      <3>2. PayloadOk(g)
        BY <1>0, <2>2 DEF StreamOk, PayloadOk
      <3>3. HoldsOk(g)
        BY <1>0, <2>2 DEF StreamOk, HoldsOk, Running
      <3> QED  BY <2>2, <3>1, <3>2, <3>3 DEF StreamOk
    <2>5. Good(b, l, w) /\ w.f = g /\ w.rc = x.rc
      BY <2>2, <2>4, StreamChange
    <2>6. g.state # "none"
      BY <1>0, <2>2, NoStreamOk DEF StreamOk, TableOk, Running
    <2> HIDE DEF w
    <2>7. /\ Good(b, l, y) /\ y.rc = w.rc
          /\ y.f.synack = w.f.synack /\ y.f.query = w.f.query /\ y.f.net = w.f.net
      <3>1. w.f.seen /\ w.f.state # "none"
        BY <2>2, <2>5, <2>6 DEF Running
      <3> QED  BY <2>3, <2>5, <3>1, SetConnectingGood
    <2> QED  BY <2>2, <2>5, <2>7 DEF Held
  <1>4. CASE y \in {SetConnecting(z) : z \in Resolved(x) \cup ResolveFailed(x)}
    <2>1. PICK z \in Resolved(x) \cup ResolveFailed(x) : y = SetConnecting(z)
      BY <1>4
    <2>2. /\ Good(b, l, z) /\ z.rc = "ok" /\ Held(z.f)
          /\ \/ z.f.state = "none"
             \/ z.f.seen /\ (z.f.state = "connecting" \/ z.f.synack # "no")
      <3>1. CASE z \in Resolved(x)
        BY <3>1, ResolvedGood
      <3>2. CASE z \in ResolveFailed(x)
        BY <3>2, ResolveFailedGood
      <3> QED  BY <3>1, <3>2
    <2>3. /\ Good(b, l, y) /\ y.rc = z.rc
          /\ z.f.state = "none" => y.f = z.f
          /\ z.f.state # "none" => /\ y.f.synack = z.f.synack /\ y.f.query = z.f.query
                                   /\ y.f.net = z.f.net /\ y.f.timer = z.f.timer
      BY <2>1, <2>2, SetConnectingGood
    <2> QED  BY <2>2, <2>3 DEF Held
  <1> QED
    BY <1>1, <1>2, <1>3, <1>4 DEF UpstreamOpen
-----------------------------------------------------------------------------
(* Work on one stream keeps the streams and the log together.              *)
LEMMA OwnLog ==
    ASSUME NEW s \in [Ids -> Stream], NEW l \in Seq(Record), LogOk(s, l), NEW id \in Ids,
           NEW x \in Result, Own(s[id].rec, l, x)
    PROVE  LogOk([s EXCEPT ![id] = x.f], x.log)
  <1> DEFINE t == [s EXCEPT ![id] = x.f]
             b == s[id].rec
             m == x.log
  <1>1. t[id] = x.f /\ \A i \in Ids \ {id} : t[i] = s[i]
    OBVIOUS
  <1>2. m \in Seq(Record) /\ Len(m) \in Nat /\ Len(l) \in Nat /\ b \in Nat
    <2>1. m \in Seq(Record) /\ Len(l) \in Nat
      BY DEF Result
    <2>2. s[id] \in Stream
      OBVIOUS
    <2>3. b \in Nat
      BY <2>2 DEF Stream
    <2> HIDE DEF m
    <2> QED  BY <2>1, <2>3
  <1>3. /\ Len(m) >= Len(l) /\ \A r \in 1 .. Len(l) : r # b => m[r] = l[r]
        /\ x.f.rec \in 0 .. Len(m) /\ (x.f.rec \in {0, b} \/ x.f.rec > Len(l))
    BY DEF Own
  <1>4. \A i \in Ids \ {id} : /\ s[i].rec \in 0 .. Len(l)
                              /\ s[i].rec > 0 => s[i].rec # b /\ m[s[i].rec] = l[s[i].rec]
    <2> SUFFICES ASSUME NEW i \in Ids \ {id}
                 PROVE  /\ s[i].rec \in 0 .. Len(l)
                        /\ s[i].rec > 0 => s[i].rec # b /\ m[s[i].rec] = l[s[i].rec]
      OBVIOUS
    <2>1. s[i].rec \in 0 .. Len(l)
      BY DEF LogOk
    <2>2. s[i].rec > 0 => s[i].rec # b
      BY DEF LogOk
    <2> QED  BY <1>2, <1>3, <2>1, <2>2
  <1> HIDE DEF t, m
  <1>5. \A i \in Ids : t[i].rec \in 0 .. Len(m)
    <2> SUFFICES ASSUME NEW i \in Ids PROVE t[i].rec \in 0 .. Len(m)
      OBVIOUS
    <2>1. CASE i = id
      BY <1>1, <1>3, <2>1
    <2>2. CASE i # id
      BY <1>1, <1>2, <1>3, <1>4, <2>2
    <2> QED  BY <2>1, <2>2
  <1>6. \A i \in Ids : t[i].rec > 0 =>
           IF t[i].delayed THEN m[t[i].rec].final
           ELSE ~m[t[i].rec].final /\ m[t[i].rec].wrote = t[i].counted
    <2> SUFFICES ASSUME NEW i \in Ids, t[i].rec > 0
                 PROVE  IF t[i].delayed THEN m[t[i].rec].final
                        ELSE ~m[t[i].rec].final /\ m[t[i].rec].wrote = t[i].counted
      OBVIOUS
    <2>1. CASE i = id
      BY <1>1, <2>1 DEF Own, m
    <2>2. CASE i # id
      <3>1. t[i] = s[i] /\ m[s[i].rec] = l[s[i].rec] /\ s[i].rec > 0
        BY <1>1, <1>4, <2>2
      <3>2. IF s[i].delayed THEN l[s[i].rec].final
            ELSE ~l[s[i].rec].final /\ l[s[i].rec].wrote = s[i].counted
        BY <3>1 DEF LogOk
      <3> QED  BY <3>1, <3>2
    <2> QED  BY <2>1, <2>2
  <1>7. \A i, j \in Ids : i # j /\ t[i].rec > 0 => t[i].rec # t[j].rec
    <2> SUFFICES ASSUME NEW i \in Ids, NEW j \in Ids, i # j, t[i].rec > 0, t[i].rec = t[j].rec
                 PROVE  FALSE
      OBVIOUS
    <2>1. CASE i = id
      BY <1>1, <1>2, <1>3, <1>4, <2>1
    <2>2. CASE j = id
      BY <1>1, <1>2, <1>3, <1>4, <2>2
    <2>3. CASE i # id /\ j # id
      BY <1>1, <2>3 DEF LogOk
    <2> QED  BY <2>1, <2>2, <2>3
  <1>8. ASSUME NEW r \in 1 .. Len(m)
        PROVE  IF m[r].final THEN m[r].sent = m[r].wrote
               ELSE \E i \in Ids : t[i].rec = r /\ ~t[i].delayed
    <2>1. CASE r = b \/ r > Len(l)
      <3>1. IF m[r].final THEN m[r].sent = m[r].wrote ELSE x.f.rec = r /\ ~x.f.delayed
        BY <2>1 DEF Own, m
      <3> QED  BY <1>1, <3>1
    <2>2. CASE ~(r = b \/ r > Len(l))
      <3>1. r \in 1 .. Len(l) /\ m[r] = l[r]
        BY <1>2, <1>3, <2>2
      <3>2. IF l[r].final THEN l[r].sent = l[r].wrote
            ELSE \E i \in Ids : s[i].rec = r /\ ~s[i].delayed
        BY <3>1 DEF LogOk
      <3>3. \A i \in Ids : s[i].rec = r => i # id
        BY <2>2
      <3> QED  BY <1>1, <3>1, <3>2, <3>3
    <2> QED  BY <2>1, <2>2
  <1>9. LogOk(t, m)
    BY <1>2, <1>5, <1>6, <1>7, <1>8 DEF LogOk
  <1> QED  BY <1>9 DEF t, m

(* ngx_anytls_finalize makes every record final, with what was sent.       *)
LEMMA CloseAllFinal ==
    ASSUME NEW s \in [Ids -> Stream], NEW l \in Seq(Record), LogOk(s, l),
           NEW m, m = CloseAll(s, l)
    PROVE  /\ m \in Seq(Record) /\ Len(m) = Len(l)
           /\ \A r \in 1 .. Len(l) : m[r].final /\ m[r].sent = m[r].wrote
  <1>1. Len(l) \in Nat
    OBVIOUS
  <1> DEFINE owner(r) == CHOOSE i \in Ids : s[i].rec = r
             E(r) == IF l[r].final THEN l[r]
                     ELSE [l[r] EXCEPT !.final = TRUE, !.sent = s[owner(r)].counted]
  <1>2. m = [r \in 1 .. Len(l) |-> E(r)]
    BY DEF CloseAll
  <1>3. ASSUME NEW r \in 1 .. Len(l)
        PROVE  E(r) \in Record /\ E(r).final /\ E(r).sent = E(r).wrote
    <2>1. l[r] \in Record
      BY <1>3, ElementOfSeq
    <2>2. CASE l[r].final
      BY <1>3, <2>1, <2>2 DEF LogOk
    <2>3. CASE ~l[r].final
      <3>1. PICK i \in Ids : s[i].rec = r /\ ~s[i].delayed
        BY <1>3, <2>3 DEF LogOk
      <3>2. owner(r) \in Ids /\ s[owner(r)].rec = r
        BY <3>1
      <3>3. owner(r) = i
        BY <3>1, <3>2 DEF LogOk
      <3>4. l[r].wrote = s[i].counted /\ s[i].counted \in Nat
        BY <3>1 DEF LogOk, Stream
      <3>5. E(r) = [l[r] EXCEPT !.final = TRUE, !.sent = s[i].counted]
        BY <2>3, <3>3
      <3> HIDE DEF E
      <3> QED  BY <2>1, <3>4, <3>5 DEF Record
    <2> QED  BY <2>2, <2>3
  <1> HIDE DEF E
  <1>4. m \in [1 .. Len(l) -> Record] /\ DOMAIN m = 1 .. Len(l)
    BY <1>2, <1>3
  <1>5. m \in Seq(Record) /\ Len(m) = Len(l)
    BY <1>1, <1>4
  <1> QED  BY <1>2, <1>3, <1>5

\* What AnsweredOnce says of one stream.
AnswerKept(f, g) ==
    f.synack # "no" =>
      \/ g.state = "none"
      \/ /\ g.synack = f.synack /\ g.queued <= f.queued + 1
         /\ g.queued > f.queued => g.replies > f.replies \/ g.state = "closing"

\* What every handler does: it leaves its stream and the log in order, or it ends
\* the session with a stream and a log that belong together.
Handled(id) ==
    \/ \E x : /\ Good(st[id].rec, log, x) /\ Held(x.f) /\ AnswerKept(st[id], x.f)
              /\ Becomes(id, x)
    \/ \E x : Good(st[id].rec, log, x) /\ SessionEnds([st EXCEPT ![id] = x.f], x.log)

(* The bounds on the table hold in a smaller one.                          *)
LEMMA FewerInTable ==
    ASSUME IsFiniteSet(InTable), Active <= maxStreams, maxStreams \in Nat,
           InTable' \subseteq InTable, maxStreams' = maxStreams
    PROVE  IsFiniteSet(InTable') /\ Active' <= maxStreams'
  <1>1. IsFiniteSet(InTable') /\ Cardinality(InTable') <= Cardinality(InTable)
    BY FS_Subset
  <1>2. Cardinality(InTable) \in Nat /\ Cardinality(InTable') \in Nat
    BY <1>1, FS_CardinalityType
  <1> QED  BY <1>1, <1>2 DEF Active, InTable

(* The stream a handler starts from.                                       *)
LEMMA ThisGood ==
    ASSUME SessionInv, NEW id \in Ids
    PROVE  /\ Good(st[id].rec, log, This(id)) /\ This(id).f = st[id] /\ This(id).log = log
           /\ This(id).rc = "ok" /\ st[id] \in Stream /\ StreamOk(st[id]) /\ Held(st[id])
           /\ log \in Seq(Record) /\ st[id].rec \in Nat
  <1>1. This(id).f = st[id] /\ This(id).log = log /\ This(id).rc = "ok"
    BY DEF This, Returns
  <1>2. /\ st[id] \in Stream /\ StreamOk(st[id]) /\ Held(st[id]) /\ log \in Seq(Record)
        /\ st[id].rec \in Nat
    BY DEF SessionInv, TypeOK, Stream
  <1>3. This(id) \in Result
    BY <1>2 DEF This, Returns, Result
  <1>4. Own(st[id].rec, log, This(id))
    <2> DEFINE b == st[id].rec
    <2>1. b \in 0 .. Len(log) /\ Len(log) \in Nat
      BY <1>2 DEF SessionInv, LogOk
    <2>2. ASSUME NEW r \in 1 .. Len(log), r = b \/ r > Len(log)
          PROVE  IF log[r].final THEN log[r].sent = log[r].wrote
                 ELSE st[id].rec = r /\ ~st[id].delayed
      <3>1. r = b /\ b > 0
        BY <2>1, <2>2
      <3> QED  BY <3>1 DEF SessionInv, LogOk
    <2>3. b > 0 => IF st[id].delayed THEN log[b].final
                   ELSE ~log[b].final /\ log[b].wrote = st[id].counted
      BY DEF SessionInv, LogOk
    <2> QED  BY <1>1, <2>1, <2>2, <2>3 DEF Own
  <1> QED  BY <1>1, <1>2, <1>3, <1>4 DEF Good

(* A session that ends leaves no stream, and no record that is not final.  *)
LEMMA SessionEndsInv ==
    ASSUME SessionInv, NEW s \in [Ids -> Stream], NEW l \in Seq(Record), LogOk(s, l),
           SessionEnds(s, l)
    PROVE  SessionInv' /\ \A id \in Ids : AnswerKept(st[id], st'[id])
  <1>1. /\ log' \in Seq(Record) /\ Len(log') = Len(l)
        /\ \A r \in 1 .. Len(l) : log'[r].final /\ log'[r].sent = log'[r].wrote
    BY CloseAllFinal DEF SessionEnds
  <1>2. st' = [id \in Ids |-> NoStream] /\ open' = FALSE
        /\ settings' = settings /\ version' = version /\ opens' = opens
        /\ maxStreams' = maxStreams
    BY DEF SessionEnds
  <1>3. InTable' = {}
    BY <1>2, NoStreamOk DEF InTable
  <1>4. maxStreams \in Nat
    BY SessionAssumption DEF SessionInv, TypeOK
  <1>5. IsFiniteSet(InTable') /\ Active' <= maxStreams'
    BY <1>2, <1>3, <1>4, FewerInTable DEF SessionInv, TypeOK
  <1>6. \A id \in Ids : StreamOk(st'[id]) /\ Held(st'[id])
    BY <1>2, NoStreamOk
  <1>7. TypeOK'
    BY <1>1, <1>2, <1>5, <1>6, NoStreamOk DEF SessionInv, TypeOK, StreamOk, TableOk
  <1>8. LogOk(st', log')
    BY <1>1, <1>2, NoStreamOk DEF LogOk
  <1>9. SessionInv'
    BY <1>2, <1>5, <1>6, <1>7, <1>8 DEF SessionInv
  <1> QED  BY <1>2, <1>9, NoStreamOk DEF AnswerKept

(* A handler keeps the invariant and the answers.                          *)
LEMMA HandledInv ==
    ASSUME SessionInv, open, NEW id \in Ids, st[id].state # "none", Handled(id)
    PROVE  SessionInv' /\ \A i \in Ids : AnswerKept(st[i], st'[i])
  <1>0. st \in [Ids -> Stream] /\ log \in Seq(Record) /\ LogOk(st, log)
    BY DEF SessionInv, TypeOK
  <1>1. ASSUME NEW x, Good(st[id].rec, log, x)
        PROVE  /\ x \in Result /\ StreamOk(x.f) /\ x.f \in Stream /\ x.log \in Seq(Record)
               /\ LogOk([st EXCEPT ![id] = x.f], x.log)
    <2>1. x \in Result /\ StreamOk(x.f) /\ Own(st[id].rec, log, x)
      BY <1>1 DEF Good
    <2>2. LogOk([st EXCEPT ![id] = x.f], x.log)
      BY <1>0, <2>1, OwnLog
    <2> QED  BY <2>1, <2>2 DEF StreamOk, Result
  <1>2. ASSUME NEW x, Good(st[id].rec, log, x), Held(x.f), AnswerKept(st[id], x.f),
               Becomes(id, x)
        PROVE  SessionInv' /\ \A i \in Ids : AnswerKept(st[i], st'[i])
    <2>1. /\ x \in Result /\ StreamOk(x.f) /\ x.f \in Stream /\ x.log \in Seq(Record)
          /\ LogOk([st EXCEPT ![id] = x.f], x.log)
      BY <1>1, <1>2
    <2>2. /\ st' = [st EXCEPT ![id] = x.f] /\ log' = x.log /\ open' = open
          /\ settings' = settings /\ version' = version /\ opens' = opens
          /\ maxStreams' = maxStreams
      BY <1>2 DEF Becomes
    <2>3. st' \in [Ids -> Stream] /\ st'[id] = x.f /\ \A i \in Ids \ {id} : st'[i] = st[i]
      BY <1>0, <2>1, <2>2
    <2>4. InTable' \subseteq InTable
      BY <2>3 DEF InTable
    <2>5. maxStreams \in Nat
      BY SessionAssumption DEF SessionInv, TypeOK
    <2>6. IsFiniteSet(InTable') /\ Active' <= maxStreams'
      BY <2>2, <2>4, <2>5, FewerInTable DEF SessionInv, TypeOK
    <2>7. \A i \in Ids : StreamOk(st'[i]) /\ Held(st'[i])
      BY <1>2, <2>1, <2>3 DEF SessionInv
    <2>8. TypeOK'
      BY <2>1, <2>2, <2>3, <2>6, <2>7 DEF SessionInv, TypeOK, StreamOk, TableOk
    <2>9. SessionInv'
      BY <2>1, <2>2, <2>6, <2>7, <2>8 DEF SessionInv
    <2>10. \A i \in Ids : AnswerKept(st[i], st'[i])
      <3> SUFFICES ASSUME NEW i \in Ids PROVE AnswerKept(st[i], st'[i])
        OBVIOUS
      <3>1. CASE i = id
        BY <1>2, <2>3, <3>1
      <3>2. CASE i # id
        <4>1. st[i].queued \in Nat
          BY <1>0 DEF Stream
        <4> QED  BY <2>3, <3>2, <4>1 DEF AnswerKept
      <3> QED  BY <3>1, <3>2
    <2> QED  BY <2>9, <2>10
  <1>3. ASSUME NEW x, Good(st[id].rec, log, x), SessionEnds([st EXCEPT ![id] = x.f], x.log)
        PROVE  SessionInv' /\ \A i \in Ids : AnswerKept(st[i], st'[i])
    <2>1. x.f \in Stream /\ x.log \in Seq(Record) /\ LogOk([st EXCEPT ![id] = x.f], x.log)
      BY <1>1, <1>3
    <2>2. [st EXCEPT ![id] = x.f] \in [Ids -> Stream]
      BY <1>0, <2>1
    <2> QED  BY <1>3, <2>1, <2>2, SessionEndsInv
  <1> QED  BY <1>2, <1>3 DEF Handled

-----------------------------------------------------------------------------
(* A stream that is open, in the words of the lemmas above.                *)
LEMMA OpenStream ==
    ASSUME NEW f, StreamOk(f)
    PROVE  /\ f \in Stream /\ f.queued \in Nat /\ f.rec \in Nat
           /\ f.net # "none" => f.seen /\ ~f.delayed /\ f.rec > 0 /\ ~f.query
           /\ f.query => f.seen /\ ~f.delayed
           /\ f.synack # "no" => f.seen
           /\ f.seen \/ f.queued > 0 => f.seen /\ f.state # "none"
           /\ ~f.closed => ~f.delayed
           /\ f.timer => f.net # "none"
  <1>1. f \in Stream /\ f.queued \in Nat /\ f.rec \in Nat
    BY DEF StreamOk, Stream
  <1>2. ~f.seen => f.net = "none" /\ ~f.query /\ f.synack = "no" /\ f.queued = 0
    BY DEF StreamOk, TableOk, Idle
  <1>3. f.state = "none" => ~f.seen
    BY NoStreamOk DEF StreamOk, TableOk
  <1>4. /\ f.query => f.net = "none" /\ ~f.delayed
        /\ f.timer => f.net # "none"
        /\ f.net # "none" => f.rec > 0 /\ ~f.delayed
        /\ f.delayed => f.closed
    BY DEF StreamOk, HoldsOk
  <1> QED  BY <1>1, <1>2, <1>3, <1>4

(* A stream that is closed was answered as it was.                         *)
LEMMA ClosedKept ==
    ASSUME NEW f, NEW g, NEW h, f.queued \in Nat, SameAnswer(f, g),
           h = NoStream \/ (h.state = "closing" /\ h.synack = g.synack /\ h.queued = g.queued)
    PROVE  AnswerKept(f, h)
  BY NoStreamOk DEF SameAnswer, AnswerKept

(* A stream whose answer a step sets or leaves alone is answered once.     *)
LEMMA AnsweredKept ==
    ASSUME NEW f, NEW g, f.queued \in Nat, Answered(f, g)
    PROVE  AnswerKept(f, g)
  BY DEF SameAnswer, AnswerKept, Answered

(* A stream that is closed by a handler.                                   *)
LEMMA ClosedHandled ==
    ASSUME SessionInv, NEW id \in Ids, NEW x, Good(st[id].rec, log, x),
           SameAnswer(st[id], x.f), Becomes(id, StreamClose(x))
    PROVE  Handled(id)
  <1> DEFINE y == StreamClose(x)
  <1>1. /\ log \in Seq(Record) /\ st[id].rec \in Nat /\ st[id].queued \in Nat
    BY ThisGood, OpenStream
  <1>2. /\ Good(st[id].rec, log, y) /\ Held(y.f)
        /\ \/ y.f = NoStream
           \/ y.f.state = "closing" /\ y.f.synack = x.f.synack /\ y.f.queued = x.f.queued
    BY <1>1, StreamCloseGood
  <1> HIDE DEF y
  <1>3. AnswerKept(st[id], y.f)
    BY <1>1, <1>2, ClosedKept
  <1> QED  BY <1>2, <1>3 DEF Handled, y

(* The answer of the resolver.                                             *)
LEMMA AnswerHandled ==
    ASSUME SessionInv, NEW id \in Ids, Answer(id)
    PROVE  open /\ st[id].state # "none" /\ Handled(id)
  <1> DEFINE x == This(id)
  <1>1. /\ Good(st[id].rec, log, x) /\ x.f = st[id] /\ x.rc = "ok" /\ StreamOk(st[id])
        /\ log \in Seq(Record) /\ st[id].rec \in Nat
    BY ThisGood
  <1> HIDE DEF x
  <1>2. st[id].query /\ open
    BY DEF Answer
  <1>3. Running(x) /\ st[id].state # "none" /\ st[id].queued \in Nat
    BY <1>1, <1>2, OpenStream DEF Running
  <1>4. PICK y \in Resolved(x) \cup ResolveFailed(x) : Becomes(id, y)
    BY DEF Answer, x
  <1>5. Good(st[id].rec, log, y) /\ Held(y.f) /\ Answered(x.f, y.f)
    <2>1. CASE y \in Resolved(x)
      BY <1>1, <1>3, <2>1, ResolvedGood
    <2>2. CASE y \in ResolveFailed(x)
      BY <1>1, <1>3, <2>2, ResolveFailedGood
    <2> QED  BY <2>1, <2>2
  <1>6. AnswerKept(st[id], y.f)
    BY <1>1, <1>3, <1>5, AnsweredKept
  <1> QED  BY <1>2, <1>3, <1>4, <1>5, <1>6 DEF Handled

(* An error that answers the stream and closes it.                         *)
LEMMA RefusedHandled ==
    ASSUME SessionInv, NEW id \in Ids, st[id].seen, ~st[id].delayed,
           Becomes(id, StreamClose([This(id) EXCEPT !.f = SendSynack(@, "error")]))
    PROVE  Handled(id)
  <1> DEFINE x == This(id)
             g == SendSynack(st[id], "error")
             y == [x EXCEPT !.f = g]
  <1>1. /\ Good(st[id].rec, log, x) /\ x.f = st[id] /\ StreamOk(st[id]) /\ st[id] \in Stream
        /\ log \in Seq(Record) /\ st[id].rec \in Nat
    BY ThisGood
  <1>2. Becomes(id, StreamClose(y))
    BY <1>1
  <1> HIDE DEF x
  <1>3. /\ StreamOk(g) /\ SameAnswer(st[id], g)
        /\ g = [st[id] EXCEPT !.synack = g.synack, !.queued = g.queued]
    BY <1>1, SendSynackOk
  <1> HIDE DEF g
  <1>4. g.rec = st[id].rec /\ g.delayed = st[id].delayed /\ g.counted = st[id].counted
    BY <1>1, <1>3 DEF Stream
  <1>5. Good(st[id].rec, log, y) /\ y.f = g
    BY <1>1, <1>3, <1>4, StreamChange
  <1> HIDE DEF y
  <1> QED  BY <1>2, <1>3, <1>5, ClosedHandled

(* The connect timeout of a stream.                                        *)
LEMMA ConnectTimeoutHandled ==
    ASSUME SessionInv, NEW id \in Ids, ConnectTimeout(id)
    PROVE  open /\ st[id].state # "none" /\ Handled(id)
  <1>1. open /\ st[id].timer /\ StreamOk(st[id])
    BY ThisGood DEF ConnectTimeout
  <1>2. st[id].seen /\ ~st[id].delayed /\ st[id].state # "none"
    BY <1>1, OpenStream
  <1> QED  BY <1>1, <1>2, RefusedHandled DEF ConnectTimeout

(* A handler that sends what waits, and closes the stream if it cannot.    *)
LEMMA SendHandled ==
    ASSUME SessionInv, NEW id \in Ids, NEW x, Good(st[id].rec, log, x), Running(x),
           x.f.rec > 0, SameAnswer(st[id], x.f), Held(x.f), NEW y \in SendPending(x),
           Becomes(id, IF y.rc = "error" THEN StreamClose(y) ELSE y)
    PROVE  Handled(id)
  <1>1. st[id].queued \in Nat /\ log \in Seq(Record) /\ st[id].rec \in Nat
    BY ThisGood, OpenStream
  <1>2. /\ Good(st[id].rec, log, y) /\ SameAnswer(x.f, y.f)
        /\ y.f.state = x.f.state /\ y.f.synack = x.f.synack /\ y.f.query = x.f.query
        /\ y.f.net = x.f.net /\ y.f.timer = x.f.timer
    BY <1>1, SendPendingGood
  <1>3. SameAnswer(st[id], y.f)
    BY <1>2 DEF SameAnswer
  <1>4. CASE y.rc = "error"
    BY <1>2, <1>3, <1>4, ClosedHandled
  <1>5. CASE y.rc # "error"
    <2>1. Held(y.f)
      BY <1>2 DEF Held
    <2>2. AnswerKept(st[id], y.f)
      BY <1>1, <1>3, AnsweredKept DEF Answered
    <2> QED  BY <1>2, <1>5, <2>1, <2>2 DEF Handled
  <1> QED  BY <1>4, <1>5

(* The write event of a connect: ready or failed.                          *)
LEMMA ConnectEventHandled ==
    ASSUME SessionInv, NEW id \in Ids, ConnectEvent(id)
    PROVE  open /\ st[id].state # "none" /\ Handled(id)
  <1> DEFINE x == This(id)
  <1>1. /\ Good(st[id].rec, log, x) /\ x.f = st[id] /\ StreamOk(st[id])
        /\ log \in Seq(Record) /\ st[id].rec \in Nat
    BY ThisGood
  <1>2. open /\ st[id].state # "none" /\ st[id].net # "none"
    BY <1>1 DEF ConnectEvent, StreamOk, HoldsOk
  <1>3. st[id].seen /\ ~st[id].delayed /\ st[id].rec > 0
    BY <1>1, <1>2, OpenStream
  <1>4. CASE st[id].net = "err"
    BY <1>2, <1>3, <1>4, RefusedHandled DEF ConnectEvent
  <1>5. CASE st[id].net # "err"
    <2>1. PICK z \in SendPending(ConnectReady(x)) :
             Becomes(id, IF z.rc = "error" THEN StreamClose(z) ELSE z)
      BY <1>5 DEF ConnectEvent
    <2> DEFINE y == ConnectReady(x)
    <2>2. z \in SendPending(y)
      BY <2>1
    <2> HIDE DEF x
    <2>3. /\ Good(st[id].rec, log, y) /\ SameAnswer(x.f, y.f) /\ Running(y)
          /\ y.f.state = "connected" /\ y.f.synack # "no" /\ y.f.rec = x.f.rec
      BY <1>1, <1>3, ConnectReadyGood DEF Running
    <2> HIDE DEF y
    <2>4. Held(y.f)
      BY <2>3 DEF Held
    <2> QED  BY <1>1, <1>2, <1>3, <2>1, <2>2, <2>3, <2>4, SendHandled
  <1> QED  BY <1>4, <1>5

(* The write event of an upstream.                                         *)
LEMMA WriteEventHandled ==
    ASSUME SessionInv, NEW id \in Ids, WriteEvent(id)
    PROVE  open /\ st[id].state # "none" /\ Handled(id)
  <1> DEFINE x == This(id)
  <1>1. /\ Good(st[id].rec, log, x) /\ x.f = st[id] /\ StreamOk(st[id]) /\ Held(st[id])
    BY ThisGood
  <1>2. open /\ st[id].state # "none" /\ st[id].net # "none"
    BY <1>1 DEF WriteEvent, IsOpen
  <1>3. st[id].seen /\ ~st[id].delayed /\ st[id].rec > 0
    BY <1>1, <1>2, OpenStream
  <1>4. PICK y \in SendPending(x) : Becomes(id, IF y.rc = "error" THEN StreamClose(y) ELSE y)
    BY DEF WriteEvent
  <1> HIDE DEF x
  <1>5. Running(x) /\ SameAnswer(st[id], x.f)
    BY <1>1, <1>3 DEF Running, SameAnswer
  <1> QED  BY <1>1, <1>2, <1>3, <1>4, <1>5, SendHandled

(* An upstream connection that fails.                                      *)
LEMMA UpstreamErrorHandled ==
    ASSUME SessionInv, NEW id \in Ids, UpstreamError(id)
    PROVE  open /\ st[id].state # "none" /\ Handled(id)
  <1>1. Good(st[id].rec, log, This(id)) /\ This(id).f = st[id]
    BY ThisGood
  <1>2. open /\ st[id].state # "none" /\ Becomes(id, StreamClose(This(id)))
    BY DEF UpstreamError, IsOpen
  <1>3. SameAnswer(st[id], This(id).f)
    BY <1>1 DEF SameAnswer
  <1> QED  BY <1>1, <1>2, <1>3, ClosedHandled

\* Stream id with q frames queued and p frames of its upstream.
WithFrames(id, p, q) == [This(id) EXCEPT !.f = [st[id] EXCEPT !.replies = p, !.queued = q]]

(* Data of the upstream, and its end.                                      *)
LEMMA QueuedMore ==
    ASSUME SessionInv, NEW id \in Ids, st[id].synack # "no", NEW q \in Nat, NEW p \in Nat,
           NEW x, x = WithFrames(id, p, q)
    PROVE  /\ Good(st[id].rec, log, x) /\ Held(x.f) /\ x.f.queued = q /\ x.f.replies = p
           /\ x.f.synack = st[id].synack /\ x.f.delayed = st[id].delayed
  <1> DEFINE g == [st[id] EXCEPT !.replies = p, !.queued = q]
             t == This(id)
  <1>1. /\ Good(st[id].rec, log, t) /\ t.f = st[id] /\ StreamOk(st[id]) /\ Held(st[id])
        /\ log \in Seq(Record) /\ st[id].rec \in Nat /\ st[id] \in Stream
    BY ThisGood
  <1>2. /\ g \in Stream /\ g.queued = q /\ g.replies = p /\ g.rec = st[id].rec
        /\ g.delayed = st[id].delayed /\ g.counted = st[id].counted
        /\ g.synack = st[id].synack
    BY <1>1 DEF Stream
  <1>3. TableOk(g)
    BY <1>1, <1>2, OpenStream DEF StreamOk, TableOk, Stream
  <1>4. PayloadOk(g)
    BY <1>1 DEF StreamOk, PayloadOk, Stream
  <1>5. HoldsOk(g) /\ Held(g)
    <2>1. /\ g.query = st[id].query /\ g.net = st[id].net /\ g.timer = st[id].timer
          /\ g.state = st[id].state /\ g.posted = st[id].posted /\ g.pend = st[id].pend
          /\ g.closed = st[id].closed
      BY <1>1 DEF Stream
    <2> HIDE DEF g
    <2> QED  BY <1>1, <1>2, <2>1 DEF StreamOk, HoldsOk, Held
  <1> HIDE DEF g, t
  <1>6. StreamOk(g)
    BY <1>2, <1>3, <1>4, <1>5 DEF StreamOk
  <1>7. x = [t EXCEPT !.f = g]
    BY DEF g, t, WithFrames
  <1>8. Good(st[id].rec, log, x) /\ x.f = g
    BY <1>1, <1>2, <1>6, <1>7, StreamChange
  <1> QED  BY <1>2, <1>5, <1>8

(* Data from an upstream.                                                  *)
LEMMA UpstreamDataHandled ==
    ASSUME SessionInv, NEW id \in Ids, UpstreamData(id)
    PROVE  open /\ st[id].state # "none" /\ Handled(id)
  <1> DEFINE p == st[id].replies + 1
             q == st[id].queued + 1
             x == WithFrames(id, p, q)
  <1>1. /\ This(id) \in Result /\ This(id).f = st[id] /\ StreamOk(st[id]) /\ st[id] \in Stream
    BY ThisGood DEF Good
  <1>2. open /\ st[id].state # "none" /\ st[id].synack # "no"
    BY <1>1 DEF UpstreamData, IsOpen, StreamOk, HoldsOk
  <1>3. st[id].replies \in Nat /\ st[id].queued \in Nat
    BY <1>1 DEF Stream
  <1>4. Becomes(id, x)
    <2>1. [This(id) EXCEPT !.f.replies = @ + 1, !.f.queued = @ + 1] = x
      BY <1>1 DEF Result, Stream, WithFrames
    <2> QED  BY <2>1 DEF UpstreamData
  <1>5. p \in Nat /\ q \in Nat /\ p > st[id].replies /\ q = st[id].queued + 1
    BY <1>3
  <1> HIDE DEF p, q
  <1>6. /\ Good(st[id].rec, log, x) /\ Held(x.f) /\ x.f.queued = q /\ x.f.replies = p
        /\ x.f.synack = st[id].synack
    BY <1>2, <1>5, QueuedMore
  <1> HIDE DEF x
  <1>7. AnswerKept(st[id], x.f)
    BY <1>3, <1>5, <1>6 DEF AnswerKept
  <1> QED  BY <1>2, <1>4, <1>6, <1>7 DEF Handled

(* The end of file of an upstream.                                         *)
LEMMA UpstreamEofHandled ==
    ASSUME SessionInv, NEW id \in Ids, UpstreamEof(id)
    PROVE  open /\ st[id].state # "none" /\ Handled(id)
  <1> DEFINE p == st[id].replies
             q == st[id].queued + 1
             x == WithFrames(id, p, q)
             y == StreamClose(x)
  <1>1. /\ This(id) \in Result /\ This(id).f = st[id] /\ StreamOk(st[id]) /\ st[id] \in Stream
        /\ log \in Seq(Record) /\ st[id].rec \in Nat
    BY ThisGood DEF Good
  <1>2. open /\ st[id].state # "none" /\ st[id].synack # "no"
    BY <1>1 DEF UpstreamEof, IsOpen, StreamOk, HoldsOk
  <1>3. p \in Nat /\ st[id].queued \in Nat
    BY <1>1 DEF Stream
  <1>4. Becomes(id, y)
    <2>1. [This(id) EXCEPT !.f.queued = @ + 1] = x
      BY <1>1 DEF Result, Stream, WithFrames
    <2> QED  BY <2>1 DEF UpstreamEof
  <1>5. q \in Nat /\ q = st[id].queued + 1
    BY <1>3
  <1> HIDE DEF p, q
  <1>6. Good(st[id].rec, log, x) /\ x.f.queued = q /\ x.f.synack = st[id].synack
    BY <1>2, <1>3, <1>5, QueuedMore
  <1> HIDE DEF x
  <1>7. /\ Good(st[id].rec, log, y) /\ Held(y.f)
        /\ \/ y.f = NoStream
           \/ y.f.state = "closing" /\ y.f.synack = x.f.synack /\ y.f.queued = x.f.queued
    BY <1>1, <1>6, StreamCloseGood
  <1> HIDE DEF y
  <1>8. AnswerKept(st[id], y.f)
    BY <1>3, <1>5, <1>6, <1>7, NoStreamOk DEF AnswerKept
  <1> QED  BY <1>2, <1>4, <1>7, <1>8 DEF Handled

(* A frame to the client leaves.                                           *)
LEMMA FrameSentHandled ==
    ASSUME SessionInv, NEW id \in Ids, FrameSent(id)
    PROVE  open /\ st[id].state # "none" /\ Handled(id)
  <1> DEFINE p == st[id].replies
             q == st[id].queued - 1
             x == WithFrames(id, p, q)
             y == StreamClose(x)
  <1>1. /\ This(id) \in Result /\ This(id).f = st[id] /\ StreamOk(st[id]) /\ st[id] \in Stream
        /\ log \in Seq(Record) /\ st[id].rec \in Nat
    BY ThisGood DEF Good
  <1>2. open /\ st[id].queued > 0
    BY DEF FrameSent
  <1>3. p \in Nat /\ st[id].queued \in Nat
    BY <1>1 DEF Stream
  <1>4. st[id].state # "none" /\ st[id].synack # "no"
    BY <1>1, <1>2, OpenStream DEF StreamOk, HoldsOk
  <1>5. Becomes(id, IF x.f.delayed /\ x.f.queued = 0 THEN y ELSE x)
    <2>1. [This(id) EXCEPT !.f.queued = @ - 1] = x
      BY <1>1 DEF Result, Stream, WithFrames
    <2> QED  BY <2>1 DEF FrameSent
  <1>6. q \in Nat /\ q < st[id].queued
    BY <1>2, <1>3
  <1> HIDE DEF p, q
  <1>7. /\ Good(st[id].rec, log, x) /\ Held(x.f) /\ x.f.queued = q
        /\ x.f.synack = st[id].synack
    BY <1>3, <1>4, <1>6, QueuedMore
  <1> HIDE DEF x
  <1>8. CASE x.f.delayed /\ x.f.queued = 0
    <2>1. /\ Good(st[id].rec, log, y) /\ Held(y.f)
          /\ \/ y.f = NoStream
             \/ y.f.state = "closing" /\ y.f.synack = x.f.synack /\ y.f.queued = x.f.queued
      BY <1>1, <1>7, StreamCloseGood
    <2> HIDE DEF y
    <2>2. AnswerKept(st[id], y.f)
      BY <1>3, <1>6, <1>7, <2>1, NoStreamOk DEF AnswerKept
    <2> QED  BY <1>2, <1>4, <1>5, <1>8, <2>1, <2>2 DEF Handled
  <1>9. CASE ~(x.f.delayed /\ x.f.queued = 0)
    <2>1. AnswerKept(st[id], x.f)
      BY <1>3, <1>6, <1>7 DEF AnswerKept
    <2> QED  BY <1>2, <1>4, <1>5, <1>7, <1>9, <2>1 DEF Handled
  <1> QED  BY <1>8, <1>9

(* The socket of a stream gets connected, or fails.                        *)
LEMMA NetHandled ==
    ASSUME SessionInv, NEW id \in Ids, st[id].net # "none", NEW n \in {"up", "err"}, Net(id, n)
    PROVE  open /\ st[id].state # "none" /\ Handled(id)
  <1> DEFINE g == [st[id] EXCEPT !.net = n]
             t == This(id)
             x == [t EXCEPT !.f = g]
  <1>1. /\ Good(st[id].rec, log, t) /\ t.f = st[id] /\ StreamOk(st[id]) /\ Held(st[id])
        /\ log \in Seq(Record) /\ st[id].rec \in Nat /\ st[id] \in Stream /\ t.log = log
    BY ThisGood
  <1>2. open /\ st[id].seen /\ st[id].state # "none" /\ ~st[id].delayed
    BY <1>1, OpenStream DEF Net
  <1>3. /\ g \in Stream /\ g.rec = st[id].rec /\ g.delayed = st[id].delayed
        /\ g.counted = st[id].counted /\ g.synack = st[id].synack
        /\ g.queued = st[id].queued
    BY <1>1 DEF Stream
  <1>4. TableOk(g)
    BY <1>1, <1>2 DEF StreamOk, TableOk, Stream
  <1>5. PayloadOk(g)
    BY <1>1 DEF StreamOk, PayloadOk, Stream
  <1>6. HoldsOk(g) /\ Held(g)
    BY <1>1, <1>2 DEF StreamOk, HoldsOk, Held, Stream
  <1>7. st' = [st EXCEPT ![id] = g] /\ log' = t.log
        /\ UNCHANGED <<open, settings, version, opens, maxStreams>>
    BY <1>1 DEF Net
  <1> HIDE DEF g, t
  <1>8. Good(st[id].rec, log, x) /\ x.f = g
    <2>1. StreamOk(g)
      BY <1>3, <1>4, <1>5, <1>6 DEF StreamOk
    <2> QED  BY <1>1, <1>3, <2>1, StreamChange
  <1>9. x.log = t.log
    BY <1>1 DEF Good, Result
  <1>10. Becomes(id, x)
    BY <1>7, <1>8, <1>9 DEF Becomes
  <1> HIDE DEF x
  <1>11. AnswerKept(st[id], x.f)
    <2>1. st[id].queued \in Nat
      BY <1>1 DEF Stream
    <2> QED  BY <1>3, <1>8, <2>1 DEF AnswerKept
  <1> QED  BY <1>2, <1>6, <1>8, <1>10, <1>11 DEF Handled

(* FIN: what waits is sent, and the stream half closed or closed.          *)
LEMMA FinHandled ==
    ASSUME SessionInv, NEW id \in Ids, Fin(id)
    PROVE  open /\ st[id].state # "none" /\ Handled(id)
  <1> DEFINE t == This(id)
             g == [st[id] EXCEPT !.closed = TRUE]
             x == [t EXCEPT !.f = g]
  <1>1. /\ Good(st[id].rec, log, t) /\ t.f = st[id] /\ StreamOk(st[id]) /\ Held(st[id])
        /\ log \in Seq(Record) /\ st[id].rec \in Nat /\ st[id] \in Stream /\ t.rc = "ok"
        /\ t \in Result
    BY ThisGood DEF Good
  <1>2. open /\ st[id].state # "none" /\ ~st[id].delayed
    BY <1>1, OpenStream DEF Fin, Found
  <1>3. [t EXCEPT !.f.closed = TRUE] = x
    BY <1>1
  <1>4. IF x.f.net # "none" /\ x.f.state = "connected"
        THEN \E y \in SendPending(x) :
               Becomes(id, IF y.rc = "error" THEN StreamClose(y)
                           ELSE [y EXCEPT !.f.state = "half_closed"])
        ELSE Becomes(id, StreamClose(x))
    BY <1>3 DEF Fin
  <1>5. /\ g \in Stream /\ g.state = st[id].state /\ g.query = st[id].query
        /\ g.timer = st[id].timer /\ g.delayed = st[id].delayed
        /\ g.target = st[id].target /\ g.got = st[id].got /\ g.acc = st[id].acc
        /\ g.seen = st[id].seen /\ g.net = st[id].net /\ g.posted = st[id].posted
        /\ g.pend = st[id].pend /\ g.up = st[id].up /\ g.synack = st[id].synack
        /\ g.queued = st[id].queued /\ g.rec = st[id].rec /\ g.counted = st[id].counted
    BY <1>1 DEF Stream
  <1> HIDE DEF g, t
  <1>6. StreamOk(g)
    <2>1. TableOk(g)
      BY <1>1, <1>2, <1>5 DEF StreamOk, TableOk, Idle
    <2>2. PayloadOk(g)
      BY <1>1, <1>5 DEF StreamOk, PayloadOk
    <2>3. HoldsOk(g)
      BY <1>1, <1>2, <1>5 DEF StreamOk, HoldsOk
    <2> QED  BY <1>5, <2>1, <2>2, <2>3 DEF StreamOk
  <1>7. Good(st[id].rec, log, x) /\ x.f = g /\ x.rc = t.rc
    BY <1>1, <1>5, <1>6, StreamChange
  <1> HIDE DEF x
  <1>8. SameAnswer(st[id], x.f)
    BY <1>5, <1>7 DEF SameAnswer
  <1>9. CASE ~(x.f.net # "none" /\ x.f.state = "connected")
    BY <1>2, <1>4, <1>7, <1>8, <1>9, ClosedHandled
  <1>10. CASE x.f.net # "none" /\ x.f.state = "connected"
    <2>1. PICK y \in SendPending(x) :
             Becomes(id, IF y.rc = "error" THEN StreamClose(y)
                         ELSE [y EXCEPT !.f.state = "half_closed"])
      BY <1>4, <1>10
    <2>2. Running(x) /\ x.f.rec > 0
      BY <1>6, <1>7, <1>10, OpenStream DEF Running
    <2>3. /\ Good(st[id].rec, log, y) /\ SameAnswer(x.f, y.f)
          /\ y.f.state = x.f.state /\ y.f.synack = x.f.synack /\ Running(y)
      BY <1>1, <1>7, <2>2, SendPendingGood
    <2>4. SameAnswer(st[id], y.f)
      BY <1>8, <2>3 DEF SameAnswer
    <2>5. CASE y.rc = "error"
      BY <1>2, <2>1, <2>3, <2>4, <2>5, ClosedHandled
    <2>6. CASE y.rc # "error"
      <3> DEFINE h == [y.f EXCEPT !.state = "half_closed"]
                 z == [y EXCEPT !.f = h]
      <3>1. y \in Result /\ y.f \in Stream /\ StreamOk(y.f) /\ y.f.state = "connected"
        BY <1>10, <2>3 DEF Good, StreamOk
      <3>2. [y EXCEPT !.f.state = "half_closed"] = z
        BY <3>1
      <3>3. Becomes(id, z)
        BY <2>1, <2>6, <3>2
      <3>4. /\ h \in Stream /\ h.state = "half_closed" /\ h.query = y.f.query
            /\ h.timer = y.f.timer /\ h.delayed = y.f.delayed /\ h.closed = y.f.closed
            /\ h.target = y.f.target /\ h.got = y.f.got /\ h.acc = y.f.acc
            /\ h.seen = y.f.seen /\ h.net = y.f.net /\ h.posted = y.f.posted
            /\ h.pend = y.f.pend /\ h.up = y.f.up /\ h.synack = y.f.synack
            /\ h.queued = y.f.queued /\ h.rec = y.f.rec /\ h.counted = y.f.counted
        BY <3>1 DEF Stream
      <3> HIDE DEF h
      <3>5. TableOk(h)
        BY <2>3, <3>1, <3>4 DEF StreamOk, TableOk, Running
      <3>6. PayloadOk(h)
        BY <3>1, <3>4 DEF StreamOk, PayloadOk
      <3>7. HoldsOk(h) /\ Held(h)
        BY <3>1, <3>4 DEF StreamOk, HoldsOk, Held
      <3>8. Good(st[id].rec, log, z) /\ z.f = h
        <4>1. StreamOk(h)
          BY <3>4, <3>5, <3>6, <3>7 DEF StreamOk
        <4> QED  BY <1>1, <2>3, <3>4, <4>1, StreamChange
      <3> HIDE DEF z
      <3>9. AnswerKept(st[id], z.f)
        <4>1. st[id].queued \in Nat
          BY <1>1 DEF Stream
        <4>2. Answered(st[id], z.f)
          BY <2>4, <3>4, <3>8 DEF Answered, SameAnswer
        <4> QED  BY <4>1, <4>2, AnsweredKept
      <3> QED  BY <1>2, <3>3, <3>7, <3>8, <3>9 DEF Handled
    <2> QED  BY <2>5, <2>6
  <1> QED  BY <1>9, <1>10

(* The result of an action on a frame of the client.                       *)
LEMMA ResultHandled ==
    ASSUME SessionInv, NEW id \in Ids, NEW x, Good(st[id].rec, log, x),
           x.rc = "ok" => Held(x.f) /\ AnswerKept(st[id], x.f), ActionResult(id, x)
    PROVE  Handled(id)
  BY DEF ActionResult, Handled

(* PSH behind the address: the payload goes behind what waits.             *)
LEMMA PshHandled ==
    ASSUME SessionInv, NEW id \in Ids, NEW n \in Nat, Psh(id, n)
    PROVE  open /\ st[id].state # "none" /\ Handled(id)
  <1> DEFINE f == st[id]
             got == f.got + n
             new == [k \in 1 .. n |-> f.got + k]
             p == f.pend \o new
             g == [f EXCEPT !.got = got, !.pend = p]
             x == Returns(g, log, "ok")
  <1>1. /\ Good(f.rec, log, This(id)) /\ This(id).f = f /\ StreamOk(f) /\ Held(f)
        /\ log \in Seq(Record) /\ f.rec \in Nat /\ f \in Stream
    BY ThisGood
  <1>2. open /\ f.seen /\ f.state # "none" /\ ~f.delayed
    BY <1>1, OpenStream DEF Psh, Found
  <1>3. /\ f.got \in Nat /\ f.up \in Seq(Nat) /\ f.pend \in Seq(Nat)
        /\ f.target \in Targets /\ f.queued \in Nat
    BY <1>1 DEF Stream
  <1>4. got \in Nat
    BY <1>3
  <1>5. PICK y \in Queue(x) : ActionResult(id, y)
    BY DEF Psh
  <1>6. p \in Seq(Nat) /\ f.up \o p = Bytes(AddrLen[f.target], got)
    <2> DEFINE a == AddrLen[f.target]
    <2>1. a \in Nat /\ a <= f.got
      BY <1>1, <1>2, <1>3, SessionAssumption DEF StreamOk, PayloadOk
    <2>2. f.up \o f.pend = Bytes(a, f.got)
      BY <1>1, <1>2 DEF StreamOk, PayloadOk
    <2>3. new = NextBytes(f.got, n)
      BY DEF NextBytes
    <2> DEFINE u == f.up
               q == f.pend
               m == f.got
    <2>4. u \in Seq(Nat) /\ q \in Seq(Nat) /\ m \in Nat /\ a \in Nat /\ a <= m
          /\ u \o q = Bytes(a, m)
      BY <1>3, <2>1, <2>2
    <2> HIDE DEF new, f, a, u, q, m
    <2>5. new \in Seq(Nat) /\ Bytes(a, m) \o new = Bytes(a, m + n)
      BY <2>3, <2>4, BytesGrow DEF m
    <2>6. q \o new \in Seq(Nat)
      BY <2>4, <2>5, ConcatProperties
    <2>7. (u \o q) \o new = u \o (q \o new)
      BY <2>4, <2>5, JoinThree, Zenon
    <2>8. u \o (q \o new) = Bytes(a, m + n)
      BY <2>4, <2>5, <2>7
    <2> QED  BY <2>6, <2>8 DEF a, u, q, m
  <1> HIDE DEF got, p
  <1>7. /\ g \in Stream /\ g.got = got /\ g.pend = p
        /\ g.state = f.state /\ g.query = f.query
        /\ g.timer = f.timer /\ g.delayed = f.delayed /\ g.closed = f.closed
        /\ g.target = f.target /\ g.acc = f.acc
        /\ g.seen = f.seen /\ g.net = f.net /\ g.posted = f.posted
        /\ g.up = f.up /\ g.synack = f.synack /\ g.replies = f.replies
        /\ g.queued = f.queued /\ g.rec = f.rec /\ g.counted = f.counted
    BY <1>1, <1>4, <1>6 DEF Stream
  <1>8. got >= f.got
    BY <1>3 DEF got
  <1> HIDE DEF g
  <1>9. StreamOk(g)
    <2>1. TableOk(g)
      BY <1>1, <1>2, <1>7 DEF StreamOk, TableOk
    <2>2. PayloadOk(g)
      <3>1. AddrLen[f.target] \in Nat /\ f.got >= AddrLen[f.target]
        BY <1>1, <1>2, <1>3, SessionAssumption DEF StreamOk, PayloadOk
      <3> QED  BY <1>3, <1>4, <1>6, <1>7, <1>8, <3>1 DEF PayloadOk
    <2>3. HoldsOk(g)
      BY <1>1, <1>2, <1>7 DEF StreamOk, HoldsOk
    <2> QED  BY <1>7, <2>1, <2>2, <2>3 DEF StreamOk
  <1>10. Held(g)
    BY <1>1, <1>7 DEF Held
  <1>11. x.f = g /\ x.rc = "ok" /\ x.log = log /\ x \in Result
    BY <1>1, <1>7 DEF Returns, Result
  <1>12. Good(f.rec, log, x)
    <2>1. Own(f.rec, log, x)
      BY <1>1, <1>7, <1>11, OwnSame, ThisGood DEF Good
    <2> QED  BY <1>9, <1>11, <2>1 DEF Good
  <1> HIDE DEF x
  <1>13. Running(x)
    BY <1>2, <1>7, <1>11 DEF Running
  <1>14. Good(f.rec, log, y) /\ (y.rc = "ok" => Held(y.f)) /\ SameAnswer(f, y.f)
    <2>1. CASE x.f.state # "connected" \/ x.f.net = "none"
      <3> DEFINE h == [g EXCEPT !.posted = g.net # "none"]
      <3>1. y = [x EXCEPT !.f = h]
        BY <1>5, <1>7, <1>11, <2>1 DEF Queue
      <3>2. /\ h \in Stream /\ (h.posted <=> g.net # "none")
            /\ h.state = g.state /\ h.query = g.query /\ h.got = g.got /\ h.pend = g.pend
            /\ h.timer = g.timer /\ h.delayed = g.delayed /\ h.closed = g.closed
            /\ h.target = g.target /\ h.acc = g.acc
            /\ h.seen = g.seen /\ h.net = g.net
            /\ h.up = g.up /\ h.synack = g.synack
            /\ h.queued = g.queued /\ h.rec = g.rec /\ h.counted = g.counted
        BY <1>7 DEF Stream
      <3> HIDE DEF h
      <3>3. TableOk(h)
        BY <1>2, <1>7, <1>9, <3>2 DEF StreamOk, TableOk
      <3>4. PayloadOk(h)
        BY <1>9, <3>2 DEF StreamOk, PayloadOk
      <3>5. HoldsOk(h) /\ Held(h)
        BY <1>9, <1>10, <3>2 DEF StreamOk, HoldsOk, Held
      <3>6. Good(f.rec, log, y) /\ y.f = h
        <4>1. StreamOk(h)
          BY <3>2, <3>3, <3>4, <3>5 DEF StreamOk
        <4> QED  BY <1>1, <1>11, <1>12, <3>1, <3>2, <4>1, StreamChange
      <3> QED  BY <1>7, <3>2, <3>5, <3>6 DEF SameAnswer
    <2>2. CASE ~(x.f.state # "connected" \/ x.f.net = "none")
      <3>1. CASE y = x
        BY <1>7, <1>10, <1>11, <1>12, <3>1 DEF SameAnswer
      <3>2. CASE y \in SendPending(x)
        <4>1. x.f.rec > 0
          BY <1>9, <1>11, <2>2, OpenStream
        <4>2. /\ Good(f.rec, log, y) /\ SameAnswer(x.f, y.f)
              /\ y.f.state = x.f.state /\ y.f.synack = x.f.synack
          BY <1>1, <1>12, <1>13, <3>2, <4>1, SendPendingGood
        <4> QED  BY <1>7, <1>11, <2>2, <4>2 DEF SameAnswer, Held
      <3> QED  BY <1>5, <2>2, <3>1, <3>2 DEF Queue
    <2> QED  BY <2>1, <2>2
  <1>15. AnswerKept(f, y.f)
    BY <1>3, <1>14, AnsweredKept DEF Answered
  <1> QED  BY <1>2, <1>5, <1>14, <1>15, ResultHandled

(* The PSH frames that carry the address, in as many pieces as it takes.   *)
LEMMA FirstPshHandled ==
    ASSUME SessionInv, NEW id \in Ids, NEW n \in Nat \ {0}, FirstPsh(id, n)
    PROVE  open /\ st[id].state # "none" /\ Handled(id)
  <1> DEFINE f0 == st[id]
  <1>1. /\ Good(f0.rec, log, This(id)) /\ This(id).f = f0 /\ This(id).log = log
        /\ StreamOk(f0) /\ Held(f0) /\ log \in Seq(Record) /\ f0.rec \in Nat
        /\ f0 \in Stream
    BY ThisGood
  <1>2. open /\ ~f0.seen /\ f0.state # "none"
    BY DEF FirstPsh, Found
  <1>3. /\ f0.state = "init" /\ f0.acc = f0.got /\ f0.acc < AddrLen[f0.target]
        /\ ~f0.delayed /\ ~f0.query /\ f0.net = "none" /\ ~f0.timer /\ ~f0.posted
        /\ f0.pend = <<>> /\ f0.up = <<>> /\ f0.synack = "no" /\ f0.queued = 0
        /\ f0.rec = 0 /\ f0.counted = 0
    BY <1>1, <1>2 DEF StreamOk, TableOk, Idle, HoldsOk
  <1>4. f0.got \in Nat /\ f0.acc \in Nat /\ f0.target \in Targets
    BY <1>1 DEF Stream
  <1>5. PICK t \in IF f0.acc = 0 THEN Targets ELSE {f0.target} :
          LET f == [f0 EXCEPT !.target = t]
              len == Collected(f, n)
          IN  \/ t = "bad" /\ SessionEnds(st, log)
              \/ /\ t # "bad" /\ len < AddrLen[t]
                 /\ Becomes(id, Returns([f EXCEPT !.acc = len, !.got = @ + n], log, "ok"))
              \/ /\ t # "bad" /\ len >= AddrLen[t]
                 /\ \E x \in UpstreamOpen(Returns([f EXCEPT !.seen = TRUE, !.acc = 0, !.got = @ + n,
                                                            !.pend = FirstPayload(f, n)], log, "ok")) :
                      ActionResult(id, x)
    BY DEF FirstPsh
  <1> DEFINE f == [f0 EXCEPT !.target = t]
             a == AddrLen[t]
             len == Collected(f, n)
             got == f0.got + n
  <1>6. t \in Targets /\ a \in 1 .. MaxAddr /\ MaxAddr \in Nat /\ f0.acc < a /\ got \in Nat
    <2>1. t \in Targets
      BY <1>4, <1>5
    <2>2. a \in 1 .. MaxAddr /\ MaxAddr \in Nat
      BY <2>1, SessionAssumption
    <2>3. f0.acc < a
      <3>1. CASE f0.acc = 0
        BY <2>2, <3>1
      <3>2. CASE f0.acc # 0
        BY <1>3, <1>5, <3>2
      <3> QED  BY <3>1, <3>2
    <2> QED  BY <1>4, <2>1, <2>2, <2>3
  <1>7. /\ f \in Stream /\ f.target = t /\ f.acc = f0.acc /\ f.got = f0.got
        /\ f.state = "init" /\ f.rec = 0 /\ f.counted = 0 /\ ~f.seen /\ ~f.delayed
        /\ ~f.query /\ f.net = "none" /\ ~f.timer /\ ~f.posted /\ f.pend = <<>>
        /\ f.up = <<>> /\ f.synack = "no" /\ f.queued = 0 /\ f.delayed = f0.delayed
    BY <1>1, <1>2, <1>3, <1>6 DEF Stream
  <1>8. len \in Nat /\ len <= got /\ (len < a => len = got)
    BY <1>3, <1>4, <1>6, <1>7 DEF Collected
  <1>9. CASE t = "bad" /\ SessionEnds(st, log)
    <2>1. st \in [Ids -> Stream]
      BY DEF SessionInv, TypeOK
    <2>2. [st EXCEPT ![id] = This(id).f] = st
      BY <1>1, <2>1
    <2> QED  BY <1>1, <1>2, <1>9, <2>2 DEF Handled
  <1>10. CASE /\ len < a
              /\ Becomes(id, Returns([f EXCEPT !.acc = len, !.got = @ + n], log, "ok"))
    <2> DEFINE g == [f EXCEPT !.acc = len, !.got = got]
               x == Returns(g, log, "ok")
    <2>1. Becomes(id, x)
      <3>1. [f EXCEPT !.acc = len, !.got = @ + n] = g
        BY <1>7 DEF Stream
      <3> QED  BY <1>10, <3>1
    <2> HIDE DEF f, len, got
    <2>2. /\ g \in Stream /\ g.target = t /\ g.acc = len /\ g.got = got
          /\ g.state = "init" /\ g.rec = 0 /\ g.counted = 0 /\ ~g.seen /\ ~g.delayed
          /\ ~g.query /\ g.net = "none" /\ ~g.timer /\ ~g.posted /\ g.pend = <<>>
          /\ g.up = <<>> /\ g.synack = "no" /\ g.queued = 0 /\ g.delayed = f0.delayed
      BY <1>6, <1>7, <1>8 DEF Stream, got
    <2> HIDE DEF g
    <2>3. TableOk(g)
      BY <1>6, <1>8, <1>10, <2>2 DEF TableOk, Idle
    <2>4. PayloadOk(g) /\ HoldsOk(g) /\ Held(g)
      BY <2>2 DEF PayloadOk, HoldsOk, Held
    <2>5. x.f = g /\ x.log = log /\ x.rc = "ok" /\ x \in Result
      BY <1>1, <2>2 DEF Returns, Result
    <2> HIDE DEF x
    <2>6. Good(f0.rec, log, x)
      <3>1. Own(f0.rec, log, x)
        BY <1>1, <1>3, <2>2, <2>5, OwnSame DEF Good
      <3> QED  BY <2>2, <2>3, <2>4, <2>5, <3>1 DEF Good, StreamOk
    <2>7. AnswerKept(f0, x.f)
      BY <1>3 DEF AnswerKept
    <2> QED  BY <1>2, <2>1, <2>4, <2>5, <2>6, <2>7 DEF Handled
  <1>11. CASE /\ len >= a
              /\ \E x \in UpstreamOpen(Returns([f EXCEPT !.seen = TRUE, !.acc = 0, !.got = @ + n,
                                                         !.pend = FirstPayload(f, n)], log, "ok")) :
                   ActionResult(id, x)
    <2> DEFINE p == FirstPayload(f, n)
               g == [f EXCEPT !.seen = TRUE, !.acc = 0, !.got = got, !.pend = p]
               x == Returns(g, log, "ok")
    <2>1. PICK y \in UpstreamOpen(x) : ActionResult(id, y)
      <3>1. [f EXCEPT !.seen = TRUE, !.acc = 0, !.got = @ + n, !.pend = p] = g
        BY <1>7 DEF Stream
      <3> QED  BY <1>11, <3>1
    <2>2. p \in Seq(Nat) /\ p = Bytes(a, got)
      <3> DEFINE c == a - f0.acc
      <3>1. p = [k \in 1 .. n - c |-> f0.got + c + k]
        BY <1>6, <1>7, <1>4 DEF FirstPayload
      <3>2. n - c = got - a /\ f0.got + c = a
        BY <1>3, <1>4, <1>6
      <3> HIDE DEF c, p, got
      <3>3. p = Bytes(a, got)
        BY <3>1, <3>2 DEF Bytes
      <3>4. got - a \in Nat
        BY <1>6, <1>8, <1>11
      <3>5. Bytes(a, got) \in Seq(Nat)
        <4>1. a \in Nat /\ got \in Nat /\ a <= got
          BY <1>6, <3>4
        <4> HIDE DEF a
        <4> QED  BY <4>1, BytesJoin
      <3> QED  BY <3>3, <3>5
    <2> HIDE DEF f, len, got, p
    <2>3. /\ g \in Stream /\ g.target = t /\ g.acc = 0 /\ g.got = got
          /\ g.state = "init" /\ g.rec = 0 /\ g.counted = 0 /\ g.seen /\ ~g.delayed
          /\ ~g.query /\ g.net = "none" /\ ~g.timer /\ ~g.posted /\ g.pend = p
          /\ g.up = <<>> /\ g.synack = "no" /\ g.queued = 0 /\ g.delayed = f0.delayed
      BY <1>6, <1>7, <1>8, <2>2 DEF Stream, got
    <2> HIDE DEF g
    <2>4. StreamOk(g)
      <3>1. TableOk(g)
        BY <1>6, <2>3 DEF TableOk
      <3>2. PayloadOk(g)
        <4>1. <<>> \o p = p
          BY <2>2, ConcatEmptySeq
        <4>2. got >= a
          BY <1>6, <1>8, <1>11
        <4> QED  BY <2>2, <2>3, <4>1, <4>2 DEF PayloadOk
      <3>3. HoldsOk(g)
        BY <2>3 DEF HoldsOk
      <3> QED  BY <2>3, <3>1, <3>2, <3>3 DEF StreamOk
    <2>5. x.f = g /\ x.log = log /\ x.rc = "ok" /\ x \in Result
      BY <1>1, <2>3 DEF Returns, Result
    <2> HIDE DEF x
    <2>6. Good(f0.rec, log, x)
      <3>1. Own(f0.rec, log, x)
        BY <1>1, <1>3, <2>3, <2>5, OwnSame DEF Good
      <3> QED  BY <2>4, <2>5, <3>1 DEF Good
    <2>7. Running(x) /\ ~x.f.query /\ x.f.net = "none" /\ x.f.synack = "no"
      BY <2>3, <2>5 DEF Running
    <2>8. Good(f0.rec, log, y) /\ (y.rc = "ok" => Held(y.f))
      BY <1>1, <2>1, <2>5, <2>6, <2>7, UpstreamOpenGood
    <2>9. AnswerKept(f0, y.f)
      BY <1>3 DEF AnswerKept
    <2> QED  BY <1>2, <2>1, <2>8, <2>9, ResultHandled
  <1> QED  BY <1>5, <1>9, <1>10, <1>11

(* SYN: a stream more, if there is room, or the end of the session.        *)
LEMMA SynInv ==
    ASSUME SessionInv, NEW id \in Ids, Syn(id)
    PROVE  SessionInv' /\ \A i \in Ids : AnswerKept(st[i], st'[i])
  <1>0. st \in [Ids -> Stream] /\ log \in Seq(Record) /\ LogOk(st, log)
    BY DEF SessionInv, TypeOK
  <1>1. CASE SessionEnds(st, log)
    BY <1>0, <1>1, SessionEndsInv
  <1>2. CASE /\ HasRoom /\ opens < MaxOpens
             /\ st' = [st EXCEPT ![id] = [NoStream EXCEPT !.state = "init"]]
             /\ opens' = opens + 1 /\ UNCHANGED <<open, settings, version, log, maxStreams>>
    <2> DEFINE g == [NoStream EXCEPT !.state = "init"]
    <2>1. /\ g \in Stream /\ StreamOk(g) /\ Held(g) /\ g.rec = 0 /\ g.state = "init"
      <3>1. g \in Stream
        BY NoStreamOk DEF Stream
      <3>2. /\ g.state = "init" /\ ~g.seen /\ g.rec = 0 /\ g.acc = 0 /\ g.got = 0
            /\ ~g.delayed /\ ~g.query /\ g.net = "none" /\ ~g.timer /\ ~g.posted
            /\ g.pend = <<>> /\ g.up = <<>> /\ g.synack = "no" /\ g.queued = 0
            /\ g.counted = 0 /\ g.target = "ip"
        BY DEF NoStream
      <3>3. AddrLen["ip"] > 0 /\ MaxAddr > 0
        BY SessionAssumption DEF Targets
      <3> HIDE DEF g
      <3>4. TableOk(g) /\ PayloadOk(g) /\ HoldsOk(g) /\ Held(g)
        BY <3>2, <3>3 DEF TableOk, Idle, PayloadOk, HoldsOk, Held
      <3> QED  BY <3>1, <3>2, <3>4 DEF StreamOk
    <2> HIDE DEF g
    <2>2. /\ st' = [st EXCEPT ![id] = g] /\ log' = log /\ open' = open /\ open
          /\ settings' = settings /\ version' = version /\ maxStreams' = maxStreams
          /\ opens' = opens + 1 /\ st[id].state = "none"
      BY <1>2 DEF g, Syn
    <2>3. st[id] = NoStream
      BY <2>2 DEF SessionInv, StreamOk, TableOk
    <2>4. st' \in [Ids -> Stream] /\ st'[id] = g /\ \A i \in Ids \ {id} : st'[i] = st[i]
      BY <1>0, <2>1, <2>2
    <2>5. InTable' = InTable \cup {id} /\ id \notin InTable
      BY <2>1, <2>2, <2>4 DEF InTable
    <2>6. maxStreams \in Nat
      BY SessionAssumption DEF SessionInv, TypeOK
    <2>7. IsFiniteSet(InTable') /\ Active' <= maxStreams'
      <3>1. IsFiniteSet(InTable') /\ Cardinality(InTable') = Cardinality(InTable) + 1
        BY <2>5, FS_AddElement DEF SessionInv
      <3>2. Cardinality(InTable) \in Nat
        BY FS_CardinalityType DEF SessionInv
      <3>3. Cardinality(InTable) < maxStreams
        BY <1>2 DEF HasRoom, Active, InTable
      <3> QED  BY <2>2, <2>6, <3>1, <3>2, <3>3 DEF Active, InTable
    <2>8. \A i \in Ids : StreamOk(st'[i]) /\ Held(st'[i])
      BY <2>1, <2>4 DEF SessionInv
    <2>9. TypeOK'
      <3>1. opens' \in 0 .. MaxOpens
        BY <1>2, <2>2, SessionAssumption DEF SessionInv, TypeOK
      <3> QED  BY <1>0, <2>2, <2>4, <2>7, <2>8, <3>1 DEF SessionInv, TypeOK, StreamOk, TableOk
    <2>10. LogOk(st', log')
      <3>1. \A i \in Ids : i # id => st'[i] = st[i]
        BY <2>4
      <3>2. st'[id].rec = 0 /\ st[id].rec = 0 /\ log' = log
        BY <2>1, <2>2, <2>3, <2>4, NoStreamOk
      <3>3. log \in Seq(Record) /\ Len(log) \in Nat
        BY <1>0
      <3>4. \A i \in Ids : st'[i].rec \in 0 .. Len(log)
        BY <1>0, <3>1, <3>2, <3>3 DEF LogOk
      <3>5. \A i \in Ids : st'[i].rec > 0 => i # id
        BY <3>2
      <3>6. \A r \in 1 .. Len(log) : \A i \in Ids : st[i].rec = r => st'[i] = st[i]
        BY <3>1, <3>2, <3>3
      <3> QED  BY <1>0, <3>1, <3>2, <3>3, <3>4, <3>5, <3>6 DEF LogOk
    <2>11. SessionInv'
      BY <2>2, <2>7, <2>8, <2>9, <2>10 DEF SessionInv
    <2>12. \A i \in Ids : AnswerKept(st[i], st'[i])
      <3> SUFFICES ASSUME NEW i \in Ids PROVE AnswerKept(st[i], st'[i])
        OBVIOUS
      <3>1. CASE i = id
        BY <2>3, <3>1 DEF AnswerKept, NoStream
      <3>2. CASE i # id
        <4>1. st[i].queued \in Nat
          BY <1>0 DEF Stream
        <4> QED  BY <2>4, <3>2, <4>1 DEF AnswerKept
      <3> QED  BY <3>1, <3>2
    <2> QED  BY <2>11, <2>12
  <1> QED  BY <1>1, <1>2 DEF Syn

(* A session starts without streams and without records.                   *)
LEMMA InitInv == Init => SessionInv
  <1> SUFFICES ASSUME Init PROVE SessionInv
    OBVIOUS
  <1>1. /\ open = TRUE /\ settings = FALSE /\ version = 1 /\ opens = 0
        /\ st = [id \in Ids |-> NoStream] /\ log = <<>> /\ maxStreams \in Limits
    BY DEF Init
  <1>2. InTable = {}
    BY <1>1, NoStreamOk DEF InTable
  <1>3. IsFiniteSet(InTable) /\ Cardinality(InTable) = 0
    BY <1>2, FS_EmptySet
  <1>4. \A id \in Ids : StreamOk(st[id]) /\ Held(st[id])
    BY <1>1, NoStreamOk
  <1>5. Active <= maxStreams
    BY <1>1, <1>3, SessionAssumption DEF Active, InTable
  <1>6. TypeOK
    <2>1. st \in [Ids -> Stream] /\ log \in Seq(Record) /\ opens \in 0 .. MaxOpens
      BY <1>1, NoStreamOk, SessionAssumption
    <2> QED  BY <1>1, <1>4, <1>5, <2>1 DEF TypeOK, StreamOk, TableOk
  <1>7. LogOk(st, log)
    BY <1>1, NoStreamOk DEF LogOk
  <1> QED  BY <1>1, <1>3, <1>4, <1>6, <1>7 DEF SessionInv

(* Every step keeps the invariant, and the answers that were given.        *)
LEMMA NextInv ==
    ASSUME SessionInv, [Next]_vars
    PROVE  SessionInv' /\ \A i \in Ids : AnswerKept(st[i], st'[i])
  <1>0. st \in [Ids -> Stream] /\ log \in Seq(Record) /\ LogOk(st, log)
    BY DEF SessionInv, TypeOK
  <1>1. ASSUME st' = st, log' = log, open' = open, opens' = opens, maxStreams' = maxStreams,
               settings' \in BOOLEAN, version' \in {1} \cup Versions
        PROVE  SessionInv' /\ \A i \in Ids : AnswerKept(st[i], st'[i])
    <2>1. InTable' = InTable /\ Active' = Active
      BY <1>1 DEF InTable, Active
    <2>2. SessionInv'
      BY <1>1, <2>1 DEF SessionInv, TypeOK
    <2>3. ASSUME NEW i \in Ids PROVE AnswerKept(st[i], st'[i])
      <3>1. st[i].queued \in Nat
        BY <1>0 DEF Stream
      <3> QED  BY <1>1, <3>1 DEF AnswerKept
    <2> QED  BY <2>2, <2>3
  <1>2. CASE UNCHANGED vars
    BY <1>1, <1>2 DEF vars, SessionInv, TypeOK
  <1>3. ASSUME NEW v \in Versions, Settings(v)
        PROVE  SessionInv' /\ \A i \in Ids : AnswerKept(st[i], st'[i])
    BY <1>1, <1>3 DEF Settings
  <1>4. CASE ClientGone
    BY <1>0, <1>4, SessionEndsInv DEF ClientGone
  <1>5. ASSUME NEW id \in Ids, StreamStep(id)
        PROVE  SessionInv' /\ \A i \in Ids : AnswerKept(st[i], st'[i])
    <2>1. CASE Syn(id)
      BY <2>1, SynInv
    <2>2. CASE Fin(id)
      BY <2>2, FinHandled, HandledInv
    <2>3. ASSUME NEW n \in 1 .. MaxBytes, FirstPsh(id, n)
          PROVE  SessionInv' /\ \A i \in Ids : AnswerKept(st[i], st'[i])
      <3>1. n \in Nat \ {0}
        BY SessionAssumption
      <3> QED  BY <2>3, <3>1, FirstPshHandled, HandledInv
    <2>4. ASSUME NEW n \in 1 .. MaxBytes, Psh(id, n)
          PROVE  SessionInv' /\ \A i \in Ids : AnswerKept(st[i], st'[i])
      <3>1. n \in Nat
        BY SessionAssumption
      <3> QED  BY <2>4, <3>1, PshHandled, HandledInv
    <2>5. CASE Answer(id)
      BY <2>5, AnswerHandled, HandledInv
    <2>6. CASE Established(id)
      BY <2>6, NetHandled, HandledInv DEF Established
    <2>7. CASE NetError(id)
      BY <2>7, NetHandled, HandledInv DEF NetError
    <2>8. CASE ConnectEvent(id)
      BY <2>8, ConnectEventHandled, HandledInv
    <2>9. CASE ConnectTimeout(id)
      BY <2>9, ConnectTimeoutHandled, HandledInv
    <2>10. CASE WriteEvent(id)
      BY <2>10, WriteEventHandled, HandledInv
    <2>11. CASE UpstreamData(id)
      BY <2>11, UpstreamDataHandled, HandledInv
    <2>12. CASE UpstreamEof(id)
      BY <2>12, UpstreamEofHandled, HandledInv
    <2>13. CASE UpstreamError(id)
      BY <2>13, UpstreamErrorHandled, HandledInv
    <2>14. CASE FrameSent(id)
      BY <2>14, FrameSentHandled, HandledInv
    <2> QED
      BY <1>5, <2>1, <2>2, <2>3, <2>4, <2>5, <2>6, <2>7, <2>8, <2>9, <2>10, <2>11, <2>12,
         <2>13, <2>14 DEF StreamStep
  <1> QED
    BY <1>2, <1>3, <1>4, <1>5 DEF Next
-----------------------------------------------------------------------------
(* The inductive invariant holds always.                                   *)
THEOREM Invariant == Spec => []SessionInv
  <1>1. Init => SessionInv
    BY InitInv
  <1>2. SessionInv /\ [Next]_vars => SessionInv'
    BY NextInv
  <1> QED  BY <1>1, <1>2, PTL DEF Spec

(* The variables have their types, the address buffer of a stream never    *)
(* overflows, and a session has no more streams than max_streams, the      *)
(* closed ones whose frames wait too.                                      *)
THEOREM TypeCorrect == Spec => []TypeOK
  <1>1. SessionInv => TypeOK
    BY DEF SessionInv
  <1> QED  BY <1>1, Invariant, PTL

(* An upstream gets what the client sent behind the address, all of it,    *)
(* once and in order, however the frames were cut and whenever they came.  *)
THEOREM PayloadTheorem == Spec => []PayloadAfterAddress
  <1>1. SessionInv => PayloadAfterAddress
    <2> SUFFICES ASSUME SessionInv, NEW id \in Ids, st[id].seen /\ ~st[id].delayed
                 PROVE  st[id].up \o st[id].pend
                          = [k \in 1 .. st[id].got - AddrLen[st[id].target] |->
                               AddrLen[st[id].target] + k]
      BY DEF PayloadAfterAddress
    <2>1. st[id].up \o st[id].pend = Bytes(AddrLen[st[id].target], st[id].got)
      BY DEF SessionInv, StreamOk, PayloadOk
    <2> QED  BY <2>1 DEF Bytes
  <1> QED  BY <1>1, Invariant, PTL

(* Every record of the log is right: final with the bytes really sent, or  *)
(* that of exactly one stream in use.                                      *)
THEOREM RecordsTheorem == Spec => []RecordsExact
  <1>1. SessionInv => RecordsExact
    <2> SUFFICES ASSUME SessionInv, NEW r \in 1 .. Len(log)
                 PROVE  IF log[r].final THEN log[r].sent = log[r].wrote
                        ELSE open /\ Cardinality({id \in Ids : st[id].rec = r
                                                               /\ ~st[id].delayed}) = 1
      BY DEF RecordsExact
    <2>0. log \in Seq(Record) /\ Len(log) \in Nat /\ LogOk(st, log)
      BY DEF SessionInv, LogOk
    <2>1. CASE log[r].final
      BY <2>0, <2>1 DEF LogOk
    <2>2. CASE ~log[r].final
      <3>1. PICK i \in Ids : st[i].rec = r /\ ~st[i].delayed
        BY <2>0, <2>2 DEF LogOk
      <3>2. open
        <4>1. CASE ~open
          <5>1. st[i] = NoStream
            BY <4>1 DEF SessionInv
          <5> QED  BY <2>0, <3>1, <5>1, NoStreamOk
        <4> QED  BY <4>1
      <3>3. {id \in Ids : st[id].rec = r /\ ~st[id].delayed} = {i}
        BY <2>0, <3>1 DEF LogOk
      <3>4. Cardinality({i}) = 1
        BY FS_Singleton
      <3> QED  BY <2>2, <3>2, <3>3, <3>4
    <2> QED  BY <2>1, <2>2
  <1> QED  BY <1>1, Invariant, PTL

(* A stream that is being opened waits for the resolver or for a connect   *)
(* with a timer, and one whose close is delayed holds nothing.             *)
THEOREM OpeningTheorem == Spec => []OpeningHeld
  <1>1. SessionInv => OpeningHeld
    <2> SUFFICES ASSUME SessionInv, NEW id \in Ids
                 PROVE  LET f == st[id]
                        IN  /\ f.state = "connecting" /\ f.synack = "no" =>
                                 (f.query # (f.net # "none" /\ f.timer))
                            /\ f.query => f.net = "none"
                            /\ f.timer => f.state = "connecting" /\ f.net # "none"
                            /\ f.delayed => ~f.query /\ ~f.timer /\ f.net = "none" /\ f.pend = <<>>
      BY DEF OpeningHeld
    <2>1. HoldsOk(st[id]) /\ Held(st[id])
      BY DEF SessionInv, StreamOk
    <2> QED  BY <2>1 DEF HoldsOk, Held
  <1> QED  BY <1>1, Invariant, PTL

(* A stream is answered once, and nothing is queued for it twice.          *)
THEOREM AnsweredTheorem == Spec => AnsweredOnce
  <1>1. SessionInv /\ [Next]_vars => \A i \in Ids : AnswerKept(st[i], st'[i])
    BY NextInv
  <1>2. (\A i \in Ids : AnswerKept(st[i], st'[i])) =>
          [\A id \in Ids : st[id].synack # "no" =>
             st'[id].state = "none" \/
             (st'[id].synack = st[id].synack /\ st'[id].queued <= st[id].queued + 1
              /\ (st'[id].queued > st[id].queued =>
                     st'[id].replies > st[id].replies \/ st'[id].state = "closing"))]_vars
    BY DEF AnswerKept
  <1> QED  BY <1>1, <1>2, Invariant, PTL DEF Spec, AnsweredOnce
=============================================================================
