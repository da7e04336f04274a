------------------------- MODULE ClientInputProofs -------------------------
(***************************************************************************)
(* Proofs about ClientInput for every set of streams, every limit and      *)
(* every budget: the backlog is counted exactly and stays within its       *)
(* limit, and pause and resume lose no frame.                              *)
(***************************************************************************)
EXTENDS ClientInput, CollectionLemmas

\* The backlog of x is the sum of the backlogs of its streams.
Backlog(x) ==
    /\ x.total = SumFunction([s \in Streams |-> Len(x.pend[s])])
    /\ \A s \in Streams : x.blk[s] => Len(x.pend[s]) > Lowat

\* It passes the limit by one payload at most, and only while x is paused.
Within(x) ==
    /\ x.total <= MaxPending + 1
    /\ ~x.paused => x.total <= MaxPending
    /\ x.paused => x.rblocked

Harmless(q) == \A k \in 1 .. Len(q) : q[k].kind # "bad"

\* The inductive invariant.  The limit holds only because frames are handled
\* and read while the input is not paused, when the backlog is within it: one
\* payload may then pass it and pauses.  No frame is lost because only a pause
\* leaves a remnant, and a frame that cannot be handled is one that was bad.
InputInv ==
    /\ TypeOK /\ Backlog(i) /\ Within(i)
    /\ EveryFrameHandled
    /\ (bad = 0 => Harmless(i.rx) /\ Harmless(i.remnant) /\ Harmless(buf))
    /\ (~i.paused => i.remnant = <<>>)
    /\ (pc \in {"process", "reading"} => ~i.paused)
    /\ (pc = "process" <=> buf # <<>>)
    /\ (pc = "flush" => fs \in Streams)
    /\ (pc = "process" /\ ctx \in {"flush", "flushed"} => fs \in Streams)
-----------------------------------------------------------------------------
Lens(p) == [s \in Streams |-> Len(p[s])]

\* What the accounting of payloads leaves alone.
Keeps(x, y) ==
    /\ y.open = x.open /\ y.rx = x.rx /\ y.remnant = x.remnant
    /\ y.frames = x.frames /\ y.handled = x.handled

(* The low mark is within the limit.                                       *)
LEMMA LowatWithin == Lowat \in Nat /\ Lowat <= MaxPending
  BY InputAssumption DEF Lowat

(* Changing the backlog of one stream.                                     *)
LEMMA BacklogMoves ==
    ASSUME NEW p \in [Streams -> Seq(Nat)], NEW r \in [Streams -> Seq(Nat)], NEW s \in Streams,
           \A t \in Streams : t # s => r[t] = p[t]
    PROVE  /\ SumFunction(Lens(r)) = SumFunction(Lens(p)) + Len(r[s]) - Len(p[s])
           /\ SumFunction(Lens(p)) \in Nat /\ SumFunction(Lens(r)) \in Nat
           /\ Len(p[s]) <= SumFunction(Lens(p))
  <1>1. \A t \in Streams : Len(p[t]) \in Nat /\ Len(r[t]) \in Nat
    OBVIOUS
  <1>2. /\ Lens(p) \in [Streams -> Nat] /\ Lens(r) \in [Streams -> Nat]
        /\ Lens(p) \in [Streams -> Int] /\ Lens(r) \in [Streams -> Int]
    BY <1>1 DEF Lens
  <1>3. \A t \in Streams : Lens(p)[t] = Len(p[t]) /\ Lens(r)[t] = Len(r[t])
    BY DEF Lens
  <1>4. \A t \in Streams : t # s => Lens(r)[t] = Lens(p)[t]
    BY <1>3
  <1>5. SumFunction(Lens(r)) = SumFunction(Lens(p)) + Lens(r)[s] - Lens(p)[s]
    <2> DEFINE f == Lens(p)
               h == Lens(r)
    <2>1. f \in [Streams -> Int] /\ h \in [Streams -> Int] /\ IsFiniteSet(Streams)
      BY <1>2, InputAssumption
    <2>2. SameBut(Streams, f, h, s)
      BY <1>4 DEF SameBut
    <2> HIDE DEF f, h
    <2>3. SumFunction(h) = SumFunction(f) + h[s] - f[s]
      BY <2>1, <2>2, SumOfUpdate
    <2> QED  BY <2>3 DEF f, h
  <1>6. /\ SumFunction(Lens(p)) \in Nat /\ SumFunction(Lens(r)) \in Nat
        /\ Lens(p)[s] <= SumFunction(Lens(p))
    BY <1>2, SumOfNaturals, InputAssumption
  <1> QED
    BY <1>3, <1>5, <1>6

LEMMA BacklogLens == ASSUME NEW x PROVE Backlog(x) <=> /\ x.total = SumFunction(Lens(x.pend))
                                                       /\ \A s \in Streams : x.blk[s] => Len(x.pend[s]) > Lowat
  BY DEF Backlog, Lens

(* The fields of the input.                                                *)
LEMMA Fields ==
    ASSUME NEW x \in Input
    PROVE  /\ x.open \in BOOLEAN /\ x.rx \in Seq(Frame) /\ x.tls \in BOOLEAN /\ x.inTls \in Nat
           /\ x.frames \in Nat /\ x.handled \in Nat /\ x.ract \in BOOLEAN /\ x.posted \in BOOLEAN
           /\ x.paused \in BOOLEAN /\ x.rblocked \in BOOLEAN /\ x.remnant \in Seq(Frame)
           /\ x.partial \in BOOLEAN /\ x.total \in Nat /\ x.pend \in [Streams -> Seq(Nat)]
           /\ x.blk \in [Streams -> BOOLEAN]
           /\ x.state \in [Streams -> {"connected", "half_closed", "closed"}]
           /\ x.wready \in [Streams -> BOOLEAN] /\ x.up \in [Streams -> Seq(Nat)]
  BY DEF Input

(* ngx_anytls_client_input_pause                                           *)
LEMMA PauseGood ==
    ASSUME NEW x \in Input, Backlog(x), x.total <= MaxPending + 1, NEW y, y = Pause(x)
    PROVE  y \in Input /\ Backlog(y) /\ Within(y) /\ Keeps(x, y) /\ y.paused
  <1> DEFINE e == x.ract /\ x.rblocked
  <1>1. e \in BOOLEAN
    BY Fields
  <1>2. y = [x EXCEPT !.paused = TRUE, !.rblocked = TRUE, !.ract = e]
    BY DEF Pause
  <1> HIDE DEF e
  <1>3. y \in Input
    BY <1>1, <1>2 DEF Input
  <1>4. /\ y.total = x.total /\ y.pend = x.pend /\ y.blk = x.blk /\ y.paused /\ y.rblocked
        /\ Keeps(x, y)
    BY <1>2 DEF Input, Keeps
  <1> QED
    BY <1>3, <1>4, BacklogLens DEF Within

(* ngx_anytls_enable_client_read                                           *)
LEMMA EnableGood ==
    ASSUME NEW x \in Input, Backlog(x), Within(x), ~x.paused, NEW y, y = EnableClientRead(x)
    PROVE  y \in Input /\ Backlog(y) /\ Within(y) /\ Keeps(x, y) /\ ~y.paused
  <1> DEFINE e == x.posted \/ x.partial \/ x.remnant # <<>>
  <1>1. e \in BOOLEAN
    BY Fields
  <1>2. y = [x EXCEPT !.rblocked = FALSE, !.ract = TRUE, !.posted = e]
    BY DEF EnableClientRead
  <1> HIDE DEF e
  <1>3. y \in Input
    BY <1>1, <1>2 DEF Input
  <1>4. /\ y.total = x.total /\ y.pend = x.pend /\ y.blk = x.blk /\ y.paused = x.paused
        /\ Keeps(x, y)
    BY <1>2 DEF Input, Keeps
  <1> QED
    BY <1>3, <1>4, BacklogLens DEF Within

(* ngx_anytls_client_input_resume without frames to handle                 *)
LEMMA ResumeGood ==
    ASSUME NEW x \in Input, Backlog(x), Within(x), NEW y, y = ResumeEmpty(x)
    PROVE  /\ y \in Input /\ Backlog(y) /\ Within(y) /\ Keeps(x, y)
           /\ (~x.paused => ~y.paused) /\ (y.paused \/ MayResume(x) \/ y = x)
           /\ (~MayResume(x) => y = x)
           /\ y.pend = x.pend /\ y.state = x.state
  <1>1. CASE MayResume(x)
    <2> DEFINE z == [x EXCEPT !.paused = FALSE]
    <2>1. z \in Input
      BY DEF Input
    <2>2. /\ z.total = x.total /\ z.pend = x.pend /\ z.blk = x.blk /\ ~z.paused
          /\ z.state = x.state /\ Keeps(x, z)
      BY DEF Input, Keeps
    <2>3. y = EnableClientRead(z)
      BY <1>1 DEF ResumeEmpty
    <2> HIDE DEF z
    <2>4. Backlog(z)
      BY <2>2, BacklogLens
    <2>5. x.total <= Lowat /\ x.total \in Nat
      BY <1>1, Fields DEF MayResume
    <2>6. Within(z)
      BY <2>2, <2>5, LowatWithin, InputAssumption DEF Within
    <2>7. y \in Input /\ Backlog(y) /\ Within(y) /\ Keeps(z, y) /\ ~y.paused
      BY <2>1, <2>2, <2>3, <2>4, <2>6, EnableGood
    <2>8. y.pend = z.pend /\ y.state = z.state
      BY <2>1, <2>3 DEF EnableClientRead, Input
    <2> QED
      BY <1>1, <2>2, <2>7, <2>8 DEF Keeps
  <1>2. CASE ~MayResume(x)
    BY <1>2 DEF ResumeEmpty, Keeps
  <1> QED
    BY <1>1, <1>2
-----------------------------------------------------------------------------
(* A write changes nothing that is accounted.                              *)
LEMMA WrittenGood ==
    ASSUME NEW x \in Input, Backlog(x), Within(x), NEW s \in Streams, NEW n,
           NEW k \in 0 .. Len(x.pend[s]), NEW y, y = Written(x, s, k, n)
    PROVE  /\ y \in Input /\ Backlog(y) /\ Within(y) /\ Keeps(x, y)
           /\ y.paused = x.paused /\ y.pend = x.pend /\ y.blk = x.blk /\ y.total = x.total
           /\ y.state = x.state
  <1> DEFINE e == k = n
             v == x.up[s] \o SubSeq(x.pend[s], 1, k)
  <1>1. e \in BOOLEAN
    OBVIOUS
  <1>2. v \in Seq(Nat)
    <2>1. x.up[s] \in Seq(Nat) /\ x.pend[s] \in Seq(Nat)
      BY Fields
    <2>2. SubSeq(x.pend[s], 1, k) \in Seq(Nat)
      BY <2>1
    <2> HIDE DEF e
    <2> QED  BY <2>1, <2>2
  <1>3. y = [x EXCEPT !.up = [x.up EXCEPT ![s] = v], !.wready = [x.wready EXCEPT ![s] = e]]
    BY DEF Written, Input
  <1> HIDE DEF e, v
  <1>4. [x.up EXCEPT ![s] = v] \in [Streams -> Seq(Nat)]
        /\ [x.wready EXCEPT ![s] = e] \in [Streams -> BOOLEAN]
    BY <1>1, <1>2, Fields
  <1>5. y \in Input
    BY <1>3, <1>4 DEF Input
  <1>6. /\ y.total = x.total /\ y.pend = x.pend /\ y.blk = x.blk /\ y.paused = x.paused
        /\ y.rblocked = x.rblocked /\ y.state = x.state /\ Keeps(x, y)
    BY <1>3 DEF Input, Keeps
  <1> QED
    BY <1>5, <1>6, BacklogLens DEF Within

(* ngx_anytls_upstream_account_pending: k payloads leave pending_in, and a *)
(* stream at the low mark is no longer blocked.                            *)
LEMMA AccountedGood ==
    ASSUME NEW x \in Input, Backlog(x), Within(x), NEW s \in Streams,
           NEW k \in 0 .. Len(x.pend[s]), NEW y, y = Unblock(Accounted(x, s, k), s)
    PROVE  /\ y \in Input /\ Backlog(y) /\ Within(y) /\ Keeps(x, y)
           /\ y.paused = x.paused /\ y.state = x.state
  <1> DEFINE q == SubSeq(x.pend[s], k + 1, Len(x.pend[s]))
             p == [x.pend EXCEPT ![s] = q]
             tot == x.total - k
             b == x.blk[s] /\ Len(q) > Lowat
  <1>1. x.pend[s] \in Seq(Nat) /\ x.pend \in [Streams -> Seq(Nat)] /\ x.blk \in [Streams -> BOOLEAN]
    BY Fields
  <1>2. q \in Seq(Nat) /\ Len(q) = Len(x.pend[s]) - k /\ Len(x.pend[s]) \in Nat
    BY <1>1
  <1>3. b \in BOOLEAN
    BY <1>1
  <1>4. p \in [Streams -> Seq(Nat)] /\ p[s] = q /\ \A t \in Streams : t # s => p[t] = x.pend[t]
    BY <1>1, <1>2
  <1> HIDE DEF q
  <1>5. Accounted(x, s, k) = [x EXCEPT !.pend = p, !.total = tot]
    BY DEF Accounted, Input, q
  <1> HIDE DEF p
  <1>6. /\ SumFunction(Lens(p)) = SumFunction(Lens(x.pend)) + Len(p[s]) - Len(x.pend[s])
        /\ SumFunction(Lens(x.pend)) \in Nat /\ SumFunction(Lens(p)) \in Nat
    BY <1>1, <1>4, BacklogMoves
  <1>7. tot \in Nat /\ tot = SumFunction(Lens(p)) /\ tot <= x.total
    <2>1. x.total = SumFunction(Lens(x.pend))
      BY BacklogLens
    <2> QED
      BY <1>2, <1>4, <1>6, <2>1
  <1> HIDE DEF tot
  <1> DEFINE z == [x EXCEPT !.pend = p, !.total = tot]
  <1>8. z \in Input
    BY <1>4, <1>7 DEF Input
  <1>9. /\ z.total = tot /\ z.pend = p /\ z.blk = x.blk /\ z.paused = x.paused
        /\ z.rblocked = x.rblocked /\ z.state = x.state /\ Keeps(x, z)
    BY DEF Input, Keeps
  <1>10. y = Unblock(z, s)
    BY <1>5
  <1> HIDE DEF z, b
  <1>11. y = [z EXCEPT !.blk = [x.blk EXCEPT ![s] = b]]
    BY <1>4, <1>8, <1>9, <1>10 DEF Unblock, Input, b
  <1>12. [x.blk EXCEPT ![s] = b] \in [Streams -> BOOLEAN]
    BY <1>1, <1>3
  <1>13. y \in Input
    BY <1>8, <1>11, <1>12 DEF Input
  <1>14. /\ y.total = tot /\ y.pend = p /\ y.blk = [x.blk EXCEPT ![s] = b] /\ y.paused = x.paused
         /\ y.rblocked = x.rblocked /\ y.state = x.state /\ Keeps(x, y)
    BY <1>8, <1>9, <1>11 DEF Input, Keeps
  <1>15. \A t \in Streams : y.blk[t] => Len(y.pend[t]) > Lowat
    <2>1. \A t \in Streams : x.blk[t] => Len(x.pend[t]) > Lowat
      BY BacklogLens
    <2> QED
      BY <1>1, <1>4, <1>14, <2>1 DEF b
  <1>16. Backlog(y)
    BY <1>7, <1>14, <1>15, BacklogLens
  <1>17. Within(y)
    <2>1. x.total \in Nat
      BY Fields
    <2> QED
      BY <1>7, <1>14, <2>1, InputAssumption DEF Within
  <1> QED
    BY <1>13, <1>14, <1>16, <1>17

(* send_pending inside the frame loop                                      *)
LEMMA FlushesGood ==
    ASSUME NEW x \in Input, Backlog(x), Within(x), ~x.paused, NEW s \in Streams,
           NEW y \in Flushes(x, s)
    PROVE  y \in Input /\ Backlog(y) /\ Within(y) /\ Keeps(x, y) /\ ~y.paused
  <1>1. CASE x.pend[s] = <<>> \/ ~x.wready[s]
    BY <1>1 DEF Flushes, Keeps
  <1>2. CASE ~(x.pend[s] = <<>> \/ ~x.wready[s])
    <2>1. PICK k \in 1 .. Len(x.pend[s]) : y = FlushInFrame(x, s, k)
      BY <1>2 DEF Flushes
    <2>2. x.pend[s] \in Seq(Nat) /\ k \in 0 .. Len(x.pend[s])
      BY Fields
    <2> DEFINE w == Written(x, s, k, Len(x.pend[s]))
               z == Unblock(Accounted(w, s, k), s)
    <2>3. /\ w \in Input /\ Backlog(w) /\ Within(w) /\ Keeps(x, w)
          /\ w.paused = x.paused /\ w.pend = x.pend
      BY <2>2, WrittenGood
    <2>4. z \in Input /\ Backlog(z) /\ Within(z) /\ Keeps(w, z) /\ z.paused = w.paused
      <3> HIDE DEF w
      <3> QED  BY <2>2, <2>3, AccountedGood
    <2>5. y = z \/ y = ResumeEmpty(z)
      BY <2>1 DEF FlushInFrame
    <2> HIDE DEF w, z
    <2>6. CASE y = z
      BY <2>3, <2>4, <2>6 DEF Keeps
    <2>7. CASE y = ResumeEmpty(z)
      <3>1. y \in Input /\ Backlog(y) /\ Within(y) /\ Keeps(z, y) /\ ~y.paused
        BY <2>3, <2>4, <2>7, ResumeGood
      <3> QED
        BY <2>3, <2>4, <3>1 DEF Keeps
    <2> QED
      BY <2>5, <2>6, <2>7
  <1> QED
    BY <1>1, <1>2

(* the tail of ngx_anytls_upstream_queue: whatever waits already, a payload *)
(* that passes the limit pauses the input                                  *)
LEMMA QueuePendingGood ==
    ASSUME NEW x \in Input, Backlog(x), Within(x), ~x.paused, NEW s \in Streams, NEW n \in Nat,
           NEW y, y = QueuePending(x, s, n)
    PROVE  y \in Input /\ Backlog(y) /\ Within(y) /\ Keeps(x, y)
  <1> DEFINE q == Append(x.pend[s], n)
             p == [x.pend EXCEPT ![s] = q]
             tot == x.total + 1
             z == [x EXCEPT !.pend = p, !.total = tot]
  <1>1. /\ x.pend[s] \in Seq(Nat) /\ x.pend \in [Streams -> Seq(Nat)]
        /\ x.blk \in [Streams -> BOOLEAN] /\ x.total \in Nat
    BY Fields
  <1>2. q \in Seq(Nat) /\ Len(q) = Len(x.pend[s]) + 1 /\ Len(x.pend[s]) \in Nat
    BY <1>1
  <1>3. tot \in Nat /\ tot <= MaxPending + 1
    BY <1>1, InputAssumption DEF Within
  <1>4. p \in [Streams -> Seq(Nat)] /\ p[s] = q /\ \A t \in Streams : t # s => p[t] = x.pend[t]
    BY <1>1, <1>2
  <1>5. [x EXCEPT !.pend[s] = Append(@, n), !.total = @ + 1] = z
    BY DEF Input
  <1> HIDE DEF q, p
  <1>6. SumFunction(Lens(p)) = SumFunction(Lens(x.pend)) + Len(p[s]) - Len(x.pend[s])
        /\ SumFunction(Lens(x.pend)) \in Nat
    BY <1>1, <1>4, BacklogMoves
  <1>7. tot = SumFunction(Lens(p))
    <2>1. x.total = SumFunction(Lens(x.pend))
      BY BacklogLens
    <2> QED
      BY <1>2, <1>4, <1>6, <2>1
  <1> HIDE DEF tot
  <1>8. z \in Input
    BY <1>3, <1>4 DEF Input
  <1>9. /\ z.total = tot /\ z.pend = p /\ z.blk = x.blk /\ z.paused = x.paused
        /\ z.rblocked = x.rblocked /\ Keeps(x, z)
    BY DEF Input, Keeps
  <1> HIDE DEF z
  <1>10. \A t \in Streams : x.blk[t] => Len(z.pend[t]) > Lowat
    <2>1. \A t \in Streams : x.blk[t] => Len(x.pend[t]) > Lowat
      BY BacklogLens
    <2> SUFFICES ASSUME NEW t \in Streams, x.blk[t] PROVE Len(z.pend[t]) > Lowat
      OBVIOUS
    <2>2. Len(x.pend[t]) > Lowat
      BY <2>1
    <2>3. CASE t = s
      BY <1>2, <1>4, <1>9, <2>2, <2>3, LowatWithin
    <2>4. CASE t # s
      BY <1>4, <1>9, <2>2, <2>4
    <2> QED
      BY <2>3, <2>4
  <1>11. Backlog(z)
    BY <1>7, <1>9, <1>10, BacklogLens
  <1>12. CASE Len(z.pend[s]) > MaxPending
    <2> DEFINE c == [x.blk EXCEPT ![s] = TRUE]
               w == [z EXCEPT !.blk = c]
    <2>1. [z EXCEPT !.blk[s] = TRUE] = w
      BY <1>8, <1>9 DEF Input
    <2>2. c \in [Streams -> BOOLEAN] /\ \A t \in Streams : c[t] => t = s \/ x.blk[t]
      BY <1>1
    <2> HIDE DEF c
    <2>3. w \in Input
      BY <1>8, <2>2 DEF Input
    <2>4. w.blk = c /\ w.pend = z.pend /\ w.total = tot /\ Keeps(x, w)
      BY <1>8, <1>9 DEF Input, Keeps
    <2>5. y = Pause(w)
      BY <1>5, <1>12, <2>1 DEF QueuePending
    <2> HIDE DEF w
    <2>6. \A t \in Streams : w.blk[t] => Len(w.pend[t]) > Lowat
      BY <1>2, <1>4, <1>9, <1>10, <1>12, <2>2, <2>4, LowatWithin, InputAssumption
    <2>7. Backlog(w)
      BY <1>7, <1>9, <2>4, <2>6, BacklogLens
    <2>8. y \in Input /\ Backlog(y) /\ Within(y) /\ Keeps(w, y)
      BY <1>3, <2>3, <2>4, <2>5, <2>7, PauseGood
    <2> QED
      BY <2>4, <2>8 DEF Keeps
  <1>13. CASE ~(Len(z.pend[s]) > MaxPending) /\ z.total > MaxPending
    <2>1. y = Pause(z)
      BY <1>5, <1>13 DEF QueuePending
    <2>2. y \in Input /\ Backlog(y) /\ Within(y) /\ Keeps(z, y)
      BY <1>3, <1>8, <1>9, <1>11, <2>1, PauseGood
    <2> QED
      BY <1>9, <2>2 DEF Keeps
  <1>14. CASE ~(Len(z.pend[s]) > MaxPending) /\ ~(z.total > MaxPending)
    <2>1. y = z
      BY <1>5, <1>14 DEF QueuePending
    <2>2. Within(z)
      BY <1>3, <1>9, <1>14, InputAssumption DEF Within
    <2> QED
      BY <1>8, <1>9, <1>11, <2>1, <2>2
  <1> QED
    BY <1>12, <1>13, <1>14
(* ngx_anytls_upstream_queue                                               *)
LEMMA QueueGood ==
    ASSUME NEW x \in Input, Backlog(x), Within(x), ~x.paused, NEW s \in Streams, NEW n \in Nat,
           NEW y \in UpstreamQueue(x, s, n)
    PROVE  y \in Input /\ Backlog(y) /\ Within(y) /\ Keeps(x, y)
  <1>1. PICK z \in Flushes(x, s) :
           y \in IF z.pend[s] # <<>> THEN {QueuePending(z, s, n)}
                 ELSE {[z EXCEPT !.up[s] = Append(@, n)],
                       QueuePending([z EXCEPT !.wready[s] = FALSE], s, n)}
    BY DEF UpstreamQueue
  <1>2. z \in Input /\ Backlog(z) /\ Within(z) /\ Keeps(x, z) /\ ~z.paused
    BY <1>1, FlushesGood
  <1>3. CASE y = QueuePending(z, s, n)
    <2>1. y \in Input /\ Backlog(y) /\ Within(y) /\ Keeps(z, y)
      BY <1>2, <1>3, QueuePendingGood
    <2> QED  BY <1>2, <2>1 DEF Keeps
  <1>4. CASE y = [z EXCEPT !.up[s] = Append(@, n)]
    <2> DEFINE v == [z.up EXCEPT ![s] = Append(z.up[s], n)]
    <2>1. v \in [Streams -> Seq(Nat)]
      <3>1. z.up \in [Streams -> Seq(Nat)]
        BY <1>2, Fields
      <3> QED  BY <3>1
    <2>2. y = [z EXCEPT !.up = v]
      BY <1>2, <1>4 DEF Input
    <2> HIDE DEF v
    <2>3. y \in Input
      BY <1>2, <2>1, <2>2 DEF Input
    <2>4. /\ y.total = z.total /\ y.pend = z.pend /\ y.blk = z.blk /\ y.paused = z.paused
          /\ y.rblocked = z.rblocked /\ Keeps(z, y)
      BY <1>2, <2>2 DEF Input, Keeps
    <2> QED
      BY <1>2, <2>3, <2>4, BacklogLens DEF Within, Keeps
  <1>5. CASE y = QueuePending([z EXCEPT !.wready[s] = FALSE], s, n)
    <2> DEFINE v == [z.wready EXCEPT ![s] = FALSE]
               w == [z EXCEPT !.wready = v]
    <2>1. v \in [Streams -> BOOLEAN]
      <3>1. z.wready \in [Streams -> BOOLEAN]
        BY <1>2, Fields
      <3> QED  BY <3>1
    <2>2. y = QueuePending(w, s, n)
      BY <1>2, <1>5 DEF Input
    <2> HIDE DEF v
    <2>3. w \in Input
      BY <1>2, <2>1 DEF Input
    <2>4. /\ w.total = z.total /\ w.pend = z.pend /\ w.blk = z.blk /\ w.paused = z.paused
          /\ w.rblocked = z.rblocked /\ Keeps(z, w)
      BY <1>2 DEF Input, Keeps
    <2> HIDE DEF w
    <2>5. Backlog(w) /\ Within(w) /\ ~w.paused
      BY <1>2, <2>4, BacklogLens DEF Within
    <2>6. y \in Input /\ Backlog(y) /\ Within(y) /\ Keeps(w, y)
      BY <2>2, <2>3, <2>5, QueuePendingGood
    <2> QED
      BY <1>2, <2>4, <2>6 DEF Keeps
  <1> QED
    BY <1>1, <1>3, <1>4, <1>5

(* ngx_anytls_upstream_discard_pending                                     *)
LEMMA DiscardGood ==
    ASSUME NEW x \in Input, Backlog(x), Within(x), NEW s \in Streams, NEW y, y = Discard(x, s)
    PROVE  y \in Input /\ Backlog(y) /\ Within(y) /\ Keeps(x, y) /\ y.paused = x.paused
  <1> DEFINE p == [x.pend EXCEPT ![s] = <<>>]
             c == [x.blk EXCEPT ![s] = FALSE]
             a == [x.state EXCEPT ![s] = "closed"]
             tot == x.total - Len(x.pend[s])
  <1>1. /\ x.pend[s] \in Seq(Nat) /\ x.pend \in [Streams -> Seq(Nat)]
        /\ x.blk \in [Streams -> BOOLEAN] /\ x.total \in Nat
        /\ x.state \in [Streams -> {"connected", "half_closed", "closed"}]
    BY Fields
  <1>2. <<>> \in Seq(Nat) /\ Len(<<>>) = 0 /\ Len(x.pend[s]) \in Nat
    BY <1>1
  <1>3. /\ p \in [Streams -> Seq(Nat)] /\ p[s] = <<>>
        /\ \A t \in Streams : t # s => p[t] = x.pend[t]
    BY <1>1, <1>2
  <1>4. /\ c \in [Streams -> BOOLEAN] /\ c[s] = FALSE
        /\ \A t \in Streams : t # s => c[t] = x.blk[t]
    BY <1>1
  <1>5. a \in [Streams -> {"connected", "half_closed", "closed"}]
    BY <1>1
  <1>6. y = [x EXCEPT !.total = tot, !.pend = p, !.blk = c, !.state = a]
    BY DEF Discard, Input
  <1> HIDE DEF p, c, a
  <1>7. /\ SumFunction(Lens(p)) = SumFunction(Lens(x.pend)) + Len(p[s]) - Len(x.pend[s])
        /\ SumFunction(Lens(x.pend)) \in Nat /\ SumFunction(Lens(p)) \in Nat
    BY <1>1, <1>3, BacklogMoves
  <1>8. tot \in Nat /\ tot = SumFunction(Lens(p)) /\ tot <= x.total
    <2>1. x.total = SumFunction(Lens(x.pend))
      BY BacklogLens
    <2> QED
      BY <1>2, <1>3, <1>7, <2>1
  <1> HIDE DEF tot
  <1>9. y \in Input
    BY <1>3, <1>4, <1>5, <1>6, <1>8 DEF Input
  <1>10. /\ y.total = tot /\ y.pend = p /\ y.blk = c /\ y.paused = x.paused
         /\ y.rblocked = x.rblocked /\ Keeps(x, y)
    BY <1>6 DEF Input, Keeps
  <1>11. \A t \in Streams : y.blk[t] => Len(y.pend[t]) > Lowat
    <2>1. \A t \in Streams : x.blk[t] => Len(x.pend[t]) > Lowat
      BY BacklogLens
    <2> QED
      BY <1>3, <1>4, <1>10, <2>1
  <1>12. Backlog(y)
    BY <1>8, <1>10, <1>11, BacklogLens
  <1>13. Within(y)
    BY <1>1, <1>8, <1>10, InputAssumption DEF Within
  <1> QED
    BY <1>9, <1>10, <1>12, <1>13

(* What handling a frame makes of the input.                               *)
LEMMA HandleGood ==
    ASSUME NEW x \in Input, Backlog(x), Within(x), ~x.paused, NEW f \in Frame, NEW y \in Handle(x, f)
    PROVE  y \in Input /\ Backlog(y) /\ Within(y) /\ Keeps(x, y)
  <1>0. f.st \in Streams \cup {None} /\ f.n \in Nat
    BY DEF Frame
  <1>1. CASE f.st = None \/ x.state[f.st] # "connected"
    BY <1>1 DEF Handle, Keeps
  <1>2. CASE ~(f.st = None \/ x.state[f.st] # "connected") /\ f.kind = "psh"
    <2>1. y \in UpstreamQueue(x, f.st, f.n) /\ f.st \in Streams
      BY <1>0, <1>2 DEF Handle
    <2> QED
      BY <1>0, <2>1, QueueGood
  <1>3. CASE ~(f.st = None \/ x.state[f.st] # "connected") /\ f.kind # "psh"
    <2> DEFINE s == f.st
               Left(z) == [z EXCEPT !.state[s] = "half_closed"]
    <2>1. s \in Streams
      BY <1>0, <1>3
    <2>2. PICK z \in Flushes(x, s) : y = ResumeEmpty(Left(z)) \/ y = Left(z)
      BY <1>3 DEF Handle
    <2> HIDE DEF s
    <2>3. z \in Input /\ Backlog(z) /\ Within(z) /\ Keeps(x, z) /\ ~z.paused
      BY <2>1, <2>2, FlushesGood
    <2> DEFINE v == [z.state EXCEPT ![s] = "half_closed"]
               w == [z EXCEPT !.state = v]
    <2>4. Left(z) = w
      BY <2>3 DEF Input
    <2>5. v \in [Streams -> {"connected", "half_closed", "closed"}]
      <3>1. z.state \in [Streams -> {"connected", "half_closed", "closed"}]
        BY <2>3, Fields
      <3> QED  BY <2>1, <3>1
    <2> HIDE DEF v, Left
    <2>6. w \in Input
      BY <2>3, <2>5 DEF Input
    <2>7. /\ w.total = z.total /\ w.pend = z.pend /\ w.blk = z.blk /\ w.paused = z.paused
          /\ w.rblocked = z.rblocked /\ Keeps(z, w)
      BY <2>3 DEF Input, Keeps
    <2> HIDE DEF w
    <2>8. Backlog(w) /\ Within(w)
      BY <2>3, <2>7, BacklogLens DEF Within
    <2>9. CASE y = w
      BY <2>3, <2>6, <2>7, <2>8, <2>9 DEF Keeps
    <2>10. CASE y = ResumeEmpty(w)
      <3>1. y \in Input /\ Backlog(y) /\ Within(y) /\ Keeps(w, y)
        BY <2>6, <2>8, <2>10, ResumeGood
      <3> QED
        BY <2>3, <2>7, <3>1 DEF Keeps
    <2> QED
      BY <2>2, <2>4, <2>9, <2>10
  <1> QED
    BY <1>1, <1>2, <1>3
-----------------------------------------------------------------------------
(* The session starts with nothing read and nothing waiting.               *)
LEMMA InitInv == Init => InputInv
  <1> SUFFICES ASSUME Init PROVE InputInv
    OBVIOUS
  <1> DEFINE none == [s \in Streams |-> <<>>]
             no == [s \in Streams |-> FALSE]
             yes == [s \in Streams |-> TRUE]
             conn == [s \in Streams |-> "connected"]
  <1>1. <<>> \in Seq(Nat) /\ <<>> \in Seq(Frame) /\ Len(<<>>) = 0
    OBVIOUS
  <1>2. /\ none \in [Streams -> Seq(Nat)] /\ no \in [Streams -> BOOLEAN]
        /\ yes \in [Streams -> BOOLEAN]
        /\ conn \in [Streams -> {"connected", "half_closed", "closed"}]
    BY <1>1
  <1>3. PICK t \in Tls :
          i = [open |-> TRUE, rx |-> <<>>, tls |-> t, inTls |-> 0, frames |-> 0, handled |-> 0,
               ract |-> TRUE, posted |-> FALSE, paused |-> FALSE, rblocked |-> FALSE,
               remnant |-> <<>>, partial |-> FALSE, total |-> 0,
               pend |-> none, blk |-> no, state |-> conn, wready |-> yes, up |-> none]
    BY DEF Init
  <1>4. t \in BOOLEAN
    BY InputAssumption
  <1>5. Lens(none) \in [Streams -> Int] /\ \A s \in Streams : Lens(none)[s] = 0
    BY <1>1 DEF Lens
  <1>6. SumFunction(Lens(none)) = 0
    BY <1>5, SumOfZero, InputAssumption
  <1>7. \A s \in Streams : ~no[s]
    OBVIOUS
  <1> HIDE DEF none, no, yes, conn
  <1>8. i \in Input
    BY <1>1, <1>2, <1>3, <1>4 DEF Input
  <1>9. i.total = 0 /\ i.pend = none /\ i.blk = no /\ ~i.paused /\ i.rx = <<>> /\ i.remnant = <<>>
        /\ i.frames = 0 /\ i.handled = 0
    BY <1>3
  <1>10. Backlog(i)
    BY <1>6, <1>7, <1>9, BacklogLens
  <1>11. Within(i)
    BY <1>9, InputAssumption DEF Within
  <1>12. TypeOK
    <2>1. [s \in Streams |-> 0] \in [Streams -> Nat]
      OBVIOUS
    <2> QED  BY <1>1, <1>8, <2>1, InputAssumption DEF Init, TypeOK
  <1>13. EveryFrameHandled /\ Harmless(i.rx) /\ Harmless(i.remnant) /\ Harmless(buf)
    BY <1>1, <1>9 DEF Init, EveryFrameHandled, Harmless
  <1> QED
    BY <1>9, <1>10, <1>11, <1>12, <1>13 DEF Init, InputInv

(* ngx_anytls_client_input_resume from any of its callers: the frames of   *)
(* the remnant move to the frame loop, or the input is as it was or going. *)
LEMMA ResumeStep ==
    ASSUME InputInv, buf = <<>>,
           NEW x \in Input, Backlog(x), Within(x), Keeps(i, x), ~x.paused => x.remnant = <<>>,
           NEW c, NEW back, back # "process", ResumeInput(x, c, back)
    PROVE  /\ i' \in Input /\ Backlog(i') /\ Within(i')
           /\ i'.open = i.open /\ i'.rx = i.rx /\ i'.frames = i.frames /\ i'.handled = i.handled
           /\ buf' \in Seq(Frame)
           /\ Len(i'.remnant) + Len(buf') = Len(i.remnant)
           /\ (Harmless(i.remnant) => Harmless(i'.remnant) /\ Harmless(buf'))
           /\ (~i'.paused => i'.remnant = <<>>)
           /\ \/ pc' = "process" /\ buf' # <<>> /\ ctx' = c /\ ~i'.paused
              \/ pc' = back /\ buf' = <<>> /\ ctx' = ctx
  <1>1. /\ x.open = i.open /\ x.rx = i.rx /\ x.remnant = i.remnant
        /\ x.frames = i.frames /\ x.handled = i.handled
    BY DEF Keeps
  <1>2. i.remnant \in Seq(Frame) /\ <<>> \in Seq(Frame) /\ Len(<<>>) = 0 /\ Harmless(<<>>)
    BY <1>1, Fields DEF Harmless
  <1>3. CASE MayResume(x) /\ x.remnant # <<>>
    <2>1. /\ i' = [x EXCEPT !.paused = FALSE, !.remnant = <<>>]
          /\ buf' = x.remnant /\ ctx' = c /\ pc' = "process"
      BY <1>3 DEF ResumeInput
    <2>2. i' \in Input
      BY <1>2, <2>1 DEF Input
    <2>3. /\ i'.total = x.total /\ i'.pend = x.pend /\ i'.blk = x.blk /\ ~i'.paused
          /\ i'.open = x.open /\ i'.rx = x.rx /\ i'.frames = x.frames /\ i'.handled = x.handled
          /\ i'.remnant = <<>>
      BY <2>1 DEF Input
    <2>4. Backlog(i')
      BY <2>3, BacklogLens
    <2>5. x.total <= Lowat /\ x.total \in Nat
      BY <1>3, Fields DEF MayResume
    <2>6. Within(i')
      BY <2>3, <2>5, LowatWithin, InputAssumption DEF Within
    <2>7. Len(x.remnant) \in Nat
      BY <1>1, <1>2
    <2> QED
      BY <1>1, <1>2, <1>3, <2>1, <2>2, <2>3, <2>4, <2>6, <2>7
  <1>4. CASE ~(MayResume(x) /\ x.remnant # <<>>)
    <2>1. i' = ResumeEmpty(x) /\ pc' = back /\ buf' = buf /\ ctx' = ctx
      BY <1>4 DEF ResumeInput
    <2>2. /\ i' \in Input /\ Backlog(i') /\ Within(i') /\ Keeps(x, i')
          /\ (~MayResume(x) => i' = x)
      BY <2>1, ResumeGood
    <2>3. i'.remnant = x.remnant /\ (~i'.paused => i'.remnant = <<>>)
      BY <1>4, <2>2 DEF Keeps
    <2>4. Len(i.remnant) \in Nat
      BY <1>2
    <2> QED
      BY <1>1, <1>2, <2>1, <2>2, <2>3, <2>4 DEF Keeps
  <1> QED
    BY <1>3, <1>4

(* What the invariant says, in the forms the steps use.                    *)
LEMMA InvFacts ==
    ASSUME InputInv
    PROVE  /\ i \in Input /\ Backlog(i) /\ Within(i)
           /\ sent \in [Streams -> Nat] /\ bad \in 0 .. MaxBad /\ bad \in Nat
           /\ buf \in Seq(Frame) /\ left \in Nat /\ loops \in 0 .. ReadLoops
           /\ fs \in Streams \cup {None} /\ Len(buf) \in Nat
           /\ Len(i.rx) \in Nat /\ Len(i.remnant) \in Nat
  <1>1. /\ i \in Input /\ Backlog(i) /\ Within(i)
        /\ sent \in [Streams -> Nat] /\ bad \in 0 .. MaxBad
        /\ buf \in Seq(Frame) /\ left \in Nat /\ loops \in 0 .. ReadLoops
        /\ fs \in Streams \cup {None}
    BY DEF InputInv, TypeOK
  <1>2. i.rx \in Seq(Frame) /\ i.remnant \in Seq(Frame)
    BY <1>1, Fields
  <1> QED
    BY <1>1, <1>2, InputAssumption

(* A resume ends a step that changes nothing else of the invariant.        *)
LEMMA ResumeKeepsInv ==
    ASSUME InputInv, buf = <<>>,
           NEW x \in Input, Backlog(x), Within(x), Keeps(i, x), ~x.paused => x.remnant = <<>>,
           NEW c, NEW back \in {"idle", "flush"}, ResumeInput(x, c, back),
           c \in {"read", "resume", "close", "flush", "flushed"},
           c \in {"flush", "flushed"} /\ pc' = "process" => fs' \in Streams,
           back = "flush" => fs' \in Streams, fs' \in Streams \cup {None},
           left' \in Nat, loops' \in 0 .. ReadLoops, UNCHANGED <<sent, bad>>
    PROVE  InputInv'
  <1>1. back # "process"
    OBVIOUS
  <1>2. /\ i' \in Input /\ Backlog(i') /\ Within(i')
        /\ i'.open = i.open /\ i'.rx = i.rx /\ i'.frames = i.frames /\ i'.handled = i.handled
        /\ buf' \in Seq(Frame)
        /\ Len(i'.remnant) + Len(buf') = Len(i.remnant)
        /\ (Harmless(i.remnant) => Harmless(i'.remnant) /\ Harmless(buf'))
        /\ (~i'.paused => i'.remnant = <<>>)
        /\ \/ pc' = "process" /\ buf' # <<>> /\ ctx' = c /\ ~i'.paused
           \/ pc' = back /\ buf' = <<>> /\ ctx' = ctx
    BY <1>1, ResumeStep
  <1>3. ctx \in {"read", "resume", "close", "flush", "flushed"}
    BY DEF InputInv, TypeOK
  <1>4. TypeOK'
    BY <1>2, <1>3, InvFacts DEF TypeOK
  <1>5. EveryFrameHandled'
    <2>1. /\ Len(i'.remnant) \in Nat /\ Len(buf') \in Nat /\ Len(i'.rx) \in Nat
          /\ i.handled \in Nat /\ i.frames \in Nat /\ Len(i.remnant) \in Nat
      <3>1. i'.remnant \in Seq(Frame) /\ i'.rx \in Seq(Frame) /\ i.remnant \in Seq(Frame)
            /\ i.handled \in Nat /\ i.frames \in Nat
        BY <1>2, InvFacts, Fields
      <3> QED  BY <1>2, <3>1
    <2>2. Len(buf) = 0
      OBVIOUS
    <2>3. i.open /\ bad = 0 => i.handled + Len(i.rx) + Len(i.remnant) + Len(buf) = i.frames
      BY DEF InputInv, EveryFrameHandled
    <2>4. /\ bad' = bad /\ i'.open = i.open /\ i'.rx = i.rx /\ i'.frames = i.frames
          /\ i'.handled = i.handled /\ Len(i'.remnant) + Len(buf') = Len(i.remnant)
      BY <1>2
    <2>5. i'.open /\ bad' = 0 => i'.handled + Len(i'.rx) + Len(i'.remnant) + Len(buf') = i'.frames
      BY ONLY <2>1, <2>2, <2>3, <2>4
    <2> QED
      BY ONLY <2>5 DEF EveryFrameHandled
  <1>6. (bad = 0 => Harmless(i.rx) /\ Harmless(i.remnant) /\ Harmless(buf))'
    <2>1. bad = 0 => Harmless(i.rx) /\ Harmless(i.remnant)
      BY DEF InputInv
    <2>2. bad' = bad
      OBVIOUS
    <2>3. bad' = 0 => Harmless(i'.rx) /\ Harmless(i'.remnant) /\ Harmless(buf')
      BY <1>2, <2>1, <2>2
    <2> QED  BY <2>3 DEF Harmless
  <1> QED
    BY <1>2, <1>4, <1>5, <1>6 DEF InputInv, Backlog, Within, Lowat
-----------------------------------------------------------------------------
(* A step that keeps the accounting and the frames.                        *)
LEMMA QuietStep ==
    ASSUME InputInv, i' \in Input, Backlog(i'), Within(i'), Keeps(i, i'), i'.paused = i.paused,
           UNCHANGED <<sent, bad, buf, ctx>>, pc # "process", pc' \in {"idle", "reading", "flush"},
           pc' = "reading" => ~i.paused, pc' = "flush" => fs' \in Streams,
           fs' \in Streams \cup {None}, left' \in Nat, loops' \in 0 .. ReadLoops
    PROVE  InputInv'
  <1>1. /\ i'.open = i.open /\ i'.rx = i.rx /\ i'.remnant = i.remnant
        /\ i'.frames = i.frames /\ i'.handled = i.handled
    BY DEF Keeps
  <1>2. buf = <<>>
    BY DEF InputInv
  <1>3. TypeOK'
    BY DEF InputInv, TypeOK
  <1>4. EveryFrameHandled'
    BY <1>1 DEF InputInv, EveryFrameHandled
  <1>5. (bad = 0 => Harmless(i.rx) /\ Harmless(i.remnant) /\ Harmless(buf))'
    BY <1>1 DEF InputInv, Harmless
  <1> QED
    BY <1>1, <1>2, <1>3, <1>4, <1>5 DEF InputInv, Backlog, Within, Lowat

(* Two ways to the same sequence of frames.                                *)
LEMMA HarmlessAppend ==
    ASSUME NEW q \in Seq(Frame), NEW f \in Frame, Harmless(q), f.kind # "bad"
    PROVE  Harmless(Append(q, f))
  BY DEF Harmless

LEMMA HarmlessPart ==
    ASSUME NEW q \in Seq(Frame), Harmless(q), NEW a \in 1 .. Len(q) + 1, NEW b \in 0 .. Len(q)
    PROVE  Harmless(SubSeq(q, a, b))
  <1> DEFINE r == SubSeq(q, a, b)
  <1>1. Len(q) \in Nat
    OBVIOUS
  <1>2. Len(r) = IF a <= b THEN b - a + 1 ELSE 0
    BY <1>1
  <1>3. \A k \in 1 .. Len(r) : r[k] = q[a + k - 1] /\ a + k - 1 \in 1 .. Len(q)
    BY <1>1, <1>2
  <1> HIDE DEF r
  <1>4. Harmless(r)
    BY <1>3 DEF Harmless
  <1> QED  BY <1>4 DEF r

(* Counting frames: one more is sent, one is handled.                      *)
LEMMA CountSent ==
    ASSUME NEW a \in Nat, NEW b \in Nat, NEW c \in Nat, NEW d \in Nat, NEW e \in Nat,
           a + b + c + d = e
    PROVE  a + (b + 1) + c + d = e + 1
  OBVIOUS

LEMMA CountHandled ==
    ASSUME NEW a \in Nat, NEW b \in Nat, NEW d \in Nat, NEW e \in Nat, a + b + 0 + d = e
    PROVE  (a + 1) + b + (d - 1) = e
  OBVIOUS

LEMMA ClientSendsStep == ASSUME InputInv, ClientSends PROVE InputInv'
  <1>1. PICK f \in Frame :
           /\ Sends(f) /\ sent' \in [Streams -> Nat]
           /\ \/ f.kind # "bad" /\ bad' = bad
              \/ bad' = bad + 1 /\ bad' \in 0 .. MaxBad
    <2>1. CASE \E s \in Streams : /\ Sends([kind |-> "psh", st |-> s, n |-> sent[s] + 1])
                                  /\ sent' = [sent EXCEPT ![s] = @ + 1]
                                  /\ UNCHANGED bad
      <3>1. PICK s \in Streams : /\ Sends([kind |-> "psh", st |-> s, n |-> sent[s] + 1])
                                 /\ sent' = [sent EXCEPT ![s] = @ + 1]
                                 /\ UNCHANGED bad
        BY <2>1
      <3> DEFINE n == sent[s] + 1
      <3>2. n \in Nat /\ sent' = [sent EXCEPT ![s] = n] /\ sent \in [Streams -> Nat]
        BY <3>1, InvFacts
      <3> HIDE DEF n
      <3>3. [kind |-> "psh", st |-> s, n |-> n] \in Frame
        BY <3>2 DEF Frame
      <3>4. sent' \in [Streams -> Nat]
        BY <3>2
      <3> QED
        BY <3>1, <3>3, <3>4 DEF n
    <2>2. CASE \E s \in Streams : Sends([kind |-> "fin", st |-> s, n |-> 0]) /\ UNCHANGED <<sent, bad>>
      <3>1. PICK s \in Streams : Sends([kind |-> "fin", st |-> s, n |-> 0]) /\ UNCHANGED <<sent, bad>>
        BY <2>2
      <3>2. [kind |-> "fin", st |-> s, n |-> 0] \in Frame
        BY DEF Frame
      <3> QED
        BY <3>1, <3>2, InvFacts
    <2>3. CASE /\ bad < MaxBad
               /\ Sends([kind |-> "bad", st |-> None, n |-> 0])
               /\ bad' = bad + 1 /\ UNCHANGED sent
      <3>1. [kind |-> "bad", st |-> None, n |-> 0] \in Frame
        BY DEF Frame
      <3>2. bad + 1 \in 0 .. MaxBad
        BY <2>3, InvFacts, InputAssumption
      <3> QED
        BY <2>3, <3>1, <3>2, InvFacts
    <2> QED
      BY <2>1, <2>2, <2>3 DEF ClientSends
  <1> DEFINE q == Append(i.rx, f)
             k == i.frames + 1
  <1>2. i' = [i EXCEPT !.rx = q, !.frames = k] /\ UNCHANGED <<pc, buf, ctx, fs, left, loops>>
    BY <1>1 DEF Sends, ClientSends
  <1>3. i \in Input /\ i.rx \in Seq(Frame) /\ i.frames \in Nat /\ i.handled \in Nat
    BY InvFacts, Fields
  <1>4. q \in Seq(Frame) /\ k \in Nat /\ Len(q) = Len(i.rx) + 1
    BY <1>1, <1>3
  <1>5. (Harmless(i.rx) /\ f.kind # "bad") => Harmless(q)
    BY <1>1, <1>3, HarmlessAppend
  <1> HIDE DEF q
  <1>6. i' \in Input
    BY <1>2, <1>3, <1>4 DEF Input
  <1>7. /\ i'.total = i.total /\ i'.pend = i.pend /\ i'.blk = i.blk /\ i'.paused = i.paused
        /\ i'.rblocked = i.rblocked /\ i'.open = i.open /\ i'.remnant = i.remnant
        /\ i'.handled = i.handled /\ i'.rx = q /\ i'.frames = k
    BY <1>2, <1>3 DEF Input
  <1>8. Backlog(i') /\ Within(i')
    BY <1>7, InvFacts, BacklogLens DEF Within
  <1>9. TypeOK'
    BY <1>1, <1>2, <1>6, InvFacts DEF InputInv, TypeOK
  <1>10. EveryFrameHandled'
    <2>1. i.open /\ bad = 0 => i.handled + Len(i.rx) + Len(i.remnant) + Len(buf) = i.frames
      BY DEF InputInv, EveryFrameHandled
    <2>2. bad' = 0 => bad = 0
      BY <1>1, InvFacts
    <2>3. Len(i.rx) \in Nat /\ Len(i.remnant) \in Nat /\ Len(buf) \in Nat
      BY InvFacts
    <2>4. /\ i'.open = i.open /\ i'.handled = i.handled /\ Len(i'.rx) = Len(i.rx) + 1
          /\ i'.remnant = i.remnant /\ buf' = buf /\ i'.frames = i.frames + 1
      BY <1>2, <1>4, <1>7
    <2> SUFFICES ASSUME i'.open, bad' = 0
                 PROVE  i'.handled + Len(i'.rx) + Len(i'.remnant) + Len(buf') = i'.frames
      BY DEF EveryFrameHandled
    <2>5. i.handled + Len(i.rx) + Len(i.remnant) + Len(buf) = i.frames
      BY <2>1, <2>2, <2>4
    <2>6. i.handled + (Len(i.rx) + 1) + Len(i.remnant) + Len(buf) = i.frames + 1
      <3> DEFINE a == i.handled
                 b == Len(i.rx)
                 c == Len(i.remnant)
                 d == Len(buf)
                 e == i.frames
      <3>1. a \in Nat /\ b \in Nat /\ c \in Nat /\ d \in Nat /\ e \in Nat
        BY <1>3, <2>3
      <3>2. a + b + c + d = e
        BY <2>5
      <3> HIDE DEF a, b, c, d, e
      <3>3. a + (b + 1) + c + d = e + 1
        BY <3>1, <3>2, CountSent
      <3> QED  BY <3>3 DEF a, b, c, d, e
    <2> QED
      BY <2>4, <2>6
  <1>11. (bad = 0 => Harmless(i.rx) /\ Harmless(i.remnant) /\ Harmless(buf))'
    <2>1. bad' = 0 => bad = 0 /\ f.kind # "bad"
      BY <1>1, InvFacts
    <2>2. bad' = 0 => Harmless(i'.rx) /\ Harmless(i'.remnant) /\ Harmless(buf')
      BY <1>2, <1>5, <1>7, <2>1 DEF InputInv
    <2> QED  BY <2>2 DEF Harmless
  <1> QED
    BY <1>2, <1>7, <1>8, <1>9, <1>10, <1>11 DEF InputInv, Backlog, Within, Lowat

LEMMA ReadEventStep == ASSUME InputInv, ReadEvent PROVE InputInv'
  <1> DEFINE x == [i EXCEPT !.posted = FALSE]
  <1>1. i \in Input /\ pc = "idle" /\ buf = <<>>
    BY InvFacts DEF InputInv, ReadEvent, Idle
  <1>2. x \in Input
    BY <1>1 DEF Input
  <1>3. /\ x.total = i.total /\ x.pend = i.pend /\ x.blk = i.blk /\ x.paused = i.paused
        /\ x.rblocked = i.rblocked /\ Keeps(i, x)
    BY <1>1 DEF Input, Keeps
  <1>4. /\ IF i.paused THEN ResumeInput(x, "resume", "idle")
           ELSE /\ i' = x
                /\ pc' = IF i.rblocked THEN "idle" ELSE "reading"
                /\ UNCHANGED <<buf, ctx>>
        /\ loops' = 0 /\ UNCHANGED <<sent, bad, fs, left>>
    BY DEF ReadEvent
  <1> HIDE DEF x
  <1>5. Backlog(x) /\ Within(x) /\ (~x.paused => x.remnant = <<>>)
    BY <1>3, InvFacts, BacklogLens DEF Within, Keeps, InputInv
  <1>6. fs' \in Streams \cup {None} /\ left' \in Nat /\ loops' \in 0 .. ReadLoops
    BY <1>4, InvFacts, InputAssumption
  <1>7. CASE i.paused
    <2>1. ResumeInput(x, "resume", "idle")
      BY <1>4, <1>7
    <2> QED
      BY <1>1, <1>2, <1>3, <1>4, <1>5, <1>6, <2>1, ResumeKeepsInv
  <1>8. CASE ~i.paused
    BY <1>1, <1>2, <1>3, <1>4, <1>5, <1>6, <1>8, QuietStep
  <1> QED
    BY <1>7, <1>8

LEMMA ReadDoneStep == ASSUME InputInv, ReadDone PROVE InputInv'
  <1> DEFINE e == i.posted \/ ~MoreLoops
  <1>1. i \in Input /\ pc = "reading" /\ e \in BOOLEAN
    BY InvFacts, Fields DEF ReadDone
  <1>2. /\ i' = [i EXCEPT !.posted = e] /\ pc' = "idle" /\ loops' = 0
        /\ UNCHANGED <<sent, bad, buf, ctx, fs, left>>
    BY DEF ReadDone
  <1> HIDE DEF e
  <1>3. i' \in Input
    BY <1>1, <1>2 DEF Input
  <1>4. /\ i'.total = i.total /\ i'.pend = i.pend /\ i'.blk = i.blk /\ i'.paused = i.paused
        /\ i'.rblocked = i.rblocked /\ Keeps(i, i')
    BY <1>1, <1>2 DEF Input, Keeps
  <1>5. Backlog(i') /\ Within(i')
    BY <1>4, InvFacts, BacklogLens DEF Within
  <1>6. fs' \in Streams \cup {None} /\ left' \in Nat /\ loops' \in 0 .. ReadLoops
    BY <1>2, InvFacts, InputAssumption
  <1> QED
    BY <1>1, <1>2, <1>3, <1>4, <1>5, <1>6, QuietStep

LEMMA ReadFramesStep == ASSUME InputInv, ReadFrames PROVE InputInv'
  <1> DEFINE k == IF Len(i.rx) < ReadMax THEN Len(i.rx) ELSE ReadMax
             rest == SubSeq(i.rx, k + 1, Len(i.rx))
             first == SubSeq(i.rx, 1, k)
  <1>1. /\ i \in Input /\ i.rx \in Seq(Frame) /\ i.rx # <<>> /\ pc = "reading" /\ buf = <<>>
        /\ ~i.paused /\ i.remnant = <<>> /\ loops < ReadLoops
    BY InvFacts, Fields DEF InputInv, ReadFrames, MoreLoops
  <1>2. PICK d \in 0 .. (IF i.tls THEN Len(rest) ELSE 0), p \in BOOLEAN :
           i' = [i EXCEPT !.rx = rest, !.inTls = d, !.partial = p]
    BY DEF ReadFrames
  <1>3. /\ buf' = first /\ ctx' = "read" /\ pc' = "process" /\ loops' = loops + 1
        /\ UNCHANGED <<sent, bad, fs, left>>
    BY DEF ReadFrames
  <1>4. k \in 1 .. Len(i.rx) /\ Len(i.rx) \in Nat
    <2>1. Len(i.rx) \in Nat /\ Len(i.rx) # 0
      BY <1>1
    <2> QED  BY <2>1, InputAssumption
  <1> HIDE DEF k
  <1>5. /\ rest \in Seq(Frame) /\ Len(rest) = Len(i.rx) - k /\ first \in Seq(Frame)
        /\ Len(first) = k
    BY <1>1, <1>4
  <1>6. Harmless(i.rx) => Harmless(rest) /\ Harmless(first)
    BY <1>1, <1>4, HarmlessPart
  <1> HIDE DEF rest, first
  <1>7. d \in Nat
    <2>1. Len(rest) \in Nat
      BY <1>5
    <2> QED  BY <1>2, <2>1
  <1>8. i' \in Input
    BY <1>1, <1>2, <1>5, <1>7 DEF Input
  <1>9. /\ i'.total = i.total /\ i'.pend = i.pend /\ i'.blk = i.blk /\ i'.paused = i.paused
        /\ i'.rblocked = i.rblocked /\ i'.open = i.open /\ i'.remnant = i.remnant
        /\ i'.handled = i.handled /\ i'.frames = i.frames /\ i'.rx = rest
    BY <1>1, <1>2 DEF Input
  <1>10. Backlog(i') /\ Within(i')
    BY <1>9, InvFacts, BacklogLens DEF Within
  <1>11. loops' \in 0 .. ReadLoops
    BY <1>1, <1>3, InvFacts, InputAssumption
  <1>12. TypeOK'
    BY <1>3, <1>5, <1>8, <1>11, InvFacts DEF TypeOK
  <1>13. EveryFrameHandled'
    <2>1. i.open /\ bad = 0 => i.handled + Len(i.rx) + Len(i.remnant) + Len(buf) = i.frames
      BY DEF InputInv, EveryFrameHandled
    <2>2. Len(i.remnant) = 0 /\ Len(buf) = 0 /\ i.handled \in Nat /\ i.frames \in Nat
      BY <1>1, Fields
    <2> QED
      BY <1>3, <1>4, <1>5, <1>9, <2>1, <2>2 DEF EveryFrameHandled
  <1>14. (bad = 0 => Harmless(i.rx) /\ Harmless(i.remnant) /\ Harmless(buf))'
    <2>1. bad' = 0 => Harmless(i'.rx) /\ Harmless(i'.remnant) /\ Harmless(buf')
      BY <1>3, <1>6, <1>9 DEF InputInv
    <2> QED  BY <2>1 DEF Harmless
  <1>15. buf' # <<>>
    BY <1>3, <1>4, <1>5
  <1> QED
    BY <1>1, <1>3, <1>9, <1>10, <1>12, <1>13, <1>14, <1>15 DEF InputInv, Backlog, Within, Lowat
-----------------------------------------------------------------------------
(* The frame loop handles a frame: the pause, if it comes, keeps the rest. *)
LEMMA HandleFrameStep == ASSUME InputInv, HandleFrame PROVE InputInv'
  <1> DEFINE k == i.handled + 1
             y == [i EXCEPT !.handled = k]
             f == Head(buf)
             rest == Tail(buf)
  <1>1. /\ i \in Input /\ Backlog(i) /\ Within(i) /\ buf \in Seq(Frame) /\ buf # <<>>
        /\ pc = "process" /\ ~i.paused /\ i.remnant = <<>> /\ i.rx \in Seq(Frame)
        /\ i.handled \in Nat /\ i.frames \in Nat
    BY InvFacts, Fields DEF InputInv, HandleFrame
  <1>2. PICK x \in Handle(y, f) :
          IF ~Ends(x)
          THEN i' = x /\ buf' = Tail(buf) /\ UNCHANGED pc
          ELSE /\ buf' = <<>>
               /\ i' = IF x.paused THEN KeepRemnant(x)
                       ELSE IF ctx = "read" THEN x ELSE EnableClientRead(x)
               /\ IF ctx = "read" /\ x.rblocked THEN pc' = "idle" ELSE Returns
    BY DEF HandleFrame
  <1>3. UNCHANGED <<sent, bad, ctx, fs, left, loops>>
    BY DEF HandleFrame
  <1>4. /\ f \in Frame /\ rest \in Seq(Frame) /\ Len(rest) = Len(buf) - 1 /\ Len(buf) \in Nat
        /\ Len(buf) > 0
    BY <1>1
  <1>5. Harmless(buf) => Harmless(rest)
    <2>1. \A j \in 1 .. Len(rest) : rest[j] = buf[j + 1] /\ j + 1 \in 1 .. Len(buf)
      BY <1>1, <1>4
    <2> HIDE DEF rest
    <2> QED  BY <2>1 DEF Harmless
  <1>6. k \in Nat
    BY <1>1
  <1> HIDE DEF f, rest, k
  <1>7. y \in Input
    BY <1>1, <1>6 DEF Input
  <1>8. /\ y.total = i.total /\ y.pend = i.pend /\ y.blk = i.blk /\ y.paused = i.paused
        /\ y.rblocked = i.rblocked /\ y.open = i.open /\ y.remnant = i.remnant
        /\ y.handled = k /\ y.frames = i.frames /\ y.rx = i.rx
    BY <1>1 DEF Input
  <1> HIDE DEF y
  <1>9. Backlog(y) /\ Within(y) /\ ~y.paused
    BY <1>1, <1>8, BacklogLens DEF Within
  <1>10. x \in Input /\ Backlog(x) /\ Within(x) /\ Keeps(y, x)
    BY <1>2, <1>4, <1>7, <1>9, HandleGood
  <1>11. /\ x.open = i.open /\ x.rx = i.rx /\ x.remnant = <<>>
         /\ x.frames = i.frames /\ x.handled = k
    BY <1>1, <1>8, <1>10 DEF Keeps
  <1>12. ctx \in {"read", "resume", "close", "flush", "flushed"}
    BY DEF InputInv, TypeOK
  <1>13. i.open /\ bad = 0 => k + Len(i.rx) + Len(rest) = i.frames
    <2>1. i.open /\ bad = 0 => i.handled + Len(i.rx) + Len(i.remnant) + Len(buf) = i.frames
      BY DEF InputInv, EveryFrameHandled
    <2>2. Len(i.remnant) = 0 /\ Len(i.rx) \in Nat
      BY <1>1
    <2> SUFFICES ASSUME i.open, bad = 0 PROVE k + Len(i.rx) + Len(rest) = i.frames
      OBVIOUS
    <2>3. i.handled + Len(i.rx) + 0 + Len(buf) = i.frames
      BY <2>1, <2>2
    <2>4. (i.handled + 1) + Len(i.rx) + (Len(buf) - 1) = i.frames
      <3> DEFINE a == i.handled
                 b == Len(i.rx)
                 d == Len(buf)
                 e == i.frames
      <3>1. a \in Nat /\ b \in Nat /\ d \in Nat /\ e \in Nat
        BY <1>1, <1>4, <2>2
      <3>2. a + b + 0 + d = e
        BY <2>3
      <3> HIDE DEF a, b, d, e
      <3>3. (a + 1) + b + (d - 1) = e
        BY <3>1, <3>2, CountHandled
      <3> QED  BY <3>3 DEF a, b, d, e
    <2> QED
      BY <1>4, <2>4 DEF k
  <1>14. bad = 0 => Harmless(i.rx) /\ Harmless(rest)
    BY <1>5 DEF InputInv
  <1>15. Harmless(<<>>) /\ Len(<<>>) = 0 /\ <<>> \in Seq(Frame)
    BY DEF Harmless
  <1>16. Len(i.rx) \in Nat /\ Len(rest) \in Nat
    BY <1>1, <1>4
  <1>17. CASE ~Ends(x)
    <2>1. i' = x /\ buf' = rest /\ pc' = pc /\ ~x.paused /\ Len(buf) # 1
      BY <1>2, <1>17 DEF Ends, rest
    <2>2. rest # <<>>
      BY <1>4, <2>1
    <2>3. TypeOK'
      BY <1>3, <1>4, <1>10, <2>1 DEF InputInv, TypeOK
    <2>4. EveryFrameHandled'
      BY <1>3, <1>6, <1>11, <1>13, <1>15, <1>16, <2>1 DEF EveryFrameHandled
    <2>5. (bad = 0 => Harmless(i.rx) /\ Harmless(i.remnant) /\ Harmless(buf))'
      <3>1. bad' = 0 => Harmless(i'.rx) /\ Harmless(i'.remnant) /\ Harmless(buf')
        BY <1>3, <1>11, <1>14, <1>15, <2>1
      <3> QED  BY <3>1 DEF Harmless
    <2>6. Backlog(i') /\ Within(i')
      BY <1>10, <2>1
    <2> QED
      BY <1>1, <1>3, <1>11, <2>1, <2>2, <2>3, <2>4, <2>5, <2>6
         DEF InputInv, Backlog, Within, Lowat
  <1>18. CASE Ends(x) /\ x.paused
    <2>1. i' = [x EXCEPT !.remnant = rest] /\ buf' = <<>>
      BY <1>2, <1>18 DEF KeepRemnant, rest
    <2>2. i' \in Input
      BY <1>4, <1>10, <2>1 DEF Input
    <2>3. /\ i'.total = x.total /\ i'.pend = x.pend /\ i'.blk = x.blk /\ i'.paused = x.paused
          /\ i'.rblocked = x.rblocked /\ i'.open = x.open /\ i'.remnant = rest
          /\ i'.handled = x.handled /\ i'.frames = x.frames /\ i'.rx = x.rx
      BY <1>10, <2>1 DEF Input
    <2>4. Backlog(i') /\ Within(i')
      BY <1>10, <2>3, BacklogLens DEF Within
    <2>5. x.rblocked
      BY <1>10, <1>18 DEF Within
    <2>6. pc' = "idle" \/ (pc' = "flush" /\ ctx = "flush")
      BY <1>2, <1>12, <1>18, <2>5 DEF Returns
    <2>7. TypeOK'
      BY <1>3, <1>15, <2>1, <2>2, <2>6 DEF InputInv, TypeOK
    <2>8. EveryFrameHandled'
      BY <1>3, <1>6, <1>11, <1>13, <1>15, <1>16, <2>1, <2>3 DEF EveryFrameHandled
    <2>9. (bad = 0 => Harmless(i.rx) /\ Harmless(i.remnant) /\ Harmless(buf))'
      <3>1. bad' = 0 => Harmless(i'.rx) /\ Harmless(i'.remnant) /\ Harmless(buf')
        BY <1>3, <1>11, <1>14, <1>15, <2>1, <2>3
      <3> QED  BY <3>1 DEF Harmless
    <2>10. pc' = "flush" => fs' \in Streams
      BY <1>1, <1>3, <2>6 DEF InputInv
    <2> QED
      BY <1>18, <2>1, <2>3, <2>4, <2>6, <2>7, <2>8, <2>9, <2>10
         DEF InputInv, Backlog, Within, Lowat
  <1>19. CASE Ends(x) /\ ~x.paused
    <2>1. Len(buf) = 1
      BY <1>19 DEF Ends
    <2>2. buf' = <<>> /\ (i' = x \/ i' = EnableClientRead(x))
      BY <1>2, <1>19
    <2>3. pc' \in {"idle", "reading"} \/ (pc' = "flush" /\ ctx = "flush")
      BY <1>2, <1>12, <1>19 DEF Returns
    <2>4. i' \in Input /\ Backlog(i') /\ Within(i') /\ Keeps(x, i') /\ ~i'.paused
      <3>1. CASE i' = x
        BY <1>10, <1>19, <3>1 DEF Keeps
      <3>2. CASE i' = EnableClientRead(x)
        BY <1>10, <1>19, <3>2, EnableGood
      <3> QED  BY <2>2, <3>1, <3>2
    <2>5. /\ i'.open = i.open /\ i'.rx = i.rx /\ i'.remnant = <<>>
          /\ i'.frames = i.frames /\ i'.handled = k
      BY <1>11, <2>4 DEF Keeps
    <2>6. Len(rest) = 0
      BY <1>4, <2>1
    <2>7. TypeOK'
      BY <1>3, <1>15, <2>2, <2>3, <2>4 DEF InputInv, TypeOK
    <2>8. EveryFrameHandled'
      BY <1>3, <1>6, <1>13, <1>15, <1>16, <2>2, <2>5, <2>6 DEF EveryFrameHandled
    <2>9. (bad = 0 => Harmless(i.rx) /\ Harmless(i.remnant) /\ Harmless(buf))'
      <3>1. bad' = 0 => Harmless(i'.rx) /\ Harmless(i'.remnant) /\ Harmless(buf')
        BY <1>3, <1>14, <1>15, <2>2, <2>5
      <3> QED  BY <3>1 DEF Harmless
    <2>10. pc' = "flush" => fs' \in Streams
      BY <1>1, <1>3, <2>3 DEF InputInv
    <2> QED
      BY <2>2, <2>3, <2>4, <2>5, <2>7, <2>8, <2>9, <2>10
         DEF InputInv, Backlog, Within, Lowat
  <1> QED
    BY <1>17, <1>18, <1>19

(* A frame that cannot be handled: the rest of the buffer is dropped.      *)
LEMMA FrameErrorStep == ASSUME InputInv, FrameError PROVE InputInv'
  <1> DEFINE x == [i EXCEPT !.partial = FALSE]
             d == Discard(x, fs)
  <1>1. /\ i \in Input /\ Backlog(i) /\ Within(i) /\ buf \in Seq(Frame) /\ buf # <<>>
        /\ pc = "process" /\ ~i.paused /\ i.remnant = <<>> /\ Head(buf).kind = "bad"
        /\ ctx \in {"read", "resume", "close", "flush", "flushed"}
        /\ (ctx \in {"flush", "flushed"} => fs \in Streams)
    BY InvFacts DEF InputInv, TypeOK, FrameError
  <1>2. /\ i' = CASE ctx \in {"read", "resume"} -> Finalize(x)
                  [] ctx \in {"flush", "flushed"} -> ResumeEmpty(d)
                  [] ctx = "close" -> x
        /\ buf' = <<>> /\ pc' = "idle" /\ fs' = None /\ left' = 0
        /\ UNCHANGED <<sent, bad, ctx, loops>>
    BY DEF FrameError
  <1>3. bad # 0
    <2>1. Head(buf) = buf[1] /\ 1 \in 1 .. Len(buf)
      BY <1>1
    <2> QED  BY <1>1, <2>1 DEF InputInv, Harmless
  <1>4. x \in Input
    BY <1>1 DEF Input
  <1>5. /\ x.total = i.total /\ x.pend = i.pend /\ x.blk = i.blk /\ x.paused = i.paused
        /\ x.rblocked = i.rblocked /\ Keeps(i, x)
    BY <1>1 DEF Input, Keeps
  <1>6. Backlog(x) /\ Within(x)
    BY <1>1, <1>5, BacklogLens DEF Within
  <1> HIDE DEF x
  <1>7. i' \in Input /\ Backlog(i') /\ Within(i') /\ i'.remnant = <<>>
    <2>1. CASE ctx \in {"read", "resume"}
      <3>1. i' = Finalize(x)
        BY <1>2, <2>1
      <3>2. i' \in Input
        BY <1>4, <3>1 DEF Input, Finalize
      <3>3. /\ i'.total = x.total /\ i'.pend = x.pend /\ i'.blk = x.blk /\ i'.paused = x.paused
            /\ i'.rblocked = x.rblocked /\ i'.remnant = x.remnant
        BY <1>4, <3>1 DEF Input, Finalize
      <3> QED
        BY <1>1, <1>5, <1>6, <3>2, <3>3, BacklogLens DEF Within, Keeps
    <2>2. CASE ctx \in {"flush", "flushed"}
      <3>1. i' = ResumeEmpty(d)
        BY <1>2, <2>2
      <3>2. d \in Input /\ Backlog(d) /\ Within(d) /\ Keeps(x, d)
        BY <1>1, <1>4, <1>6, <2>2, DiscardGood
      <3> HIDE DEF d
      <3>3. i' \in Input /\ Backlog(i') /\ Within(i') /\ Keeps(d, i')
        BY <3>1, <3>2, ResumeGood
      <3> QED
        BY <1>1, <1>5, <3>2, <3>3 DEF Keeps
    <2>3. CASE ctx = "close"
      <3>1. i' = x
        BY <1>2, <2>3
      <3> QED
        BY <1>1, <1>4, <1>5, <1>6, <3>1 DEF Keeps
    <2> QED
      BY <1>1, <2>1, <2>2, <2>3
  <1>8. TypeOK'
    <2>1. <<>> \in Seq(Frame)
      OBVIOUS
    <2> QED
      BY <1>2, <1>7, <2>1 DEF InputInv, TypeOK
  <1> QED
    BY <1>2, <1>3, <1>7, <1>8 DEF InputInv, Backlog, Within, Lowat, EveryFrameHandled
-----------------------------------------------------------------------------
(* What a writev is given.                                                 *)
LEMMA BatchType ==
    ASSUME InputInv, NEW s \in Streams
    PROVE  Batch(s) \in 0 .. Len(i.pend[s]) /\ Len(i.pend[s]) \in Nat
  <1>1. i.pend[s] \in Seq(Nat)
    BY InvFacts, Fields
  <1>2. Len(i.pend[s]) \in Nat
    BY <1>1
  <1> QED
    BY <1>2, InputAssumption DEF Batch

(* writev for stream s, from the write event or from the loop              *)
LEMMA WritePendingStep ==
    ASSUME InputInv, NEW s \in Streams, NEW k \in 0 .. Batch(s), WritePending(s, k),
           pc \in {"idle", "flush"}, pc' = "flush", fs' = s
    PROVE  InputInv'
  <1>1. k \in 0 .. Len(i.pend[s]) /\ k \in Nat
    BY BatchType
  <1>2. i' = Written(i, s, k, Batch(s)) /\ left' = k /\ UNCHANGED <<sent, bad, buf, ctx, loops>>
    BY DEF WritePending
  <1>3. i \in Input /\ Backlog(i) /\ Within(i) /\ loops \in 0 .. ReadLoops
    BY InvFacts
  <1>4. /\ i' \in Input /\ Backlog(i') /\ Within(i') /\ Keeps(i, i') /\ i'.paused = i.paused
    BY <1>1, <1>2, <1>3, WrittenGood
  <1> QED
    BY <1>1, <1>2, <1>3, <1>4, QuietStep

LEMMA WriteEventStep == ASSUME InputInv, NEW s \in Streams, WriteEvent(s) PROVE InputInv'
  <1>1. PICK k \in 1 .. Batch(s) : WritePending(s, k)
    BY DEF WriteEvent
  <1>2. pc = "idle" /\ pc' = "flush" /\ fs' = s
    BY DEF WriteEvent, Idle
  <1>3. k \in 0 .. Batch(s)
    BY BatchType
  <1> QED
    BY <1>1, <1>2, <1>3, WritePendingStep

LEMMA WriteMoreStep == ASSUME InputInv, WriteMore PROVE InputInv'
  <1>1. PICK k \in 0 .. Batch(fs) : WritePending(fs, k)
    BY DEF WriteMore
  <1>2. pc = "flush" /\ pc' = "flush" /\ fs' = fs /\ fs \in Streams
    BY DEF WriteMore, InputInv
  <1> QED
    BY <1>1, <1>2, WritePendingStep

LEMMA AccountOneStep == ASSUME InputInv, AccountOne PROVE InputInv'
  <1> DEFINE x == Accounted(i, fs, 1)
             y == Unblock(x, fs)
  <1>1. /\ i \in Input /\ Backlog(i) /\ Within(i) /\ pc = "flush" /\ buf = <<>> /\ fs \in Streams
        /\ loops \in 0 .. ReadLoops /\ left \in Nat /\ left > 0
    BY InvFacts DEF InputInv, AccountOne
  <1>2. /\ IF y.blk # x.blk THEN ResumeInput(y, "flush", "flush")
           ELSE i' = y /\ UNCHANGED <<pc, buf, ctx>>
        /\ left' = left - 1 /\ UNCHANGED <<sent, bad, fs, loops>>
    BY DEF AccountOne
  <1>3. 1 \in 0 .. Len(i.pend[fs])
    <2>1. i.pend[fs] \in Seq(Nat) /\ i.pend[fs] # <<>>
      BY <1>1, Fields DEF AccountOne
    <2> QED  BY <2>1
  <1>4. y \in Input /\ Backlog(y) /\ Within(y) /\ Keeps(i, y) /\ y.paused = i.paused
    BY <1>1, <1>3, AccountedGood
  <1>5. ~y.paused => y.remnant = <<>>
    BY <1>4 DEF InputInv, Keeps
  <1>6. left' \in Nat /\ fs' \in Streams /\ loops' \in 0 .. ReadLoops
    BY <1>1, <1>2
  <1>7. CASE y.blk # x.blk
    <2>1. ResumeInput(y, "flush", "flush")
      BY <1>2, <1>7
    <2> HIDE DEF y
    <2> QED
      BY <1>1, <1>2, <1>4, <1>5, <1>6, <2>1, ResumeKeepsInv
  <1>8. CASE ~(y.blk # x.blk)
    <2>1. i' = y /\ UNCHANGED <<pc, buf, ctx>>
      BY <1>2, <1>8
    <2> HIDE DEF y
    <2> QED
      BY <1>1, <1>2, <1>4, <1>6, <2>1, QuietStep
  <1> QED
    BY <1>7, <1>8

LEMMA FlushDoneStep == ASSUME InputInv, FlushDone PROVE InputInv'
  <1>1. /\ i \in Input /\ Backlog(i) /\ Within(i) /\ pc = "flush" /\ buf = <<>> /\ fs \in Streams
        /\ loops \in 0 .. ReadLoops /\ (~i.paused => i.remnant = <<>>) /\ Keeps(i, i)
    BY InvFacts DEF InputInv, FlushDone, Keeps
  <1>2. left' = 0 /\ UNCHANGED <<sent, bad, loops>>
    BY DEF FlushDone
  <1>3. CASE /\ ResumeInput(i, "flushed", "idle")
             /\ fs' = IF pc' = "process" THEN fs ELSE None
    BY <1>1, <1>2, <1>3, ResumeKeepsInv
  <1>4. CASE pc' = "idle" /\ fs' = None /\ UNCHANGED <<i, buf, ctx>>
    BY <1>1, <1>2, <1>4, QuietStep
  <1> QED
    BY <1>3, <1>4 DEF FlushDone

LEMMA UpstreamClosesStep == ASSUME InputInv, NEW s \in Streams, UpstreamCloses(s) PROVE InputInv'
  <1> DEFINE d == Discard(i, s)
  <1>1. /\ i \in Input /\ Backlog(i) /\ Within(i) /\ pc = "idle" /\ buf = <<>>
        /\ loops \in 0 .. ReadLoops /\ left \in Nat /\ fs \in Streams \cup {None}
    BY InvFacts DEF InputInv, UpstreamCloses, Idle
  <1>2. ResumeInput(d, "close", "idle") /\ UNCHANGED <<sent, bad, fs, left, loops>>
    BY DEF UpstreamCloses
  <1>3. d \in Input /\ Backlog(d) /\ Within(d) /\ Keeps(i, d) /\ d.paused = i.paused
    BY <1>1, DiscardGood
  <1>4. ~d.paused => d.remnant = <<>>
    BY <1>3 DEF InputInv, Keeps
  <1> HIDE DEF d
  <1> QED
    BY <1>1, <1>2, <1>3, <1>4, ResumeKeepsInv
-----------------------------------------------------------------------------
(* Every step of the input keeps the invariant.                            *)
LEMMA NextInv == InputInv /\ [Next]_vars => InputInv'
  <1> SUFFICES ASSUME InputInv, [Next]_vars PROVE InputInv'
    OBVIOUS
  <1>1. CASE ClientSends
    BY <1>1, ClientSendsStep
  <1>2. CASE ReadEvent
    BY <1>2, ReadEventStep
  <1>3. CASE Step
    BY <1>3, ReadFramesStep, ReadDoneStep, HandleFrameStep, FrameErrorStep, AccountOneStep,
       WriteMoreStep, FlushDoneStep DEF Step
  <1>4. CASE \E s \in Streams : WriteEvent(s) \/ UpstreamCloses(s)
    BY <1>4, WriteEventStep, UpstreamClosesStep
  <1>5. CASE UNCHANGED vars
    BY <1>5 DEF vars, InputInv, TypeOK, Backlog, Within, Lowat, EveryFrameHandled, Harmless
  <1> QED
    BY <1>1, <1>2, <1>3, <1>4, <1>5 DEF Next

(* The backlog, the pause and the frames are consistent in every state.    *)
THEOREM Invariant == Spec => []InputInv
  BY InitInv, NextInv, PTL DEF Spec

(* TypeOK: the variables have their types, and the read handler stays      *)
(* within NGX_ANYTLS_CLIENT_READ_BUDGET_LOOPS.                             *)
THEOREM TypeCorrect == Spec => []TypeOK
  <1>1. InputInv => TypeOK
    BY DEF InputInv
  <1> QED
    BY <1>1, Invariant, PTL

(* BacklogExact: pending_input is the sum of the backlogs of the streams,  *)
(* and only a stream above the low mark blocks the input.                  *)
THEOREM BacklogTheorem == Spec => []BacklogExact
  <1>1. InputInv => BacklogExact
    BY DEF InputInv, Backlog, BacklogExact
  <1> QED
    BY <1>1, Invariant, PTL

(* InputBounded: the backlog passes max_pending_input by one payload at    *)
(* most, whatever the number of streams and of frames in a read.           *)
THEOREM BoundTheorem == Spec => []InputBounded
  <1>1. InputInv => InputBounded
    BY DEF InputInv, Within, InputBounded
  <1> QED
    BY <1>1, Invariant, PTL

(* EveryFrameHandled: pause and resume neither lose a frame nor handle one *)
(* twice.                                                                  *)
THEOREM FramesTheorem == Spec => []EveryFrameHandled
  <1>1. InputInv => EveryFrameHandled
    BY DEF InputInv
  <1> QED
    BY <1>1, Invariant, PTL
=============================================================================
