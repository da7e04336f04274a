-------------------------- MODULE ClientMuxProofs --------------------------
(***************************************************************************)
(* Proofs about ClientMux, for any finite set of streams, any limits and   *)
(* budgets: the counters are exact, no frame outlives its stream, frames   *)
(* leave in order, and output that waits has an event to come.             *)
(***************************************************************************)
EXTENDS ClientMux, CollectionLemmas

\* The frames of s in a queue are those behind number a up to number b, in the
\* order they were queued.
Carries(q, s, a, b) ==
    /\ a \in Nat /\ b \in Nat /\ a <= b
    /\ \A k \in 1 .. Len(q) : q[k].st = s => q[k].n \in a + 1 .. b
    /\ \A i \in a + 1 .. b : \E k \in 1 .. Len(q) : q[k].st = s /\ q[k].n = i
    /\ \A j, k \in 1 .. Len(q) : j < k /\ q[j].st = s /\ q[k].st = s => q[j].n < q[k].n

\* What a queued frame says of its stream.
FrameOk(x, f) ==
    f.st \in Streams => /\ f.gen = x.gen[f.st]
                        /\ f.cmd = "SYNACK" => f.n = 1
                        /\ f.cmd = "FIN" => f.n = x.seq[f.st] /\ x.finq[f.st]

AllOk(x, q) == \A k \in DOMAIN q : FrameOk(x, q[k])

FramesOk(x) ==
    /\ AllOk(x, x.sending) /\ AllOk(x, x.control) /\ AllOk(x, x.data)
    /\ \A s \in Streams : /\ AllOk(x, x.out[s])
                          /\ \A k \in DOMAIN x.out[s] : x.out[s][k].st = s

\* The frames of a stream, of which the first l have left, are spread over the
\* queues in the order in which they will leave.
Spread(x, s, l) ==
    \E a, b, c \in 0 .. x.seq[s] :
        /\ Carries(x.sending, s, l, a) /\ Carries(x.control, s, a, b)
        /\ Carries(x.data, s, b, c) /\ Carries(x.out[s], s, c, x.seq[s])

\* ... and the stream counts them.
StreamOk(x, s, l) ==
    /\ Spread(x, s, l) /\ x.queued[s] = x.seq[s] - l
    /\ x.state[s] \in {"free", "closed"} => x.queued[s] = 0
    /\ x.out[s] # <<>> => s \in Range(x.ready)

\* The frames in the queues of the streams, and their bytes.
OutFrames(o) == SumFunction([s \in Streams |-> Len(o[s])])
OutBytes(o) == SumFunction([s \in Streams |-> Bytes(o[s])])

\* The session counts the frames and their bytes.
Counted(x) ==
    /\ x.frames = Len(x.sending) + Len(x.control) + Len(x.data) + OutFrames(x.out)
    /\ x.pending = Bytes(x.sending) + Bytes(x.control) + Bytes(x.data) + OutBytes(x.out)

Sound(x, w) ==
    /\ x \in Mux /\ x.open
    /\ FramesOk(x) /\ Counted(x)
    /\ \A s \in Streams : StreamOk(x, s, Len(w[s]))

\* What was not queued yet, and what will not be queued any more.
StateOk(x, s) ==
    /\ x.state[s] = "connecting" => x.seq[s] = 0
    /\ x.finq[s] => x.state[s] \in {"closing", "closed"}

Sent == [cmd : Cmds, gen : Nat, n : Nat]

\* What left, of stream s.
WireOk(x, w, s) ==
    \A i \in DOMAIN w[s] :
        /\ w[s][i].n = i /\ w[s][i].gen = x.gen[s]
        /\ w[s][i].cmd = "SYNACK" => i = 1
        /\ w[s][i].cmd = "FIN" => i = x.seq[s] /\ x.finq[s]

\* What the session knows of the events to come.
Wakes(x) ==
    /\ x.pressure => x.armed
    /\ HasWriteTimeout /\ x.frames > 0 => x.timer

\* ... between handlers
WakesIdle(x) ==
    /\ HasWriteTimeout /\ x.posted => x.timer
    /\ x.sending # <<>> => x.armed
    /\ x.control # <<>> \/ x.data # <<>> \/ x.ready # <<>> => x.posted \/ x.armed

Loop ==
    /\ pc # "idle" /\ ~ending => ~m.posted
    /\ pc = "schedule" /\ m.sending # <<>> => m.armed
    /\ pc = "schedule" /\ (budget < DrainFrames \/ bytes > 0) => m.data # <<>>
    /\ pc = "release" => taken <= Len(m.sending)
    /\ budget <= DrainFrames

\* The inductive invariant.
MuxInv ==
    /\ TypeOK
    /\ \A s \in Streams : WireOk(m, wire, s)
    /\ pc # "idle" => m.open
    /\ m.open => /\ Sound(m, wire) /\ \A s \in Streams : StateOk(m, s)
                 /\ Wakes(m) /\ (pc = "idle" => WakesIdle(m)) /\ Loop
-----------------------------------------------------------------------------
(* A frame is linked behind a queue.                                       *)
LEMMA CarriesAppend ==
    ASSUME NEW q \in Seq(Frame), NEW s, NEW a, NEW b, Carries(q, s, a, b), NEW f \in Frame
    PROVE  /\ f.st # s => Carries(Append(q, f), s, a, b)
           /\ f.st = s /\ f.n = b + 1 => Carries(Append(q, f), s, a, b + 1)
  <1> DEFINE r == Append(q, f)
             n == Len(q)
  <1>1. a \in Nat /\ b \in Nat /\ a <= b /\ b + 1 \in Nat /\ a <= b + 1
    BY DEF Carries
  <1>2. /\ n \in Nat /\ Len(r) = n + 1 /\ r[n + 1] = f
        /\ \A k \in 1 .. n : r[k] = q[k]
    OBVIOUS
  <1>3. /\ \A k \in 1 .. n : q[k].st = s => q[k].n \in a + 1 .. b
        /\ \A i \in a + 1 .. b : \E k \in 1 .. n : q[k].st = s /\ q[k].n = i
        /\ \A j, k \in 1 .. n : j < k /\ q[j].st = s /\ q[k].st = s => q[j].n < q[k].n
    BY DEF Carries
  <1> HIDE DEF r, n
  <1>4. /\ n + 1 \in 1 .. n + 1
        /\ \A k \in 1 .. n + 1 : k \in 1 .. n \/ k = n + 1
        /\ \A k \in 1 .. n : k \in 1 .. n + 1
        /\ \A j, k \in 1 .. n + 1 : j < k => j \in 1 .. n
    BY <1>2
  <1>6. CASE f.st # s
    <2>1. \A k \in 1 .. n + 1 : r[k].st = s => k \in 1 .. n
      BY ONLY <1>2, <1>4, <1>6
    <2>2. \A k \in 1 .. n + 1 : r[k].st = s => r[k].n \in a + 1 .. b
      BY ONLY <2>1, <1>2, <1>3
    <2>3. \A i \in a + 1 .. b : \E k \in 1 .. n + 1 : r[k].st = s /\ r[k].n = i
      BY ONLY <1>2, <1>3, <1>4
    <2>4. \A j, k \in 1 .. n + 1 : j < k /\ r[j].st = s /\ r[k].st = s => r[j].n < r[k].n
      BY ONLY <2>1, <1>2, <1>3
    <2>5. Carries(r, s, a, b)
      BY ONLY <1>1, <1>2, <2>2, <2>3, <2>4 DEF Carries
    <2> QED  BY <2>5, <1>6 DEF r
  <1>7. CASE f.st = s /\ f.n = b + 1
    <2>1. \A k \in 1 .. n : r[k].st = s => r[k].n \in a + 1 .. b /\ r[k].n < b + 1
      BY <1>2, <1>3, <1>1
    <2>2. \A k \in 1 .. n + 1 : r[k].st = s => r[k].n \in a + 1 .. b + 1
      BY <2>1, <1>1, <1>2, <1>4, <1>7
    <2>3. \A i \in a + 1 .. b + 1 : \E k \in 1 .. n + 1 : r[k].st = s /\ r[k].n = i
      <3>1. \A i \in a + 1 .. b + 1 : i \in a + 1 .. b \/ i = b + 1
        BY <1>1
      <3>2. \A i \in a + 1 .. b : \E k \in 1 .. n + 1 : r[k].st = s /\ r[k].n = i
        BY ONLY <1>2, <1>3, <1>4
      <3>3. r[n + 1].st = s /\ r[n + 1].n = b + 1
        BY <1>2, <1>7
      <3> QED  BY ONLY <3>1, <3>2, <3>3, <1>4
    <2>4. ASSUME NEW j \in 1 .. n + 1, NEW k \in 1 .. n + 1, j < k, r[j].st = s, r[k].st = s
          PROVE  r[j].n < r[k].n
      <3>1. j \in 1 .. n
        BY <1>4, <2>4
      <3>2. CASE k \in 1 .. n
        BY <1>2, <1>3, <2>4, <3>1, <3>2
      <3>3. CASE k = n + 1
        BY <3>1, <3>3, <2>1, <2>4, <1>2, <1>7
      <3> QED  BY <3>2, <3>3, <1>4
    <2>5. Carries(r, s, a, b + 1)
      BY ONLY <1>1, <1>2, <2>2, <2>3, <2>4 DEF Carries
    <2> QED  BY <2>5, <1>7 DEF r
  <1> QED  BY <1>6, <1>7 DEF r

(* The first frame of a queue is taken.                                    *)
LEMMA CarriesTail ==
    ASSUME NEW q \in Seq(Frame), q # <<>>, NEW s, NEW a, NEW b, Carries(q, s, a, b)
    PROVE  /\ Head(q).st # s => Carries(Tail(q), s, a, b)
           /\ Head(q).st = s => /\ Head(q).n = a + 1 /\ a < b
                                /\ Carries(Tail(q), s, a + 1, b)
  <1> DEFINE r == Tail(q)
             n == Len(q) - 1
             h == Head(q)
  <1>1. a \in Nat /\ b \in Nat /\ a <= b
    BY DEF Carries
  <1>2. /\ n \in Nat /\ Len(r) = n /\ Len(q) = n + 1 /\ h = q[1]
        /\ \A k \in 1 .. n : r[k] = q[k + 1]
    OBVIOUS
  <1>3. /\ \A k \in 1 .. n + 1 : q[k].st = s => q[k].n \in a + 1 .. b
        /\ \A i \in a + 1 .. b : \E k \in 1 .. n + 1 : q[k].st = s /\ q[k].n = i
        /\ \A j, k \in 1 .. n + 1 : j < k /\ q[j].st = s /\ q[k].st = s => q[j].n < q[k].n
    BY <1>2 DEF Carries
  <1> HIDE DEF r, n, h
  <1>4. 1 \in 1 .. n + 1 /\ \A k \in 1 .. n : k + 1 \in 1 .. n + 1 /\ 1 < k + 1
    BY <1>2
  <1>5. \A k \in 1 .. n + 1 : k = 1 \/ \E l \in 1 .. n : l + 1 = k
    <2> SUFFICES ASSUME NEW k \in 1 .. n + 1, k # 1 PROVE \E l \in 1 .. n : l + 1 = k
      OBVIOUS
    <2>1. k - 1 \in 1 .. n /\ (k - 1) + 1 = k
      BY <1>2
    <2> QED  BY <2>1
  <1>6. /\ \A k \in 1 .. n : r[k].st = s => r[k].n \in a + 1 .. b
        /\ \A i \in a + 1 .. b : (h.st = s /\ h.n = i) \/ \E k \in 1 .. n : r[k].st = s /\ r[k].n = i
    <2>1. ASSUME NEW k \in 1 .. n, r[k].st = s
          PROVE  r[k].n \in a + 1 .. b
      BY ONLY <1>2, <1>3, <1>4, <2>1, k \in 1 .. n
    <2>2. ASSUME NEW i, i \in a + 1 .. b, ~ (h.st = s /\ h.n = i)
          PROVE  \E k \in 1 .. n : r[k].st = s /\ r[k].n = i
      <3>1. PICK k \in 1 .. n + 1 : q[k].st = s /\ q[k].n = i
        BY ONLY <1>3, <2>2
      <3>2. k # 1
        BY <3>1, <2>2, <1>2
      <3>3. PICK l \in 1 .. n : l + 1 = k
        BY <3>2, <1>5
      <3>4. r[l] = q[k]
        BY <3>3, <1>2
      <3> QED  BY <3>4, <3>1
    <2> QED  BY <2>1, <2>2
  <1>7. ASSUME NEW j \in 1 .. n, NEW k \in 1 .. n, j < k, r[j].st = s, r[k].st = s
        PROVE  r[j].n < r[k].n
    <2>1. j + 1 \in 1 .. n + 1 /\ k + 1 \in 1 .. n + 1 /\ j + 1 < k + 1
      BY <1>4, <1>7
    <2> QED  BY <2>1, <1>2, <1>3, <1>7
  <1>8. CASE h.st # s
    <2>1. \A i \in a + 1 .. b : \E k \in 1 .. n : r[k].st = s /\ r[k].n = i
      BY ONLY <1>6, <1>8
    <2>2. Carries(r, s, a, b)
      BY ONLY <1>1, <1>2, <1>6, <1>7, <2>1 DEF Carries
    <2> QED  BY <2>2, <1>8 DEF r, h
  <1>9. CASE h.st = s
    <2>1. h.n \in a + 1 .. b
      BY <1>2, <1>3, <1>4, <1>9
    <2>2. \A k \in 1 .. n : r[k].st = s => h.n < r[k].n
      <3> SUFFICES ASSUME NEW k \in 1 .. n, r[k].st = s PROVE h.n < r[k].n
        OBVIOUS
      <3>1. k + 1 \in 1 .. n + 1 /\ 1 < k + 1 /\ r[k] = q[k + 1]
        BY <1>2, <1>4
      <3> QED  BY <3>1, <1>2, <1>3, <1>4, <1>9
    <2>3. h.n = a + 1 /\ a < b
      <3>1. a + 1 \in a + 1 .. b
        BY <2>1, <1>1
      <3>2. h.n = a + 1 \/ \E k \in 1 .. n : r[k].st = s /\ r[k].n = a + 1
        BY <3>1, <1>6
      <3>3. h.n = a + 1
        BY <3>2, <2>1, <2>2, <1>1
      <3> QED  BY <3>1, <3>3, <1>1
    <2>4. \A k \in 1 .. n : r[k].st = s => r[k].n \in (a + 1) + 1 .. b
      <3> SUFFICES ASSUME NEW k \in 1 .. n, r[k].st = s PROVE r[k].n \in (a + 1) + 1 .. b
        OBVIOUS
      <3>1. r[k].n \in a + 1 .. b /\ h.n < r[k].n
        BY <1>6, <2>2
      <3> QED  BY <3>1, <2>3, <1>1
    <2>5. \A i \in (a + 1) + 1 .. b : \E k \in 1 .. n : r[k].st = s /\ r[k].n = i
      <3> SUFFICES ASSUME NEW i \in (a + 1) + 1 .. b
                   PROVE  \E k \in 1 .. n : r[k].st = s /\ r[k].n = i
        OBVIOUS
      <3>1. i \in a + 1 .. b /\ i # a + 1
        BY <1>1
      <3> QED  BY <3>1, <1>6, <2>3
    <2>6. a + 1 \in Nat /\ a + 1 <= b
      BY <1>1, <2>3
    <2>7. Carries(r, s, a + 1, b)
      BY ONLY <1>1, <1>2, <1>7, <2>4, <2>5, <2>6 DEF Carries
    <2> QED  BY <2>3, <2>7, <1>9 DEF r, h
  <1> QED  BY <1>8, <1>9 DEF r, h

(* The chain to send: one queue behind another.                            *)
LEMMA CarriesConcat ==
    ASSUME NEW p \in Seq(Frame), NEW q \in Seq(Frame), NEW s, NEW a, NEW b, NEW c,
           Carries(p, s, a, b), Carries(q, s, b, c)
    PROVE  Carries(p \o q, s, a, c)
  <1> DEFINE r == p \o q
             n == Len(p)
             l == Len(q)
  <1>1. a \in Nat /\ b \in Nat /\ c \in Nat /\ a <= b /\ b <= c /\ a <= c
    BY DEF Carries
  <1>2. /\ n \in Nat /\ l \in Nat /\ Len(r) = n + l
        /\ \A k \in 1 .. n : r[k] = p[k]
        /\ \A k \in 1 .. l : r[n + k] = q[k]
    OBVIOUS
  <1>3. /\ \A k \in 1 .. n : p[k].st = s => p[k].n \in a + 1 .. b
        /\ \A i \in a + 1 .. b : \E k \in 1 .. n : p[k].st = s /\ p[k].n = i
        /\ \A j, k \in 1 .. n : j < k /\ p[j].st = s /\ p[k].st = s => p[j].n < p[k].n
    BY DEF Carries
  <1>4. /\ \A k \in 1 .. l : q[k].st = s => q[k].n \in b + 1 .. c
        /\ \A i \in b + 1 .. c : \E k \in 1 .. l : q[k].st = s /\ q[k].n = i
        /\ \A j, k \in 1 .. l : j < k /\ q[j].st = s /\ q[k].st = s => q[j].n < q[k].n
    BY DEF Carries
  <1> HIDE DEF r, n, l
  <1>5. /\ \A k \in 1 .. n : k \in 1 .. n + l
        /\ \A k \in 1 .. l : n + k \in 1 .. n + l
    BY <1>2
  <1>6. ASSUME NEW k, k \in 1 .. n + l
        PROVE  k \in 1 .. n \/ \E j \in 1 .. l : k = n + j
    <2> SUFFICES ASSUME k \notin 1 .. n PROVE \E j \in 1 .. l : k = n + j
      OBVIOUS
    <2>1. k - n \in 1 .. l /\ k = n + (k - n)
      BY <1>2, <1>6
    <2> QED  BY <2>1
  <1>7. ASSUME NEW k, k \in 1 .. n + l, r[k].st = s
        PROVE  r[k].n \in a + 1 .. c
    <2>1. CASE k \in 1 .. n
      <3>1. r[k].n \in a + 1 .. b
        BY <1>2, <1>3, <1>7, <2>1
      <3> QED  BY <3>1, <1>1
    <2>2. ASSUME NEW j \in 1 .. l, k = n + j PROVE r[k].n \in a + 1 .. c
      <3>1. r[k].n \in b + 1 .. c
        BY <1>2, <1>4, <1>7, <2>2
      <3> QED  BY <3>1, <1>1
    <2> QED  BY <1>6, <1>7, <2>1, <2>2
  <1>8. ASSUME NEW i, i \in a + 1 .. c
        PROVE  \E k \in 1 .. n + l : r[k].st = s /\ r[k].n = i
    <2>1. CASE i \in a + 1 .. b
      <3>1. PICK k \in 1 .. n : p[k].st = s /\ p[k].n = i
        BY <1>3, <2>1
      <3>2. k \in 1 .. n + l /\ r[k] = p[k]
        BY <1>2, <1>5
      <3> QED  BY <3>1, <3>2
    <2>2. CASE i \in b + 1 .. c
      <3>1. PICK k \in 1 .. l : q[k].st = s /\ q[k].n = i
        BY <1>4, <2>2
      <3>2. n + k \in 1 .. n + l /\ r[n + k] = q[k]
        BY <1>2, <1>5
      <3> QED  BY <3>1, <3>2
    <2>3. i \in a + 1 .. b \/ i \in b + 1 .. c
      BY <1>1, <1>8
    <2> QED  BY <2>1, <2>2, <2>3
  <1>9. ASSUME NEW j, NEW k, j \in 1 .. n + l, k \in 1 .. n + l, j < k, r[j].st = s, r[k].st = s
        PROVE  r[j].n < r[k].n
    <2>1. CASE j \in 1 .. n /\ k \in 1 .. n
      BY <1>2, <1>3, <1>9, <2>1
    <2>2. ASSUME NEW g \in 1 .. l, k = n + g, j \in 1 .. n PROVE r[j].n < r[k].n
      <3>1. r[j].n \in a + 1 .. b
        BY <1>2, <1>3, <1>9, <2>2
      <3>2. r[k].n \in b + 1 .. c
        BY <1>2, <1>4, <1>9, <2>2
      <3> QED  BY <3>1, <3>2, <1>1
    <2>3. ASSUME NEW f \in 1 .. l, NEW g \in 1 .. l, j = n + f, k = n + g PROVE r[j].n < r[k].n
      <3>1. f < g
        BY <1>2, <1>9, <2>3
      <3>2. r[j] = q[f] /\ r[k] = q[g]
        BY <1>2, <2>3
      <3> QED  BY <3>1, <3>2, <1>4, <1>9
    <2>4. ASSUME NEW f \in 1 .. l, j = n + f, k \in 1 .. n PROVE FALSE
      BY <1>2, <1>9, <2>4
    <2> QED  BY <1>6, <1>9, <2>1, <2>2, <2>3, <2>4
  <1>10. Carries(r, s, a, c)
    BY ONLY <1>1, <1>2, <1>7, <1>8, <1>9 DEF Carries
  <1> QED  BY <1>10 DEF r

(* The empty queue, and a queue that carries nothing.                      *)
LEMMA CarriesEmpty ==
    ASSUME NEW s, NEW a \in Nat
    PROVE  Carries(<<>>, s, a, a)
  <1>1. a + 1 .. a = {} /\ Len(<<>>) = 0 /\ 1 .. 0 = {} /\ a <= a
    OBVIOUS
  <1> QED  BY <1>1 DEF Carries

LEMMA CarriesNothing ==
    ASSUME NEW q, NEW s, NEW a, NEW b, Carries(q, s, a, b)
    PROVE  /\ q = <<>> => a = b
           /\ a = b => \A k \in 1 .. Len(q) : q[k].st # s
  <1>1. a \in Nat /\ b \in Nat /\ a <= b
    BY DEF Carries
  <1>2. ASSUME q = <<>> PROVE a = b
    <2>1. Len(q) = 0 /\ 1 .. 0 = {}
      BY <1>2
    <2>2. a + 1 \notin a + 1 .. b
      BY <2>1 DEF Carries
    <2> QED  BY <2>2, <1>1
  <1>3. ASSUME a = b, NEW k \in 1 .. Len(q), q[k].st = s PROVE FALSE
    <2>1. q[k].n \in a + 1 .. b
      BY <1>3 DEF Carries
    <2> QED  BY <2>1, <1>1, <1>3
  <1> QED  BY <1>2, <1>3

(* A queue of other streams' frames.                                       *)
LEMMA CarriesForeign ==
    ASSUME NEW q, NEW s, NEW a \in Nat, \A k \in 1 .. Len(q) : q[k].st # s
    PROVE  Carries(q, s, a, a)
  <1>1. a + 1 .. a = {} /\ a <= a
    OBVIOUS
  <1> QED  BY <1>1 DEF Carries

(* The frames are as many as their numbers.                                *)
LEMMA CarriesCount ==
    ASSUME NEW q, NEW s, NEW a, NEW b, Carries(q, s, a, b), Len(q) \in Nat
    PROVE  Cardinality({k \in 1 .. Len(q) : q[k].st = s}) = b - a
  <1> DEFINE K == {k \in 1 .. Len(q) : q[k].st = s}
             N == a + 1 .. b
             f == [k \in K |-> q[k].n]
  <1>1. a \in Nat /\ b \in Nat /\ a <= b
    BY DEF Carries
  <1>2. /\ \A k \in K : q[k].n \in N
        /\ \A i \in N : \E k \in K : q[k].n = i
        /\ \A j, k \in K : j < k => q[j].n < q[k].n
    BY DEF Carries
  <1>3. \A k \in K : k \in Int
    OBVIOUS
  <1>4. \A i \in N : i \in Int
    BY <1>1
  <1>5. IsFiniteSet(N) /\ Cardinality(N) = b - a
    <2>1. a + 1 \in Int /\ b \in Int
      BY <1>1
    <2>2. IsFiniteSet(N) /\ Cardinality(N) = IF a + 1 > b THEN 0 ELSE b - (a + 1) + 1
      BY <2>1, FS_Interval
    <2> QED  BY <2>2, <1>1
  <1>6. IsFiniteSet(K)
    <2>1. IsFiniteSet(1 .. Len(q))
      BY FS_Interval
    <2> QED  BY <2>1, FS_Subset
  <1> HIDE DEF K, N
  <1>7. f \in [K -> N]
    BY <1>2
  <1>8. \A j, k \in K : f[j] = f[k] => j = k
    <2> SUFFICES ASSUME NEW j \in K, NEW k \in K, f[j] = f[k] PROVE j = k
      OBVIOUS
    <2>1. q[j].n = q[k].n /\ q[j].n \in Int
      BY <1>2, <1>4
    <2> QED  BY <2>1, <1>2, <1>3
  <1>9. \A i \in N : \E k \in K : f[k] = i
    BY <1>2
  <1> HIDE DEF f
  <1>10. f \in Bijection(K, N)
    BY <1>7, <1>8, <1>9 DEF Bijection, Injection, Surjection, IsInjective
  <1>11. ExistsBijection(K, N)
    BY <1>10 DEF ExistsBijection
  <1>12. Cardinality(K) = Cardinality(N)
    BY <1>5, <1>6, <1>11, FS_Bijection
  <1> QED  BY <1>5, <1>12 DEF K
-----------------------------------------------------------------------------
(* The bytes of a queue.                                                   *)
Lens(q) == [i \in DOMAIN q |-> q[i].len]

LEMMA LensType ==
    ASSUME NEW q \in Seq(Frame)
    PROVE  /\ Lens(q) \in Seq(Int) /\ Lens(q) \in [1 .. Len(q) -> Nat]
           /\ Bytes(q) = SumFunction(Lens(q))
  <1>1. DOMAIN q = 1 .. Len(q) /\ Len(q) \in Nat /\ \A i \in 1 .. Len(q) : q[i] \in Frame
    OBVIOUS
  <1>2. \A i \in 1 .. Len(q) : q[i].len \in Nat
    BY <1>1 DEF Frame
  <1>3. Lens(q) = [i \in 1 .. Len(q) |-> q[i].len]
    BY <1>1 DEF Lens
  <1>4. Lens(q) \in [1 .. Len(q) -> Nat] /\ Lens(q) \in Seq(Int)
    BY <1>1, <1>2, <1>3
  <1> QED  BY <1>4 DEF Bytes, Lens

LEMMA BytesType ==
    ASSUME NEW q \in Seq(Frame)
    PROVE  Bytes(q) \in Nat
  <1>1. IsFiniteSet(1 .. Len(q))
    BY FS_Interval
  <1> QED  BY <1>1, LensType, SumOfNaturals

(* A sequence is put together of its two parts.                            *)
LEMMA LikeConcat ==
    ASSUME NEW f \in Seq(Int), NEW h \in Seq(Int), NEW g \in Seq(Int),
           Len(g) = Len(f) + Len(h), \A i \in 1 .. Len(f) : g[i] = f[i],
           \A i \in 1 .. Len(h) : g[Len(f) + i] = h[i]
    PROVE  g = f \o h
  <1> DEFINE e == f \o h
             n == Len(f)
             l == Len(h)
  <1>1. /\ e \in Seq(Int) /\ Len(e) = n + l
        /\ \A i \in 1 .. n + l : e[i] = IF i <= n THEN f[i] ELSE h[i - n]
    BY ConcatProperties
  <1>5. /\ n \in Nat /\ l \in Nat /\ Len(g) = n + l
        /\ \A i \in 1 .. n : g[i] = f[i]
        /\ \A i \in 1 .. l : g[n + i] = h[i]
    OBVIOUS
  <1> HIDE DEF e, n, l
  <1>3. ASSUME NEW i \in 1 .. n + l PROVE g[i] = e[i]
    <2>1. CASE i \in 1 .. n
      BY <1>1, <1>5, <2>1
    <2>2. CASE i \notin 1 .. n
      <3>1. i - n \in 1 .. l /\ n + (i - n) = i /\ ~(i <= n)
        BY <1>5, <2>2
      <3>2. g[n + (i - n)] = h[i - n]
        BY <1>5, <3>1
      <3>3. e[i] = h[i - n]
        BY <1>1, <3>1
      <3> QED  BY <3>1, <3>2, <3>3
    <2> QED  BY <2>1, <2>2
  <1>4. g = e
    <2>1. g = [i \in 1 .. n + l |-> g[i]] /\ e = [i \in 1 .. n + l |-> e[i]]
      BY <1>1, <1>5
    <2> QED  BY ONLY <1>3, <2>1
  <1> QED  BY <1>4 DEF e

LEMMA BytesConcat ==
    ASSUME NEW p \in Seq(Frame), NEW q \in Seq(Frame)
    PROVE  Bytes(p \o q) = Bytes(p) + Bytes(q)
  <1> DEFINE r == p \o q
             n == Len(p)
             l == Len(q)
  <1>1. /\ n \in Nat /\ l \in Nat /\ r \in Seq(Frame) /\ Len(r) = n + l
        /\ DOMAIN r = 1 .. n + l /\ DOMAIN p = 1 .. n /\ DOMAIN q = 1 .. l
        /\ \A i \in 1 .. n : r[i] = p[i]
        /\ \A i \in 1 .. l : r[n + i] = q[i]
    OBVIOUS
  <1>2. /\ Lens(p) \in Seq(Int) /\ Lens(q) \in Seq(Int) /\ Lens(r) \in Seq(Int)
        /\ Lens(p) \in [1 .. n -> Nat] /\ Lens(q) \in [1 .. l -> Nat] /\ Lens(r) \in [1 .. n + l -> Nat]
        /\ Bytes(p) = SumFunction(Lens(p)) /\ Bytes(q) = SumFunction(Lens(q))
        /\ Bytes(r) = SumFunction(Lens(r))
    BY <1>1, LensType
  <1>3. /\ \A i \in 1 .. n + l : Lens(r)[i] = r[i].len
        /\ \A i \in 1 .. n : Lens(p)[i] = p[i].len
        /\ \A i \in 1 .. l : Lens(q)[i] = q[i].len
    BY <1>1 DEF Lens
  <1> HIDE DEF r, n, l
  <1>4. Lens(r) = Lens(p) \o Lens(q)
    <2>1. Len(Lens(p)) = n /\ Len(Lens(q)) = l /\ Len(Lens(r)) = n + l
      BY <1>1, <1>2
    <2>2. /\ \A i \in 1 .. n : i \in 1 .. n + l
          /\ \A i \in 1 .. l : n + i \in 1 .. n + l
      BY <1>1
    <2>3. \A i \in 1 .. n : Lens(r)[i] = Lens(p)[i]
      BY <1>1, <1>3, <2>2
    <2>4. \A i \in 1 .. l : Lens(r)[n + i] = Lens(q)[i]
      BY <1>1, <1>3, <2>2
    <2> QED  BY <1>2, <2>1, <2>3, <2>4, LikeConcat
  <1>5. SumFunction(Lens(r)) = SumFunction(Lens(p)) + SumFunction(Lens(q))
    BY <1>2, <1>4, SumOfConcat
  <1> QED  BY <1>2, <1>5 DEF r

LEMMA BytesOne ==
    ASSUME NEW f \in Frame
    PROVE  Bytes(<<f>>) = f.len
  <1> DEFINE q == <<f>>
             z == [i \in {1} |-> 0]
             h == Lens(q)
  <1>1. q \in Seq(Frame) /\ Len(q) = 1 /\ q[1] = f /\ 1 .. 1 = {1} /\ DOMAIN q = {1}
    OBVIOUS
  <1>2. h \in [{1} -> Nat] /\ Bytes(q) = SumFunction(h)
    BY <1>1, LensType
  <1>3. h[1] = f.len
    BY <1>1 DEF Lens
  <1>4. IsFiniteSet({1})
    BY FS_Singleton
  <1>5. z \in [{1} -> Int] /\ z[1] = 0 /\ h \in [{1} -> Int]
    BY <1>2
  <1> HIDE DEF q, z, h
  <1>6. SumFunction(z) = 0
    BY <1>4, <1>5, SumOfZero
  <1>7. SameBut({1}, z, h, 1)
    BY <1>5 DEF SameBut
  <1>8. SumFunction(h) = SumFunction(z) + h[1] - z[1]
    BY <1>4, <1>5, <1>7, SumOfUpdate
  <1>9. f.len \in Nat
    BY DEF Frame
  <1> QED  BY <1>2, <1>3, <1>5, <1>6, <1>8, <1>9 DEF q

LEMMA BytesAppend ==
    ASSUME NEW q \in Seq(Frame), NEW f \in Frame
    PROVE  Bytes(Append(q, f)) = Bytes(q) + f.len
  <1>1. Append(q, f) = q \o <<f>> /\ <<f>> \in Seq(Frame)
    OBVIOUS
  <1> QED  BY <1>1, BytesConcat, BytesOne

LEMMA BytesTail ==
    ASSUME NEW q \in Seq(Frame), q # <<>>
    PROVE  /\ Head(q) \in Frame /\ Tail(q) \in Seq(Frame) /\ Len(q) = Len(Tail(q)) + 1
           /\ Bytes(q) = Head(q).len + Bytes(Tail(q))
  <1>1. /\ Head(q) \in Frame /\ Tail(q) \in Seq(Frame) /\ <<Head(q)>> \in Seq(Frame)
        /\ Len(q) = Len(Tail(q)) + 1
    OBVIOUS
  <1>2. q = <<Head(q)>> \o Tail(q)
    OBVIOUS
  <1>3. Bytes(<<Head(q)>> \o Tail(q)) = Bytes(<<Head(q)>>) + Bytes(Tail(q))
    BY ONLY <1>1, BytesConcat
  <1>4. Bytes(<<Head(q)>>) = Head(q).len
    BY <1>1, BytesOne
  <1> QED  BY <1>1, <1>2, <1>3, <1>4

LEMMA BytesEmpty == Bytes(<<>>) = 0
  <1> DEFINE h == Lens(<<>>)
  <1>1. DOMAIN h = {} /\ h \in [{} -> Int] /\ Bytes(<<>>) = SumFunction(h)
    BY DEF Lens, Bytes
  <1> HIDE DEF h
  <1>2. IsFiniteSet({}) /\ \A s \in {} : h[s] = 0
    BY FS_EmptySet
  <1>3. SumFunction(h) = 0
    BY <1>1, <1>2, SumOfZero
  <1> QED  BY <1>1, <1>3

(* The frames in the queues of the streams, when one of them changes.      *)
LEMMA OutTotals ==
    ASSUME NEW o \in [Streams -> Seq(Frame)]
    PROVE  /\ OutFrames(o) \in Nat /\ OutBytes(o) \in Nat
           /\ (\A s \in Streams : o[s] = <<>>) => OutFrames(o) = 0 /\ OutBytes(o) = 0
  <1> DEFINE L == [s \in Streams |-> Len(o[s])]
             B == [s \in Streams |-> Bytes(o[s])]
  <1>1. \A s \in Streams : Len(o[s]) \in Nat /\ Bytes(o[s]) \in Nat
    BY BytesType
  <1>2. L \in [Streams -> Nat] /\ B \in [Streams -> Nat] /\ IsFiniteSet(Streams)
    BY <1>1, MuxAssumption
  <1>3. L \in [Streams -> Int] /\ B \in [Streams -> Int]
    BY <1>2
  <1>4. ASSUME \A s \in Streams : o[s] = <<>>
        PROVE  \A s \in Streams : L[s] = 0 /\ B[s] = 0
    BY <1>4, BytesEmpty
  <1>5. OutFrames(o) = SumFunction(L) /\ OutBytes(o) = SumFunction(B)
    BY DEF OutFrames, OutBytes
  <1> HIDE DEF L, B
  <1>6. SumFunction(L) \in Nat /\ SumFunction(B) \in Nat
    BY <1>2, SumOfNaturals
  <1>7. (\A s \in Streams : o[s] = <<>>) => SumFunction(L) = 0 /\ SumFunction(B) = 0
    BY <1>2, <1>3, <1>4, SumOfZero
  <1> QED  BY <1>5, <1>6, <1>7

LEMMA OutChanges ==
    ASSUME NEW o \in [Streams -> Seq(Frame)], NEW p \in [Streams -> Seq(Frame)],
           NEW s \in Streams, \A t \in Streams \ {s} : p[t] = o[t]
    PROVE  /\ OutFrames(p) = OutFrames(o) + Len(p[s]) - Len(o[s])
           /\ OutBytes(p) = OutBytes(o) + Bytes(p[s]) - Bytes(o[s])
  <1> DEFINE L == [t \in Streams |-> Len(o[t])]
             B == [t \in Streams |-> Bytes(o[t])]
             M == [t \in Streams |-> Len(p[t])]
             C == [t \in Streams |-> Bytes(p[t])]
  <1>1. \A t \in Streams : Len(o[t]) \in Nat /\ Bytes(o[t]) \in Nat /\ Len(p[t]) \in Nat /\ Bytes(p[t]) \in Nat
    BY BytesType
  <1>2. /\ L \in [Streams -> Int] /\ B \in [Streams -> Int] /\ M \in [Streams -> Int]
        /\ C \in [Streams -> Int] /\ IsFiniteSet(Streams)
    BY <1>1, MuxAssumption
  <1>3. /\ OutFrames(o) = SumFunction(L) /\ OutBytes(o) = SumFunction(B)
        /\ OutFrames(p) = SumFunction(M) /\ OutBytes(p) = SumFunction(C)
    BY DEF OutFrames, OutBytes
  <1>4. SameBut(Streams, L, M, s) /\ SameBut(Streams, B, C, s)
    BY DEF SameBut
  <1>5. L[s] = Len(o[s]) /\ B[s] = Bytes(o[s]) /\ M[s] = Len(p[s]) /\ C[s] = Bytes(p[s])
    OBVIOUS
  <1> HIDE DEF L, B, M, C
  <1>6. SumFunction(M) = SumFunction(L) + M[s] - L[s]
    BY <1>2, <1>4, SumOfUpdate
  <1>7. SumFunction(C) = SumFunction(B) + C[s] - B[s]
    BY <1>2, <1>4, SumOfUpdate
  <1> QED  BY <1>3, <1>5, <1>6, <1>7
-----------------------------------------------------------------------------
(* The fields of the mux.                                                  *)
LEMMA MuxFields ==
    ASSUME NEW x \in Mux
    PROVE  /\ x.state \in [Streams -> States] /\ x.up \in [Streams -> BOOLEAN]
           /\ x.gen \in [Streams -> Nat] /\ x.seq \in [Streams -> Nat]
           /\ x.queued \in [Streams -> Nat] /\ x.out \in [Streams -> Seq(Frame)]
           /\ x.direct \in [Streams -> Nat] /\ x.finq \in [Streams -> BOOLEAN]
           /\ x.control \in Seq(Frame) /\ x.data \in Seq(Frame) /\ x.sending \in Seq(Frame)
           /\ x.ready \in Seq(Streams) /\ x.pending \in Nat /\ x.frames \in Nat /\ x.controls \in Nat
           /\ x.open \in BOOLEAN /\ x.pressure \in BOOLEAN /\ x.posted \in BOOLEAN
           /\ x.armed \in BOOLEAN /\ x.timer \in BOOLEAN
  BY DEF Mux

\* A frame that was right stays right: nothing follows a FIN.
Advances(x, y) ==
    /\ y.gen = x.gen
    /\ \A t \in Streams : x.finq[t] => y.finq[t] /\ y.seq[t] = x.seq[t]

LEMMA AllOkKept ==
    ASSUME NEW x, NEW y, Advances(x, y), NEW q, AllOk(x, q)
    PROVE  AllOk(y, q)
  <1> SUFFICES ASSUME NEW k \in DOMAIN q PROVE FrameOk(y, q[k])
    BY DEF AllOk
  <1>1. FrameOk(x, q[k])
    BY DEF AllOk
  <1> QED  BY <1>1 DEF Advances, FrameOk

LEMMA WireKept ==
    ASSUME NEW x, NEW y, Advances(x, y), NEW w, NEW s \in Streams, WireOk(x, w, s)
    PROVE  WireOk(y, w, s)
  BY DEF Advances, WireOk

LEMMA FramesKept ==
    ASSUME NEW x, NEW y, Advances(x, y), FramesOk(x),
           y.sending = x.sending, y.control = x.control, y.data = x.data, y.out = x.out
    PROVE  FramesOk(y)
  BY AllOkKept DEF FramesOk

LEMMA AllOkAppend ==
    ASSUME NEW x, NEW q \in Seq(Frame), AllOk(x, q), NEW f \in Frame, FrameOk(x, f)
    PROVE  AllOk(x, Append(q, f))
  <1> SUFFICES ASSUME NEW k \in DOMAIN Append(q, f) PROVE FrameOk(x, Append(q, f)[k])
    BY DEF AllOk
  <1>1. k \in 1 .. Len(q) + 1
    OBVIOUS
  <1>2. CASE k = Len(q) + 1
    <2>1. Append(q, f)[k] = f
      BY <1>2
    <2> QED  BY <2>1
  <1>3. CASE k \in 1 .. Len(q)
    <2>1. Append(q, f)[k] = q[k] /\ k \in DOMAIN q
      BY <1>3
    <2> QED  BY <2>1 DEF AllOk
  <1> QED  BY <1>1, <1>2, <1>3

LEMMA AllOkTail ==
    ASSUME NEW x, NEW q \in Seq(Frame), q # <<>>, AllOk(x, q)
    PROVE  FrameOk(x, Head(q)) /\ AllOk(x, Tail(q))
  <1>1. 1 \in DOMAIN q /\ Head(q) = q[1]
    OBVIOUS
  <1>2. ASSUME NEW k \in DOMAIN Tail(q) PROVE FrameOk(x, Tail(q)[k])
    <2>1. k + 1 \in DOMAIN q /\ Tail(q)[k] = q[k + 1]
      OBVIOUS
    <2> QED  BY <2>1 DEF AllOk
  <1> QED  BY <1>1, <1>2 DEF AllOk

LEMMA AllOkConcat ==
    ASSUME NEW x, NEW p \in Seq(Frame), NEW q \in Seq(Frame), AllOk(x, p), AllOk(x, q)
    PROVE  AllOk(x, p \o q)
  <1> SUFFICES ASSUME NEW k \in DOMAIN (p \o q) PROVE FrameOk(x, (p \o q)[k])
    BY DEF AllOk
  <1>1. k \in 1 .. Len(p) + Len(q)
    OBVIOUS
  <1>2. CASE k \in 1 .. Len(p)
    <2>1. (p \o q)[k] = p[k] /\ k \in DOMAIN p
      BY <1>2
    <2> QED  BY <2>1 DEF AllOk
  <1>3. CASE k \notin 1 .. Len(p)
    <2>1. (p \o q)[k] = q[k - Len(p)] /\ k - Len(p) \in DOMAIN q
      BY <1>1, <1>3
    <2> QED  BY <2>1 DEF AllOk
  <1> QED  BY <1>2, <1>3

\* The counters and the queues of frames are the same.
SameFrames(x, y) ==
    /\ y.gen = x.gen /\ y.seq = x.seq /\ y.finq = x.finq /\ y.queued = x.queued
    /\ y.out = x.out /\ y.control = x.control /\ y.data = x.data /\ y.sending = x.sending
    /\ y.frames = x.frames /\ y.pending = x.pending

LEMMA SoundSame ==
    ASSUME NEW x, NEW w, Sound(x, w), NEW y \in Mux, y.open, SameFrames(x, y),
           \A t \in Streams : y.state[t] \in {"free", "closed"} => x.queued[t] = 0,
           \A t \in Streams : x.out[t] # <<>> => t \in Range(y.ready)
    PROVE  Sound(y, w)
  <1>1. Advances(x, y)
    BY DEF SameFrames, Advances
  <1>2. FramesOk(y)
    BY <1>1, FramesKept DEF SameFrames, Sound
  <1>3. Counted(y)
    BY DEF SameFrames, Sound, Counted
  <1>4. ASSUME NEW s \in Streams PROVE StreamOk(y, s, Len(w[s]))
    <2>1. StreamOk(x, s, Len(w[s]))
      BY DEF Sound
    <2>2. Spread(y, s, Len(w[s]))
      BY <2>1 DEF SameFrames, StreamOk, Spread
    <2> QED  BY <2>1, <2>2 DEF SameFrames, StreamOk
  <1> QED  BY <1>2, <1>3, <1>4 DEF Sound

\* What happens to the frames of s leaves the other streams alone.
OnlyOf(x, y, s) ==
    /\ Advances(x, y)
    /\ \A t \in Streams \ {s} :
          y.state[t] = x.state[t] /\ y.seq[t] = x.seq[t] /\ (y.finq[t] <=> x.finq[t])

LEMMA OnlyTwice ==
    ASSUME NEW x, NEW y, NEW z, NEW s, OnlyOf(x, y, s), OnlyOf(y, z, s)
    PROVE  OnlyOf(x, z, s)
  BY DEF OnlyOf, Advances

-----------------------------------------------------------------------------
(* The write event is posted.                                              *)
LEMMA Posted ==
    ASSUME NEW x \in Mux
    PROVE  /\ PostWrite(x) \in Mux
           /\ \E t \in BOOLEAN : /\ PostWrite(x) = [x EXCEPT !.posted = TRUE, !.timer = t]
                                 /\ x.timer => t
                                 /\ HasWriteTimeout /\ (x.posted => x.timer) => t
  <1>1. CASE x.posted
    <2>1. PostWrite(x) = x
      BY <1>1 DEF PostWrite
    <2>2. x = [x EXCEPT !.posted = TRUE, !.timer = x.timer]
      BY <1>1 DEF Mux
    <2>3. x.timer \in BOOLEAN
      BY DEF Mux
    <2> QED  BY <2>1, <2>2, <2>3, <1>1
  <1>2. CASE ~x.posted
    <2>1. PostWrite(x) = [x EXCEPT !.posted = TRUE, !.timer = x.timer \/ HasWriteTimeout]
      BY <1>2 DEF PostWrite, Mux
    <2>2. (x.timer \/ HasWriteTimeout) \in BOOLEAN
      BY DEF Mux
    <2>3. PostWrite(x) \in Mux
      <3>1. [x EXCEPT !.posted = TRUE, !.timer = TRUE] \in Mux
        BY DEF Mux
      <3>2. [x EXCEPT !.posted = TRUE, !.timer = FALSE] \in Mux
        BY DEF Mux
      <3>3. CASE x.timer \/ HasWriteTimeout
        <4>1. (x.timer \/ HasWriteTimeout) = TRUE
          BY <3>3
        <4> QED  BY ONLY <2>1, <3>1, <4>1
      <3>4. CASE ~(x.timer \/ HasWriteTimeout)
        <4>1. (x.timer \/ HasWriteTimeout) = FALSE
          BY <3>4
        <4> QED  BY ONLY <2>1, <3>2, <4>1
      <3> QED  BY <3>3, <3>4
    <2> QED  BY <2>1, <2>2, <2>3
  <1> QED  BY <1>1, <1>2

(* A stream is linked into the ready queue.                                *)
LEMMA RangeAppend ==
    ASSUME NEW q \in Seq(Streams), NEW s \in Streams
    PROVE  /\ Append(q, s) \in Seq(Streams) /\ Range(Append(q, s)) = Range(q) \cup {s}
           /\ <<s>> \o q \in Seq(Streams) /\ Range(<<s>> \o q) = Range(q) \cup {s}
  <1> DEFINE n == Len(q)
             a == Append(q, s)
             b == <<s>> \o q
  <1>1. /\ n \in Nat /\ DOMAIN q = 1 .. n
        /\ a \in Seq(Streams) /\ DOMAIN a = 1 .. n + 1 /\ a[n + 1] = s
        /\ \A k \in 1 .. n : a[k] = q[k]
    OBVIOUS
  <1>2. b \in Seq(Streams) /\ DOMAIN b = 1 .. n + 1 /\ b[1] = s
    OBVIOUS
  <1>3. \A k \in 1 .. n : b[k + 1] = q[k]
    OBVIOUS
  <1> HIDE DEF n, a, b
  <1>4. \A k \in 1 .. n + 1 : k \in 1 .. n \/ k = n + 1
    BY <1>1
  <1>5. \A k \in 1 .. n : k \in 1 .. n + 1 /\ k + 1 \in 1 .. n + 1
    BY <1>1
  <1>6. n + 1 \in 1 .. n + 1 /\ 1 \in 1 .. n + 1
    BY <1>1
  <1>7. Range(a) = Range(q) \cup {s}
    BY <1>1, <1>4, <1>5, <1>6 DEF Range
  <1>8. \A k \in 1 .. n + 1 : k = 1 \/ \E j \in 1 .. n : k = j + 1
    <2> SUFFICES ASSUME NEW k \in 1 .. n + 1, k # 1 PROVE \E j \in 1 .. n : k = j + 1
      OBVIOUS
    <2>1. k - 1 \in 1 .. n /\ k = (k - 1) + 1
      BY <1>1
    <2> QED  BY <2>1
  <1>9. Range(b) = Range(q) \cup {s}
    <2>1. ASSUME NEW k \in 1 .. n + 1 PROVE b[k] \in Range(q) \cup {s}
      <3>1. CASE k = 1
        BY <1>2, <3>1
      <3>2. ASSUME NEW j \in 1 .. n, k = j + 1 PROVE b[k] \in Range(q)
        BY <1>1, <1>3, <3>2 DEF Range
      <3> QED  BY <1>8, <3>1, <3>2
    <2>4. \A v \in Range(b) : v \in Range(q) \cup {s}
      BY <1>2, <2>1 DEF Range
    <2>2. \A v \in Range(q) : v \in Range(b)
      BY <1>1, <1>2, <1>3, <1>5 DEF Range
    <2>3. s \in Range(b)
      BY <1>2, <1>6 DEF Range
    <2> QED  BY <2>2, <2>3, <2>4
  <1> QED  BY <1>1, <1>2, <1>7, <1>9 DEF a, b

LEMMA MarkedReady ==
    ASSUME NEW x \in Mux, NEW s \in Streams
    PROVE  \E r \in Seq(Streams) : /\ MarkReady(x, s) = [x EXCEPT !.ready = r]
                                   /\ Range(r) = Range(x.ready) \cup {s}
  <1>1. x.ready \in Seq(Streams)
    BY MuxFields
  <1>2. CASE s \in Range(x.ready)
    <2>1. x = [x EXCEPT !.ready = x.ready]
      BY DEF Mux
    <2>2. MarkReady(x, s) = x /\ Range(x.ready) = Range(x.ready) \cup {s}
      BY <1>2 DEF MarkReady
    <2> QED  BY <1>1, <2>1, <2>2
  <1>3. CASE s \notin Range(x.ready)
    <2> DEFINE r == IF s \in Uot THEN <<s>> \o x.ready ELSE Append(x.ready, s)
    <2>1. r \in Seq(Streams) /\ Range(r) = Range(x.ready) \cup {s}
      BY <1>1, RangeAppend
    <2>2. MarkReady(x, s) = [x EXCEPT !.ready = r]
      BY <1>3 DEF MarkReady
    <2> HIDE DEF r
    <2> QED  BY <2>1, <2>2
  <1> QED  BY <1>2, <1>3
-----------------------------------------------------------------------------
(* What ngx_anytls_queue_prepared_frame does to the mux.                   *)

\* One frame f of stream s more is counted.
CountedIn(x, y, s, f) ==
    /\ y.gen = x.gen /\ y.state = x.state /\ y.sending = x.sending
    /\ y.seq = [x.seq EXCEPT ![s] = @ + 1] /\ y.queued = [x.queued EXCEPT ![s] = @ + 1]
    /\ y.finq = [x.finq EXCEPT ![s] = @ \/ f.cmd = "FIN"]
    /\ y.pending = x.pending + f.len /\ y.frames = x.frames + 1

\* The flags of the event loop afterwards.
Awake(x, y) ==
    /\ y.open <=> x.open
    /\ y.pressure <=> x.pressure
    /\ y.armed <=> x.armed
    /\ y.posted /\ (x.timer => y.timer)
    /\ HasWriteTimeout /\ (x.posted => x.timer) => y.timer

\* Where the frame went.
ToControl(x, y, f) ==
    y.control = Append(x.control, f) /\ y.data = x.data /\ y.out = x.out /\ y.ready = x.ready

ToData(x, y, f) ==
    y.control = x.control /\ y.data = Append(x.data, f) /\ y.out = x.out /\ y.ready = x.ready

ToOut(x, y, s, f) ==
    /\ y.control = x.control /\ y.data = x.data
    /\ y.out = [x.out EXCEPT ![s] = Append(@, f)] /\ Range(y.ready) = Range(x.ready) \cup {s}

NewFrame(x, s, cmd, len) ==
    [cmd |-> cmd, st |-> s, gen |-> x.gen[s], n |-> x.seq[s] + 1, len |-> len + HeaderLen]

LEMMA NewFrameType ==
    ASSUME NEW x \in Mux, NEW s \in Streams, NEW cmd \in Cmds, NEW len \in Nat
    PROVE  NewFrame(x, s, cmd, len) \in Frame
  <1>1. x.gen[s] \in Nat /\ x.seq[s] + 1 \in Nat
    BY MuxFields
  <1>2. len + HeaderLen \in Nat
    BY MuxAssumption
  <1> QED  BY <1>1, <1>2 DEF NewFrame, Frame

\* The stream and the session count the frame.
Tally(x, s, f) ==
    [x EXCEPT !.seq[s] = @ + 1, !.queued[s] = @ + 1, !.finq[s] = @ \/ f.cmd = "FIN",
              !.pending = @ + f.len, !.frames = @ + 1]

LEMMA TallyFields ==
    ASSUME NEW x \in Mux, NEW s \in Streams, NEW f \in Frame, NEW z, z = Tally(x, s, f)
    PROVE  /\ z \in Mux /\ CountedIn(x, z, s, f)
           /\ z.open = x.open /\ z.pressure = x.pressure /\ z.armed = x.armed
           /\ z.posted = x.posted /\ z.timer = x.timer
           /\ z.control = x.control /\ z.data = x.data /\ z.out = x.out /\ z.ready = x.ready
           /\ z.direct = x.direct
  <1>1. f.len \in Nat
    BY DEF Frame
  <1>2. /\ [x.seq EXCEPT ![s] = @ + 1] \in [Streams -> Nat]
        /\ [x.queued EXCEPT ![s] = @ + 1] \in [Streams -> Nat]
        /\ x.pending + f.len \in Nat /\ x.frames + 1 \in Nat
    BY <1>1, MuxFields
  <1>3. [x.finq EXCEPT ![s] = @ \/ f.cmd = "FIN"] \in [Streams -> BOOLEAN]
    BY MuxFields
  <1>4. z \in Mux
    BY <1>2, <1>3 DEF Tally, Mux
  <1>5. CountedIn(x, z, s, f)
    BY DEF Tally, Mux, CountedIn
  <1>6. /\ z.open = x.open /\ z.pressure = x.pressure /\ z.armed = x.armed
        /\ z.posted = x.posted /\ z.timer = x.timer
        /\ z.control = x.control /\ z.data = x.data /\ z.out = x.out /\ z.ready = x.ready
        /\ z.direct = x.direct
    BY DEF Tally, Mux
  <1> QED  BY <1>4, <1>5, <1>6

LEMMA EnqueueFields ==
    ASSUME NEW x \in Mux, NEW s \in Streams, NEW cmd \in Cmds \ {"CONTROL"}, NEW len \in Nat,
           NEW f, f = NewFrame(x, s, cmd, len), NEW y, y = Enqueue(x, s, cmd, len)
    PROVE  /\ y \in Mux /\ CountedIn(x, y, s, f) /\ Awake(x, y)
           /\ \/ cmd = "SYNACK" /\ ToControl(x, y, f)
              \/ x.out[s] = <<>> /\ ToData(x, y, f)
              \/ ToOut(x, y, s, f)
  <1> DEFINE z == Tally(x, s, f)
  <1>1. f \in Frame /\ f.cmd = cmd
    BY NewFrameType DEF NewFrame
  <1>2. /\ z \in Mux /\ CountedIn(x, z, s, f)
        /\ z.open = x.open /\ z.pressure = x.pressure /\ z.armed = x.armed
        /\ z.posted = x.posted /\ z.timer = x.timer
        /\ z.control = x.control /\ z.data = x.data /\ z.out = x.out /\ z.ready = x.ready
        /\ z.direct = x.direct
    BY <1>1, TallyFields
  <1>3. y = PostWrite(IF cmd = "SYNACK" THEN [z EXCEPT !.control = Append(@, f)]
                      ELSE IF GoesDirect(x, s, cmd)
                      THEN [z EXCEPT !.data = Append(@, f), !.direct[s] = @ + 1]
                      ELSE MarkReady([z EXCEPT !.out[s] = Append(@, f), !.direct[s] = 0], s))
    BY <1>1 DEF Enqueue, Tally, NewFrame
  <1> HIDE DEF z
  \* posting the write event keeps everything else
  <1>4. ASSUME NEW p \in Mux, y = PostWrite(p), CountedIn(x, p, s, f),
               p.open = x.open, p.pressure = x.pressure, p.armed = x.armed,
               p.posted = x.posted, p.timer = x.timer
        PROVE  /\ y \in Mux /\ CountedIn(x, y, s, f) /\ Awake(x, y)
               /\ y.control = p.control /\ y.data = p.data /\ y.out = p.out /\ y.ready = p.ready
    <2>0. PostWrite(p) \in Mux
      BY Posted
    <2>1. PICK t \in BOOLEAN : /\ PostWrite(p) = [p EXCEPT !.posted = TRUE, !.timer = t]
                               /\ p.timer => t
                               /\ HasWriteTimeout /\ (p.posted => p.timer) => t
      BY Posted
    <2>2. y \in Mux
      BY <2>0, <1>4
    <2>3. /\ y.gen = p.gen /\ y.state = p.state /\ y.sending = p.sending
          /\ y.seq = p.seq /\ y.queued = p.queued /\ y.finq = p.finq
          /\ y.pending = p.pending /\ y.frames = p.frames
          /\ y.control = p.control /\ y.data = p.data /\ y.out = p.out /\ y.ready = p.ready
      BY <2>1, <1>4 DEF Mux
    <2>4. y.open = p.open /\ y.pressure = p.pressure /\ y.armed = p.armed /\ y.posted /\ y.timer = t
      BY <2>1, <1>4 DEF Mux
    <2>5. CountedIn(x, y, s, f)
      BY <2>3, <1>4 DEF CountedIn
    <2>6. Awake(x, y)
      BY <2>4, <2>1, <1>4 DEF Awake
    <2> QED  BY <2>2, <2>3, <2>5, <2>6
  <1>5. CASE cmd = "SYNACK"
    <2> DEFINE p == [z EXCEPT !.control = Append(@, f)]
    <2>1. Append(z.control, f) \in Seq(Frame)
      BY <1>1, <1>2, MuxFields
    <2>2. p \in Mux
      BY <2>1, <1>2 DEF Mux
    <2>3. /\ CountedIn(x, p, s, f) /\ p.open = x.open /\ p.pressure = x.pressure
          /\ p.armed = x.armed /\ p.posted = x.posted /\ p.timer = x.timer
      BY <1>2 DEF Mux, CountedIn
    <2>4. p.control = Append(x.control, f) /\ p.data = x.data /\ p.out = x.out /\ p.ready = x.ready
      BY <1>2 DEF Mux
    <2>5. y = PostWrite(p)
      BY <1>3, <1>5
    <2> HIDE DEF p
    <2> QED  BY <1>4, <1>5, <2>2, <2>3, <2>4, <2>5 DEF ToControl
  <1>6. CASE cmd # "SYNACK" /\ GoesDirect(x, s, cmd)
    <2> DEFINE p == [z EXCEPT !.data = Append(@, f), !.direct[s] = @ + 1]
    <2>1. Append(z.data, f) \in Seq(Frame) /\ z.direct[s] + 1 \in Nat
      BY <1>1, <1>2, MuxFields
    <2>2. p \in Mux
      BY <2>1, <1>2 DEF Mux
    <2>3. /\ CountedIn(x, p, s, f) /\ p.open = x.open /\ p.pressure = x.pressure
          /\ p.armed = x.armed /\ p.posted = x.posted /\ p.timer = x.timer
      BY <1>2 DEF Mux, CountedIn
    <2>4. p.control = x.control /\ p.data = Append(x.data, f) /\ p.out = x.out /\ p.ready = x.ready
      BY <1>2 DEF Mux
    <2>5. y = PostWrite(p)
      BY <1>3, <1>6
    <2>6. x.out[s] = <<>>
      BY <1>6 DEF GoesDirect
    <2> HIDE DEF p
    <2> QED  BY <1>4, <2>2, <2>3, <2>4, <2>5, <2>6 DEF ToData
  <1>7. CASE cmd # "SYNACK" /\ ~GoesDirect(x, s, cmd)
    <2> DEFINE o == [z EXCEPT !.out[s] = Append(@, f), !.direct[s] = 0]
    <2>1. Append(z.out[s], f) \in Seq(Frame)
      BY <1>1, <1>2, MuxFields
    <2>2. o \in Mux
      BY <2>1, <1>2 DEF Mux
    <2>3. /\ CountedIn(x, o, s, f) /\ o.open = x.open /\ o.pressure = x.pressure
          /\ o.armed = x.armed /\ o.posted = x.posted /\ o.timer = x.timer
      BY <1>2 DEF Mux, CountedIn
    <2>4. /\ o.control = x.control /\ o.data = x.data /\ o.ready = x.ready
          /\ o.out = [x.out EXCEPT ![s] = Append(@, f)]
      BY <1>2 DEF Mux
    <2>5. y = PostWrite(MarkReady(o, s))
      BY <1>3, <1>7
    <2> HIDE DEF o
    <2>6. PICK r \in Seq(Streams) : /\ MarkReady(o, s) = [o EXCEPT !.ready = r]
                                    /\ Range(r) = Range(o.ready) \cup {s}
      BY <2>2, MarkedReady
    <2> DEFINE p == [o EXCEPT !.ready = r]
    <2>7. p \in Mux
      BY <2>2 DEF Mux
    <2>8. /\ CountedIn(x, p, s, f) /\ p.open = x.open /\ p.pressure = x.pressure
          /\ p.armed = x.armed /\ p.posted = x.posted /\ p.timer = x.timer
      BY <2>2, <2>3 DEF Mux, CountedIn
    <2>9. p.control = o.control /\ p.data = o.data /\ p.out = o.out /\ p.ready = r
      BY <2>2 DEF Mux
    <2>10. y = PostWrite(p)
      BY <2>5, <2>6
    <2> HIDE DEF p
    <2> QED  BY <1>4, <2>4, <2>6, <2>7, <2>8, <2>9, <2>10 DEF ToOut
  <1> QED  BY <1>5, <1>6, <1>7
-----------------------------------------------------------------------------
(* How the frames of a stream are spread over the queues.                  *)
LEMMA SpreadBy ==
    ASSUME NEW x, NEW s, NEW l, NEW a, NEW b, NEW c,
           Carries(x.sending, s, l, a), Carries(x.control, s, a, b),
           Carries(x.data, s, b, c), Carries(x.out[s], s, c, x.seq[s])
    PROVE  Spread(x, s, l)
  <1>1. /\ a \in Nat /\ b \in Nat /\ c \in Nat /\ x.seq[s] \in Nat
        /\ a <= b /\ b <= c /\ c <= x.seq[s]
    BY DEF Carries
  <1>2. a \in 0 .. x.seq[s] /\ b \in 0 .. x.seq[s] /\ c \in 0 .. x.seq[s]
    BY <1>1
  <1> QED  BY <1>2 DEF Spread

LEMMA SpreadOf ==
    ASSUME NEW x, NEW s, NEW l, Spread(x, s, l)
    PROVE  \E a, b, c \in Nat :
              /\ Carries(x.sending, s, l, a) /\ Carries(x.control, s, a, b)
              /\ Carries(x.data, s, b, c) /\ Carries(x.out[s], s, c, x.seq[s])
              /\ l \in Nat /\ x.seq[s] \in Nat /\ l <= a /\ a <= b /\ b <= c /\ c <= x.seq[s]
  <1>1. PICK a, b, c \in 0 .. x.seq[s] :
           /\ Carries(x.sending, s, l, a) /\ Carries(x.control, s, a, b)
           /\ Carries(x.data, s, b, c) /\ Carries(x.out[s], s, c, x.seq[s])
    BY DEF Spread
  <1>2. /\ l \in Nat /\ x.seq[s] \in Nat /\ l <= a /\ a <= b /\ b <= c /\ c <= x.seq[s]
        /\ a \in Nat /\ b \in Nat /\ c \in Nat
    BY <1>1 DEF Carries
  <1> QED  BY <1>1, <1>2

(* A frame of s is queued: the frames stay spread.                         *)
LEMMA SpreadControl ==
    ASSUME NEW x \in Mux, NEW y, NEW s \in Streams, NEW l, Spread(x, s, l), NEW f \in Frame,
           f.st = s, x.seq[s] = 0, f.n = 1, y.seq[s] = 1, ToControl(x, y, f), y.sending = x.sending
    PROVE  Spread(y, s, l)
  <1>1. PICK a, b, c \in Nat :
              /\ Carries(x.sending, s, l, a) /\ Carries(x.control, s, a, b)
              /\ Carries(x.data, s, b, c) /\ Carries(x.out[s], s, c, x.seq[s])
              /\ l \in Nat /\ x.seq[s] \in Nat /\ l <= a /\ a <= b /\ b <= c /\ c <= x.seq[s]
    BY SpreadOf
  <1>2. a = 0 /\ b = 0 /\ c = 0 /\ x.seq[s] = 0
    BY <1>1
  <1>3. Carries(x.sending, s, l, 0) /\ Carries(x.control, s, 0, 0)
        /\ Carries(x.data, s, 0, 0) /\ Carries(x.out[s], s, 0, 0)
    BY ONLY <1>1, <1>2
  <1>4. x.control \in Seq(Frame)
    BY MuxFields
  <1>5. Carries(Append(x.control, f), s, 0, 1)
    <2>1. f.n = 0 + 1 /\ 0 + 1 = 1
      OBVIOUS
    <2> QED  BY <1>3, <1>4, <2>1, CarriesAppend
  <1>6. Carries(x.data, s, 1, 1) /\ Carries(x.out[s], s, 1, 1)
    <2>1. 1 \in Nat
      OBVIOUS
    <2> QED  BY <1>3, <2>1, CarriesNothing, CarriesForeign
  <1> QED  BY <1>3, <1>5, <1>6, SpreadBy DEF ToControl

LEMMA SpreadData ==
    ASSUME NEW x \in Mux, NEW y, NEW s \in Streams, NEW l, Spread(x, s, l), NEW f \in Frame,
           f.st = s, f.n = x.seq[s] + 1, y.seq[s] = x.seq[s] + 1, ToData(x, y, f),
           x.out[s] = <<>>, y.sending = x.sending
    PROVE  Spread(y, s, l)
  <1>1. PICK a, b, c \in Nat :
              /\ Carries(x.sending, s, l, a) /\ Carries(x.control, s, a, b)
              /\ Carries(x.data, s, b, c) /\ Carries(x.out[s], s, c, x.seq[s])
              /\ l \in Nat /\ x.seq[s] \in Nat /\ l <= a /\ a <= b /\ b <= c /\ c <= x.seq[s]
    BY SpreadOf
  <1>2. c = x.seq[s]
    BY <1>1, CarriesNothing
  <1>3. x.data \in Seq(Frame)
    BY MuxFields
  <1>4. Carries(Append(x.data, f), s, b, x.seq[s] + 1)
    BY <1>1, <1>2, <1>3, CarriesAppend
  <1>5. Carries(<<>>, s, x.seq[s] + 1, x.seq[s] + 1)
    <2>1. x.seq[s] + 1 \in Nat
      BY <1>1
    <2> QED  BY <2>1, CarriesEmpty
  <1> QED  BY <1>1, <1>4, <1>5, SpreadBy DEF ToData

LEMMA SpreadOut ==
    ASSUME NEW x \in Mux, NEW y, NEW s \in Streams, NEW l, Spread(x, s, l), NEW f \in Frame,
           f.st = s, f.n = x.seq[s] + 1, y.seq[s] = x.seq[s] + 1, ToOut(x, y, s, f),
           y.sending = x.sending
    PROVE  Spread(y, s, l)
  <1>1. PICK a, b, c \in Nat :
              /\ Carries(x.sending, s, l, a) /\ Carries(x.control, s, a, b)
              /\ Carries(x.data, s, b, c) /\ Carries(x.out[s], s, c, x.seq[s])
              /\ l \in Nat /\ x.seq[s] \in Nat /\ l <= a /\ a <= b /\ b <= c /\ c <= x.seq[s]
    BY SpreadOf
  <1>2. x.out[s] \in Seq(Frame) /\ y.out[s] = Append(x.out[s], f)
    BY MuxFields DEF ToOut
  <1>3. Carries(y.out[s], s, c, y.seq[s])
    BY <1>1, <1>2, CarriesAppend
  <1> QED  BY <1>1, <1>3, SpreadBy DEF ToOut

(* ... those of the other streams as well.                                 *)
LEMMA SpreadOthers ==
    ASSUME NEW x \in Mux, NEW y, NEW s \in Streams, NEW t \in Streams \ {s}, NEW l, Spread(x, t, l),
           NEW f \in Frame, f.st # t, y.seq[t] = x.seq[t], y.sending = x.sending,
           ToControl(x, y, f) \/ ToData(x, y, f) \/ ToOut(x, y, s, f)
    PROVE  Spread(y, t, l)
  <1>1. PICK a, b, c \in Nat :
              /\ Carries(x.sending, t, l, a) /\ Carries(x.control, t, a, b)
              /\ Carries(x.data, t, b, c) /\ Carries(x.out[t], t, c, x.seq[t])
              /\ l \in Nat /\ x.seq[t] \in Nat /\ l <= a /\ a <= b /\ b <= c /\ c <= x.seq[t]
    BY SpreadOf
  <1>2. x.control \in Seq(Frame) /\ x.data \in Seq(Frame) /\ x.out \in [Streams -> Seq(Frame)]
    BY MuxFields
  <1>3. Carries(Append(x.control, f), t, a, b)
    BY <1>1, <1>2, CarriesAppend
  <1>4. Carries(Append(x.data, f), t, b, c)
    BY <1>1, <1>2, CarriesAppend
  <1>5. y.control = x.control \/ y.control = Append(x.control, f)
    BY DEF ToControl, ToData, ToOut
  <1>6. y.data = x.data \/ y.data = Append(x.data, f)
    BY DEF ToControl, ToData, ToOut
  <1>7. y.out[t] = x.out[t]
    BY <1>2 DEF ToControl, ToData, ToOut
  <1>8. Carries(y.control, t, a, b) /\ Carries(y.data, t, b, c)
    BY <1>1, <1>3, <1>4, <1>5, <1>6
  <1>9. Carries(y.out[t], t, c, y.seq[t]) /\ Carries(y.sending, t, l, a)
    BY <1>1, <1>7
  <1> QED  BY <1>8, <1>9, SpreadBy

(* The counters after a frame joined one of the queues.                    *)
LEMMA CountedMore ==
    ASSUME NEW x \in Mux, NEW y, Counted(x), NEW f \in Frame,
           y.frames = x.frames + 1, y.pending = x.pending + f.len, y.sending = x.sending,
           NEW s, ToControl(x, y, f) \/ ToData(x, y, f) \/ (s \in Streams /\ ToOut(x, y, s, f))
    PROVE  Counted(y)
  <1> DEFINE L(q) == Len(q)
  <1>1. /\ x.control \in Seq(Frame) /\ x.data \in Seq(Frame) /\ x.sending \in Seq(Frame)
        /\ x.out \in [Streams -> Seq(Frame)]
    BY MuxFields
  <1>2. /\ L(x.control) \in Nat /\ L(x.data) \in Nat /\ L(x.sending) \in Nat
        /\ OutFrames(x.out) \in Nat
    BY <1>1, OutTotals
  <1>3. /\ Bytes(x.control) \in Nat /\ Bytes(x.data) \in Nat /\ Bytes(x.sending) \in Nat
        /\ OutBytes(x.out) \in Nat
    BY <1>1, BytesType, OutTotals
  <1>4. f.len \in Nat
    BY DEF Frame
  <1>5. /\ x.frames = L(x.sending) + L(x.control) + L(x.data) + OutFrames(x.out)
        /\ x.pending = Bytes(x.sending) + Bytes(x.control) + Bytes(x.data) + OutBytes(x.out)
    BY DEF Counted
  <1>6. CASE ToControl(x, y, f)
    <2>1. L(Append(x.control, f)) = L(x.control) + 1
      BY <1>1
    <2>2. Bytes(Append(x.control, f)) = Bytes(x.control) + f.len
      BY <1>1, BytesAppend
    <2>3. y.control = Append(x.control, f) /\ y.data = x.data /\ y.out = x.out
      BY <1>6 DEF ToControl
    <2>4. y.frames = L(y.sending) + L(y.control) + L(y.data) + OutFrames(y.out)
      <3> HIDE DEF L
      <3> QED  BY ONLY <1>2, <1>5, <2>1, <2>3, y.frames = x.frames + 1, y.sending = x.sending
    <2>5. y.pending = Bytes(y.sending) + Bytes(y.control) + Bytes(y.data) + OutBytes(y.out)
      BY ONLY <1>3, <1>4, <1>5, <2>2, <2>3, y.pending = x.pending + f.len, y.sending = x.sending
    <2> QED  BY <2>4, <2>5 DEF Counted
  <1>7. CASE ToData(x, y, f)
    <2>1. L(Append(x.data, f)) = L(x.data) + 1
      BY <1>1
    <2>2. Bytes(Append(x.data, f)) = Bytes(x.data) + f.len
      BY <1>1, BytesAppend
    <2>3. y.data = Append(x.data, f) /\ y.control = x.control /\ y.out = x.out
      BY <1>7 DEF ToData
    <2>4. y.frames = L(y.sending) + L(y.control) + L(y.data) + OutFrames(y.out)
      <3> HIDE DEF L
      <3> QED  BY ONLY <1>2, <1>5, <2>1, <2>3, y.frames = x.frames + 1, y.sending = x.sending
    <2>5. y.pending = Bytes(y.sending) + Bytes(y.control) + Bytes(y.data) + OutBytes(y.out)
      BY ONLY <1>3, <1>4, <1>5, <2>2, <2>3, y.pending = x.pending + f.len, y.sending = x.sending
    <2> QED  BY <2>4, <2>5 DEF Counted
  <1>8. CASE s \in Streams /\ ToOut(x, y, s, f)
    <2>0. x.out[s] \in Seq(Frame)
      BY <1>1, <1>8
    <2>8. L(x.out[s]) \in Nat /\ Bytes(x.out[s]) \in Nat
      BY <2>0, BytesType
    <2>1. /\ Append(x.out[s], f) \in Seq(Frame) /\ L(Append(x.out[s], f)) = L(x.out[s]) + 1
      BY <2>0
    <2>2. Bytes(Append(x.out[s], f)) = Bytes(x.out[s]) + f.len
      BY <2>0, BytesAppend
    <2>3. /\ y.out \in [Streams -> Seq(Frame)] /\ y.out[s] = Append(x.out[s], f)
          /\ \A t \in Streams \ {s} : y.out[t] = x.out[t]
          /\ y.control = x.control /\ y.data = x.data
      BY <1>1, <1>8, <2>1 DEF ToOut
    <2>4. OutFrames(y.out) = OutFrames(x.out) + L(y.out[s]) - L(x.out[s])
      BY <1>1, <1>8, <2>3, OutChanges
    <2>5. OutBytes(y.out) = OutBytes(x.out) + Bytes(y.out[s]) - Bytes(x.out[s])
      BY <1>1, <1>8, <2>3, OutChanges
    <2>6. y.frames = L(y.sending) + L(y.control) + L(y.data) + OutFrames(y.out)
      <3> HIDE DEF L
      <3> QED  BY ONLY <1>2, <2>8, <1>5, <2>1, <2>3, <2>4, y.frames = x.frames + 1, y.sending = x.sending
    <2>7. y.pending = Bytes(y.sending) + Bytes(y.control) + Bytes(y.data) + OutBytes(y.out)
      BY ONLY <1>3, <2>8, <1>4, <1>5, <2>2, <2>3, <2>5, y.pending = x.pending + f.len, y.sending = x.sending
    <2> QED  BY <2>6, <2>7 DEF Counted
  <1> QED  BY <1>6, <1>7, <1>8

LEMMA EnqueueSound ==
    ASSUME NEW x, NEW w, Sound(x, w), NEW s \in Streams, NEW cmd \in Cmds \ {"CONTROL"},
           NEW len \in Nat, NEW y, y = Enqueue(x, s, cmd, len),
           ~x.finq[s], x.state[s] \notin {"free", "closed"}, cmd = "SYNACK" => x.seq[s] = 0
    PROVE  /\ Sound(y, w) /\ OnlyOf(x, y, s) /\ Awake(x, y)
           /\ y.state = x.state /\ y.sending = x.sending /\ y.seq[s] = x.seq[s] + 1
           /\ (y.finq[s] <=> cmd = "FIN")
  <1> DEFINE f == NewFrame(x, s, cmd, len)
  <1>1. /\ x \in Mux /\ x.open /\ FramesOk(x) /\ Counted(x)
        /\ \A t \in Streams : StreamOk(x, t, Len(w[t]))
    BY DEF Sound
  <1>2. /\ y \in Mux /\ CountedIn(x, y, s, f) /\ Awake(x, y)
        /\ \/ cmd = "SYNACK" /\ ToControl(x, y, f)
           \/ x.out[s] = <<>> /\ ToData(x, y, f)
           \/ ToOut(x, y, s, f)
    BY <1>1, EnqueueFields
  <1>3. f \in Frame /\ f.cmd = cmd /\ f.st = s /\ f.gen = x.gen[s] /\ f.n = x.seq[s] + 1
    BY <1>1, NewFrameType DEF NewFrame
  <1> HIDE DEF f
  <1>4. /\ x.seq \in [Streams -> Nat] /\ x.queued \in [Streams -> Nat] /\ x.gen \in [Streams -> Nat]
        /\ x.finq \in [Streams -> BOOLEAN] /\ x.out \in [Streams -> Seq(Frame)]
        /\ x.control \in Seq(Frame) /\ x.data \in Seq(Frame) /\ x.out[s] \in Seq(Frame)
    BY <1>1, MuxFields
  <1>5. /\ y.gen = x.gen /\ y.state = x.state /\ y.sending = x.sending
        /\ y.seq[s] = x.seq[s] + 1 /\ y.queued[s] = x.queued[s] + 1
        /\ (y.finq[s] <=> cmd = "FIN")
        /\ \A t \in Streams \ {s} : /\ y.seq[t] = x.seq[t] /\ y.queued[t] = x.queued[t]
                                    /\ (y.finq[t] <=> x.finq[t])
    BY <1>2, <1>3, <1>4 DEF CountedIn
  <1>6. Advances(x, y) /\ OnlyOf(x, y, s)
    BY <1>5 DEF Advances, OnlyOf
  <1>7. FrameOk(y, f)
    BY <1>3, <1>4, <1>5 DEF FrameOk
  <1>8. AllOk(y, x.sending) /\ AllOk(y, x.control) /\ AllOk(y, x.data)
        /\ \A t \in Streams : AllOk(y, x.out[t]) /\ \A k \in DOMAIN x.out[t] : x.out[t][k].st = t
    BY <1>1, <1>6, AllOkKept DEF FramesOk
  <1>9. AllOk(y, Append(x.control, f)) /\ AllOk(y, Append(x.data, f)) /\ AllOk(y, Append(x.out[s], f))
    BY <1>3, <1>4, <1>7, <1>8, AllOkAppend
  <1>10. \A k \in DOMAIN Append(x.out[s], f) : Append(x.out[s], f)[k].st = s
    <2> SUFFICES ASSUME NEW k \in DOMAIN Append(x.out[s], f) PROVE Append(x.out[s], f)[k].st = s
      OBVIOUS
    <2>1. CASE k \in DOMAIN x.out[s]
      <3>1. Append(x.out[s], f)[k] = x.out[s][k]
        BY <1>4, <2>1
      <3> QED  BY <3>1, <2>1, <1>8
    <2>2. CASE k \notin DOMAIN x.out[s]
      <3>0. k = Len(x.out[s]) + 1 /\ Len(x.out[s]) \in Nat
        BY <1>4, <2>2
      <3>1. Append(x.out[s], f)[k] = f
        BY <1>4, <3>0
      <3> QED  BY <3>1, <1>3
    <2> QED  BY <2>1, <2>2
  <1>11. /\ y.control = x.control \/ y.control = Append(x.control, f)
         /\ y.data = x.data \/ y.data = Append(x.data, f)
    BY <1>2 DEF ToControl, ToData, ToOut
  <1>12. ASSUME NEW t \in Streams
         PROVE  y.out[t] = x.out[t] \/ (t = s /\ y.out[t] = Append(x.out[s], f))
    BY <1>2, <1>4 DEF ToControl, ToData, ToOut
  <1>13. FramesOk(y)
    <2>1. AllOk(y, y.sending) /\ AllOk(y, y.control) /\ AllOk(y, y.data)
      BY <1>5, <1>8, <1>9, <1>11
    <2>2. ASSUME NEW t \in Streams
          PROVE  AllOk(y, y.out[t]) /\ \A k \in DOMAIN y.out[t] : y.out[t][k].st = t
      BY <1>8, <1>9, <1>10, <1>12
    <2> QED  BY <2>1, <2>2 DEF FramesOk
  <1>14. Counted(y)
    <2>1. y.frames = x.frames + 1 /\ y.pending = x.pending + f.len
      BY <1>2 DEF CountedIn
    <2> QED  BY <1>1, <1>2, <1>3, <1>5, <2>1, CountedMore
  <1>15. ASSUME NEW t \in Streams PROVE x.out[t] # <<>> => t \in Range(x.ready)
    BY <1>1 DEF StreamOk
  <1>16. ASSUME NEW t \in Streams PROVE y.out[t] # <<>> => t \in Range(y.ready)
    BY <1>2, <1>4, <1>15, <1>12 DEF ToControl, ToData, ToOut
  <1>17. ASSUME NEW t \in Streams PROVE StreamOk(y, t, Len(w[t]))
    <2>1. /\ Spread(x, t, Len(w[t])) /\ x.queued[t] = x.seq[t] - Len(w[t])
          /\ x.state[t] \in {"free", "closed"} => x.queued[t] = 0
      BY <1>1 DEF StreamOk
    <2>2. Len(w[t]) \in Nat
      BY <2>1, SpreadOf
    <2>3. CASE t # s
      <3>1. Spread(y, t, Len(w[t]))
        BY <1>1, <1>2, <1>3, <1>5, <2>1, <2>3, SpreadOthers
      <3> QED  BY <3>1, <2>1, <2>3, <1>5, <1>16 DEF StreamOk
    <2>4. CASE t = s
      <3>1. ASSUME cmd = "SYNACK" /\ ToControl(x, y, f) PROVE Spread(y, t, Len(w[t]))
        <4>1. x.seq[s] = 0 /\ f.n = 1 /\ y.seq[s] = 1
          BY <3>1, <1>3, <1>5
        <4> QED  BY <4>1, <3>1, <1>1, <1>3, <1>5, <2>1, <2>4, SpreadControl
      <3>2. ASSUME x.out[s] = <<>> /\ ToData(x, y, f) PROVE Spread(y, t, Len(w[t]))
        BY <3>2, <1>1, <1>3, <1>5, <2>1, <2>4, SpreadData
      <3>3. ASSUME ToOut(x, y, s, f) PROVE Spread(y, t, Len(w[t]))
        BY <3>3, <1>1, <1>3, <1>5, <2>1, <2>4, SpreadOut
      <3>4. Spread(y, t, Len(w[t]))
        BY <3>1, <3>2, <3>3, <1>2, <2>4
      <3>5. y.queued[t] = y.seq[t] - Len(w[t])
        <4>1. x.seq[s] \in Nat /\ y.seq[s] = x.seq[s] + 1 /\ y.queued[s] = x.queued[s] + 1
              /\ x.queued[s] = x.seq[s] - Len(w[s]) /\ Len(w[s]) \in Nat
          BY <2>1, <2>2, <2>4, <1>4, <1>5
        <4> QED  BY ONLY <4>1, <2>4
      <3>6. y.state[t] \notin {"free", "closed"}
        BY <2>4, <1>5
      <3> QED  BY <3>4, <3>5, <3>6, <1>16 DEF StreamOk
    <2> QED  BY <2>3, <2>4
  <1>18. y.open
    BY <1>1, <1>2 DEF Awake
  <1>19. Sound(y, w)
    BY <1>2, <1>13, <1>14, <1>17, <1>18 DEF Sound
  <1> QED  BY <1>2, <1>5, <1>6, <1>19
-----------------------------------------------------------------------------
(* A stream that counts no frame has none in any queue.                    *)
LEMMA NoFrames ==
    ASSUME NEW x, NEW w, Sound(x, w), NEW s \in Streams, x.queued[s] = 0
    PROVE  /\ x.out[s] = <<>> /\ Len(w[s]) = x.seq[s]
           /\ \A k \in 1 .. Len(x.sending) : x.sending[k].st # s
           /\ \A k \in 1 .. Len(x.control) : x.control[k].st # s
           /\ \A k \in 1 .. Len(x.data) : x.data[k].st # s
  <1> DEFINE l == Len(w[s])
  <1>1. /\ x \in Mux /\ Spread(x, s, l) /\ x.queued[s] = x.seq[s] - l
        /\ \A k \in DOMAIN x.out[s] : x.out[s][k].st = s
    BY DEF Sound, StreamOk, FramesOk
  <1> HIDE DEF l
  <1>2. PICK a, b, c \in Nat :
              /\ Carries(x.sending, s, l, a) /\ Carries(x.control, s, a, b)
              /\ Carries(x.data, s, b, c) /\ Carries(x.out[s], s, c, x.seq[s])
              /\ l \in Nat /\ x.seq[s] \in Nat /\ l <= a /\ a <= b /\ b <= c /\ c <= x.seq[s]
    BY <1>1, SpreadOf
  <1>3. l = x.seq[s] /\ a = l /\ b = l /\ c = l
    BY <1>1, <1>2
  <1>4. /\ \A k \in 1 .. Len(x.sending) : x.sending[k].st # s
        /\ \A k \in 1 .. Len(x.control) : x.control[k].st # s
        /\ \A k \in 1 .. Len(x.data) : x.data[k].st # s
        /\ \A k \in 1 .. Len(x.out[s]) : x.out[s][k].st # s
    BY <1>2, <1>3, CarriesNothing
  <1>5. x.out[s] = <<>>
    <2>1. x.out[s] \in Seq(Frame)
      BY <1>1, MuxFields
    <2> SUFFICES ASSUME x.out[s] # <<>> PROVE FALSE
      OBVIOUS
    <2>2. 1 \in DOMAIN x.out[s] /\ 1 \in 1 .. Len(x.out[s])
      BY <2>1
    <2> QED  BY <2>2, <1>1, <1>4
  <1> QED  BY <1>3, <1>4, <1>5 DEF l

(* Streams are unlinked from the ready queue.                              *)
LEMMA UnlinkedReady ==
    ASSUME NEW q \in Seq(Streams), NEW D, NEW r, r = Unlinked(q, D)
    PROVE  /\ r \in Seq(Streams) /\ (q = <<>> => r = <<>>)
           /\ \A v \in Range(q) \ D : v \in Range(r)
  <1> DEFINE I == {k \in DOMAIN q : q[k] \notin D}
  <1>1. I \in SUBSET DOMAIN q /\ r = Picked(q, I)
    BY DEF Unlinked
  <1>2. \A k \in DOMAIN q : q[k] \notin D => k \in I
    OBVIOUS
  <1> HIDE DEF I
  <1>3. r \in Seq(Streams) /\ Len(r) <= Len(q)
    BY <1>1, PickedQueue
  <1>4. PICK e \in [1 .. Len(r) -> I] :
                 /\ \A k \in I : \E j \in 1 .. Len(r) : e[j] = k
                 /\ \A j, k \in 1 .. Len(r) : j < k => e[j] < e[k]
                 /\ \A j \in 1 .. Len(r) : r[j] = q[e[j]]
    BY <1>1, PickedQueue
  <1>5. q = <<>> => r = <<>>
    BY <1>3
  <1>6. ASSUME NEW v \in Range(q) \ D PROVE v \in Range(r)
    <2>1. PICK k \in DOMAIN q : q[k] = v
      BY DEF Range
    <2>2. k \in I
      BY <2>1, <1>2
    <2>3. PICK j \in 1 .. Len(r) : e[j] = k
      BY <2>2, <1>4
    <2>4. r[j] = v
      BY <2>1, <2>3, <1>4
    <2>5. j \in DOMAIN r
      BY <1>3
    <2> QED  BY <2>4, <2>5 DEF Range
  <1> QED  BY <1>3, <1>5, <1>6

\* The flags of the event loop are the same.
SameFlags(x, y) ==
    /\ y.open = x.open /\ y.pressure = x.pressure /\ y.posted = x.posted
    /\ y.armed = x.armed /\ y.timer = x.timer

LEMMA WakesKept ==
    ASSUME NEW x, NEW y, SameFrames(x, y), SameFlags(x, y), x.ready = <<>> => y.ready = <<>>
    PROVE  (Wakes(x) => Wakes(y)) /\ (WakesIdle(x) => WakesIdle(y))
  BY DEF SameFrames, SameFlags, Wakes, WakesIdle

(* ngx_anytls_stream_close.                                                *)
LEMMA CloseNowFields ==
    ASSUME NEW x \in Mux, NEW s \in Streams, x.out[s] = <<>>, NEW y, y = CloseNow(x, s)
    PROVE  /\ y \in Mux /\ SameFrames(x, y) /\ SameFlags(x, y)
           /\ y.ready = Unlinked(x.ready, {s}) /\ y.state = [x.state EXCEPT ![s] = "closed"]
  <1>1. /\ x.pending \in Nat /\ x.frames \in Nat /\ x.queued \in [Streams -> Nat]
        /\ x.out \in [Streams -> Seq(Frame)] /\ x.ready \in Seq(Streams)
        /\ x.state \in [Streams -> States] /\ x.up \in [Streams -> BOOLEAN]
    BY MuxFields
  <1>2. Len(x.out[s]) = 0 /\ Bytes(x.out[s]) = 0
    BY BytesEmpty
  <1>3. /\ Minus(x.pending, Bytes(x.out[s])) = x.pending
        /\ Minus(x.frames, Len(x.out[s])) = x.frames
        /\ Minus(x.queued[s], Len(x.out[s])) = x.queued[s]
    BY <1>1, <1>2 DEF Minus
  <1> DEFINE e == <<>>
             r == Unlinked(x.ready, {s})
  <1>4. [x.out EXCEPT ![s] = e] = x.out
    BY <1>1
  <1>5. [x.queued EXCEPT ![s] = x.queued[s]] = x.queued
    BY <1>1
  <1>6. r \in Seq(Streams)
    BY <1>1, UnlinkedReady
  <1>7. [x.state EXCEPT ![s] = "closed"] \in [Streams -> States]
    BY <1>1 DEF States
  <1>8. [x.up EXCEPT ![s] = FALSE] \in [Streams -> BOOLEAN]
    BY <1>1
  <1>9. y = [x EXCEPT !.state = [x.state EXCEPT ![s] = "closed"], !.up = [x.up EXCEPT ![s] = FALSE],
                      !.ready = r,
                      !.pending = Minus(x.pending, Bytes(x.out[s])),
                      !.frames = Minus(x.frames, Len(x.out[s])),
                      !.queued = [x.queued EXCEPT ![s] = Minus(x.queued[s], Len(x.out[s]))],
                      !.out = [x.out EXCEPT ![s] = e]]
    BY DEF CloseNow, Mux
  <1> HIDE DEF e, r
  <1> DEFINE st == [x.state EXCEPT ![s] = "closed"]
             up == [x.up EXCEPT ![s] = FALSE]
  <1>10. y = [x EXCEPT !.state = st, !.up = up, !.ready = r,
                       !.pending = x.pending, !.frames = x.frames, !.queued = x.queued, !.out = x.out]
    BY <1>9, <1>3, <1>4, <1>5
  <1>11. st \in [Streams -> States] /\ up \in [Streams -> BOOLEAN]
    BY <1>7, <1>8
  <1> HIDE DEF st, up
  <1>12. y \in Mux
    BY ONLY <1>10, <1>11, <1>6, x \in Mux DEF Mux
  <1>13. SameFrames(x, y)
    BY ONLY <1>10, x \in Mux DEF Mux, SameFrames
  <1>14. SameFlags(x, y)
    BY ONLY <1>10, x \in Mux DEF Mux, SameFlags
  <1>15. y.ready = r /\ y.state = st
    BY ONLY <1>10, x \in Mux DEF Mux
  <1> QED  BY <1>12, <1>13, <1>14, <1>15 DEF r, st

LEMMA CloseDelayedFields ==
    ASSUME NEW x \in Mux, NEW s \in Streams, NEW y,
           y = [x EXCEPT !.state[s] = "closing", !.up[s] = FALSE]
    PROVE  /\ y \in Mux /\ SameFrames(x, y) /\ SameFlags(x, y)
           /\ y.ready = x.ready /\ y.state = [x.state EXCEPT ![s] = "closing"]
  <1>1. x.state \in [Streams -> States] /\ x.up \in [Streams -> BOOLEAN]
    BY MuxFields
  <1>2. /\ [x.state EXCEPT ![s] = "closing"] \in [Streams -> States]
        /\ [x.up EXCEPT ![s] = FALSE] \in [Streams -> BOOLEAN]
    BY <1>1 DEF States
  <1> DEFINE st == [x.state EXCEPT ![s] = "closing"]
             up == [x.up EXCEPT ![s] = FALSE]
  <1>3. y = [x EXCEPT !.state = st, !.up = up]
    BY DEF Mux
  <1>4. st \in [Streams -> States] /\ up \in [Streams -> BOOLEAN]
    BY <1>2
  <1> HIDE DEF st, up
  <1>5. y \in Mux
    BY ONLY <1>3, <1>4, x \in Mux DEF Mux
  <1>6. SameFrames(x, y) /\ SameFlags(x, y)
    BY ONLY <1>3, x \in Mux DEF Mux, SameFrames, SameFlags
  <1>7. y.ready = x.ready /\ y.state = st
    BY ONLY <1>3, x \in Mux DEF Mux
  <1> QED  BY <1>5, <1>6, <1>7 DEF st

LEMMA CloseSound ==
    ASSUME NEW x, NEW w, Sound(x, w), NEW s \in Streams, NEW y, y = CloseStream(x, s)
    PROVE  /\ Sound(y, w) /\ OnlyOf(x, y, s) /\ SameFrames(x, y) /\ SameFlags(x, y)
           /\ x.ready = <<>> => y.ready = <<>>
           /\ y.state[s] \in {"closing", "closed"}
  <1>1. x \in Mux /\ x.open /\ \A t \in Streams : StreamOk(x, t, Len(w[t]))
    BY DEF Sound
  <1>2. x.state \in [Streams -> States] /\ x.ready \in Seq(Streams)
    BY <1>1, MuxFields
  <1>3. \A t \in Streams : /\ x.state[t] \in {"free", "closed"} => x.queued[t] = 0
                           /\ x.out[t] # <<>> => t \in Range(x.ready)
    BY <1>1 DEF StreamOk
  <1>4. CASE x.state[s] = "closed"
    <2>1. y = x
      BY <1>4 DEF CloseStream
    <2> QED  BY <2>1, <1>4 DEF OnlyOf, Advances, SameFrames, SameFlags
  <1>5. CASE x.state[s] # "closed" /\ x.queued[s] # 0
    <2>1. /\ y \in Mux /\ SameFrames(x, y) /\ SameFlags(x, y)
          /\ y.ready = x.ready /\ y.state = [x.state EXCEPT ![s] = "closing"]
      BY <1>1, <1>5, CloseDelayedFields DEF CloseStream
    <2>2. y.open
      BY <2>1, <1>1 DEF SameFlags
    <2>3. /\ y.state[s] = "closing" /\ \A t \in Streams \ {s} : y.state[t] = x.state[t]
      BY <2>1, <1>2
    <2>4. \A t \in Streams : y.state[t] \in {"free", "closed"} => x.queued[t] = 0
      BY <2>3, <1>3
    <2>5. Sound(y, w)
      BY <2>1, <2>2, <2>4, <1>3, SoundSame
    <2>6. OnlyOf(x, y, s)
      BY <2>1, <2>3 DEF OnlyOf, Advances, SameFrames
    <2> QED  BY <2>1, <2>3, <2>5, <2>6
  <1>6. CASE x.state[s] # "closed" /\ x.queued[s] = 0
    <2>1. x.out[s] = <<>>
      BY <1>6, NoFrames
    <2>2. /\ y \in Mux /\ SameFrames(x, y) /\ SameFlags(x, y)
          /\ y.ready = Unlinked(x.ready, {s}) /\ y.state = [x.state EXCEPT ![s] = "closed"]
      BY <1>1, <1>6, <2>1, CloseNowFields DEF CloseStream
    <2>3. y.open
      BY <2>2, <1>1 DEF SameFlags
    <2>4. /\ y.state[s] = "closed" /\ \A t \in Streams \ {s} : y.state[t] = x.state[t]
      BY <2>2, <1>2 DEF States
    <2>5. \A t \in Streams : y.state[t] \in {"free", "closed"} => x.queued[t] = 0
      BY <2>4, <1>3, <1>6
    <2>6. /\ (x.ready = <<>> => y.ready = <<>>)
          /\ \A t \in Range(x.ready) \ {s} : t \in Range(y.ready)
      BY <2>2, <1>2, UnlinkedReady
    <2>7. \A t \in Streams : x.out[t] # <<>> => t \in Range(y.ready)
      BY <2>1, <2>6, <1>3
    <2>8. Sound(y, w)
      BY <2>2, <2>3, <2>5, <2>7, SoundSame
    <2>9. OnlyOf(x, y, s)
      BY <2>2, <2>4 DEF OnlyOf, Advances, SameFrames
    <2> QED  BY <2>2, <2>4, <2>6, <2>8, <2>9
  <1> QED  BY <1>4, <1>5, <1>6

(* ngx_anytls_mux_drain_closing_streams.                                   *)
LEMMA DrainClosingSound ==
    ASSUME NEW x, NEW w, Sound(x, w), \A s \in Streams : StateOk(x, s),
           NEW y, y = DrainClosing(x)
    PROVE  /\ Sound(y, w) /\ SameFrames(x, y) /\ SameFlags(x, y)
           /\ x.ready = <<>> => y.ready = <<>>
           /\ \A s \in Streams : StateOk(y, s)
  <1>1. x \in Mux /\ x.open /\ \A t \in Streams : StreamOk(x, t, Len(w[t]))
    BY DEF Sound
  <1>2. x.state \in [Streams -> States] /\ x.ready \in Seq(Streams)
    BY <1>1, MuxFields
  <1>3. \A t \in Streams : /\ x.state[t] \in {"free", "closed"} => x.queued[t] = 0
                           /\ x.out[t] # <<>> => t \in Range(x.ready)
    BY <1>1 DEF StreamOk
  <1> DEFINE done == {s \in Streams : x.state[s] = "closing" /\ x.queued[s] = 0}
             st == [s \in Streams |-> IF s \in done THEN "closed" ELSE x.state[s]]
             r == Unlinked(x.ready, done)
  <1>4. y = [x EXCEPT !.state = st, !.ready = r]
    BY DEF DrainClosing
  <1>5. r \in Seq(Streams) /\ (x.ready = <<>> => r = <<>>)
        /\ \A t \in Range(x.ready) \ done : t \in Range(r)
    <2> HIDE DEF done
    <2> QED  BY <1>2, UnlinkedReady
  <1>6. st \in [Streams -> States]
    BY <1>2 DEF States
  <1>7. \A s \in Streams : IF x.state[s] = "closing" /\ x.queued[s] = 0
                           THEN s \in done /\ st[s] = "closed" ELSE s \notin done /\ st[s] = x.state[s]
    OBVIOUS
  <1> HIDE DEF done, st, r
  <1>8. y \in Mux
    BY ONLY <1>4, <1>5, <1>6, <1>1 DEF Mux
  <1>9. SameFrames(x, y) /\ SameFlags(x, y)
    BY ONLY <1>4, <1>1 DEF Mux, SameFrames, SameFlags
  <1>10. y.ready = r /\ y.state = st
    BY ONLY <1>4, <1>1 DEF Mux
  <1>11. y.open
    BY <1>9, <1>1 DEF SameFlags
  <1>12. \A t \in Streams : y.state[t] \in {"free", "closed"} => x.queued[t] = 0
    BY <1>3, <1>7, <1>10
  <1>13. \A t \in Streams : x.out[t] # <<>> => t \in Range(y.ready)
    <2> SUFFICES ASSUME NEW t \in Streams, x.out[t] # <<>> PROVE t \in Range(y.ready)
      OBVIOUS
    <2>1. x.queued[t] # 0
      BY NoFrames
    <2>2. t \notin done
      BY <2>1, <1>7
    <2> QED  BY <2>2, <1>3, <1>5, <1>10
  <1>14. Sound(y, w)
    BY <1>8, <1>9, <1>11, <1>12, <1>13, SoundSame
  <1>15. ASSUME NEW s \in Streams PROVE StateOk(y, s)
    <2>1. StateOk(x, s) /\ y.seq = x.seq /\ y.finq = x.finq
      BY <1>9 DEF SameFrames
    <2>2. y.state[s] = x.state[s] \/ (x.state[s] = "closing" /\ y.state[s] = "closed")
      BY <1>7, <1>10
    <2> QED  BY <2>1, <2>2 DEF StateOk
  <1> QED  BY <1>5, <1>9, <1>10, <1>14, <1>15
-----------------------------------------------------------------------------
(* The handlers that queue frames and close streams.                       *)

\* A mux that the event loop may leave behind.
Good(x, w) == Sound(x, w) /\ Wakes(x) /\ WakesIdle(x)

LEMMA EnqueueGood ==
    ASSUME NEW x, NEW w, Good(x, w), NEW s \in Streams, NEW cmd \in Cmds \ {"CONTROL"},
           NEW len \in Nat, NEW y, y = Enqueue(x, s, cmd, len),
           ~x.finq[s], x.state[s] \notin {"free", "closed"}, cmd = "SYNACK" => x.seq[s] = 0
    PROVE  /\ Good(y, w) /\ OnlyOf(x, y, s) /\ y.state = x.state
           /\ (y.finq[s] <=> cmd = "FIN")
  <1>1. Sound(x, w) /\ Wakes(x) /\ WakesIdle(x)
    BY DEF Good
  <1>2. /\ Sound(y, w) /\ OnlyOf(x, y, s) /\ Awake(x, y)
        /\ y.state = x.state /\ y.sending = x.sending
        /\ (y.finq[s] <=> cmd = "FIN")
    BY <1>1, EnqueueSound
  <1>3. Wakes(y) /\ WakesIdle(y)
    BY <1>1, <1>2 DEF Awake, Wakes, WakesIdle
  <1> QED  BY <1>2, <1>3 DEF Good

LEMMA CloseGood ==
    ASSUME NEW x, NEW w, Good(x, w), NEW s \in Streams, NEW y, y = CloseStream(x, s)
    PROVE  /\ Good(y, w) /\ OnlyOf(x, y, s) /\ StateOk(y, s)
  <1>1. Sound(x, w) /\ Wakes(x) /\ WakesIdle(x)
    BY DEF Good
  <1>2. /\ Sound(y, w) /\ OnlyOf(x, y, s) /\ SameFrames(x, y) /\ SameFlags(x, y)
        /\ x.ready = <<>> => y.ready = <<>>
        /\ y.state[s] \in {"closing", "closed"}
    BY <1>1, CloseSound
  <1>3. Wakes(y) /\ WakesIdle(y)
    BY <1>1, <1>2, WakesKept
  <1>4. StateOk(y, s)
    BY <1>2 DEF StateOk
  <1> QED  BY <1>2, <1>3, <1>4 DEF Good

LEMMA SynackGood ==
    ASSUME NEW x, NEW w, Good(x, w), NEW s \in Streams, NEW len \in Nat,
           NEW y, y = SendSynack(x, s, len),
           ~x.finq[s], x.state[s] \notin {"free", "closed"}, x.seq[s] = 0
    PROVE  /\ Good(y, w) /\ OnlyOf(x, y, s) /\ y.state = x.state /\ ~y.finq[s]
  <1>1. Sound(x, w) /\ Wakes(x) /\ WakesIdle(x) /\ x \in Mux /\ x.open
    BY DEF Good, Sound
  <1>2. CASE x.synack[s]
    <2>1. y = x
      BY <1>2 DEF SendSynack
    <2> QED  BY <2>1 DEF OnlyOf, Advances
  <1>3. CASE ~x.synack[s]
    <2> DEFINE sa == [x.synack EXCEPT ![s] = TRUE]
               z == [x EXCEPT !.synack[s] = TRUE]
    <2>1. sa \in [Streams -> BOOLEAN]
      BY <1>1 DEF Mux
    <2>2. z = [x EXCEPT !.synack = sa]
      BY <1>1 DEF Mux
    <2>3. y = z \/ y = Enqueue(z, s, "SYNACK", len)
      BY <1>3 DEF SendSynack
    <2> HIDE DEF sa, z
    <2>4. z \in Mux
      BY ONLY <1>1, <2>1, <2>2 DEF Mux
    <2>5. SameFrames(x, z) /\ SameFlags(x, z)
      BY ONLY <1>1, <2>2 DEF Mux, SameFrames, SameFlags
    <2>6. z.ready = x.ready /\ z.state = x.state
      BY ONLY <1>1, <2>2 DEF Mux
    <2>7. z.open
      BY <2>5, <1>1 DEF SameFlags
    <2>8. \A t \in Streams : /\ z.state[t] \in {"free", "closed"} => x.queued[t] = 0
                             /\ x.out[t] # <<>> => t \in Range(z.ready)
      BY <2>6, <1>1 DEF Sound, StreamOk
    <2>9. Sound(z, w)
      BY <1>1, <2>4, <2>5, <2>7, <2>8, SoundSame
    <2>10. Good(z, w)
      BY <2>5, <2>6, <2>9, <1>1, WakesKept DEF Good
    <2>11. OnlyOf(x, z, s) /\ z.finq = x.finq /\ z.seq = x.seq
      BY <2>5, <2>6 DEF OnlyOf, Advances, SameFrames
    <2>12. CASE y = z
      BY <2>6, <2>10, <2>11, <2>12
    <2>13. CASE y = Enqueue(z, s, "SYNACK", len)
      <3>1. "SYNACK" \in Cmds \ {"CONTROL"} /\ "SYNACK" # "FIN"
        BY DEF Cmds
      <3>2. Good(y, w) /\ OnlyOf(z, y, s) /\ y.state = z.state /\ ~y.finq[s]
        BY <3>1, <2>6, <2>10, <2>11, <2>13, EnqueueGood
      <3> QED  BY <3>2, <2>6, <2>11, OnlyTwice
    <2> QED  BY <2>3, <2>12, <2>13
  <1> QED  BY <1>2, <1>3

LEMMA FinGood ==
    ASSUME NEW x, NEW w, Good(x, w), NEW s \in Streams, NEW y, y = SendFinAndClose(x, s),
           x.state[s] \notin {"free", "closed", "connecting"}
    PROVE  /\ Good(y, w) /\ OnlyOf(x, y, s) /\ (~x.finq[s] \/ StateOk(x, s) => StateOk(y, s))
  <1>1. CASE x.finq[s]
    BY <1>1, CloseGood DEF SendFinAndClose
  <1>2. CASE ~x.finq[s] /\ Accepts(x, s, "FIN")
    <2> DEFINE z == Enqueue(x, s, "FIN", 0)
    <2>1. "FIN" \in Cmds \ {"CONTROL"} /\ "FIN" # "SYNACK" /\ 0 \in Nat
      BY DEF Cmds
    <2>2. Good(z, w) /\ OnlyOf(x, z, s)
      BY <1>2, <2>1, EnqueueGood
    <2>3. y = CloseStream(z, s)
      BY <1>2 DEF SendFinAndClose
    <2> HIDE DEF z
    <2>4. Good(y, w) /\ OnlyOf(z, y, s) /\ StateOk(y, s)
      BY <2>2, <2>3, CloseGood
    <2> QED  BY <2>2, <2>4, OnlyTwice
  <1>3. CASE ~x.finq[s] /\ ~Accepts(x, s, "FIN")
    <2>1. y = x
      BY <1>3 DEF SendFinAndClose
    <2>2. StateOk(x, s)
      BY <1>3 DEF StateOk
    <2> QED  BY <2>1, <2>2 DEF OnlyOf, Advances
  <1> QED  BY <1>1, <1>2, <1>3

(* A frame without a stream is queued.                                     *)
LEMMA ControlGood ==
    ASSUME NEW x, NEW w, Sound(x, w), NEW y, y = EnqueueControl(x)
    PROVE  /\ Sound(y, w) /\ Awake(x, y) /\ y.state = x.state /\ y.seq = x.seq /\ y.finq = x.finq
           /\ y.gen = x.gen /\ y.sending = x.sending
  <1>1. x \in Mux /\ x.open /\ FramesOk(x) /\ Counted(x) /\ \A t \in Streams : StreamOk(x, t, Len(w[t]))
    BY DEF Sound
  <1> DEFINE f == [cmd |-> "CONTROL", st |-> NoStream, gen |-> 0, n |-> x.controls + 1, len |-> HeaderLen]
             c == Append(x.control, f)
             z == [x EXCEPT !.control = c, !.controls = @ + 1, !.pending = @ + f.len, !.frames = @ + 1]
  <1>2. x.controls \in Nat /\ x.pending \in Nat /\ x.frames \in Nat /\ x.control \in Seq(Frame)
    BY <1>1, MuxFields
  <1>3. f \in Frame /\ f.st = NoStream /\ f.len \in Nat
    BY <1>2, MuxAssumption DEF Frame, Cmds
  <1>4. y = PostWrite(z)
    BY DEF EnqueueControl
  <1> HIDE DEF f
  <1>5. c \in Seq(Frame) /\ x.controls + 1 \in Nat /\ x.pending + f.len \in Nat /\ x.frames + 1 \in Nat
    BY <1>2, <1>3
  <1>6. z = [x EXCEPT !.control = c, !.controls = x.controls + 1, !.pending = x.pending + f.len,
                      !.frames = x.frames + 1]
    BY <1>1 DEF Mux
  <1> HIDE DEF c
  <1>7. z \in Mux
    BY ONLY <1>5, <1>6, <1>1 DEF Mux
  <1>8. /\ z.gen = x.gen /\ z.seq = x.seq /\ z.finq = x.finq /\ z.queued = x.queued /\ z.out = x.out
        /\ z.data = x.data /\ z.sending = x.sending /\ z.ready = x.ready /\ z.state = x.state
        /\ z.control = c /\ z.frames = x.frames + 1 /\ z.pending = x.pending + f.len
    BY ONLY <1>6, <1>1 DEF Mux
  <1>9. SameFlags(x, z)
    BY ONLY <1>6, <1>1 DEF Mux, SameFlags
  <1> HIDE DEF z
  <1>10. PICK t \in BOOLEAN : /\ PostWrite(z) = [z EXCEPT !.posted = TRUE, !.timer = t]
                              /\ z.timer => t
                              /\ HasWriteTimeout /\ (z.posted => z.timer) => t
    BY <1>7, Posted
  <1>11. y \in Mux
    BY <1>4, <1>7, Posted
  <1>12. /\ y.gen = z.gen /\ y.seq = z.seq /\ y.finq = z.finq /\ y.queued = z.queued /\ y.out = z.out
         /\ y.data = z.data /\ y.sending = z.sending /\ y.ready = z.ready /\ y.state = z.state
         /\ y.control = z.control /\ y.frames = z.frames /\ y.pending = z.pending
    BY <1>4, <1>7, <1>10 DEF Mux
  <1>13. y.open = z.open /\ y.pressure = z.pressure /\ y.armed = z.armed /\ y.posted /\ y.timer = t
    BY <1>4, <1>7, <1>10 DEF Mux
  <1>14. Awake(x, y)
    BY <1>9, <1>10, <1>13 DEF SameFlags, Awake
  <1>15. Advances(x, y)
    BY <1>8, <1>12 DEF Advances
  <1>16. FrameOk(y, f)
    BY <1>3, MuxAssumption DEF FrameOk
  <1>17. AllOk(y, y.control)
    <2>1. AllOk(y, x.control)
      BY <1>1, <1>15, AllOkKept DEF FramesOk
    <2>2. AllOk(y, Append(x.control, f))
      BY <2>1, <1>2, <1>3, <1>16, AllOkAppend
    <2> QED  BY <2>2, <1>8, <1>12 DEF c
  <1>18. FramesOk(y)
    <2>1. AllOk(y, x.sending) /\ AllOk(y, x.data)
          /\ \A s \in Streams : AllOk(y, x.out[s]) /\ \A k \in DOMAIN x.out[s] : x.out[s][k].st = s
      BY <1>1, <1>15, AllOkKept DEF FramesOk
    <2> QED  BY <2>1, <1>8, <1>12, <1>17 DEF FramesOk
  <1>19. ToControl(x, y, f)
    BY <1>8, <1>12 DEF ToControl, c
  <1>20. ASSUME NEW t1 \in Streams PROVE StreamOk(y, t1, Len(w[t1]))
    <2>1. StreamOk(x, t1, Len(w[t1]))
      BY <1>1
    <2>2. Spread(x, t1, Len(w[t1]))
      BY <2>1 DEF StreamOk
    <2>3. PICK a, b, g \in Nat :
              /\ Carries(x.sending, t1, Len(w[t1]), a) /\ Carries(x.control, t1, a, b)
              /\ Carries(x.data, t1, b, g) /\ Carries(x.out[t1], t1, g, x.seq[t1])
      BY <2>2, SpreadOf
    <2>4. f.st # t1
      BY <1>3, MuxAssumption
    <2>5. Carries(Append(x.control, f), t1, a, b)
      BY <2>3, <2>4, <1>2, <1>3, CarriesAppend
    <2>6. /\ Carries(y.sending, t1, Len(w[t1]), a) /\ Carries(y.control, t1, a, b)
          /\ Carries(y.data, t1, b, g) /\ Carries(y.out[t1], t1, g, y.seq[t1])
      BY <2>3, <2>5, <1>8, <1>12 DEF c
    <2>7. Spread(y, t1, Len(w[t1]))
      BY <2>6, SpreadBy
    <2> QED  BY <2>1, <2>7, <1>8, <1>12 DEF StreamOk
  <1>21. Counted(y)
    <2>1. y.frames = x.frames + 1 /\ y.pending = x.pending + f.len /\ y.sending = x.sending
      BY <1>8, <1>12
    <2> QED  BY <2>1, <1>1, <1>3, <1>19, CountedMore
  <1>22. y.open
    BY <1>1, <1>14 DEF Awake
  <1> QED  BY <1>8, <1>11, <1>12, <1>14, <1>18, <1>20, <1>21, <1>22 DEF Sound
-----------------------------------------------------------------------------
(* The steps of the write handler.                                         *)

(* A chain is linked when the previous one is gone.                        *)
LEMMA LinkedSound ==
    ASSUME NEW x, NEW w, Sound(x, w), NEW y, y = Linked(x)
    PROVE  /\ Sound(y, w) /\ SameFlags(x, y)
           /\ y.gen = x.gen /\ y.seq = x.seq /\ y.finq = x.finq /\ y.state = x.state
           /\ y.ready = x.ready /\ y.frames = x.frames /\ y.out = x.out
           /\ x.sending # <<>> => y = x
           /\ y.sending = <<>> => x.sending = <<>> /\ x.control = <<>> /\ x.data = <<>>
           /\ x.sending = <<>> => y.control = <<>> /\ y.data = <<>>
  <1>1. x \in Mux /\ x.open /\ FramesOk(x) /\ Counted(x) /\ \A t \in Streams : StreamOk(x, t, Len(w[t]))
    BY DEF Sound
  <1>2. CASE x.sending # <<>>
    <2>1. y = x
      BY <1>2 DEF Linked
    <2> QED  BY <2>1, <1>2 DEF SameFlags
  <1>3. CASE x.sending = <<>>
    <2> DEFINE e == <<>>
               c == x.control \o x.data
               L(q) == Len(q)
    <2>1. x.control \in Seq(Frame) /\ x.data \in Seq(Frame) /\ x.out \in [Streams -> Seq(Frame)]
      BY <1>1, MuxFields
    <2>2. c \in Seq(Frame) /\ L(c) = L(x.control) + L(x.data) /\ L(x.control) \in Nat /\ L(x.data) \in Nat
      BY <2>1
    <2>3. Bytes(c) = Bytes(x.control) + Bytes(x.data)
      BY <2>1, BytesConcat
    <2>4. e \in Seq(Frame) /\ L(e) = 0 /\ Bytes(e) = 0 /\ x.sending = e
      BY <1>3, BytesEmpty
    <2>5. c = e => x.control = e /\ x.data = e
      BY <2>1
    <2>6. AllOk(x, c) /\ AllOk(x, e)
      <3>1. AllOk(x, c)
        BY <1>1, <2>1, AllOkConcat DEF FramesOk
      <3>2. DOMAIN e = {}
        OBVIOUS
      <3> QED  BY <3>1, <3>2 DEF AllOk
    <2>7. y = [x EXCEPT !.sending = c, !.control = e, !.data = e]
      BY <1>3, <1>1 DEF Linked, Mux
    <2> HIDE DEF c
    <2>8. \A s \in Streams, a \in Nat : Carries(e, s, a, a)
      BY CarriesEmpty
    <2>9. \A s \in Streams : \A a, b : Carries(e, s, a, b) => a = b
      BY CarriesNothing
    <2>10. \A s \in Streams : \A a, b, g : Carries(x.control, s, a, b) /\ Carries(x.data, s, b, g) => Carries(c, s, a, g)
      BY <2>1, CarriesConcat DEF c
    <2> HIDE DEF e
    <2>11. y \in Mux
      BY ONLY <2>2, <2>4, <2>7, <1>1 DEF Mux
    <2>12. /\ y.gen = x.gen /\ y.seq = x.seq /\ y.finq = x.finq /\ y.state = x.state
           /\ y.ready = x.ready /\ y.frames = x.frames /\ y.out = x.out /\ y.pending = x.pending
           /\ y.queued = x.queued /\ y.sending = c /\ y.control = e /\ y.data = e
      BY ONLY <2>7, <1>1 DEF Mux
    <2>13. SameFlags(x, y)
      BY ONLY <2>7, <1>1 DEF Mux, SameFlags
    <2>14. Advances(x, y)
      BY <2>12 DEF Advances
    <2>15. FramesOk(y)
      <3>1. AllOk(y, c) /\ AllOk(y, e)
            /\ \A s \in Streams : AllOk(y, x.out[s]) /\ \A k \in DOMAIN x.out[s] : x.out[s][k].st = s
        BY <1>1, <2>6, <2>14, AllOkKept DEF FramesOk
      <3> QED  BY <3>1, <2>12 DEF FramesOk
    <2>16. Counted(y)
      <3>1. /\ x.frames = L(x.sending) + L(x.control) + L(x.data) + OutFrames(x.out)
            /\ x.pending = Bytes(x.sending) + Bytes(x.control) + Bytes(x.data) + OutBytes(x.out)
        BY <1>1 DEF Counted
      <3>2. OutFrames(x.out) \in Nat /\ OutBytes(x.out) \in Nat
        BY <2>1, OutTotals
      <3>3. Bytes(x.control) \in Nat /\ Bytes(x.data) \in Nat
        BY <2>1, BytesType
      <3>4. y.frames = L(y.sending) + L(y.control) + L(y.data) + OutFrames(y.out)
        <4> HIDE DEF L
        <4> QED  BY ONLY <3>1, <3>2, <2>2, <2>4, <2>12
      <3>5. y.pending = Bytes(y.sending) + Bytes(y.control) + Bytes(y.data) + OutBytes(y.out)
        BY ONLY <3>1, <3>2, <3>3, <2>3, <2>4, <2>12
      <3> QED  BY <3>4, <3>5 DEF Counted
    <2>17. ASSUME NEW s \in Streams PROVE StreamOk(y, s, Len(w[s]))
      <3> DEFINE l == Len(w[s])
      <3>1. StreamOk(x, s, l)
        BY <1>1
      <3> HIDE DEF l
      <3>2. Spread(x, s, l)
        BY <3>1 DEF StreamOk
      <3>3. PICK a, b, g \in Nat :
              /\ Carries(x.sending, s, l, a) /\ Carries(x.control, s, a, b)
              /\ Carries(x.data, s, b, g) /\ Carries(x.out[s], s, g, x.seq[s])
        BY <3>2, SpreadOf
      <3>4. l = a
        BY <3>3, <2>4, <2>9
      <3>5. Carries(c, s, l, g) /\ Carries(e, s, g, g)
        BY <3>3, <3>4, <2>8, <2>10
      <3>6. Spread(y, s, l)
        BY <3>3, <3>5, <2>12, SpreadBy
      <3>7. StreamOk(y, s, l)
        BY <3>1, <3>6, <2>12 DEF StreamOk
      <3> QED  BY <3>7 DEF l
    <2>18. y.open
      BY <1>1, <2>13 DEF SameFlags
    <2>19. Sound(y, w)
      BY <2>11, <2>15, <2>16, <2>17, <2>18 DEF Sound
    <2>20. y.sending = e => x.sending = e /\ x.control = e /\ x.data = e
      BY <2>4, <2>5, <2>12 DEF c
    <2> QED  BY <2>12, <2>13, <2>19, <2>20, <1>3 DEF e
  <1> QED  BY <1>2, <1>3

(* A frame of a ready stream is scheduled.                                 *)
Scheduled(x, z, s) ==
    /\ z.out = [x.out EXCEPT ![s] = Tail(@)] /\ z.data = Append(x.data, Head(x.out[s]))
    /\ z.gen = x.gen /\ z.seq = x.seq /\ z.finq = x.finq /\ z.queued = x.queued /\ z.state = x.state
    /\ z.control = x.control /\ z.sending = x.sending
    /\ z.frames = x.frames /\ z.pending = x.pending

LEMMA ScheduledSound ==
    ASSUME NEW x, NEW w, Sound(x, w), NEW s \in Streams, x.out[s] # <<>>, NEW z \in Mux, z.open,
           Scheduled(x, z, s), \A t \in Streams : z.out[t] # <<>> => t \in Range(z.ready)
    PROVE  Sound(z, w)
  <1>1. x \in Mux /\ x.open /\ FramesOk(x) /\ Counted(x) /\ \A t \in Streams : StreamOk(x, t, Len(w[t]))
    BY DEF Sound
  <1> DEFINE f == Head(x.out[s])
             r == Tail(x.out[s])
             L(q) == Len(q)
  <1>2. /\ x.out \in [Streams -> Seq(Frame)] /\ x.out[s] \in Seq(Frame) /\ x.data \in Seq(Frame)
        /\ x.control \in Seq(Frame) /\ x.sending \in Seq(Frame) /\ z.data \in Seq(Frame)
    BY <1>1, MuxFields
  <1>3. f \in Frame /\ r \in Seq(Frame) /\ L(x.out[s]) = L(r) + 1 /\ Bytes(x.out[s]) = f.len + Bytes(r)
    BY <1>2, BytesTail
  <1>4. f.st = s /\ \A k \in DOMAIN r : r[k].st = s
    <2>1. \A k \in DOMAIN x.out[s] : x.out[s][k].st = s
      BY <1>1 DEF FramesOk
    <2>2. 1 \in DOMAIN x.out[s] /\ f = x.out[s][1]
      BY <1>2
    <2>3. ASSUME NEW k \in DOMAIN r PROVE k + 1 \in DOMAIN x.out[s] /\ r[k] = x.out[s][k + 1]
      BY <1>2
    <2> QED  BY <2>1, <2>2, <2>3
  <1>5. L(x.data) \in Nat /\ L(r) \in Nat /\ L(x.control) \in Nat /\ L(x.sending) \in Nat
        /\ L(Append(x.data, f)) = L(x.data) + 1
    BY <1>2, <1>3
  <1>6. /\ Bytes(Append(x.data, f)) = Bytes(x.data) + f.len
        /\ Bytes(x.data) \in Nat /\ Bytes(x.control) \in Nat /\ Bytes(x.sending) \in Nat /\ Bytes(r) \in Nat
    BY <1>2, <1>3, BytesAppend, BytesType
  <1>7. f.len \in Nat
    BY <1>3 DEF Frame
  <1>8. /\ z.out[s] = r /\ z.out \in [Streams -> Seq(Frame)]
        /\ \A t \in Streams \ {s} : z.out[t] = x.out[t]
    BY <1>2, <1>3 DEF Scheduled
  <1>9. /\ z.data = Append(x.data, f)
        /\ z.gen = x.gen /\ z.seq = x.seq /\ z.finq = x.finq /\ z.queued = x.queued /\ z.state = x.state
        /\ z.control = x.control /\ z.sending = x.sending
        /\ z.frames = x.frames /\ z.pending = x.pending
    BY DEF Scheduled
  <1>10. OutFrames(z.out) = OutFrames(x.out) + L(z.out[s]) - L(x.out[s])
    BY <1>2, <1>8, OutChanges
  <1>11. OutBytes(z.out) = OutBytes(x.out) + Bytes(z.out[s]) - Bytes(x.out[s])
    BY <1>2, <1>8, OutChanges
  <1>12. OutFrames(x.out) \in Nat /\ OutBytes(x.out) \in Nat
    BY <1>2, OutTotals
  <1>13. Counted(z)
    <2>1. /\ x.frames = L(x.sending) + L(x.control) + L(x.data) + OutFrames(x.out)
          /\ x.pending = Bytes(x.sending) + Bytes(x.control) + Bytes(x.data) + OutBytes(x.out)
      BY <1>1 DEF Counted
    <2>2. z.frames = L(z.sending) + L(z.control) + L(z.data) + OutFrames(z.out)
      <3> HIDE DEF L, f, r
      <3> QED  BY ONLY <2>1, <1>3, <1>5, <1>8, <1>9, <1>10, <1>12
    <2>3. z.pending = Bytes(z.sending) + Bytes(z.control) + Bytes(z.data) + OutBytes(z.out)
      <3> HIDE DEF f, r
      <3> QED  BY ONLY <2>1, <1>3, <1>6, <1>7, <1>8, <1>9, <1>11, <1>12
    <2> QED  BY <2>2, <2>3 DEF Counted
  <1>14. Advances(x, z)
    BY <1>9 DEF Advances
  <1>15. FramesOk(z)
    <2>1. AllOk(z, x.sending) /\ AllOk(z, x.control) /\ AllOk(z, x.data)
          /\ \A t \in Streams : AllOk(z, x.out[t]) /\ \A k \in DOMAIN x.out[t] : x.out[t][k].st = t
      BY <1>1, <1>14, AllOkKept DEF FramesOk
    <2>2. FrameOk(z, f) /\ AllOk(z, r)
      BY <2>1, <1>2, AllOkTail
    <2>3. AllOk(z, Append(x.data, f))
      BY <2>1, <2>2, <1>2, <1>3, AllOkAppend
    <2>4. ASSUME NEW t \in Streams
          PROVE  AllOk(z, z.out[t]) /\ \A k \in DOMAIN z.out[t] : z.out[t][k].st = t
      <3>1. CASE t = s
        BY <3>1, <2>2, <1>4, <1>8
      <3>2. CASE t # s
        BY <3>2, <2>1, <1>8
      <3> QED  BY <3>1, <3>2
    <2> QED  BY <2>1, <2>3, <2>4, <1>9 DEF FramesOk
  <1>16. ASSUME NEW t \in Streams PROVE StreamOk(z, t, Len(w[t]))
    <2> DEFINE l == Len(w[t])
    <2>1. StreamOk(x, t, l)
      BY <1>1
    <2> HIDE DEF l
    <2>2. Spread(x, t, l)
      BY <2>1 DEF StreamOk
    <2>3. PICK a, b, c \in Nat :
            /\ Carries(x.sending, t, l, a) /\ Carries(x.control, t, a, b)
            /\ Carries(x.data, t, b, c) /\ Carries(x.out[t], t, c, x.seq[t])
      BY <2>2, SpreadOf
    <2>4. Spread(z, t, l)
      <3>1. CASE t # s
        <4>1. Carries(Append(x.data, f), t, b, c)
          BY <2>3, <3>1, <1>2, <1>3, <1>4, CarriesAppend
        <4>2. z.out[t] = x.out[t]
          BY <3>1, <1>8
        <4> QED  BY <4>1, <4>2, <2>3, <1>9, SpreadBy
      <3>2. CASE t = s
        <4>1. Carries(x.out[s], s, c, x.seq[s])
          BY <2>3, <3>2
        <4>2. f.n = c + 1 /\ Carries(r, s, c + 1, x.seq[s])
          BY <4>1, <1>2, <1>4, CarriesTail
        <4>3. Carries(Append(x.data, f), s, b, c + 1)
          BY <2>3, <3>2, <4>2, <1>2, <1>3, <1>4, CarriesAppend
        <4>4. z.out[t] = r /\ z.data = Append(x.data, f)
          BY <3>2, <1>8, <1>9
        <4>5. /\ Carries(z.sending, t, l, a) /\ Carries(z.control, t, a, b)
              /\ Carries(z.data, t, b, c + 1) /\ Carries(z.out[t], t, c + 1, z.seq[t])
          BY <2>3, <3>2, <4>2, <4>3, <4>4, <1>9
        <4> QED  BY <4>5, SpreadBy
      <3> QED  BY <3>1, <3>2
    <2>5. StreamOk(z, t, l)
      BY <2>1, <2>4, <1>9 DEF StreamOk
    <2> QED  BY <2>5 DEF l
  <1> QED  BY <1>13, <1>15, <1>16 DEF Sound

LEMMA TailReady ==
    ASSUME NEW q \in Seq(Streams), q # <<>>
    PROVE  /\ Head(q) \in Streams /\ Tail(q) \in Seq(Streams)
           /\ \A v \in Range(q) : v = Head(q) \/ v \in Range(Tail(q))
  <1>1. Head(q) \in Streams /\ Tail(q) \in Seq(Streams) /\ Head(q) = q[1]
    OBVIOUS
  <1>2. ASSUME NEW k \in DOMAIN q, k # 1 PROVE q[k] \in Range(Tail(q))
    <2>1. k - 1 \in DOMAIN Tail(q) /\ Tail(q)[k - 1] = q[k]
      BY <1>2
    <2> QED  BY <2>1 DEF Range
  <1>3. \A v \in Range(q) : v = Head(q) \/ v \in Range(Tail(q))
    BY <1>1, <1>2 DEF Range
  <1> QED  BY <1>1, <1>3
-----------------------------------------------------------------------------
(* ngx_anytls_recycle_sent_frames and the frame handler.                   *)

\* The first frame of the chain has left and is not counted any more.
Left(x, z) ==
    LET f == Head(x.sending)
    IN  /\ z.sending = Tail(x.sending)
        /\ z.pending = Minus(x.pending, f.len) /\ z.frames = Minus(x.frames, 1)
        /\ z.queued = IF f.st = NoStream THEN x.queued
                      ELSE [x.queued EXCEPT ![f.st] = Minus(@, 1)]
        /\ z.gen = x.gen /\ z.seq = x.seq /\ z.finq = x.finq /\ z.state = x.state
        /\ z.control = x.control /\ z.data = x.data /\ z.out = x.out /\ z.ready = x.ready

Shown(w, f) ==
    IF f.st = NoStream THEN w
    ELSE [w EXCEPT ![f.st] = Append(@, [cmd |-> f.cmd, gen |-> f.gen, n |-> f.n])]

LEMMA LeftSound ==
    ASSUME NEW x, NEW w \in [Streams -> Seq(Sent)], Sound(x, w), x.sending # <<>>,
           NEW z \in Mux, z.open, Left(x, z),
           \A s \in Streams : WireOk(x, w, s), NEW v, v = Shown(w, Head(x.sending))
    PROVE  /\ Sound(z, v) /\ v \in [Streams -> Seq(Sent)]
           /\ \A s \in Streams : WireOk(z, v, s)
           /\ z.frames <= x.frames
  <1>1. x \in Mux /\ x.open /\ FramesOk(x) /\ Counted(x) /\ \A t \in Streams : StreamOk(x, t, Len(w[t]))
    BY DEF Sound
  <1> DEFINE f == Head(x.sending)
             r == Tail(x.sending)
             L(q) == Len(q)
  <1>2. /\ x.sending \in Seq(Frame) /\ x.control \in Seq(Frame) /\ x.data \in Seq(Frame)
        /\ x.out \in [Streams -> Seq(Frame)] /\ x.queued \in [Streams -> Nat] /\ x.seq \in [Streams -> Nat]
        /\ x.frames \in Nat /\ x.pending \in Nat
    BY <1>1, MuxFields
  <1>3. f \in Frame /\ r \in Seq(Frame) /\ L(x.sending) = L(r) + 1 /\ Bytes(x.sending) = f.len + Bytes(r)
    BY <1>2, BytesTail
  <1>4. /\ L(r) \in Nat /\ L(x.control) \in Nat /\ L(x.data) \in Nat
        /\ OutFrames(x.out) \in Nat /\ OutBytes(x.out) \in Nat
    BY <1>2, <1>3, OutTotals
  <1>5. Bytes(r) \in Nat /\ Bytes(x.control) \in Nat /\ Bytes(x.data) \in Nat
    BY <1>2, <1>3, BytesType
  <1>6. f.len \in Nat /\ f.st \in Streams \cup {NoStream} /\ f.cmd \in Cmds /\ f.gen \in Nat /\ f.n \in Nat
    BY <1>3 DEF Frame
  <1>7. /\ x.frames = L(x.sending) + L(x.control) + L(x.data) + OutFrames(x.out)
        /\ x.pending = Bytes(x.sending) + Bytes(x.control) + Bytes(x.data) + OutBytes(x.out)
    BY <1>1 DEF Counted
  <1>8. /\ z.sending = r
        /\ z.pending = Minus(x.pending, f.len) /\ z.frames = Minus(x.frames, 1)
        /\ z.gen = x.gen /\ z.seq = x.seq /\ z.finq = x.finq /\ z.state = x.state
        /\ z.control = x.control /\ z.data = x.data /\ z.out = x.out /\ z.ready = x.ready
    BY DEF Left
  <1>9. z.queued = IF f.st = NoStream THEN x.queued ELSE [x.queued EXCEPT ![f.st] = Minus(@, 1)]
    BY DEF Left
  <1>10. /\ z.frames = L(z.sending) + L(z.control) + L(z.data) + OutFrames(z.out)
         /\ z.frames <= x.frames
    <2> HIDE DEF L, f, r
    <2>1. x.frames >= 1 /\ x.frames - 1 = L(r) + L(x.control) + L(x.data) + OutFrames(x.out)
      BY ONLY <1>2, <1>3, <1>4, <1>7
    <2>2. z.frames = x.frames - 1
      BY ONLY <2>1, <1>8, <1>2 DEF Minus
    <2> QED  BY ONLY <2>1, <2>2, <1>2, <1>8
  <1>11. z.pending = Bytes(z.sending) + Bytes(z.control) + Bytes(z.data) + OutBytes(z.out)
    <2> HIDE DEF f, r, L
    <2>0. Bytes(x.sending) = f.len + Bytes(r)
      BY ONLY <1>3
    <2>3. OutBytes(x.out) \in Nat /\ f.len \in Nat
      BY ONLY <1>4, <1>6
    <2>4. x.pending = Bytes(x.sending) + Bytes(x.control) + Bytes(x.data) + OutBytes(x.out)
      BY ONLY <1>7
    <2>5. x.pending = (f.len + Bytes(r)) + Bytes(x.control) + Bytes(x.data) + OutBytes(x.out)
      BY ONLY <2>0, <2>4
    <2>1. x.pending >= f.len /\ x.pending - f.len = Bytes(r) + Bytes(x.control) + Bytes(x.data) + OutBytes(x.out)
      BY ONLY <1>5, <2>3, <2>5
    <2>2. z.pending = x.pending - f.len
      BY ONLY <2>1, <1>8, <1>2, <1>6 DEF Minus
    <2> QED  BY ONLY <2>1, <2>2, <1>8
  <1>12. Counted(z)
    BY <1>10, <1>11 DEF Counted
  <1>13. Advances(x, z)
    BY <1>8 DEF Advances
  <1>14. FrameOk(x, f) /\ AllOk(x, r)
    BY <1>1, <1>2, AllOkTail DEF FramesOk
  <1>15. FramesOk(z)
    <2>1. AllOk(z, r) /\ AllOk(z, x.control) /\ AllOk(z, x.data)
          /\ \A t \in Streams : AllOk(z, x.out[t]) /\ \A k \in DOMAIN x.out[t] : x.out[t][k].st = t
      BY <1>1, <1>13, <1>14, AllOkKept DEF FramesOk
    <2> QED  BY <2>1, <1>8 DEF FramesOk
  <1> DEFINE g == [cmd |-> f.cmd, gen |-> f.gen, n |-> f.n]
  <1>16. g \in Sent /\ g.cmd = f.cmd /\ g.gen = f.gen /\ g.n = f.n
    BY <1>6 DEF Sent
  <1>17. v = IF f.st = NoStream THEN w ELSE [w EXCEPT ![f.st] = Append(@, g)]
    BY DEF Shown
  <1> HIDE DEF g, f, r, L
  <1>18. v \in [Streams -> Seq(Sent)]
    <2>1. CASE f.st = NoStream
      BY <2>1, <1>17
    <2>2. CASE f.st # NoStream
      <3>1. Append(w[f.st], g) \in Seq(Sent)
        BY <2>2, <1>6, <1>16
      <3> QED  BY <3>1, <2>2, <1>6, <1>17
    <2> QED  BY <2>1, <2>2
  \* a stream whose frame it is not
  <1>19. ASSUME NEW t \in Streams, f.st # t
         PROVE  StreamOk(z, t, Len(v[t])) /\ WireOk(z, v, t)
    <2>1. v[t] = w[t] /\ z.queued[t] = x.queued[t]
      <3>1. CASE f.st = NoStream
        BY <3>1, <1>9, <1>17
      <3>2. CASE f.st # NoStream
        BY <3>2, <1>2, <1>6, <1>9, <1>17, <1>19
      <3> QED  BY <3>1, <3>2
    <2> DEFINE l == Len(w[t])
    <2>2. StreamOk(x, t, l) /\ l = Len(v[t])
      BY <1>1, <2>1
    <2> HIDE DEF l
    <2>3. Spread(x, t, l)
      BY <2>2 DEF StreamOk
    <2>4. PICK a, b, c \in Nat :
            /\ Carries(x.sending, t, l, a) /\ Carries(x.control, t, a, b)
            /\ Carries(x.data, t, b, c) /\ Carries(x.out[t], t, c, x.seq[t])
      BY <2>3, SpreadOf
    <2>5. Carries(z.sending, t, l, a)
      BY <2>4, <1>2, <1>8, <1>19, CarriesTail DEF f, r
    <2>6. Spread(z, t, l)
      BY <2>4, <2>5, <1>8, SpreadBy
    <2>7. StreamOk(z, t, l)
      BY <2>1, <2>2, <2>6, <1>8 DEF StreamOk
    <2>8. WireOk(x, w, t)
      OBVIOUS
    <2>9. WireOk(z, v, t)
      BY <2>1, <2>8, <1>8 DEF WireOk
    <2> QED  BY <2>2, <2>7, <2>9
  \* the stream whose frame it is
  <1>20. ASSUME NEW t \in Streams, f.st = t
         PROVE  StreamOk(z, t, Len(v[t])) /\ WireOk(z, v, t)
    <2> DEFINE l == Len(w[t])
    <2>1. f.st # NoStream
      BY <1>20, MuxAssumption
    <2>2. v[t] = Append(w[t], g) /\ z.queued[t] = Minus(x.queued[t], 1)
      BY <2>1, <1>2, <1>9, <1>17, <1>20
    <2>3. w[t] \in Seq(Sent)
      OBVIOUS
    <2>4. /\ l \in Nat /\ Len(v[t]) = l + 1 /\ v[t][l + 1] = g
          /\ \A k \in 1 .. l : v[t][k] = w[t][k]
          /\ DOMAIN v[t] = 1 .. l + 1 /\ DOMAIN w[t] = 1 .. l
      BY <2>2, <2>3, <1>16
    <2>5. StreamOk(x, t, l)
      BY <1>1
    <2> HIDE DEF l
    <2>6. Spread(x, t, l)
      BY <2>5 DEF StreamOk
    <2>7. PICK a, b, c \in Nat :
            /\ Carries(x.sending, t, l, a) /\ Carries(x.control, t, a, b)
            /\ Carries(x.data, t, b, c) /\ Carries(x.out[t], t, c, x.seq[t])
            /\ l \in Nat /\ x.seq[t] \in Nat /\ l <= a /\ a <= b /\ b <= c /\ c <= x.seq[t]
      BY <2>6, SpreadOf
    <2>8. f.n = l + 1 /\ l < a /\ Carries(z.sending, t, l + 1, a)
      <3>1. Carries(x.sending, t, l, a) /\ Head(x.sending).st = t
        BY <2>7, <1>20 DEF f
      <3>2. Head(x.sending).n = l + 1 /\ l < a /\ Carries(Tail(x.sending), t, l + 1, a)
        BY ONLY <3>1, <1>2, x.sending # <<>>, CarriesTail
      <3>3. f = Head(x.sending) /\ z.sending = Tail(x.sending)
        BY <1>8 DEF f, r
      <3> QED  BY ONLY <3>2, <3>3
    <2>9. Spread(z, t, l + 1)
      BY <2>7, <2>8, <1>8, SpreadBy
    <2>10. x.queued[t] = x.seq[t] - l /\ x.queued[t] > 0
      BY <2>5, <2>7, <2>8 DEF StreamOk
    <2>11. z.queued[t] = z.seq[t] - (l + 1)
      BY <2>2, <2>7, <2>10, <1>2, <1>8 DEF Minus
    <2>12. z.state[t] \notin {"free", "closed"}
      <3>1. x.queued[t] # 0
        BY <2>10
      <3> QED  BY <3>1, <2>5, <1>8 DEF StreamOk
    <2>13. StreamOk(z, t, l + 1)
      <3>1. z.out[t] # <<>> => t \in Range(z.ready)
        BY <2>5, <1>8 DEF StreamOk
      <3> QED  BY <3>1, <2>9, <2>11, <2>12 DEF StreamOk
    <2>14. WireOk(z, v, t)
      <3>1. WireOk(x, w, t)
        OBVIOUS
      <3>2. ASSUME NEW i \in 1 .. l + 1
            PROVE  /\ v[t][i].n = i /\ v[t][i].gen = z.gen[t]
                   /\ v[t][i].cmd = "SYNACK" => i = 1
                   /\ v[t][i].cmd = "FIN" => i = z.seq[t] /\ z.finq[t]
        <4>1. CASE i \in 1 .. l
          <5>1. v[t][i] = w[t][i] /\ i \in DOMAIN w[t]
            BY <2>4, <4>1
          <5> QED  BY <5>1, <3>1, <1>8 DEF WireOk
        <4>2. CASE i = l + 1
          <5>1. v[t][i] = g
            BY <2>4, <4>2
          <5>2. /\ f.gen = x.gen[t]
                /\ f.cmd = "SYNACK" => f.n = 1
                /\ f.cmd = "FIN" => f.n = x.seq[t] /\ x.finq[t]
            BY <1>14, <1>20 DEF FrameOk
          <5> QED  BY <5>1, <5>2, <4>2, <2>8, <1>8, <1>16
        <4>3. i \in 1 .. l \/ i = l + 1
          BY <2>4
        <4> QED  BY <4>1, <4>2, <4>3
      <3> QED  BY <3>2, <2>4 DEF WireOk
    <2> QED  BY <2>4, <2>13, <2>14
  <1>21. \A t \in Streams : StreamOk(z, t, Len(v[t])) /\ WireOk(z, v, t)
    BY <1>19, <1>20
  <1> QED  BY <1>10, <1>12, <1>15, <1>18, <1>21 DEF Sound

(* A chain that was taken in part: one frame is released, and a stream    *)
(* that waited for it is closed.                                          *)
LEMMA FrameSentSound ==
    ASSUME NEW x, NEW w \in [Streams -> Seq(Sent)], Sound(x, w), x.sending # <<>>,
           \A s \in Streams : WireOk(x, w, s) /\ StateOk(x, s),
           NEW v, v = Shown(w, Head(x.sending)), NEW y, y = FrameSent(x)
    PROVE  /\ Sound(y, v) /\ v \in [Streams -> Seq(Sent)]
           /\ \A s \in Streams : WireOk(y, v, s) /\ StateOk(y, s)
           /\ SameFlags(x, y) /\ y.frames <= x.frames /\ y.sending = Tail(x.sending)
  <1>1. x \in Mux /\ x.open
    BY DEF Sound
  <1> DEFINE f == Head(x.sending)
             r == Tail(x.sending)
             p == Minus(x.pending, f.len)
             n == Minus(x.frames, 1)
             off == [x EXCEPT !.sending = r, !.pending = p, !.frames = n]
             q == [x.queued EXCEPT ![f.st] = Minus(@, 1)]
             unc == [x EXCEPT !.sending = r, !.pending = p, !.frames = n, !.queued = q]
  <1>2. /\ x.sending \in Seq(Frame) /\ x.frames \in Nat /\ x.pending \in Nat
        /\ x.queued \in [Streams -> Nat]
    BY <1>1, MuxFields
  <1>3. f \in Frame /\ r \in Seq(Frame)
    BY <1>2, BytesTail
  <1>4. f.len \in Nat /\ f.st \in Streams \cup {NoStream}
    BY <1>3 DEF Frame
  <1>5. p \in Nat /\ n \in Nat
    BY <1>2, <1>4 DEF Minus
  <1>6. ASSUME f.st # NoStream PROVE q \in [Streams -> Nat]
    <2>1. Minus(x.queued[f.st], 1) \in Nat
      BY <1>2, <1>4, <1>6 DEF Minus
    <2> QED  BY <2>1, <1>2
  <1>7. \/ f.st = NoStream /\ y = off
        \/ f.st # NoStream /\ (y = unc \/ y = CloseStream(unc, f.st))
    BY <1>1 DEF FrameSent, Mux
  <1>8. f.st # NoStream => f.st \in Streams
    BY <1>4
  <1>9. Tail(x.sending) = r /\ v = Shown(w, f)
    OBVIOUS
  <1>10. ASSUME NEW z \in Mux, Left(x, z), SameFlags(x, z)
         PROVE  /\ Sound(z, v) /\ v \in [Streams -> Seq(Sent)]
                /\ \A s \in Streams : WireOk(z, v, s) /\ StateOk(z, s)
                /\ SameFlags(x, z) /\ z.frames <= x.frames /\ z.sending = r
    <2>1. z.open
      BY <1>1, <1>10 DEF SameFlags
    <2>2. /\ Sound(z, v) /\ v \in [Streams -> Seq(Sent)]
          /\ \A s \in Streams : WireOk(z, v, s)
          /\ z.frames <= x.frames
      BY <1>10, <2>1, LeftSound
    <2>3. z.state = x.state /\ z.seq = x.seq /\ z.finq = x.finq /\ z.sending = r
      BY <1>10 DEF Left
    <2>4. \A s \in Streams : StateOk(z, s)
      BY <2>3 DEF StateOk
    <2> QED  BY <1>10, <2>2, <2>3, <2>4
  <1>11. CASE f.st = NoStream
    <2>1. y = off
      BY <1>7, <1>11
    <2> HIDE DEF f, r, p, n
    <2>2. off \in Mux
      BY ONLY <1>1, <1>3, <1>5 DEF Mux
    <2>3. Left(x, off) /\ SameFlags(x, off)
      <3>1. /\ off.sending = r /\ off.pending = p /\ off.frames = n /\ off.queued = x.queued
            /\ off.gen = x.gen /\ off.seq = x.seq /\ off.finq = x.finq /\ off.state = x.state
            /\ off.control = x.control /\ off.data = x.data /\ off.out = x.out /\ off.ready = x.ready
        BY ONLY <1>1 DEF Mux
      <3>2. SameFlags(x, off)
        BY ONLY <1>1 DEF Mux, SameFlags
      <3> HIDE DEF off
      <3> QED  BY <3>1, <3>2, <1>11 DEF Left, f, r, p, n
    <2> HIDE DEF off
    <2> QED  BY <2>1, <2>2, <2>3, <1>9, <1>10
  <1>12. CASE f.st # NoStream
    <2>1. y = unc \/ y = CloseStream(unc, f.st)
      BY <1>7, <1>12
    <2>2. q \in [Streams -> Nat]
      BY <1>6, <1>12
    <2> HIDE DEF r, p, n, q, f
    <2>3. unc \in Mux
      BY ONLY <1>1, <1>3, <1>5, <2>2 DEF Mux
    <2>4. Left(x, unc) /\ SameFlags(x, unc)
      <3>1. /\ unc.sending = r /\ unc.pending = p /\ unc.frames = n /\ unc.queued = q
            /\ unc.gen = x.gen /\ unc.seq = x.seq /\ unc.finq = x.finq /\ unc.state = x.state
            /\ unc.control = x.control /\ unc.data = x.data /\ unc.out = x.out /\ unc.ready = x.ready
        BY ONLY <1>1 DEF Mux
      <3>2. SameFlags(x, unc)
        BY ONLY <1>1 DEF Mux, SameFlags
      <3> HIDE DEF unc
      <3> QED  BY <3>1, <3>2, <1>12 DEF Left, f, r, p, n, q
    <2> HIDE DEF unc
    <2>5. /\ Sound(unc, v) /\ v \in [Streams -> Seq(Sent)]
          /\ \A s \in Streams : WireOk(unc, v, s) /\ StateOk(unc, s)
          /\ SameFlags(x, unc) /\ unc.frames <= x.frames /\ unc.sending = r
      BY <2>3, <2>4, <1>10
    <2>6. CASE y = unc
      BY <2>5, <2>6, <1>9
    <2>7. CASE y = CloseStream(unc, f.st)
      <3>1. /\ Sound(y, v) /\ OnlyOf(unc, y, f.st) /\ SameFrames(unc, y) /\ SameFlags(unc, y)
            /\ y.state[f.st] \in {"closing", "closed"}
        BY <2>5, <2>7, <1>8, <1>12, CloseSound
      <3>2. \A s \in Streams : WireOk(y, v, s)
        BY <2>5, <3>1, WireKept DEF OnlyOf
      <3>3. ASSUME NEW s \in Streams PROVE StateOk(y, s)
        <4>1. CASE s = f.st
          BY <4>1, <3>1 DEF StateOk
        <4>2. CASE s # f.st
          BY <4>2, <3>1, <2>5 DEF StateOk, OnlyOf
        <4> QED  BY <4>1, <4>2
      <3>4. y.frames = unc.frames /\ y.sending = unc.sending
        BY <3>1 DEF SameFrames
      <3>5. SameFlags(x, y)
        BY <3>1, <2>5 DEF SameFlags
      <3> QED  BY <3>1, <3>2, <3>3, <3>4, <3>5, <2>5, <1>9
    <2> QED  BY <2>1, <2>6, <2>7
  <1> QED  BY <1>11, <1>12

(* ngx_anytls_finalize_rc.                                                 *)
LEMMA FinalizeFields ==
    ASSUME NEW x \in Mux, NEW y, y = Finalize(x)
    PROVE  y \in Mux /\ ~y.open /\ y.gen = x.gen /\ y.seq = x.seq /\ y.finq = x.finq
  <1> DEFINE st == [s \in Streams |-> IF x.state[s] = "free" THEN "free" ELSE "closed"]
             up == [s \in Streams |-> FALSE]
  <1>1. st \in [Streams -> States] /\ up \in [Streams -> BOOLEAN]
    BY DEF States
  <1>2. y = [x EXCEPT !.open = FALSE, !.timer = FALSE, !.armed = FALSE, !.posted = FALSE,
                      !.state = st, !.up = up]
    BY DEF Finalize
  <1> HIDE DEF st, up
  <1>3. y \in Mux
    BY ONLY <1>1, <1>2, x \in Mux DEF Mux
  <1>4. ~y.open /\ y.gen = x.gen /\ y.seq = x.seq /\ y.finq = x.finq
    BY ONLY <1>2, x \in Mux DEF Mux
  <1> QED  BY <1>3, <1>4
-----------------------------------------------------------------------------
(* A new stream takes an id.                                               *)
Opened(x, s) ==
    [x EXCEPT !.state[s] = "connecting", !.up[s] = TRUE, !.finGot[s] = FALSE,
              !.gen[s] = @ + 1, !.seq[s] = 0, !.queued[s] = 0, !.out[s] = <<>>,
              !.direct[s] = 0, !.finq[s] = FALSE, !.synack[s] = FALSE]

Forgotten(w, s) == [w EXCEPT ![s] = <<>>]

LEMMA OpenSound ==
    ASSUME NEW x, NEW w \in [Streams -> Seq(Sent)], Sound(x, w), NEW s \in Streams, x.queued[s] = 0,
           NEW y, y = Opened(x, s), NEW v, v = Forgotten(w, s), \A t \in Streams : WireOk(x, w, t) /\ StateOk(x, t)
    PROVE  /\ Sound(y, v) /\ SameFlags(x, y)
           /\ y.ready = x.ready /\ y.frames = x.frames
           /\ y.sending = x.sending /\ y.control = x.control /\ y.data = x.data
           /\ v \in [Streams -> Seq(Sent)]
           /\ \A t \in Streams : WireOk(y, v, t) /\ StateOk(y, t)
  <1>1. x \in Mux /\ x.open /\ FramesOk(x) /\ Counted(x) /\ \A t \in Streams : StreamOk(x, t, Len(w[t]))
    BY DEF Sound
  <1>2. /\ x.out[s] = <<>> /\ Len(w[s]) = x.seq[s]
        /\ \A k \in 1 .. Len(x.sending) : x.sending[k].st # s
        /\ \A k \in 1 .. Len(x.control) : x.control[k].st # s
        /\ \A k \in 1 .. Len(x.data) : x.data[k].st # s
    BY NoFrames
  <1>3. /\ x.state \in [Streams -> States] /\ x.up \in [Streams -> BOOLEAN]
        /\ x.gen \in [Streams -> Nat] /\ x.seq \in [Streams -> Nat]
        /\ x.queued \in [Streams -> Nat] /\ x.out \in [Streams -> Seq(Frame)]
        /\ x.direct \in [Streams -> Nat] /\ x.finq \in [Streams -> BOOLEAN]
        /\ x.synack \in [Streams -> BOOLEAN] /\ x.finGot \in [Streams -> BOOLEAN]
        /\ x.sending \in Seq(Frame) /\ x.control \in Seq(Frame) /\ x.data \in Seq(Frame)
    BY <1>1 DEF Mux
  <1> DEFINE e == <<>>
             st == [x.state EXCEPT ![s] = "connecting"]
             up == [x.up EXCEPT ![s] = TRUE]
             fg == [x.finGot EXCEPT ![s] = FALSE]
             gn == [x.gen EXCEPT ![s] = @ + 1]
             sq == [x.seq EXCEPT ![s] = 0]
             dr == [x.direct EXCEPT ![s] = 0]
             fq == [x.finq EXCEPT ![s] = FALSE]
             sy == [x.synack EXCEPT ![s] = FALSE]
  <1>4. [x.out EXCEPT ![s] = e] = x.out /\ [x.queued EXCEPT ![s] = 0] = x.queued
    BY <1>2, <1>3
  <1>5. y = [x EXCEPT !.state = st, !.up = up, !.finGot = fg, !.gen = gn, !.seq = sq,
                      !.queued = [x.queued EXCEPT ![s] = 0], !.out = [x.out EXCEPT ![s] = e],
                      !.direct = dr, !.finq = fq, !.synack = sy]
    BY <1>1 DEF Mux, Opened
  <1>6. st \in [Streams -> States] /\ gn \in [Streams -> Nat] /\ sq \in [Streams -> Nat] /\ dr \in [Streams -> Nat]
    <2>1. "connecting" \in States
      BY DEF States
    <2>2. st \in [Streams -> States]
      BY ONLY <2>1, <1>3, s \in Streams
    <2>3. gn \in [Streams -> Nat]
      BY ONLY <1>3, s \in Streams
    <2>4. 0 \in Nat
      OBVIOUS
    <2>5. sq \in [Streams -> Nat] /\ dr \in [Streams -> Nat]
      BY ONLY <2>4, <1>3, s \in Streams
    <2> QED  BY <2>2, <2>3, <2>5
  <1>7. /\ up \in [Streams -> BOOLEAN] /\ fg \in [Streams -> BOOLEAN] /\ fq \in [Streams -> BOOLEAN]
        /\ sy \in [Streams -> BOOLEAN]
    BY <1>3
  <1>7a. st[s] = "connecting" /\ \A t \in Streams \ {s} : st[t] = x.state[t]
    BY ONLY <1>3, s \in Streams
  <1>7b. sq[s] = 0 /\ \A t \in Streams \ {s} : sq[t] = x.seq[t]
    BY ONLY <1>3, s \in Streams
  <1>7c. \A t \in Streams \ {s} : gn[t] = x.gen[t]
    BY ONLY <1>3, s \in Streams
  <1>7d. fq[s] = FALSE /\ \A t \in Streams \ {s} : fq[t] = x.finq[t]
    BY ONLY <1>3, s \in Streams
  <1>8. /\ st[s] = "connecting" /\ sq[s] = 0 /\ ~fq[s]
        /\ \A t \in Streams \ {s} : /\ st[t] = x.state[t] /\ gn[t] = x.gen[t] /\ sq[t] = x.seq[t]
                                    /\ fq[t] = x.finq[t]
    <2> HIDE DEF e, st, up, fg, gn, sq, dr, fq, sy
    <2> QED  BY ONLY <1>7a, <1>7b, <1>7c, <1>7d
  <1> HIDE DEF e, st, up, fg, gn, sq, dr, fq, sy
  <1>9. y = [x EXCEPT !.state = st, !.up = up, !.finGot = fg, !.gen = gn, !.seq = sq,
                      !.queued = x.queued, !.out = x.out,
                      !.direct = dr, !.finq = fq, !.synack = sy]
    BY ONLY <1>4, <1>5
  <1>10. y \in Mux
    BY ONLY <1>1, <1>3, <1>6, <1>7, <1>9 DEF Mux
  <1>11. /\ y.state = st /\ y.gen = gn /\ y.seq = sq /\ y.queued = x.queued /\ y.out = x.out
         /\ y.finq = fq /\ y.sending = x.sending /\ y.control = x.control /\ y.data = x.data
         /\ y.ready = x.ready /\ y.frames = x.frames /\ y.pending = x.pending
    BY ONLY <1>1, <1>9 DEF Mux
  <1>12. SameFlags(x, y)
    BY ONLY <1>1, <1>9 DEF Mux, SameFlags
  <1>13. Counted(y)
    BY <1>1, <1>11 DEF Counted
  <1>14. ASSUME NEW f, FrameOk(x, f), f.st # s PROVE FrameOk(y, f)
    <2>1. SUFFICES ASSUME f.st \in Streams
                   PROVE  /\ f.gen = y.gen[f.st]
                          /\ f.cmd = "SYNACK" => f.n = 1
                          /\ f.cmd = "FIN" => f.n = y.seq[f.st] /\ y.finq[f.st]
      BY DEF FrameOk
    <2>2. y.gen[f.st] = x.gen[f.st] /\ y.seq[f.st] = x.seq[f.st] /\ y.finq[f.st] = x.finq[f.st]
      BY ONLY <2>1, <1>8, <1>11, <1>14
    <2> QED  BY ONLY <2>1, <2>2, <1>14 DEF FrameOk
  <1>15. FramesOk(y)
    <2>1. AllOk(x, x.sending) /\ AllOk(x, x.control) /\ AllOk(x, x.data)
          /\ \A t \in Streams : AllOk(x, x.out[t]) /\ \A k \in DOMAIN x.out[t] : x.out[t][k].st = t
      BY <1>1 DEF FramesOk
    <2>2. /\ DOMAIN x.sending = 1 .. Len(x.sending) /\ DOMAIN x.control = 1 .. Len(x.control)
          /\ DOMAIN x.data = 1 .. Len(x.data)
      BY <1>3
    <2>3. AllOk(y, x.sending) /\ AllOk(y, x.control) /\ AllOk(y, x.data)
      BY <2>1, <2>2, <1>2, <1>14 DEF AllOk
    <2>4. ASSUME NEW t \in Streams PROVE AllOk(y, x.out[t])
      <3>1. CASE t # s
        BY <3>1, <2>1, <1>14 DEF AllOk
      <3>2. CASE t = s
        <4>1. DOMAIN x.out[t] = {}
          BY <3>2, <1>2
        <4> QED  BY <4>1 DEF AllOk
      <3> QED  BY <3>1, <3>2
    <2>5. \A t \in Streams : \A k \in DOMAIN x.out[t] : x.out[t][k].st = t
      BY <2>1
    <2>6. y.sending = x.sending /\ y.control = x.control /\ y.data = x.data /\ y.out = x.out
      BY <1>11
    <2> QED  BY ONLY <2>3, <2>4, <2>5, <2>6 DEF FramesOk
  <1>16. v \in [Streams -> Seq(Sent)] /\ v[s] = e /\ \A t \in Streams \ {s} : v[t] = w[t]
    <2>1. e \in Seq(Sent)
      BY DEF e
    <2>2. v = [w EXCEPT ![s] = e]
      BY DEF e, Forgotten
    <2> QED  BY ONLY <2>1, <2>2, w \in [Streams -> Seq(Sent)], s \in Streams
  <1>17. Len(e) = 0 /\ DOMAIN e = {}
    BY DEF e
  <1>18. ASSUME NEW t \in Streams
         PROVE  StreamOk(y, t, Len(v[t])) /\ WireOk(y, v, t) /\ StateOk(y, t)
    <2>1. CASE t = s
      <3>1. /\ Carries(x.sending, s, 0, 0) /\ Carries(x.control, s, 0, 0) /\ Carries(x.data, s, 0, 0)
        <4>1. 0 \in Nat
          OBVIOUS
        <4> QED  BY ONLY <4>1, <1>2, <1>3, CarriesForeign, CarriesNothing
      <3>2. Carries(x.out[s], s, 0, 0)
        BY <1>2, CarriesEmpty
      <3>3. Spread(y, s, 0)
        <4>1. y.seq[s] = 0
          BY <1>8, <1>11
        <4> QED  BY <4>1, <3>1, <3>2, <1>11, SpreadBy
      <3>4. StreamOk(y, s, 0)
        <4>1. y.queued[s] = 0 /\ y.seq[s] = 0 /\ y.state[s] = "connecting"
          BY <1>8, <1>11
        <4>2. y.out[s] = e
          BY <1>2, <1>11 DEF e
        <4>3. ~(y.out[s] # <<>>)
          BY ONLY <4>2 DEF e
        <4>4. 0 = 0 - 0
          OBVIOUS
        <4> QED  BY ONLY <3>3, <4>1, <4>3, <4>4 DEF StreamOk
      <3>5. StateOk(y, s)
        BY <1>8, <1>11 DEF StateOk
      <3>6. WireOk(y, v, s)
        <4>1. DOMAIN v[s] = {}
          BY ONLY <1>16, <1>17
        <4> QED  BY ONLY <4>1 DEF WireOk
      <3> QED  BY <2>1, <3>4, <3>5, <3>6, <1>16, <1>17
    <2>2. CASE t # s
      <3>1. StreamOk(x, t, Len(w[t])) /\ WireOk(x, w, t) /\ StateOk(x, t) /\ v[t] = w[t]
        BY <1>1, <1>16, <2>2
      <3>2. Spread(y, t, Len(w[t]))
        BY <3>1, <1>8, <1>11, <2>2 DEF StreamOk, Spread
      <3>3. StreamOk(y, t, Len(v[t]))
        BY <3>1, <3>2, <1>8, <1>11, <2>2 DEF StreamOk
      <3>4. WireOk(y, v, t)
        <4>1. y.gen[t] = x.gen[t] /\ y.seq[t] = x.seq[t] /\ y.finq[t] = x.finq[t]
          BY <1>8, <1>11, <2>2
        <4> QED  BY ONLY <4>1, <3>1 DEF WireOk
      <3>5. StateOk(y, t)
        BY <3>1, <1>8, <1>11, <2>2 DEF StateOk
      <3> QED  BY <3>3, <3>4, <3>5
    <2> QED  BY <2>1, <2>2
  <1>19. y.open
    BY <1>1, <1>12 DEF SameFlags
  <1>20. Sound(y, v)
    BY <1>10, <1>13, <1>15, <1>18, <1>19 DEF Sound
  <1> QED  BY <1>11, <1>12, <1>16, <1>18, <1>20

(* Only the state of one stream changes.                                   *)
LEMMA TouchGood ==
    ASSUME NEW x, NEW w, Good(x, w), NEW s \in Streams, x.state[s] \notin {"free", "closed"},
           NEW y, \/ y = [x EXCEPT !.state[s] = "connected"]
                  \/ y = [x EXCEPT !.up[s] = FALSE]
                  \/ y = [x EXCEPT !.finGot[s] = TRUE]
                  \/ \E z : z = [x EXCEPT !.finGot[s] = TRUE] /\ y = [z EXCEPT !.state[s] = "half_closed"]
    PROVE  /\ Good(y, w) /\ OnlyOf(x, y, s) /\ y.finq = x.finq /\ y.seq = x.seq
           /\ y.state[s] \in {x.state[s], "connected", "half_closed"}
           /\ y.state[s] = "connected" \/ y.state[s] = "half_closed" \/ y.state = x.state
  <1>1. Sound(x, w) /\ Wakes(x) /\ WakesIdle(x) /\ x \in Mux /\ x.open
    BY DEF Good, Sound
  <1>2. x.state \in [Streams -> States] /\ x.up \in [Streams -> BOOLEAN] /\ x.finGot \in [Streams -> BOOLEAN]
    BY <1>1 DEF Mux
  <1>3. ASSUME NEW q \in {"connected", "half_closed"}
        PROVE  /\ [x.state EXCEPT ![s] = q] \in [Streams -> States]
               /\ [x.state EXCEPT ![s] = q][s] = q
               /\ \A t \in Streams \ {s} : [x.state EXCEPT ![s] = q][t] = x.state[t]
    BY <1>2 DEF States
  <1>4. /\ [x.up EXCEPT ![s] = FALSE] \in [Streams -> BOOLEAN]
        /\ [x.finGot EXCEPT ![s] = TRUE] \in [Streams -> BOOLEAN]
    BY <1>2
  <1>5. \E st \in [Streams -> States], up \in [Streams -> BOOLEAN], fg \in [Streams -> BOOLEAN] :
           /\ y = [x EXCEPT !.state = st, !.up = up, !.finGot = fg]
           /\ \A t \in Streams \ {s} : st[t] = x.state[t]
           /\ st = x.state \/ st[s] \in {"connected", "half_closed"}
    <2>1. CASE y = [x EXCEPT !.state[s] = "connected"]
      <3> DEFINE st == [x.state EXCEPT ![s] = "connected"]
      <3>1. st \in [Streams -> States] /\ st[s] = "connected" /\ \A t \in Streams \ {s} : st[t] = x.state[t]
        BY <1>3
      <3>2. y = [x EXCEPT !.state = st, !.up = x.up, !.finGot = x.finGot]
        BY <2>1, <1>1 DEF Mux
      <3> HIDE DEF st
      <3> QED  BY <3>1, <3>2, <1>2
    <2>2. CASE y = [x EXCEPT !.up[s] = FALSE]
      <3> DEFINE up == [x.up EXCEPT ![s] = FALSE]
      <3>1. up \in [Streams -> BOOLEAN]
        BY <1>4
      <3>2. y = [x EXCEPT !.state = x.state, !.up = up, !.finGot = x.finGot]
        BY <2>2, <1>1 DEF Mux
      <3> HIDE DEF up
      <3> QED  BY <3>1, <3>2, <1>2
    <2>3. CASE y = [x EXCEPT !.finGot[s] = TRUE]
      <3> DEFINE fg == [x.finGot EXCEPT ![s] = TRUE]
      <3>1. fg \in [Streams -> BOOLEAN]
        BY <1>4
      <3>2. y = [x EXCEPT !.state = x.state, !.up = x.up, !.finGot = fg]
        BY <2>3, <1>1 DEF Mux
      <3> HIDE DEF fg
      <3> QED  BY <3>1, <3>2, <1>2
    <2>4. ASSUME NEW z, z = [x EXCEPT !.finGot[s] = TRUE], y = [z EXCEPT !.state[s] = "half_closed"]
          PROVE  \E st \in [Streams -> States], up \in [Streams -> BOOLEAN], fg \in [Streams -> BOOLEAN] :
                   /\ y = [x EXCEPT !.state = st, !.up = up, !.finGot = fg]
                   /\ \A t \in Streams \ {s} : st[t] = x.state[t]
                   /\ st = x.state \/ st[s] \in {"connected", "half_closed"}
      <3> DEFINE fg == [x.finGot EXCEPT ![s] = TRUE]
                 st == [x.state EXCEPT ![s] = "half_closed"]
      <3>1. st \in [Streams -> States] /\ st[s] = "half_closed" /\ \A t \in Streams \ {s} : st[t] = x.state[t]
        BY <1>3
      <3>2. fg \in [Streams -> BOOLEAN]
        BY <1>4
      <3>3. y = [x EXCEPT !.state = st, !.up = x.up, !.finGot = fg]
        BY <2>4, <1>1 DEF Mux
      <3> HIDE DEF fg, st
      <3> QED  BY <3>1, <3>2, <3>3, <1>2
    <2> QED  BY <2>1, <2>2, <2>3, <2>4
  <1>6. PICK st \in [Streams -> States], up \in [Streams -> BOOLEAN], fg \in [Streams -> BOOLEAN] :
           /\ y = [x EXCEPT !.state = st, !.up = up, !.finGot = fg]
           /\ \A t \in Streams \ {s} : st[t] = x.state[t]
           /\ st = x.state \/ st[s] \in {"connected", "half_closed"}
    BY <1>5
  <1>7. y \in Mux /\ SameFrames(x, y) /\ SameFlags(x, y) /\ y.ready = x.ready /\ y.state = st
    <2>1. /\ x \in Mux /\ st \in [Streams -> States] /\ up \in [Streams -> BOOLEAN]
          /\ fg \in [Streams -> BOOLEAN] /\ y = [x EXCEPT !.state = st, !.up = up, !.finGot = fg]
      BY <1>1, <1>6
    <2>2. y \in Mux
      BY ONLY <2>1 DEF Mux
    <2>3. SameFrames(x, y)
      BY ONLY <2>1 DEF Mux, SameFrames
    <2>4. SameFlags(x, y)
      BY ONLY <2>1 DEF Mux, SameFlags
    <2>5. y.ready = x.ready /\ y.state = st
      BY ONLY <2>1 DEF Mux
    <2> QED  BY <2>2, <2>3, <2>4, <2>5
  <1>8. \A t \in Streams : /\ x.state[t] \in {"free", "closed"} => x.queued[t] = 0
                           /\ x.out[t] # <<>> => t \in Range(x.ready)
    BY <1>1 DEF Sound, StreamOk
  <1>9. \A t \in Streams : /\ y.state[t] \in {"free", "closed"} => x.queued[t] = 0
                           /\ x.out[t] # <<>> => t \in Range(y.ready)
    BY <1>6, <1>7, <1>8
  <1>10. y.open
    BY <1>1, <1>7 DEF SameFlags
  <1>11. Sound(y, w)
    BY <1>1, <1>7, <1>9, <1>10, SoundSame
  <1>12. Good(y, w)
    BY <1>1, <1>7, <1>11, WakesKept DEF Good
  <1>13. OnlyOf(x, y, s) /\ y.finq = x.finq /\ y.seq = x.seq
    BY <1>6, <1>7 DEF OnlyOf, Advances, SameFrames
  <1> QED  BY <1>6, <1>7, <1>12, <1>13
-----------------------------------------------------------------------------
(* What the invariant says, before and after a handler.                    *)
LEMMA InvFacts ==
    ASSUME MuxInv, m.open
    PROVE  /\ Sound(m, wire) /\ wire \in [Streams -> Seq(Sent)]
           /\ \A s \in Streams : WireOk(m, wire, s) /\ StateOk(m, s)
           /\ Wakes(m) /\ (pc = "idle" => WakesIdle(m)) /\ Loop
           /\ m \in Mux /\ budget \in Nat /\ bytes \in Nat /\ taken \in Nat /\ ending \in BOOLEAN
  BY DEF MuxInv, TypeOK, Sent

LEMMA InvOpen ==
    ASSUME Sound(m', wire'), wire' \in [Streams -> Seq(Sent)],
           \A s \in Streams : WireOk(m', wire', s) /\ StateOk(m', s),
           Wakes(m'), pc' = "idle" => WakesIdle(m'), Loop',
           pc' \in {"idle", "schedule", "release"},
           budget' \in Nat, bytes' \in Nat, taken' \in Nat, ending' \in BOOLEAN
    PROVE  MuxInv'
  <1>1. m' \in Mux /\ m'.open
    BY DEF Sound
  <1>2. TypeOK'
    BY <1>1 DEF TypeOK, Sent
  <1> QED  BY <1>1, <1>2 DEF MuxInv

LEMMA InvEnded ==
    ASSUME NEW x, x \in Mux, Advances(m, x), m' = Finalize(x), pc' = "idle", wire' = wire,
           wire \in [Streams -> Seq(Sent)], \A s \in Streams : WireOk(m, wire, s),
           budget' \in Nat, bytes' \in Nat, taken' \in Nat, ending' \in BOOLEAN
    PROVE  MuxInv'
  <1>1. m' \in Mux /\ ~m'.open /\ m'.gen = x.gen /\ m'.seq = x.seq /\ m'.finq = x.finq
    BY FinalizeFields
  <1>2. TypeOK'
    BY <1>1 DEF TypeOK, Sent
  <1>3. Advances(m, m')
    BY <1>1 DEF Advances
  <1>4. \A s \in Streams : WireOk(m', wire', s)
    BY <1>3, WireKept
  <1> QED  BY <1>1, <1>2, <1>4 DEF MuxInv

\* A handler that concerns stream s.
LEMMA InvEvent ==
    ASSUME MuxInv, Idle, NEW s \in Streams, NEW y, Becomes(y),
           Good(y, wire), OnlyOf(m, y, s), StateOk(y, s)
    PROVE  MuxInv'
  <1>1. m.open /\ pc = "idle"
    BY DEF Idle
  <1>2. /\ wire \in [Streams -> Seq(Sent)] /\ \A t \in Streams : WireOk(m, wire, t) /\ StateOk(m, t)
        /\ Loop /\ budget \in Nat /\ bytes \in Nat /\ taken \in Nat /\ ending \in BOOLEAN
    BY <1>1, InvFacts
  <1>3. m' = y /\ pc' = "idle" /\ wire' = wire /\ budget' = budget /\ bytes' = bytes /\ taken' = taken /\ ending' = ending
    BY <1>1 DEF Becomes, Handled
  <1>4. Sound(m', wire') /\ Wakes(m') /\ WakesIdle(m')
    BY <1>3 DEF Good
  <1>5. \A t \in Streams : WireOk(m', wire', t)
    BY <1>2, <1>3, WireKept DEF OnlyOf
  <1>6. \A t \in Streams : StateOk(m', t)
    BY <1>2, <1>3 DEF OnlyOf, StateOk
  <1>7. Loop'
    BY <1>2, <1>3 DEF Loop
  <1> QED  BY <1>2, <1>3, <1>4, <1>5, <1>6, <1>7, InvOpen

LEMMA IdleFacts ==
    ASSUME MuxInv, Idle
    PROVE  /\ Good(m, wire) /\ m \in Mux /\ pc = "idle"
           /\ \A t \in Streams : StateOk(m, t)
           /\ m.state \in [Streams -> States] /\ m.up \in [Streams -> BOOLEAN]
  <1>1. m.open /\ pc = "idle"
    BY DEF Idle
  <1>2. Sound(m, wire) /\ Wakes(m) /\ WakesIdle(m) /\ m \in Mux /\ \A t \in Streams : StateOk(m, t)
    BY <1>1, InvFacts
  <1> QED  BY <1>1, <1>2, MuxFields DEF Good
-----------------------------------------------------------------------------
(* The handlers of one stream preserve the invariant.                      *)
LEMMA OpenStreamInv ==
    ASSUME MuxInv, NEW s \in Streams, OpenStream(s)
    PROVE  MuxInv'
  <1>1. Idle /\ m.state[s] \in {"free", "closed"} /\ Handled
    BY DEF OpenStream
  <1>2. m.open /\ pc = "idle"
    BY <1>1 DEF Idle
  <1>3. /\ Sound(m, wire) /\ wire \in [Streams -> Seq(Sent)] /\ Wakes(m) /\ WakesIdle(m) /\ Loop
        /\ \A t \in Streams : WireOk(m, wire, t) /\ StateOk(m, t)
        /\ budget \in Nat /\ bytes \in Nat /\ taken \in Nat /\ ending \in BOOLEAN
    BY <1>2, InvFacts
  <1>4. m.queued[s] = 0
    BY <1>1, <1>3 DEF Sound, StreamOk
  <1>5. /\ Sound(m', wire') /\ SameFlags(m, m')
        /\ m'.ready = m.ready /\ m'.frames = m.frames
        /\ m'.sending = m.sending /\ m'.control = m.control /\ m'.data = m.data
        /\ wire' \in [Streams -> Seq(Sent)]
        /\ \A t \in Streams : WireOk(m', wire', t) /\ StateOk(m', t)
    <2>1. m' = Opened(m, s) /\ wire' = Forgotten(wire, s)
      BY DEF OpenStream, Opened, Forgotten
    <2> QED  BY <2>1, <1>3, <1>4, OpenSound
  <1>6. Wakes(m') /\ WakesIdle(m')
    BY <1>3, <1>5 DEF Wakes, WakesIdle, SameFlags
  <1>7. pc' = "idle" /\ budget' = budget /\ bytes' = bytes /\ taken' = taken /\ ending' = ending
    BY <1>1, <1>2 DEF Handled
  <1>8. Loop'
    BY <1>3, <1>7 DEF Loop
  <1> QED  BY <1>3, <1>5, <1>6, <1>7, <1>8, InvOpen

LEMMA ConnectOkInv ==
    ASSUME MuxInv, NEW s \in Streams, ConnectOk(s)
    PROVE  MuxInv'
  <1> DEFINE x == [m EXCEPT !.state[s] = "connected"]
             y == SendSynack(x, s, 0)
  <1>1. Idle /\ m.state[s] = "connecting" /\ Becomes(y)
    BY DEF ConnectOk
  <1>2. Good(m, wire) /\ m \in Mux /\ StateOk(m, s) /\ m.state \in [Streams -> States]
    BY <1>1, IdleFacts
  <1>3. x.state[s] = "connected"
    BY <1>2 DEF Mux
  <1>4. Good(x, wire) /\ OnlyOf(m, x, s) /\ x.finq = m.finq /\ x.seq = m.seq
    BY <1>1, <1>2, TouchGood
  <1>5. ~x.finq[s] /\ x.seq[s] = 0 /\ 0 \in Nat
    BY <1>1, <1>2, <1>4 DEF StateOk
  <1> HIDE DEF x
  <1>6. Good(y, wire) /\ OnlyOf(x, y, s) /\ y.state = x.state /\ ~y.finq[s]
    BY <1>3, <1>4, <1>5, SynackGood
  <1> HIDE DEF y
  <1>7. OnlyOf(m, y, s)
    BY <1>4, <1>6, OnlyTwice
  <1>8. StateOk(y, s)
    BY <1>3, <1>6 DEF StateOk
  <1> QED  BY <1>1, <1>6, <1>7, <1>8, InvEvent

LEMMA ConnectFailedInv ==
    ASSUME MuxInv, NEW s \in Streams, ConnectFailed(s)
    PROVE  MuxInv'
  <1> DEFINE x == SendSynack(m, s, 1)
             y == CloseStream(x, s)
  <1>1. Idle /\ m.state[s] = "connecting" /\ Becomes(y)
    BY DEF ConnectFailed
  <1>2. Good(m, wire) /\ StateOk(m, s)
    BY <1>1, IdleFacts
  <1>3. ~m.finq[s] /\ m.seq[s] = 0 /\ 1 \in Nat
    BY <1>1, <1>2 DEF StateOk
  <1>4. Good(x, wire) /\ OnlyOf(m, x, s)
    BY <1>1, <1>2, <1>3, SynackGood
  <1> HIDE DEF x
  <1>5. Good(y, wire) /\ OnlyOf(x, y, s) /\ StateOk(y, s)
    BY <1>4, CloseGood
  <1> HIDE DEF y
  <1> QED  BY <1>1, <1>4, <1>5, OnlyTwice, InvEvent

LEMMA UpstreamDataInv ==
    ASSUME MuxInv, NEW s \in Streams, NEW len \in 1 .. ReadSize, UpstreamData(s, len)
    PROVE  MuxInv'
  <1>1. Idle /\ m.state[s] \in {"connected", "half_closed"}
    BY DEF UpstreamData, MayRead
  <1>2. Good(m, wire) /\ StateOk(m, s)
    BY <1>1, IdleFacts
  <1>3. ~m.finq[s]
    BY <1>1, <1>2 DEF StateOk
  <1>4. CASE Accepts(m, s, "PSH")
    <2> DEFINE y == Enqueue(m, s, "PSH", len)
    <2>1. Becomes(y)
      BY <1>4 DEF UpstreamData
    <2>2. "PSH" \in Cmds \ {"CONTROL"} /\ "PSH" # "FIN" /\ "PSH" # "SYNACK" /\ len \in Nat
      BY MuxAssumption DEF Cmds
    <2>3. Good(y, wire) /\ OnlyOf(m, y, s) /\ y.state = m.state /\ ~y.finq[s]
      BY <1>1, <1>2, <1>3, <2>2, EnqueueGood
    <2> HIDE DEF y
    <2>4. StateOk(y, s)
      BY <1>1, <2>3 DEF StateOk
    <2> QED  BY <1>1, <2>1, <2>3, <2>4, InvEvent
  <1>5. CASE ~Accepts(m, s, "PSH")
    <2> DEFINE y == CloseStream(m, s)
    <2>1. Becomes(y)
      BY <1>5 DEF UpstreamData
    <2>2. Good(y, wire) /\ OnlyOf(m, y, s) /\ StateOk(y, s)
      BY <1>2, CloseGood
    <2> HIDE DEF y
    <2> QED  BY <1>1, <2>1, <2>2, InvEvent
  <1> QED  BY <1>4, <1>5

\* An upstream that ended, or an idle UoT stream.
LEMMA FinishedInv ==
    ASSUME MuxInv, Idle, NEW s \in Streams, m.state[s] \in {"connected", "half_closed"},
           Becomes(SendFinAndClose([m EXCEPT !.up[s] = FALSE], s))
    PROVE  MuxInv'
  <1> DEFINE x == [m EXCEPT !.up[s] = FALSE]
             y == SendFinAndClose(x, s)
  <1>1. Becomes(y)
    OBVIOUS
  <1>2. Good(m, wire) /\ m \in Mux /\ StateOk(m, s)
    BY IdleFacts
  <1>3. x.state = m.state
    BY <1>2 DEF Mux
  <1>4. Good(x, wire) /\ OnlyOf(m, x, s) /\ x.finq = m.finq
    BY <1>2, TouchGood
  <1>5. ~x.finq[s]
    BY <1>2, <1>4 DEF StateOk
  <1> HIDE DEF x
  <1>6. Good(y, wire) /\ OnlyOf(x, y, s) /\ StateOk(y, s)
    BY <1>3, <1>4, <1>5, FinGood
  <1> HIDE DEF y
  <1> QED  BY <1>1, <1>4, <1>6, OnlyTwice, InvEvent

LEMMA UpstreamErrorInv ==
    ASSUME MuxInv, NEW s \in Streams, UpstreamError(s)
    PROVE  MuxInv'
  <1> DEFINE y == CloseStream(m, s)
  <1>1. Idle /\ Becomes(y)
    BY DEF UpstreamError
  <1>2. Good(m, wire)
    BY <1>1, IdleFacts
  <1>3. Good(y, wire) /\ OnlyOf(m, y, s) /\ StateOk(y, s)
    BY <1>2, CloseGood
  <1> HIDE DEF y
  <1> QED  BY <1>1, <1>3, InvEvent

LEMMA ClientFinInv ==
    ASSUME MuxInv, NEW s \in Streams, ClientFin(s)
    PROVE  MuxInv'
  <1> DEFINE x == [m EXCEPT !.finGot[s] = TRUE]
  <1>1. Idle
    BY DEF ClientFin
  <1>2. Good(m, wire) /\ m \in Mux /\ StateOk(m, s) /\ m.state \in [Streams -> States]
    BY <1>1, IdleFacts
  <1>3. x.state = m.state
    BY <1>2 DEF Mux
  <1>4. m.state[s] \in {"connecting", "connected", "closing"}
    BY DEF ClientFin
  <1>5. Good(x, wire) /\ OnlyOf(m, x, s) /\ x.finq = m.finq /\ x.seq = m.seq
    BY <1>2, <1>4, TouchGood
  <1>6. CASE m.state[s] = "connected" /\ Becomes([x EXCEPT !.state[s] = "half_closed"])
    <2> DEFINE y == [x EXCEPT !.state[s] = "half_closed"]
    <2>1. y.state[s] = "half_closed"
      BY <1>2 DEF Mux
    <2>2. Good(y, wire) /\ OnlyOf(m, y, s) /\ y.finq = m.finq /\ y.seq = m.seq
      BY <1>2, <1>6, TouchGood
    <2>3. Becomes(y)
      BY <1>6
    <2> HIDE DEF x, y
    <2>4. StateOk(y, s)
      BY <1>2, <1>6, <2>1, <2>2 DEF StateOk
    <2> QED  BY <1>1, <2>2, <2>3, <2>4, InvEvent
  <1>7. CASE Becomes(CloseStream(x, s))
    <2> DEFINE y == CloseStream(x, s)
    <2> HIDE DEF x
    <2>1. Good(y, wire) /\ OnlyOf(x, y, s) /\ StateOk(y, s)
      BY <1>5, CloseGood
    <2>2. Becomes(y)
      BY <1>7
    <2> HIDE DEF y
    <2> QED  BY <1>1, <1>5, <2>1, <2>2, OnlyTwice, InvEvent
  <1>8. CASE Becomes(x)
    <2> HIDE DEF x
    <2>1. StateOk(x, s)
      BY <1>2, <1>3, <1>5 DEF StateOk
    <2> QED  BY <1>1, <1>5, <1>8, <2>1, InvEvent
  <1> QED  BY <1>6, <1>7, <1>8 DEF ClientFin
-----------------------------------------------------------------------------
(* The handlers of the session preserve the invariant.                     *)
LEMMA FinalizeInv ==
    ASSUME MuxInv, Idle, Becomes(Finalize(m))
    PROVE  MuxInv'
  <1>1. m.open /\ pc = "idle"
    BY DEF Idle
  <1>2. /\ wire \in [Streams -> Seq(Sent)] /\ \A s \in Streams : WireOk(m, wire, s)
        /\ m \in Mux /\ budget \in Nat /\ bytes \in Nat /\ taken \in Nat /\ ending \in BOOLEAN
    BY <1>1, InvFacts
  <1>3. /\ m' = Finalize(m) /\ pc' = "idle" /\ wire' = wire
        /\ budget' = budget /\ bytes' = bytes /\ taken' = taken /\ ending' = ending
    BY <1>1 DEF Becomes, Handled
  <1>4. Advances(m, m)
    BY DEF Advances
  <1> QED  BY <1>2, <1>3, <1>4, InvEnded

LEMMA ClientControlInv ==
    ASSUME MuxInv, ClientControl
    PROVE  MuxInv'
  <1>1. Idle /\ m.open /\ pc = "idle"
    BY DEF ClientControl, Idle
  <1>2. CASE ~(m.frames < MaxOutFrames)
    BY <1>1, <1>2, FinalizeInv DEF ClientControl
  <1>3. CASE m.frames < MaxOutFrames
    <2> DEFINE y == EnqueueControl(m)
    <2>1. Becomes(y)
      BY <1>3 DEF ClientControl
    <2>2. /\ Sound(m, wire) /\ wire \in [Streams -> Seq(Sent)] /\ Wakes(m) /\ WakesIdle(m) /\ Loop
          /\ \A t \in Streams : WireOk(m, wire, t) /\ StateOk(m, t)
          /\ budget \in Nat /\ bytes \in Nat /\ taken \in Nat /\ ending \in BOOLEAN
      BY <1>1, InvFacts
    <2>3. /\ Sound(y, wire) /\ Awake(m, y) /\ y.state = m.state /\ y.seq = m.seq /\ y.finq = m.finq
          /\ y.gen = m.gen /\ y.sending = m.sending
      BY <2>2, ControlGood
    <2>4. /\ m' = y /\ pc' = "idle" /\ wire' = wire
          /\ budget' = budget /\ bytes' = bytes /\ taken' = taken /\ ending' = ending
      BY <1>1, <2>1 DEF Becomes, Handled
    <2> HIDE DEF y
    <2>5. Wakes(y) /\ WakesIdle(y)
      BY <2>2, <2>3 DEF Awake, Wakes, WakesIdle
    <2>6. \A t \in Streams : WireOk(y, wire, t) /\ StateOk(y, t)
      BY <2>2, <2>3 DEF WireOk, StateOk
    <2>7. Loop'
      BY <2>2, <2>4 DEF Loop
    <2>8. /\ Sound(m', wire') /\ Wakes(m') /\ WakesIdle(m')
          /\ \A t \in Streams : WireOk(m', wire', t) /\ StateOk(m', t)
      BY <2>3, <2>4, <2>5, <2>6
    <2> QED  BY <2>2, <2>4, <2>7, <2>8, InvOpen
  <1> QED  BY <1>2, <1>3

\* The write handler begins.
LEMMA StartInv ==
    ASSUME NEW x, NEW end \in BOOLEAN, StartDrain(x, end), Sound(x, wire),
           wire \in [Streams -> Seq(Sent)], \A t \in Streams : WireOk(x, wire, t) /\ StateOk(x, t),
           Wakes(x), x.sending # <<>> => x.armed, ~end => ~x.posted, taken \in Nat
    PROVE  MuxInv'
  <1>1. /\ m' = DrainClosing(x) /\ pc' = "schedule" /\ budget' = DrainFrames /\ bytes' = 0
        /\ ending' = end /\ taken' = taken /\ wire' = wire
    BY DEF StartDrain
  <1>2. /\ Sound(m', wire') /\ SameFrames(x, m') /\ SameFlags(x, m')
        /\ \A s \in Streams : StateOk(m', s)
    BY <1>1, DrainClosingSound
  <1>3. Wakes(m')
    BY <1>2 DEF SameFrames, SameFlags, Wakes
  <1>4. \A s \in Streams : WireOk(m', wire', s)
    BY <1>1, <1>2 DEF SameFrames, WireOk
  <1>5. DrainFrames \in Nat /\ 0 \in Nat /\ ~(DrainFrames < DrainFrames) /\ ~(0 > 0) /\ DrainFrames <= DrainFrames
    BY MuxAssumption
  <1>6. Loop'
    <2>1. m'.sending = x.sending /\ m'.armed = x.armed /\ m'.posted = x.posted
      BY <1>2 DEF SameFrames, SameFlags
    <2> QED  BY <1>1, <1>5, <2>1 DEF Loop
  <1> QED  BY <1>1, <1>2, <1>3, <1>4, <1>5, <1>6, InvOpen

LEMMA WriteEventInv ==
    ASSUME MuxInv, WriteEvent
    PROVE  MuxInv'
  <1> DEFINE x == [m EXCEPT !.posted = FALSE]
  <1>1. m.open /\ pc = "idle" /\ StartDrain(x, FALSE)
    BY DEF WriteEvent, Idle
  <1>2. /\ Sound(m, wire) /\ wire \in [Streams -> Seq(Sent)] /\ Wakes(m) /\ WakesIdle(m)
        /\ \A t \in Streams : WireOk(m, wire, t) /\ StateOk(m, t)
        /\ m \in Mux /\ taken \in Nat
    BY <1>1, InvFacts
  <1>3. x \in Mux
    BY <1>2 DEF Mux
  <1>4. SameFrames(m, x) /\ x.state = m.state /\ x.ready = m.ready
    BY <1>2 DEF Mux, SameFrames
  <1>5. x.open = m.open /\ x.pressure = m.pressure /\ x.armed = m.armed /\ x.timer = m.timer
    BY <1>2 DEF Mux
  <1>6. x.posted = FALSE
    BY <1>2 DEF Mux
  <1> HIDE DEF x
  <1>7. Sound(x, wire)
    <2>1. \A t \in Streams : x.state[t] \in {"free", "closed"} => m.queued[t] = 0
      BY <1>2, <1>4 DEF Sound, StreamOk
    <2>2. \A t \in Streams : m.out[t] # <<>> => t \in Range(x.ready)
      BY <1>2, <1>4 DEF Sound, StreamOk
    <2>3. x.open
      BY <1>1, <1>5
    <2> QED  BY <1>2, <1>3, <1>4, <2>1, <2>2, <2>3, SoundSame
  <1>8. Wakes(x)
    BY <1>2, <1>4, <1>5 DEF Wakes, SameFrames
  <1>9. \A t \in Streams : WireOk(x, wire, t) /\ StateOk(x, t)
    BY <1>2, <1>4 DEF SameFrames, WireOk, StateOk
  <1>10. x.sending # <<>> => x.armed
    BY <1>2, <1>4, <1>5 DEF SameFrames, WakesIdle
  <1>11. ~x.posted
    BY <1>6
  <1> QED  BY <1>1, <1>2, <1>7, <1>8, <1>9, <1>10, <1>11, StartInv

LEMMA AlertReceivedInv ==
    ASSUME MuxInv, AlertReceived
    PROVE  MuxInv'
  <1>1. m.open /\ pc = "idle" /\ StartDrain(m, TRUE)
    BY DEF AlertReceived, Idle
  <1>2. /\ Sound(m, wire) /\ wire \in [Streams -> Seq(Sent)] /\ Wakes(m) /\ WakesIdle(m)
        /\ \A t \in Streams : WireOk(m, wire, t) /\ StateOk(m, t) /\ taken \in Nat
    BY <1>1, InvFacts
  <1>3. m.sending # <<>> => m.armed
    BY <1>2 DEF WakesIdle
  <1>4. taken \in Nat
    BY <1>1, InvFacts
  <1> QED  BY <1>1, <1>2, <1>3, <1>4, StartInv

LEMMA ProtocolErrorInv ==
    ASSUME MuxInv, ProtocolError
    PROVE  MuxInv'
  <1>1. m.open /\ pc = "idle"
    BY DEF ProtocolError, Idle
  <1>2. /\ Sound(m, wire) /\ wire \in [Streams -> Seq(Sent)] /\ Wakes(m) /\ WakesIdle(m)
        /\ \A t \in Streams : WireOk(m, wire, t) /\ StateOk(m, t)
    BY <1>1, InvFacts
  <1>3. taken \in Nat
    BY <1>1, InvFacts
  <1>4. m.sending # <<>> => m.armed
    BY <1>2 DEF WakesIdle
  <1>5. CASE StartDrain(m, TRUE)
    BY <1>2, <1>3, <1>4, <1>5, StartInv
  <1>6. CASE StartDrain(EnqueueControl(m), TRUE)
    <2> DEFINE y == EnqueueControl(m)
    <2>1. StartDrain(y, TRUE)
      BY <1>6
    <2>2. /\ Sound(y, wire) /\ Awake(m, y) /\ y.state = m.state /\ y.seq = m.seq /\ y.finq = m.finq
          /\ y.gen = m.gen /\ y.sending = m.sending
      BY <1>2, ControlGood
    <2> HIDE DEF y
    <2>3. Wakes(y)
      BY <1>2, <2>2 DEF Awake, Wakes, WakesIdle
    <2>4. \A t \in Streams : WireOk(y, wire, t) /\ StateOk(y, t)
      BY <1>2, <2>2 DEF WireOk, StateOk
    <2>5. y.sending # <<>> => y.armed
      BY <1>4, <2>2 DEF Awake
    <2> QED  BY <1>2, <1>3, <2>1, <2>2, <2>3, <2>4, <2>5, StartInv
  <1> QED  BY <1>5, <1>6 DEF ProtocolError
-----------------------------------------------------------------------------
(* The steps of the write handler preserve the invariant.                  *)
LEMMA DrainFacts ==
    ASSUME MuxInv, pc # "idle"
    PROVE  /\ Sound(m, wire) /\ wire \in [Streams -> Seq(Sent)]
           /\ \A s \in Streams : WireOk(m, wire, s) /\ StateOk(m, s)
           /\ Wakes(m) /\ Loop /\ m \in Mux /\ m.open
           /\ budget \in Nat /\ bytes \in Nat /\ taken \in Nat /\ ending \in BOOLEAN
  <1>1. m.open
    BY DEF MuxInv
  <1> QED  BY <1>1, InvFacts

LEMMA ScheduleFrameInv ==
    ASSUME MuxInv, ScheduleFrame
    PROVE  MuxInv'
  <1> DEFINE s == Head(m.ready)
             t == Tail(m.ready)
             x == [m EXCEPT !.ready = t]
             f == Head(m.out[s])
             y == [x EXCEPT !.out[s] = Tail(@), !.data = Append(@, f)]
  <1>1. /\ pc = "schedule" /\ m.ready # <<>> /\ budget > 0
        /\ pc' = pc /\ taken' = taken /\ ending' = ending /\ wire' = wire
    BY DEF ScheduleFrame, CanSchedule
  <1>2. /\ Sound(m, wire) /\ wire \in [Streams -> Seq(Sent)]
        /\ \A u \in Streams : WireOk(m, wire, u) /\ StateOk(m, u)
        /\ Wakes(m) /\ Loop /\ m \in Mux /\ m.open
        /\ budget \in Nat /\ bytes \in Nat /\ taken \in Nat /\ ending \in BOOLEAN
    BY <1>1, DrainFacts
  <1>3. m.ready \in Seq(Streams) /\ m.out \in [Streams -> Seq(Frame)] /\ m.data \in Seq(Frame)
    BY <1>2, MuxFields
  <1>4. s \in Streams /\ t \in Seq(Streams) /\ \A v \in Range(m.ready) : v = s \/ v \in Range(t)
    BY <1>1, <1>3, TailReady
  <1>5. \A u \in Streams : /\ m.state[u] \in {"free", "closed"} => m.queued[u] = 0
                           /\ m.out[u] # <<>> => u \in Range(m.ready)
    BY <1>2 DEF Sound, StreamOk
  <1>6. x \in Mux /\ x.ready = t
    <2> HIDE DEF t
    <2> QED  BY <1>2, <1>4 DEF Mux
  <1>7. SameFrames(m, x) /\ SameFlags(m, x) /\ x.state = m.state
    BY <1>2 DEF Mux, SameFrames, SameFlags
  <1>8. CASE m.out[s] = <<>>
    <2>1. m' = x /\ budget' = budget /\ bytes' = bytes
      BY <1>8 DEF ScheduleFrame
    <2> HIDE DEF x, y, s, t
    <2>2. \A u \in Streams : /\ x.state[u] \in {"free", "closed"} => m.queued[u] = 0
                             /\ m.out[u] # <<>> => u \in Range(x.ready)
      BY <1>4, <1>5, <1>6, <1>7, <1>8
    <2>3. x.open
      BY <1>2, <1>7 DEF SameFlags
    <2>4. Sound(x, wire)
      BY <1>2, <1>6, <1>7, <2>2, <2>3, SoundSame
    <2>5. Wakes(x)
      BY <1>2, <1>7 DEF Wakes, SameFrames, SameFlags
    <2>6. \A u \in Streams : WireOk(x, wire, u) /\ StateOk(x, u)
      BY <1>2, <1>7 DEF SameFrames, WireOk, StateOk
    <2>7. Loop'
      <3>1. m'.posted = m.posted /\ m'.sending = m.sending /\ m'.armed = m.armed /\ m'.data = m.data
        BY <1>7, <2>1 DEF SameFrames, SameFlags
      <3> QED  BY <1>1, <1>2, <2>1, <3>1 DEF Loop
    <2>8. /\ Sound(m', wire') /\ Wakes(m') /\ wire' \in [Streams -> Seq(Sent)]
          /\ \A u \in Streams : WireOk(m', wire', u) /\ StateOk(m', u)
      BY <1>1, <1>2, <2>1, <2>4, <2>5, <2>6
    <2>9. pc' = "schedule" /\ budget' \in Nat /\ bytes' \in Nat /\ taken' \in Nat /\ ending' \in BOOLEAN
      BY <1>1, <1>2, <2>1
    <2> QED  BY <2>7, <2>8, <2>9, InvOpen
  <1>9. CASE m.out[s] # <<>>
    <2> DEFINE o == [m.out EXCEPT ![s] = Tail(@)]
               d == Append(m.data, f)
               z == IF y.out[s] = <<>> THEN y ELSE MarkReady(y, s)
    <2>1. m' = z /\ budget' = budget - 1 /\ bytes' = bytes + f.len
      BY <1>9 DEF ScheduleFrame
    <2>2. m.out[s] \in Seq(Frame)
      BY <1>3, <1>4
    <2>3. f \in Frame /\ Tail(m.out[s]) \in Seq(Frame)
      <3> DEFINE q == m.out[s]
      <3>1. q \in Seq(Frame) /\ q # <<>>
        BY <1>9, <2>2
      <3> HIDE DEF q
      <3>2. Head(q) \in Frame /\ Tail(q) \in Seq(Frame)
        BY <3>1
      <3> QED  BY <3>2 DEF q
    <2>4. f.len \in Nat
      BY <2>3 DEF Frame
    <2>5. o \in [Streams -> Seq(Frame)] /\ o[s] = Tail(m.out[s]) /\ \A u \in Streams \ {s} : o[u] = m.out[u]
      <3> HIDE DEF s, f
      <3> QED  BY ONLY <1>3, <1>4, <2>3
    <2>6. d \in Seq(Frame) /\ d # <<>>
      <3> HIDE DEF f
      <3>1. d \in Seq(Frame) /\ d[Len(m.data) + 1] = f /\ DOMAIN d = 1 .. Len(m.data) + 1 /\ Len(m.data) \in Nat
        BY <1>3, <2>3
      <3>2. Len(m.data) + 1 \in DOMAIN d
        BY ONLY <3>1
      <3>3. DOMAIN <<>> = {}
        OBVIOUS
      <3> QED  BY ONLY <3>1, <3>2, <3>3
    <2>7. y = [m EXCEPT !.ready = t, !.out = o, !.data = d]
      <3> HIDE DEF s, t, f
      <3> QED  BY <1>2 DEF Mux
    <2> HIDE DEF o, d, t, f
    <2>8. y \in Mux
      BY ONLY <1>2, <1>4, <2>5, <2>6, <2>7 DEF Mux
    <2>9. SameFlags(m, y)
      BY ONLY <1>2, <2>7 DEF Mux, SameFlags
    <2>10. /\ y.out = o /\ y.data = d /\ y.ready = t
           /\ y.gen = m.gen /\ y.seq = m.seq /\ y.finq = m.finq /\ y.queued = m.queued /\ y.state = m.state
           /\ y.control = m.control /\ y.sending = m.sending
           /\ y.frames = m.frames /\ y.pending = m.pending
      BY ONLY <1>2, <2>7 DEF Mux
    <2> HIDE DEF x, y
    <2>11. PICK r \in Seq(Streams) : /\ z = [y EXCEPT !.ready = r]
                                     /\ Range(r) = Range(t) \/ Range(r) = Range(t) \cup {s}
                                     /\ y.out[s] # <<>> => s \in Range(r)
      <3>1. CASE y.out[s] = <<>>
        <4>1. z = [y EXCEPT !.ready = t]
          BY <3>1, <2>8, <2>10 DEF Mux
        <4> QED  BY <3>1, <4>1, <1>4
      <3>2. CASE y.out[s] # <<>>
        <4>1. z = MarkReady(y, s)
          BY <3>2
        <4>2. PICK r \in Seq(Streams) : /\ MarkReady(y, s) = [y EXCEPT !.ready = r]
                                        /\ Range(r) = Range(y.ready) \cup {s}
          BY <1>4, <2>8, MarkedReady
        <4>3. s \in Range(r) /\ Range(r) = Range(t) \cup {s}
          BY <4>2, <2>10
        <4> HIDE DEF z
        <4> QED  BY <3>2, <4>1, <4>2, <4>3
      <3> QED  BY <3>1, <3>2
    <2> HIDE DEF z
    <2>12. z \in Mux
      BY ONLY <2>8, <2>11, r \in Seq(Streams) DEF Mux
    <2>13. SameFlags(y, z)
      BY ONLY <2>8, <2>11 DEF Mux, SameFlags
    <2>14. /\ z.out = y.out /\ z.data = y.data /\ z.ready = r
           /\ z.gen = y.gen /\ z.seq = y.seq /\ z.finq = y.finq /\ z.queued = y.queued /\ z.state = y.state
           /\ z.control = y.control /\ z.sending = y.sending
           /\ z.frames = y.frames /\ z.pending = y.pending
      BY ONLY <2>8, <2>11 DEF Mux
    <2>15. z.open
      BY <1>2, <2>9, <2>13 DEF SameFlags
    <2>16. Scheduled(m, z, s)
      BY <2>10, <2>14 DEF Scheduled, o, d, f
    <2>17. ASSUME NEW u \in Streams, z.out[u] # <<>> PROVE u \in Range(z.ready)
      <3>1. CASE u = s
        BY <3>1, <2>11, <2>14, <2>17
      <3>2. CASE u # s
        <4>1. z.out[u] = m.out[u]
          BY <3>2, <2>5, <2>10, <2>14
        <4>2. u \in Range(m.ready)
          BY <4>1, <2>17, <1>5
        <4> QED  BY <3>2, <4>2, <1>4, <2>11, <2>14
      <3> QED  BY <3>1, <3>2
    <2>18. Sound(z, wire)
      BY <1>2, <1>4, <1>9, <2>12, <2>15, <2>16, <2>17, ScheduledSound
    <2>19. Wakes(z)
      BY <1>2, <2>9, <2>10, <2>13, <2>14 DEF Wakes, SameFlags
    <2>20. \A u \in Streams : WireOk(z, wire, u) /\ StateOk(z, u)
      BY <1>2, <2>10, <2>14 DEF WireOk, StateOk
    <2>21. Loop'
      <3>1. m'.posted = m.posted /\ m'.sending = m.sending /\ m'.armed = m.armed /\ m'.data = d
        BY <2>1, <2>9, <2>10, <2>13, <2>14 DEF SameFlags
      <3>2. m'.data # <<>>
        BY <3>1, <2>6
      <3>3. budget' <= DrainFrames
        BY <1>2, <2>1, MuxAssumption DEF Loop
      <3> QED  BY <1>1, <1>2, <2>1, <3>1, <3>2, <3>3 DEF Loop
    <2>22. /\ Sound(m', wire') /\ Wakes(m') /\ wire' \in [Streams -> Seq(Sent)]
           /\ \A u \in Streams : WireOk(m', wire', u) /\ StateOk(m', u)
      BY <1>1, <1>2, <2>1, <2>18, <2>19, <2>20
    <2>23. pc' = "schedule" /\ budget' \in Nat /\ bytes' \in Nat /\ taken' \in Nat /\ ending' \in BOOLEAN
      BY <1>1, <1>2, <2>1, <2>4
    <2> QED  BY <2>21, <2>22, <2>23, InvOpen
  <1> QED  BY <1>8, <1>9

\* The write handler ends.
LEMMA EndInv ==
    ASSUME MuxInv, pc # "idle", NEW x, NEW p \in BOOLEAN, EndDrain(x, p), Sound(x, wire),
           x.gen = m.gen, x.seq = m.seq, x.finq = m.finq, \A s \in Streams : StateOk(x, s),
           p => x.armed, HasWriteTimeout /\ x.frames > 0 => x.timer, ~ending => WakesIdle(x)
    PROVE  MuxInv'
  <1>1. /\ wire \in [Streams -> Seq(Sent)] /\ \A s \in Streams : WireOk(m, wire, s)
        /\ ending \in BOOLEAN
    BY DrainFacts
  <1>2. x \in Mux /\ x.open /\ \A s \in Streams : StreamOk(x, s, Len(wire[s]))
    BY DEF Sound
  <1>3. pc' = "idle" /\ budget' = 0 /\ bytes' = 0 /\ taken' = 0 /\ ending' = FALSE /\ wire' = wire
    BY DEF EndDrain
  <1>4. 0 \in Nat /\ FALSE \in BOOLEAN /\ 0 <= DrainFrames
    BY MuxAssumption
  <1>5. budget' \in Nat /\ bytes' \in Nat /\ taken' \in Nat /\ ending' \in BOOLEAN
    BY <1>3, <1>4
  <1>6. Advances(m, x)
    BY DEF Advances
  <1>7. CASE ending
    <2>1. m' = Finalize(x)
      BY <1>7 DEF EndDrain
    <2> QED  BY <1>1, <1>2, <1>3, <1>5, <1>6, <2>1, InvEnded
  <1>8. CASE ~ending
    <2> DEFINE y == [x EXCEPT !.pressure = p]
    <2>1. m' = y
      BY <1>8 DEF EndDrain
    <2>2. y \in Mux
      BY <1>2 DEF Mux
    <2>3. SameFrames(x, y) /\ y.state = x.state /\ y.ready = x.ready
      BY <1>2 DEF Mux, SameFrames
    <2>4. y.open = x.open /\ y.pressure = p /\ y.posted = x.posted /\ y.armed = x.armed /\ y.timer = x.timer
      BY <1>2 DEF Mux
    <2> HIDE DEF y
    <2>5. \A s \in Streams : /\ y.state[s] \in {"free", "closed"} => x.queued[s] = 0
                             /\ x.out[s] # <<>> => s \in Range(y.ready)
      BY <1>2, <2>3 DEF StreamOk
    <2>6. y.open
      BY <1>2, <2>4
    <2>7. Sound(y, wire)
      BY <2>2, <2>3, <2>5, <2>6, SoundSame
    <2>8. Wakes(y) /\ WakesIdle(y)
      BY <1>8, <2>3, <2>4 DEF Wakes, WakesIdle, SameFrames
    <2>9. \A s \in Streams : WireOk(y, wire, s) /\ StateOk(y, s)
      BY <1>1, <2>3 DEF WireOk, StateOk, SameFrames
    <2>10. Loop'
      BY <1>3, <1>4 DEF Loop
    <2>11. /\ Sound(m', wire') /\ Wakes(m') /\ WakesIdle(m') /\ wire' \in [Streams -> Seq(Sent)]
           /\ \A s \in Streams : WireOk(m', wire', s) /\ StateOk(m', s)
      BY <1>1, <1>3, <2>1, <2>7, <2>8, <2>9
    <2> QED  BY <1>3, <1>5, <2>10, <2>11, InvOpen
  <1> QED  BY <1>1, <1>7, <1>8

\* No stream is ready, so none has a frame.
LEMMA NothingLeft ==
    ASSUME NEW x, NEW w, Sound(x, w), x.ready = <<>>, x.sending = <<>>, x.control = <<>>, x.data = <<>>
    PROVE  x.frames = 0
  <1>1. x \in Mux /\ Counted(x) /\ x.out \in [Streams -> Seq(Frame)]
        /\ \A s \in Streams : x.out[s] # <<>> => s \in Range(x.ready)
    BY MuxFields DEF Sound, StreamOk
  <1>2. Range(x.ready) = {}
    BY DEF Range
  <1>3. \A s \in Streams : x.out[s] = <<>>
    BY <1>1, <1>2
  <1>4. OutFrames(x.out) = 0
    BY <1>1, <1>3, OutTotals
  <1>5. Len(x.sending) = 0 /\ Len(x.control) = 0 /\ Len(x.data) = 0
    OBVIOUS
  <1> QED  BY <1>1, <1>4, <1>5 DEF Counted

LEMMA NothingToSendInv ==
    ASSUME MuxInv, NothingToSend
    PROVE  MuxInv'
  <1> DEFINE y == Linked(m)
             x == [y EXCEPT !.timer = FALSE]
  <1>1. pc = "schedule" /\ ~CanSchedule /\ y.sending = <<>> /\ EndDrain(x, FALSE)
    BY DEF NothingToSend
  <1>2. /\ Sound(m, wire) /\ Wakes(m) /\ Loop
        /\ \A s \in Streams : WireOk(m, wire, s) /\ StateOk(m, s)
        /\ budget \in Nat /\ bytes \in Nat /\ ending \in BOOLEAN
    BY <1>1, DrainFacts
  <1>3. /\ Sound(y, wire) /\ SameFlags(m, y)
        /\ y.gen = m.gen /\ y.seq = m.seq /\ y.finq = m.finq /\ y.state = m.state
        /\ y.ready = m.ready
        /\ m.sending = <<>> /\ m.data = <<>> /\ y.control = <<>> /\ y.data = <<>>
    BY <1>1, <1>2, LinkedSound
  <1>4. ~(budget < DrainFrames) /\ ~(bytes > 0)
    BY <1>1, <1>2, <1>3 DEF Loop
  <1>5. budget > 0 /\ bytes < ByteBudget
    BY <1>2, <1>4, MuxAssumption
  <1>6. m.ready = <<>>
    BY <1>1, <1>5 DEF CanSchedule
  <1>7. y.frames = 0
    BY <1>1, <1>3, <1>6, NothingLeft
  <1>8. ~ending => ~m.posted
    BY <1>1, <1>2 DEF Loop
  <1>9. y \in Mux /\ y.open /\ \A s \in Streams : StreamOk(y, s, Len(wire[s]))
    BY <1>3 DEF Sound
  <1> HIDE DEF y
  <1>10. x \in Mux
    BY <1>9 DEF Mux
  <1>11. SameFrames(y, x) /\ x.state = y.state /\ x.ready = y.ready
    BY <1>9 DEF Mux, SameFrames
  <1>12. x.open = y.open /\ x.posted = y.posted
    BY <1>9 DEF Mux
  <1> HIDE DEF x
  <1>13. \A s \in Streams : /\ x.state[s] \in {"free", "closed"} => y.queued[s] = 0
                            /\ y.out[s] # <<>> => s \in Range(x.ready)
    BY <1>9, <1>11 DEF StreamOk
  <1>14. Sound(x, wire)
    <2>1. x.open
      BY <1>9, <1>12
    <2> QED  BY <1>3, <1>10, <1>11, <1>13, <2>1, SoundSame
  <1>15. \A s \in Streams : StateOk(x, s)
    BY <1>2, <1>3, <1>11 DEF StateOk, SameFrames
  <1>16. x.gen = m.gen /\ x.seq = m.seq /\ x.finq = m.finq
    BY <1>3, <1>11 DEF SameFrames
  <1>17. ~(x.frames > 0)
    BY <1>7, <1>11 DEF SameFrames
  <1>18. ~ending => WakesIdle(x)
    <2>1. x.sending = <<>> /\ x.control = <<>> /\ x.data = <<>> /\ x.ready = <<>>
      BY <1>1, <1>3, <1>6, <1>11 DEF SameFrames, y
    <2>2. ~ending => ~x.posted
      BY <1>3, <1>8, <1>12 DEF SameFlags
    <2> QED  BY <2>1, <2>2 DEF WakesIdle
  <1> QED  BY <1>1, <1>14, <1>15, <1>16, <1>17, <1>18, EndInv

LEMMA SendChainInv ==
    ASSUME MuxInv, NEW k \in 0 .. Len(Linked(m).sending), SendChain(k)
    PROVE  MuxInv'
  <1>1. /\ pc = "schedule" /\ m' = Linked(m) /\ pc' = "release" /\ taken' = k
        /\ budget' = budget /\ bytes' = bytes /\ ending' = ending /\ wire' = wire
    BY DEF SendChain
  <1>2. /\ Sound(m, wire) /\ Wakes(m) /\ Loop /\ wire \in [Streams -> Seq(Sent)]
        /\ \A s \in Streams : WireOk(m, wire, s) /\ StateOk(m, s)
        /\ budget \in Nat /\ bytes \in Nat /\ ending \in BOOLEAN
    BY <1>1, DrainFacts
  <1>3. /\ Sound(m', wire) /\ SameFlags(m, m')
        /\ m'.gen = m.gen /\ m'.seq = m.seq /\ m'.finq = m.finq /\ m'.state = m.state
        /\ m'.frames = m.frames
    BY <1>1, <1>2, LinkedSound
  <1>4. k <= Len(m'.sending) /\ k \in Nat
    <2>1. m'.sending \in Seq(Frame)
      BY <1>3, MuxFields DEF Sound
    <2>2. Len(m'.sending) \in Nat
      BY <2>1
    <2> QED  BY <1>1, <2>2
  <1>5. Wakes(m')
    BY <1>2, <1>3 DEF Wakes, SameFlags
  <1>6. \A s \in Streams : WireOk(m', wire, s) /\ StateOk(m', s)
    BY <1>2, <1>3 DEF WireOk, StateOk
  <1>7. Loop'
    BY <1>1, <1>2, <1>3, <1>4 DEF Loop, SameFlags
  <1>8. /\ Sound(m', wire') /\ wire' \in [Streams -> Seq(Sent)]
        /\ \A s \in Streams : WireOk(m', wire', s) /\ StateOk(m', s)
    BY <1>1, <1>2, <1>3, <1>6
  <1>9. budget' \in Nat /\ bytes' \in Nat /\ taken' \in Nat /\ ending' \in BOOLEAN
    BY <1>1, <1>2, <1>4
  <1> QED  BY <1>1, <1>5, <1>7, <1>8, <1>9, InvOpen

LEMMA SendErrorInv ==
    ASSUME MuxInv, SendError
    PROVE  MuxInv'
  <1>1. /\ pc = "schedule" /\ m' = Finalize(m) /\ pc' = "idle" /\ budget' = 0 /\ bytes' = 0
        /\ ending' = FALSE /\ taken' = taken /\ wire' = wire
    BY DEF SendError
  <1>2. /\ wire \in [Streams -> Seq(Sent)] /\ \A s \in Streams : WireOk(m, wire, s)
        /\ m \in Mux /\ taken \in Nat
    BY <1>1, DrainFacts
  <1>3. Advances(m, m)
    BY DEF Advances
  <1>4. budget' \in Nat /\ bytes' \in Nat /\ taken' \in Nat /\ ending' \in BOOLEAN
    BY <1>1, <1>2
  <1> QED  BY <1>1, <1>2, <1>3, <1>4, InvEnded

LEMMA ReleaseFrameInv ==
    ASSUME MuxInv, ReleaseFrame
    PROVE  MuxInv'
  <1>1. /\ pc = "release" /\ taken > 0 /\ m' = FrameSent(m) /\ wire' = Shown(wire, Head(m.sending))
        /\ pc' = pc /\ budget' = budget /\ bytes' = bytes /\ ending' = ending /\ taken' = taken - 1
    BY DEF ReleaseFrame, Shown
  <1>2. /\ Sound(m, wire) /\ Wakes(m) /\ Loop /\ wire \in [Streams -> Seq(Sent)] /\ m \in Mux
        /\ \A s \in Streams : WireOk(m, wire, s) /\ StateOk(m, s)
        /\ budget \in Nat /\ bytes \in Nat /\ taken \in Nat /\ ending \in BOOLEAN
    BY <1>1, DrainFacts
  <1>3. m.sending \in Seq(Frame) /\ taken <= Len(m.sending) /\ m.frames \in Nat
    BY <1>1, <1>2, MuxFields DEF Loop
  <1>4. m.sending # <<>> /\ Len(Tail(m.sending)) = Len(m.sending) - 1 /\ Len(m.sending) \in Nat
    <2>1. Len(m.sending) > 0
      BY <1>1, <1>2, <1>3
    <2>2. m.sending # <<>>
      BY <2>1
    <2> QED  BY <1>3, <2>2
  <1>5. /\ Sound(m', wire') /\ wire' \in [Streams -> Seq(Sent)]
        /\ \A s \in Streams : WireOk(m', wire', s) /\ StateOk(m', s)
        /\ SameFlags(m, m') /\ m'.frames <= m.frames /\ m'.sending = Tail(m.sending)
    BY <1>1, <1>2, <1>4, FrameSentSound
  <1>6. m'.frames \in Nat
    BY <1>5, MuxFields DEF Sound
  <1>7. Wakes(m')
    <2>1. m'.frames > 0 => m.frames > 0
      BY <1>3, <1>5, <1>6
    <2> QED  BY <1>2, <1>5, <2>1 DEF Wakes, SameFlags
  <1>8. taken' \in Nat /\ taken' <= Len(m'.sending)
    BY <1>1, <1>2, <1>3, <1>4, <1>5
  <1>9. Loop'
    <2>1. m'.posted = m.posted
      BY <1>5 DEF SameFlags
    <2> QED  BY <1>1, <1>2, <1>8, <2>1 DEF Loop
  <1> QED  BY <1>1, <1>2, <1>5, <1>7, <1>8, <1>9, InvOpen

LEMMA SocketFullInv ==
    ASSUME MuxInv, SocketFull
    PROVE  MuxInv'
  <1> DEFINE x == [m EXCEPT !.armed = TRUE, !.timer = @ \/ HasWriteTimeout]
             tm == m.timer \/ HasWriteTimeout
  <1>1. pc = "release" /\ EndDrain(x, TRUE)
    BY DEF SocketFull
  <1>2. /\ Sound(m, wire) /\ m \in Mux /\ m.open
        /\ \A s \in Streams : StateOk(m, s) /\ StreamOk(m, s, Len(wire[s]))
    BY <1>1, DrainFacts DEF Sound
  <1>3. tm \in BOOLEAN /\ (HasWriteTimeout => tm)
    BY <1>2, MuxFields, MuxAssumption
  <1>4. x = [m EXCEPT !.armed = TRUE, !.timer = tm]
    BY <1>2 DEF Mux
  <1> HIDE DEF tm, x
  <1>5. x \in Mux
    BY ONLY <1>2, <1>3, <1>4 DEF Mux
  <1>6. SameFrames(m, x)
    BY ONLY <1>2, <1>4 DEF Mux, SameFrames
  <1>7. x.state = m.state /\ x.ready = m.ready /\ x.open = m.open /\ x.timer = tm
    BY ONLY <1>2, <1>4 DEF Mux
  <1>8. x.armed = TRUE
    BY ONLY <1>2, <1>4 DEF Mux
  <1>9. \A s \in Streams : /\ x.state[s] \in {"free", "closed"} => m.queued[s] = 0
                           /\ m.out[s] # <<>> => s \in Range(x.ready)
    BY <1>2, <1>7 DEF StreamOk
  <1>10. Sound(x, wire)
    <2>1. x.open
      BY <1>2, <1>7
    <2> QED  BY <1>2, <1>5, <1>6, <1>9, <2>1, SoundSame
  <1>11. \A s \in Streams : StateOk(x, s)
    BY <1>2, <1>6, <1>7 DEF StateOk, SameFrames
  <1>12. HasWriteTimeout => x.timer
    BY <1>3, <1>7
  <1>13. WakesIdle(x)
    BY <1>8, <1>12 DEF WakesIdle
  <1>14. x.gen = m.gen /\ x.seq = m.seq /\ x.finq = m.finq
    BY <1>6 DEF SameFrames
  <1> QED  BY <1>1, <1>8, <1>10, <1>11, <1>12, <1>13, <1>14, EndInv

LEMMA ChainSentInv ==
    ASSUME MuxInv, ChainSent
    PROVE  MuxInv'
  <1> DEFINE u == [m EXCEPT !.armed = FALSE]
             x == DrainClosing(u)
             y == IF Leftover(x) THEN PostWrite(x) ELSE [x EXCEPT !.timer = FALSE]
  <1>1. pc = "release" /\ m.sending = <<>> /\ EndDrain(y, FALSE)
    BY DEF ChainSent
  <1>2. /\ Sound(m, wire) /\ m \in Mux /\ m.open /\ Loop
        /\ \A s \in Streams : StateOk(m, s) /\ StreamOk(m, s, Len(wire[s]))
    BY <1>1, DrainFacts DEF Sound
  <1>3. u \in Mux
    BY <1>2 DEF Mux
  <1>4. SameFrames(m, u) /\ u.state = m.state /\ u.ready = m.ready
    BY <1>2 DEF Mux, SameFrames
  <1>5. u.open = m.open /\ u.posted = m.posted
    BY <1>2 DEF Mux
  <1> HIDE DEF u
  <1>6. \A s \in Streams : /\ u.state[s] \in {"free", "closed"} => m.queued[s] = 0
                           /\ m.out[s] # <<>> => s \in Range(u.ready)
    BY <1>2, <1>4 DEF StreamOk
  <1>7. Sound(u, wire)
    <2>1. u.open
      BY <1>2, <1>5
    <2> QED  BY <1>2, <1>3, <1>4, <1>6, <2>1, SoundSame
  <1>8. \A s \in Streams : StateOk(u, s)
    BY <1>2, <1>4 DEF StateOk, SameFrames
  <1>9. /\ Sound(x, wire) /\ SameFrames(u, x) /\ SameFlags(u, x) /\ \A s \in Streams : StateOk(x, s)
    BY <1>7, <1>8, DrainClosingSound
  <1> HIDE DEF x
  <1>10. x \in Mux /\ x.open /\ x.sending = <<>> /\ \A s \in Streams : StreamOk(x, s, Len(wire[s]))
    BY <1>1, <1>4, <1>9 DEF Sound, SameFrames
  <1>11. ~ending => ~x.posted
    BY <1>1, <1>2, <1>5, <1>9 DEF Loop, SameFlags
  <1>12. PICK p \in BOOLEAN, t \in BOOLEAN :
            /\ y = [x EXCEPT !.posted = p, !.timer = t]
            /\ Leftover(x) => p /\ (HasWriteTimeout /\ (x.posted => x.timer) => t)
            /\ ~Leftover(x) => p = x.posted
    <2>1. CASE Leftover(x)
      <3>1. PICK t \in BOOLEAN : /\ PostWrite(x) = [x EXCEPT !.posted = TRUE, !.timer = t]
                                 /\ x.timer => t
                                 /\ HasWriteTimeout /\ (x.posted => x.timer) => t
        BY <1>10, Posted
      <3>2. y = [x EXCEPT !.posted = TRUE, !.timer = t]
        BY <2>1, <3>1
      <3> HIDE DEF y
      <3> QED  BY <2>1, <3>1, <3>2
    <2>2. CASE ~Leftover(x)
      <3>1. y = [x EXCEPT !.posted = x.posted, !.timer = FALSE]
        BY <2>2, <1>10 DEF Mux
      <3>2. x.posted \in BOOLEAN
        BY <1>10, MuxFields
      <3> HIDE DEF y
      <3> QED  BY <2>2, <3>1, <3>2
    <2> QED  BY <2>1, <2>2
  <1> HIDE DEF y
  <1>13. y \in Mux
    BY ONLY <1>10, <1>12, p \in BOOLEAN, t \in BOOLEAN DEF Mux
  <1>14. SameFrames(x, y)
    BY ONLY <1>10, <1>12 DEF Mux, SameFrames
  <1>15. y.state = x.state /\ y.ready = x.ready /\ y.open = x.open /\ y.posted = p /\ y.timer = t
    BY ONLY <1>10, <1>12 DEF Mux
  <1>16. \A s \in Streams : /\ y.state[s] \in {"free", "closed"} => x.queued[s] = 0
                            /\ x.out[s] # <<>> => s \in Range(y.ready)
    BY <1>10, <1>15 DEF StreamOk
  <1>17. Sound(y, wire)
    <2>1. y.open
      BY <1>10, <1>15
    <2> QED  BY <1>9, <1>13, <1>14, <1>16, <2>1, SoundSame
  <1>18. \A s \in Streams : StateOk(y, s)
    BY <1>9, <1>14, <1>15 DEF StateOk, SameFrames
  <1>19. y.gen = m.gen /\ y.seq = m.seq /\ y.finq = m.finq
    BY <1>4, <1>9, <1>14 DEF SameFrames
  <1>20. CASE ending
    <2>1. 0 \in Nat /\ FALSE \in BOOLEAN
      OBVIOUS
    <2>2. /\ m' = Finalize(y) /\ pc' = "idle" /\ budget' = 0 /\ bytes' = 0 /\ taken' = 0
          /\ ending' = FALSE /\ wire' = wire
      BY <1>1, <1>20 DEF EndDrain
    <2>3. Advances(m, y)
      BY <1>19 DEF Advances
    <2>4. wire \in [Streams -> Seq(Sent)] /\ \A s \in Streams : WireOk(m, wire, s)
      BY <1>1, DrainFacts
    <2> QED  BY <1>13, <2>1, <2>2, <2>3, <2>4, InvEnded
  <1>21. CASE ~ending /\ Leftover(x)
    <2>1. p /\ (HasWriteTimeout => t)
      BY <1>11, <1>12, <1>21
    <2>2. y.posted /\ (HasWriteTimeout => y.timer)
      BY <1>15, <2>1
    <2>3. WakesIdle(y)
      BY <1>10, <1>14, <2>2 DEF WakesIdle, SameFrames
    <2> QED  BY <1>1, <1>17, <1>18, <1>19, <2>2, <2>3, EndInv
  <1>22. CASE ~ending /\ ~Leftover(x)
    <2>1. x.control = <<>> /\ x.data = <<>> /\ x.ready = <<>>
      BY <1>22 DEF Leftover
    <2>2. /\ y.sending = <<>> /\ y.control = <<>> /\ y.data = <<>> /\ y.ready = <<>>
          /\ y.frames = x.frames
      BY <1>10, <1>14, <1>15, <2>1 DEF SameFrames
    <2>3. y.frames = 0
      BY <1>17, <2>2, NothingLeft
    <2>4. ~y.posted
      BY <1>11, <1>12, <1>15, <1>22
    <2>5. WakesIdle(y)
      BY <2>2, <2>4 DEF WakesIdle
    <2>6. ~(y.frames > 0)
      BY <2>3
    <2> QED  BY <1>1, <1>17, <1>18, <1>19, <2>5, <2>6, EndInv
  <1> QED  BY <1>20, <1>21, <1>22
-----------------------------------------------------------------------------
(* The invariant holds in every state.                                     *)
LEMMA InitInv ==
    ASSUME Init
    PROVE  MuxInv
  <1> DEFINE e == <<>>
  <1>1. /\ m.open = TRUE
        /\ m.state = [s \in Streams |-> "free"]
        /\ m.up = [s \in Streams |-> FALSE] /\ m.finGot = [s \in Streams |-> FALSE]
        /\ m.gen = [s \in Streams |-> 0] /\ m.seq = [s \in Streams |-> 0]
        /\ m.queued = [s \in Streams |-> 0] /\ m.out = [s \in Streams |-> e]
        /\ m.finq = [s \in Streams |-> FALSE]
    BY DEF Init
  <1>2. /\ m.control = e /\ m.data = e /\ m.sending = e /\ m.ready = e
        /\ m.pending = 0 /\ m.frames = 0
        /\ m.pressure = FALSE /\ m.posted = FALSE
    BY DEF Init
  <1>3. /\ pc = "idle" /\ budget = 0 /\ bytes = 0 /\ taken = 0 /\ ending = FALSE
        /\ wire = [s \in Streams |-> e]
    BY DEF Init
  <1>4. m \in Mux
    <2> DEFINE st == [s \in Streams |-> "free"]
               no == [s \in Streams |-> FALSE]
               zero == [s \in Streams |-> 0]
               none == [s \in Streams |-> e]
    <2>1. m = [open |-> TRUE, state |-> st, up |-> no, finGot |-> no, gen |-> zero, seq |-> zero,
               queued |-> zero, out |-> none, direct |-> zero, finq |-> no, synack |-> no,
               control |-> e, data |-> e, sending |-> e, ready |-> e,
               pending |-> 0, frames |-> 0, controls |-> 0,
               pressure |-> FALSE, posted |-> FALSE, armed |-> FALSE, timer |-> FALSE]
      BY DEF Init
    <2>2. st \in [Streams -> States]
      BY DEF States
    <2>3. e \in Seq(Frame) /\ e \in Seq(Streams)
      OBVIOUS
    <2>4. no \in [Streams -> BOOLEAN] /\ zero \in [Streams -> Nat] /\ none \in [Streams -> Seq(Frame)]
      BY <2>3
    <2>5. 0 \in Nat /\ TRUE \in BOOLEAN /\ FALSE \in BOOLEAN
      OBVIOUS
    <2> HIDE DEF st, no, zero, none, e
    <2> QED  BY ONLY <2>1, <2>2, <2>3, <2>4, <2>5 DEF Mux
  <1>5. \A s \in Streams : /\ m.state[s] = "free" /\ m.seq[s] = 0 /\ m.queued[s] = 0 /\ m.out[s] = e
                           /\ ~m.finq[s] /\ wire[s] = e
    BY <1>1, <1>3
  <1>6. wire \in [Streams -> Seq(Sent)]
    <2>1. e \in Seq(Sent)
      OBVIOUS
    <2> QED  BY <1>3, <2>1
  <1>7. Len(e) = 0 /\ DOMAIN e = {} /\ Bytes(e) = 0
    BY BytesEmpty
  <1>8. ASSUME NEW s \in Streams PROVE StreamOk(m, s, Len(wire[s]))
    <2>1. 0 \in Nat
      OBVIOUS
    <2>2. Carries(e, s, 0, 0)
      BY <2>1, CarriesEmpty
    <2>3. Spread(m, s, 0)
      BY <1>2, <1>5, <2>2, SpreadBy
    <2>4. ~(m.out[s] # <<>>)
      BY <1>5
    <2>5. m.queued[s] = 0 /\ m.queued[s] = m.seq[s] - 0
      BY <1>5
    <2>6. StreamOk(m, s, 0)
      BY ONLY <2>3, <2>4, <2>5 DEF StreamOk
    <2> QED  BY <2>6, <1>5, <1>7
  <1>9. Counted(m)
    <2>1. m.out \in [Streams -> Seq(Frame)]
      BY <1>4, MuxFields
    <2>2. OutFrames(m.out) = 0 /\ OutBytes(m.out) = 0
      BY <1>5, <2>1, OutTotals
    <2> HIDE DEF e
    <2>3. 0 = 0 + 0 + 0 + 0
      OBVIOUS
    <2> QED  BY ONLY <1>2, <1>7, <2>2, <2>3 DEF Counted
  <1>10. FramesOk(m)
    <2> HIDE DEF e
    <2> QED  BY ONLY <1>2, <1>5, <1>7 DEF FramesOk, AllOk
  <1>11. \A s \in Streams : WireOk(m, wire, s) /\ StateOk(m, s)
    <2>1. \A s \in Streams : DOMAIN wire[s] = {}
      BY <1>5, <1>7
    <2>2. \A s \in Streams : WireOk(m, wire, s)
      BY ONLY <2>1 DEF WireOk
    <2>3. \A s \in Streams : StateOk(m, s)
      BY <1>5 DEF StateOk
    <2> QED  BY <2>2, <2>3
  <1>12. Wakes(m) /\ WakesIdle(m)
    BY <1>2 DEF Wakes, WakesIdle
  <1>13. Loop
    BY <1>3, MuxAssumption DEF Loop
  <1>14. Sound(m, wire)
    BY <1>1, <1>4, <1>8, <1>9, <1>10 DEF Sound
  <1>15. TypeOK
    BY <1>3, <1>4, <1>6 DEF TypeOK, Sent
  <1> QED  BY <1>3, <1>11, <1>12, <1>13, <1>14, <1>15 DEF MuxInv

LEMMA EventInv ==
    ASSUME MuxInv, NEW s \in Streams, Event(s)
    PROVE  MuxInv'
  <1>1. CASE OpenStream(s)
    BY <1>1, OpenStreamInv
  <1>2. CASE ConnectOk(s)
    BY <1>2, ConnectOkInv
  <1>3. CASE ConnectFailed(s)
    BY <1>3, ConnectFailedInv
  <1>4. ASSUME NEW len \in 1 .. ReadSize, UpstreamData(s, len) PROVE MuxInv'
    BY <1>4, UpstreamDataInv
  <1>5. CASE UpstreamEof(s)
    BY <1>5, FinishedInv DEF UpstreamEof, MayRead
  <1>6. CASE UotIdle(s)
    BY <1>6, FinishedInv DEF UotIdle
  <1>7. CASE UpstreamError(s)
    BY <1>7, UpstreamErrorInv
  <1>8. CASE ClientFin(s)
    BY <1>8, ClientFinInv
  <1> QED  BY <1>1, <1>2, <1>3, <1>4, <1>5, <1>6, <1>7, <1>8 DEF Event

LEMMA NextInv ==
    ASSUME MuxInv, [Next]_vars
    PROVE  MuxInv'
  <1>1. ASSUME NEW s \in Streams, Event(s) PROVE MuxInv'
    BY <1>1, EventInv
  <1>2. CASE ClientControl
    BY <1>2, ClientControlInv
  <1>3. CASE ClientGone
    BY <1>3, FinalizeInv DEF ClientGone
  <1>4. CASE WriteTimeout
    BY <1>4, FinalizeInv DEF WriteTimeout
  <1>5. CASE WriteEvent
    BY <1>5, WriteEventInv
  <1>6. CASE AlertReceived
    BY <1>6, AlertReceivedInv
  <1>7. CASE ProtocolError
    BY <1>7, ProtocolErrorInv
  <1>8. CASE ScheduleFrame
    BY <1>8, ScheduleFrameInv
  <1>9. CASE NothingToSend
    BY <1>9, NothingToSendInv
  <1>10. CASE SendPart \/ SendAll
    <2> DEFINE l == Len(Linked(m).sending)
    <2>1. PICK k \in Int : SendChain(k) /\ (k \in 0 .. l - 1 \/ k = l)
      <3>1. pc # "idle"
        BY <1>10 DEF SendPart, SendAll, SendChain
      <3>2. l \in Nat
        <4>1. Linked(m).sending \in Seq(Frame)
          BY <3>1, DrainFacts, LinkedSound, MuxFields DEF Sound
        <4> QED  BY <4>1
      <3> QED  BY <1>10, <3>2 DEF SendPart, SendAll
    <2>2. l \in Nat
      <3>1. pc # "idle"
        BY <2>1 DEF SendChain
      <3>2. Linked(m).sending \in Seq(Frame)
        BY <3>1, DrainFacts, LinkedSound, MuxFields DEF Sound
      <3> QED  BY <3>2
    <2>3. k \in 0 .. l
      <3> HIDE DEF l
      <3> QED  BY <2>1, <2>2
    <2> QED  BY <2>1, <2>3, SendChainInv
  <1>11. CASE SendError
    BY <1>11, SendErrorInv
  <1>12. CASE ReleaseFrame
    BY <1>12, ReleaseFrameInv
  <1>13. CASE SocketFull
    BY <1>13, SocketFullInv
  <1>14. CASE ChainSent
    BY <1>14, ChainSentInv
  <1>15. CASE UNCHANGED vars
    BY <1>15 DEF vars, MuxInv, TypeOK, Loop
  <1> QED  BY <1>1, <1>2, <1>3, <1>4, <1>5, <1>6, <1>7, <1>8, <1>9, <1>10, <1>11, <1>12, <1>13, <1>14,
              <1>15 DEF Next, DrainStep

\* The reachable states of the mux satisfy the inductive invariant: the frames
\* of every opening are spread over the queues of ngx_anytls_client_mux.c in
\* the order they were queued, the counters count them, a stream that has one
\* is not closed and is ready if it has one of its own, and output that waits
\* has a write event and a timer.
THEOREM Invariant == Spec => []MuxInv
  <1>1. Init => MuxInv
    BY InitInv
  <1>2. MuxInv /\ [Next]_vars => MuxInv'
    BY NextInv
  <1> QED  BY <1>1, <1>2, PTL DEF Spec
-----------------------------------------------------------------------------
(* What the invariant is for.                                              *)

\* The mux keeps its types: no counter of ngx_anytls_client_mux.c drops below
\* zero, and the drain schedules no more frames than its budget.
THEOREM TypeCorrect == Spec => []TypeOK
  <1>1. MuxInv => TypeOK
    BY DEF MuxInv
  <1> QED  BY <1>1, Invariant, PTL

LEMMA ConcatMember ==
    ASSUME NEW p \in Seq(Frame), NEW q \in Seq(Frame), NEW f, f \in Range(p \o q)
    PROVE  (\E k \in 1 .. Len(p) : f = p[k]) \/ (\E k \in 1 .. Len(q) : f = q[k])
  <1> DEFINE r == p \o q
             n == Len(p)
             l == Len(q)
  <1>1. /\ n \in Nat /\ l \in Nat /\ DOMAIN r = 1 .. n + l
        /\ \A i \in 1 .. n + l : r[i] = IF i <= n THEN p[i] ELSE q[i - n]
    BY ConcatProperties
  <1>2. PICK i \in 1 .. n + l : f = r[i]
    BY <1>1 DEF Range
  <1> HIDE DEF r, n, l
  <1>3. CASE i <= n
    <2>1. i \in 1 .. n /\ f = p[i]
      BY <1>1, <1>2, <1>3
    <2> QED  BY <2>1 DEF n
  <1>4. CASE ~(i <= n)
    <2>1. i - n \in 1 .. l /\ f = q[i - n]
      BY <1>1, <1>2, <1>4
    <2> QED  BY <2>1 DEF l
  <1> QED  BY <1>3, <1>4

\* ngx_anytls_stream_close waits for the frames of its stream: the frame handler
\* never finds a stream that is closed, or one that took over the id.
THEOREM NoFrameOutlives == Spec => []NoStaleFrame
  <1>1. ASSUME MuxInv PROVE NoStaleFrame
    <2> SUFFICES ASSUME m.open, NEW s \in Streams, NEW f \in Range(Queues(s)), f.st \in Streams
                 PROVE  Alive(f.st) /\ f.gen = m.gen[f.st]
      BY DEF NoStaleFrame
    <2> DEFINE u == f.st
    <2>1. Sound(m, wire)
      BY <1>1, InvFacts
    <2>2. /\ m.sending \in Seq(Frame) /\ m.control \in Seq(Frame) /\ m.data \in Seq(Frame)
          /\ m.out[s] \in Seq(Frame)
      BY <2>1, MuxFields DEF Sound
    <2>3. /\ m.sending \o m.control \in Seq(Frame)
          /\ m.sending \o m.control \o m.data \in Seq(Frame)
      BY <2>2, ConcatProperties
    <2>4. \/ \E k \in 1 .. Len(m.sending) : f = m.sending[k]
          \/ \E k \in 1 .. Len(m.control) : f = m.control[k]
          \/ \E k \in 1 .. Len(m.data) : f = m.data[k]
          \/ \E k \in 1 .. Len(m.out[s]) : f = m.out[s][k]
      <3> DEFINE a == m.sending \o m.control
                 b == a \o m.data
                 o == m.out[s]
      <3>1. a \in Seq(Frame) /\ b \in Seq(Frame) /\ o \in Seq(Frame) /\ f \in Range(b \o o)
        BY <2>2, <2>3 DEF Queues
      <3>2. a = m.sending \o m.control /\ b = a \o m.data
        OBVIOUS
      <3>3. o = m.out[s]
        OBVIOUS
      <3> HIDE DEF a, b, o
      <3>4. (\E k \in 1 .. Len(b) : f = b[k]) \/ (\E k \in 1 .. Len(o) : f = o[k])
        BY ONLY <3>1, ConcatMember
      <3>5. ASSUME NEW p \in Seq(Frame), NEW k \in 1 .. Len(p), f = p[k] PROVE f \in Range(p)
        BY <3>5 DEF Range
      <3>6. (\E k \in 1 .. Len(b) : f = b[k])
            => (\E k \in 1 .. Len(a) : f = a[k]) \/ (\E k \in 1 .. Len(m.data) : f = m.data[k])
        <4>1. ASSUME \E k \in 1 .. Len(b) : f = b[k]
              PROVE  (\E k \in 1 .. Len(a) : f = a[k]) \/ (\E k \in 1 .. Len(m.data) : f = m.data[k])
          <5>1. f \in Range(a \o m.data)
            BY <4>1, <3>1, <3>2, <3>5
          <5>2. a \in Seq(Frame) /\ m.data \in Seq(Frame)
            BY <3>1, <2>2
          <5> QED  BY ONLY <5>1, <5>2, ConcatMember
        <4> QED  BY <4>1
      <3>7. (\E k \in 1 .. Len(a) : f = a[k])
            => (\E k \in 1 .. Len(m.sending) : f = m.sending[k])
               \/ (\E k \in 1 .. Len(m.control) : f = m.control[k])
        <4>1. ASSUME \E k \in 1 .. Len(a) : f = a[k]
              PROVE  (\E k \in 1 .. Len(m.sending) : f = m.sending[k])
                     \/ (\E k \in 1 .. Len(m.control) : f = m.control[k])
          <5>1. f \in Range(m.sending \o m.control)
            BY <4>1, <3>1, <3>2, <3>5
          <5> QED  BY ONLY <5>1, <2>2, ConcatMember
        <4> QED  BY <4>1
      <3> QED  BY ONLY <3>3, <3>4, <3>6, <3>7
    <2>5. FramesOk(m)
      BY <2>1 DEF Sound
    <2>6. FrameOk(m, f)
      <3>1. /\ DOMAIN m.sending = 1 .. Len(m.sending) /\ DOMAIN m.control = 1 .. Len(m.control)
            /\ DOMAIN m.data = 1 .. Len(m.data) /\ DOMAIN m.out[s] = 1 .. Len(m.out[s])
        BY <2>2
      <3>2. AllOk(m, m.sending) /\ AllOk(m, m.control) /\ AllOk(m, m.data) /\ AllOk(m, m.out[s])
        BY <2>5 DEF FramesOk
      <3> QED  BY ONLY <2>4, <3>1, <3>2 DEF AllOk
    <2>7. ASSUME m.queued[u] = 0 PROVE FALSE
      <3>1. /\ m.out[u] = <<>>
            /\ \A k \in 1 .. Len(m.sending) : m.sending[k].st # u
            /\ \A k \in 1 .. Len(m.control) : m.control[k].st # u
            /\ \A k \in 1 .. Len(m.data) : m.data[k].st # u
        BY <2>1, <2>7, NoFrames
      <3>2. PICK k \in 1 .. Len(m.out[s]) : f = m.out[s][k]
        BY <2>4, <3>1
      <3>3. k \in DOMAIN m.out[s]
        BY <2>2
      <3>4. u = s
        BY <2>5, <3>2, <3>3 DEF FramesOk
      <3> QED  BY <3>1, <3>3, <3>4
    <2>8. Alive(u)
      BY <2>1, <2>7 DEF Alive, Sound, StreamOk
    <2> QED  BY <2>6, <2>8 DEF FrameOk
  <1> QED  BY <1>1, Invariant, PTL

\* queued_frames, frames and pending_output are what the queues hold: a close
\* that waits for queued_frames, and reads that wait for room, wait for frames
\* that are there.
THEOREM CountersAreExact == Spec => []CountersExact
  <1>1. ASSUME MuxInv PROVE CountersExact
    <2> SUFFICES ASSUME m.open
                 PROVE  /\ \A s \in Streams : m.queued[s] = Cardinality({i \in DOMAIN Queues(s) : Queues(s)[i].st = s})
                        /\ m.frames = Len(Waiting) + SumFunction([s \in Streams |-> Len(m.out[s])])
                        /\ m.pending = Bytes(Waiting) + SumFunction([s \in Streams |-> Bytes(m.out[s])])
      BY DEF CountersExact
    <2>1. Sound(m, wire)
      BY <1>1, InvFacts
    <2>2. /\ m.sending \in Seq(Frame) /\ m.control \in Seq(Frame) /\ m.data \in Seq(Frame)
          /\ \A s \in Streams : m.out[s] \in Seq(Frame)
      BY <2>1, MuxFields DEF Sound
    <2> DEFINE p == m.sending \o m.control
               q == p \o m.data
    <2>3. p \in Seq(Frame) /\ q \in Seq(Frame) /\ Waiting = q
      BY <2>2, ConcatProperties DEF Waiting
    <2>4. ASSUME NEW s \in Streams
          PROVE  m.queued[s] = Cardinality({i \in DOMAIN Queues(s) : Queues(s)[i].st = s})
      <3>1. Spread(m, s, Len(wire[s])) /\ m.queued[s] = m.seq[s] - Len(wire[s])
        BY <2>1 DEF Sound, StreamOk
      <3>2. PICK a, b, c \in Nat :
               /\ Carries(m.sending, s, Len(wire[s]), a) /\ Carries(m.control, s, a, b)
               /\ Carries(m.data, s, b, c) /\ Carries(m.out[s], s, c, m.seq[s])
        BY <3>1, SpreadOf
      <3>3. Carries(p, s, Len(wire[s]), b)
        BY <2>2, <3>2, CarriesConcat
      <3>4. Carries(q, s, Len(wire[s]), c)
        BY <2>2, <2>3, <3>2, <3>3, CarriesConcat
      <3>5. Carries(q \o m.out[s], s, Len(wire[s]), m.seq[s])
        BY <2>2, <2>3, <3>2, <3>4, CarriesConcat
      <3> DEFINE r == q \o m.out[s]
      <3>6. Queues(s) = r
        BY DEF Queues
      <3>7. r \in Seq(Frame)
        BY <2>2, <2>3, ConcatProperties
      <3> HIDE DEF p, q, r
      <3>8. DOMAIN r = 1 .. Len(r) /\ Len(r) \in Nat
        BY <3>7
      <3>9. Carries(r, s, Len(wire[s]), m.seq[s])
        BY <3>5 DEF r
      <3>10. Cardinality({k \in 1 .. Len(r) : r[k].st = s}) = m.seq[s] - Len(wire[s])
        BY <3>8, <3>9, CarriesCount
      <3> QED  BY ONLY <3>1, <3>6, <3>8, <3>10
    <2>5. /\ m.frames = Len(m.sending) + Len(m.control) + Len(m.data) + OutFrames(m.out)
          /\ m.pending = Bytes(m.sending) + Bytes(m.control) + Bytes(m.data) + OutBytes(m.out)
      BY <2>1 DEF Sound, Counted
    <2>6. Len(Waiting) = Len(m.sending) + Len(m.control) + Len(m.data)
      <3>1. Len(p) = Len(m.sending) + Len(m.control) /\ Len(q) = Len(p) + Len(m.data)
        BY <2>2, <2>3, ConcatProperties
      <3> HIDE DEF p, q
      <3> QED  BY ONLY <2>3, <3>1
    <2>7. Bytes(Waiting) = Bytes(m.sending) + Bytes(m.control) + Bytes(m.data)
      <3>1. Bytes(p) = Bytes(m.sending) + Bytes(m.control)
        BY <2>2, BytesConcat
      <3>2. Bytes(q) = Bytes(p) + Bytes(m.data)
        BY <2>2, <2>3, BytesConcat
      <3> HIDE DEF p, q
      <3> QED  BY ONLY <2>3, <3>1, <3>2
    <2>8. m.frames = Len(Waiting) + OutFrames(m.out)
      BY ONLY <2>5, <2>6
    <2>9. m.pending = Bytes(Waiting) + OutBytes(m.out)
      BY ONLY <2>5, <2>7
    <2> QED  BY <2>4, <2>8, <2>9 DEF OutFrames, OutBytes
  <1> QED  BY <1>1, Invariant, PTL

\* Whatever queue ngx_anytls_queue_prepared_frame chose, the frames of a stream
\* leave in the order they were queued, none missing and none twice, and a
\* stream that closed by itself left nothing behind.
THEOREM FramesInOrder == Spec => []WireInOrder
  <1>1. ASSUME MuxInv PROVE WireInOrder
    <2>1. \A s \in Streams : WireOk(m, wire, s)
      BY <1>1 DEF MuxInv
    <2>2. ASSUME NEW s \in Streams, m.open, m.state[s] = "closed" PROVE Len(wire[s]) = m.seq[s]
      <3>1. Sound(m, wire)
        BY <1>1, <2>2, InvFacts
      <3>2. m.queued[s] = 0
        BY <2>2, <3>1 DEF Sound, StreamOk
      <3> QED  BY <3>1, <3>2, NoFrames
    <2> QED  BY <2>1, <2>2 DEF WireOk, WireInOrder
  <1> QED  BY <1>1, Invariant, PTL

\* Between two handlers, output that is not sent has a posted or a registered
\* write event, the write timer runs while frames are counted, and
\* output_pressure is only on while the kernel owes a write event.
THEOREM NoWakeupLost == Spec => []NoLostWakeup
  <1>1. ASSUME MuxInv PROVE NoLostWakeup
    <2> SUFFICES ASSUME Idle
                 PROVE  /\ (Waiting # <<>> \/ m.ready # <<>> => m.posted \/ m.armed)
                        /\ (m.sending # <<>> => m.armed)
                        /\ (m.frames > 0 /\ HasWriteTimeout => m.timer)
                        /\ (m.pressure => m.armed)
      BY DEF NoLostWakeup
    <2>1. Wakes(m) /\ WakesIdle(m)
      BY <1>1, InvFacts DEF Idle
    <2>2. m.sending = <<>> /\ m.control = <<>> /\ m.data = <<>> => Waiting = <<>>
      BY DEF Waiting
    <2> QED  BY <2>1, <2>2 DEF Wakes, WakesIdle
  <1> QED  BY <1>1, Invariant, PTL
=============================================================================
