----------------------------- MODULE UotProofs -----------------------------
(***************************************************************************)
(* Proofs about Uot, for any streams, peers and limits: what a stream      *)
(* holds is released with it, and every datagram of the client is          *)
(* accounted for, whatever the resolver answers and whenever.              *)
(***************************************************************************)
EXTENDS Uot, CollectionLemmas

\* The numbers of the datagrams in S, a history of what was sent; 0 is the
\* request itself, sent as one.
Out(S) == {S[k].n : k \in DOMAIN S} \ {0}

\* The datagrams of a buffer b are those behind number c up to number g, in
\* the order they came.
Waiting(b, g, c) ==
    /\ Numbers(b) = c + 1 .. g
    /\ \A j, k \in DOMAIN b :
          j < k /\ b[j].kind = "dgram" /\ b[k].kind = "dgram" => b[j].n < b[k].n

\* The first c datagrams were sent, lost or queued, each of them one of these.
Apart(A, B, C) == A \cap B = {} /\ A \cap C = {} /\ B \cap C = {}

Gone(S, L, q, c) ==
    /\ (Out(S) \cup L) \cup Numbers(q) = 1 .. c
    /\ Apart(Out(S), L, Numbers(q))

\* The queue q holds datagrams for names, in the order they came.
Queue(q) ==
    /\ \A k \in DOMAIN q : q[k].kind = "dgram" /\ q[k].to \in Domains
    /\ \A j, k \in DOMAIN q : j < k => q[j].n < q[k].n

\* What was sent to a peer was sent in order, and is older than what is queued
\* for it.
InOrder(S, q) ==
    /\ \A j, k \in DOMAIN S : j < k /\ S[j].to = S[k].to => S[j].n < S[k].n
    /\ \A j \in DOMAIN S, k \in DOMAIN q : S[j].to = q[k].to => S[j].n < q[k].n

Accounted(x) ==
    \E c \in 0 .. x.got :
        Waiting(x.buf, x.got, c) /\ Gone(x.sent, x.lost, x.queue, c)

\* A request stands first in its buffer and is not parsed.
RequestFirst(b, parsed) ==
    \A k \in DOMAIN b : b[k].kind \in {"connect", "packet"} => k = 1 /\ ~parsed

\* Before the request is parsed nothing is sent, and a stream in connect mode
\* queues nothing.
Requested(x) ==
    /\ RequestFirst(x.buf, x.parsed)
    /\ x.counted /\ ~x.parsed => x.mode = "connect" /\ x.sent = <<>>
    /\ x.mode = "connect" => x.queue = <<>>
    /\ Len(x.buf) <= x.pieces
    /\ x.mode = "connect" /\ x.parsed => x.pieces > 0

\* Every empty datagram is dropped, and in connect mode no other.
Dropped(x) ==
    /\ x.empty \subseteq x.lost \cup Numbers(x.buf)
    /\ \A k \in DOMAIN x.buf :
          x.buf[k].kind = "dgram" => (x.buf[k].n \in x.empty <=> x.buf[k].len = 0)
    /\ x.mode = "connect" => x.lost \subseteq x.empty

\* Number 0 goes out first and in connect mode.
ZeroFirst(S, mode) == \A k \in DOMAIN S : S[k].n = 0 => k = 1 /\ mode = "connect"

Kept(x) == Dropped(x) /\ ZeroFirst(x.sent, x.mode)

\* What a stream holds while it is open, and only then.
Holds(x) ==
    /\ x.counted <=> x.state = "connected"
    /\ ~x.counted => ~x.udp /\ ~x.timer /\ x.asked = None /\ x.queue = <<>>
    /\ x.udp => x.timer
    /\ x.state = "free" => /\ x.buf = <<>> /\ x.got = 0 /\ x.pieces = 0
                           /\ x.sent = <<>> /\ x.lost = {} /\ x.empty = {}
    /\ Len(x.queue) <= MaxPackets

StreamInv(x) ==
    /\ x \in Stream /\ Requested(x) /\ Holds(x)
    /\ Accounted(x) /\ Queue(x.queue) /\ InOrder(x.sent, x.queue) /\ Kept(x)

Counted(v) == {s \in Streams : v[s].counted}

\* The inductive invariant.
UotInv ==
    /\ TypeOK /\ \A s \in Streams : StreamInv(u[s])
    /\ slots = Cardinality(Counted(u))
    /\ pc # "idle" => cur \in Streams /\ u[cur].counted
-----------------------------------------------------------------------------
(* The numbers in a buffer or queue that grows by a piece.                 *)
LEMMA NumbersAppend ==
    ASSUME NEW q \in Seq(Piece), NEW p \in Piece
    PROVE  /\ p.kind = "dgram" => Numbers(Append(q, p)) = Numbers(q) \cup {p.n}
           /\ p.kind # "dgram" => Numbers(Append(q, p)) = Numbers(q)
  <1> DEFINE r == Append(q, p)
             n == Len(q)
  <1>1. /\ n \in Nat /\ DOMAIN q = 1 .. n /\ DOMAIN r = 1 .. n + 1 /\ r[n + 1] = p
        /\ \A k \in 1 .. n : r[k] = q[k]
    OBVIOUS
  <1> HIDE DEF r, n
  <1>2. ASSUME NEW m PROVE m \in Numbers(r) <=> m \in Numbers(q) \/ (p.kind = "dgram" /\ m = p.n)
    <2>1. m \in Numbers(r) <=> \E k \in 1 .. n + 1 : r[k].kind = "dgram" /\ m = r[k].n
      BY <1>1 DEF Numbers
    <2>2. m \in Numbers(q) <=> \E k \in 1 .. n : q[k].kind = "dgram" /\ m = q[k].n
      BY <1>1 DEF Numbers
    <2>3. \A k : k \in 1 .. n + 1 <=> k \in 1 .. n \/ k = n + 1
      BY <1>1
    <2> QED  BY ONLY <2>1, <2>2, <2>3, <1>1
  <1> QED  BY <1>2 DEF r

(* ... and of one that loses its head.                                     *)
LEMMA TailPlaces ==
    ASSUME NEW q \in Seq(Piece), q # <<>>
    PROVE  /\ Len(q) \in Nat \ {0} /\ DOMAIN q = 1 .. Len(q) /\ DOMAIN Tail(q) = 1 .. Len(q) - 1
           /\ Tail(q) \in Seq(Piece) /\ Head(q) = q[1] /\ q[1] \in Piece
           /\ Len(Tail(q)) = Len(q) - 1
           /\ \A k \in 1 .. Len(q) - 1 : Tail(q)[k] = q[k + 1]
  OBVIOUS

LEMMA NumbersTail ==
    ASSUME NEW q \in Seq(Piece), q # <<>>
    PROVE  /\ q[1].kind = "dgram" => Numbers(q) = Numbers(Tail(q)) \cup {q[1].n}
           /\ q[1].kind # "dgram" => Numbers(q) = Numbers(Tail(q))
  <1> DEFINE r == Tail(q)
             n == Len(q) - 1
  <1>1. /\ n \in Nat /\ DOMAIN q = 1 .. n + 1 /\ DOMAIN r = 1 .. n
        /\ \A k \in 1 .. n : r[k] = q[k + 1]
    BY TailPlaces
  <1> HIDE DEF r, n
  <1>2. ASSUME NEW m PROVE m \in Numbers(q) <=> m \in Numbers(r) \/ (q[1].kind = "dgram" /\ m = q[1].n)
    <2>1. m \in Numbers(q) <=> \E k \in 1 .. n + 1 : q[k].kind = "dgram" /\ m = q[k].n
      BY <1>1 DEF Numbers
    <2>2. m \in Numbers(r) <=> \E k \in 1 .. n : q[k + 1].kind = "dgram" /\ m = q[k + 1].n
      BY <1>1 DEF Numbers
    <2>3. 1 \in 1 .. n + 1 /\ \A k \in 1 .. n : k + 1 \in 1 .. n + 1
      BY <1>1
    <2>4. \A k \in 1 .. n + 1 : k = 1 \/ (k - 1 \in 1 .. n /\ (k - 1) + 1 = k)
      BY <1>1
    <2>5. (\E k \in 1 .. n + 1 : q[k].kind = "dgram" /\ m = q[k].n)
            => (\E k \in 1 .. n : q[k + 1].kind = "dgram" /\ m = q[k + 1].n)
               \/ (q[1].kind = "dgram" /\ m = q[1].n)
      BY <2>4
    <2> QED  BY <2>1, <2>2, <2>3, <2>5
  <1> QED  BY <1>2 DEF r

(* A history of sends that grows by one.                                   *)
LEMMA OutAppend ==
    ASSUME NEW X, NEW S \in Seq(X), NEW e \in X
    PROVE  Out(Append(S, e)) = Out(S) \cup ({e.n} \ {0})
  <1> DEFINE r == Append(S, e)
             n == Len(S)
  <1>1. /\ n \in Nat /\ DOMAIN S = 1 .. n /\ DOMAIN r = 1 .. n + 1 /\ r[n + 1] = e
        /\ \A k \in 1 .. n : r[k] = S[k]
    OBVIOUS
  <1> HIDE DEF r, n
  <1>2. ASSUME NEW m PROVE m \in Out(r) <=> m \in Out(S) \/ (m = e.n /\ m # 0)
    <2>1. m \in Out(r) <=> m # 0 /\ \E k \in 1 .. n + 1 : m = r[k].n
      BY <1>1 DEF Out
    <2>2. m \in Out(S) <=> m # 0 /\ \E k \in 1 .. n : m = S[k].n
      BY <1>1 DEF Out
    <2>3. \A k : k \in 1 .. n + 1 <=> k \in 1 .. n \/ k = n + 1
      BY <1>1
    <2> QED  BY ONLY <2>1, <2>2, <2>3, <1>1
  <1> QED  BY <1>2 DEF r
-----------------------------------------------------------------------------
(* The least number of an interval is its first.                           *)
LEMMA IntervalFirst ==
    ASSUME NEW c \in Nat, NEW g \in Nat, NEW h \in Nat, NEW R, R \cup {h} = c + 1 .. g,
           \A m \in R : m \in Nat /\ h < m
    PROVE  h = c + 1 /\ c + 1 <= g /\ R = (c + 1) + 1 .. g
  <1>1. \A m : m \in R \/ m = h <=> m \in Int /\ c + 1 <= m /\ m <= g
    OBVIOUS
  <1>2. h \in Int /\ c + 1 <= h /\ h <= g
    BY <1>1
  <1>3. c + 1 \in R \/ c + 1 = h
    BY <1>1, <1>2
  <1>4. h = c + 1
    BY <1>2, <1>3
  <1>5. \A m : m \in R <=> m \in Int /\ (c + 1) + 1 <= m /\ m <= g
    BY <1>1, <1>4
  <1>6. \A m : m \in R <=> m \in (c + 1) + 1 .. g
    BY <1>5
  <1> QED  BY <1>2, <1>4, <1>6

LEMMA IntervalGrows ==
    ASSUME NEW a \in Nat, NEW g \in Nat, a <= g + 1
    PROVE  (a .. g) \cup {g + 1} = a .. g + 1
  OBVIOUS

(* The head of a buffer, if it is a datagram, is the first that is still   *)
(* to be accounted for; without it the next one is.                        *)
LEMMA WaitingHead ==
    ASSUME NEW b \in Seq(Piece), b # <<>>, NEW g \in Nat, NEW c \in 0 .. g,
           Waiting(b, g, c), b[1].kind = "dgram"
    PROVE  b[1].n = c + 1 /\ c + 1 \in 0 .. g /\ Waiting(Tail(b), g, c + 1)
  <1> DEFINE r == Tail(b)
             n == Len(b)
             h == b[1].n
  <1>1. /\ n \in Nat /\ n > 0 /\ DOMAIN b = 1 .. n /\ DOMAIN r = 1 .. n - 1 /\ r \in Seq(Piece)
        /\ \A k \in 1 .. n - 1 : r[k] = b[k + 1]
        /\ \A k \in 1 .. n : b[k] \in Piece
    BY TailPlaces
  <1>2. Numbers(b) = c + 1 .. g /\ Numbers(b) = Numbers(r) \cup {h}
    BY NumbersTail DEF Waiting
  <1>3. \A j, k \in 1 .. n :
          j < k /\ b[j].kind = "dgram" /\ b[k].kind = "dgram" => b[j].n < b[k].n
    BY <1>1 DEF Waiting
  <1> HIDE DEF r, n, h
  <1>4. \A k \in 1 .. n : b[k].n \in Nat
    BY <1>1 DEF Piece
  <1>5. h \in Nat
    BY <1>4, <1>1 DEF h
  <1>6. \A m \in Numbers(r) : m \in Nat /\ h < m
    <2> SUFFICES ASSUME NEW m \in Numbers(r) PROVE m \in Nat /\ h < m
      OBVIOUS
    <2>1. PICK k \in 1 .. n - 1 : b[k + 1].kind = "dgram" /\ m = b[k + 1].n
      BY <1>1 DEF Numbers
    <2>2. 1 \in 1 .. n /\ k + 1 \in 1 .. n /\ 1 < k + 1
      BY <1>1
    <2> QED  BY <2>1, <2>2, <1>3, <1>4 DEF h
  <1>8. h = c + 1 /\ c + 1 <= g /\ Numbers(r) = (c + 1) + 1 .. g
    BY ONLY <1>2, <1>5, <1>6, IntervalFirst, c \in Nat, g \in Nat
  <1>10. ASSUME NEW j \in DOMAIN r, NEW k \in DOMAIN r, j < k, r[j].kind = "dgram", r[k].kind = "dgram"
         PROVE  r[j].n < r[k].n
    <2>1. j \in 1 .. n - 1 /\ k \in 1 .. n - 1 /\ j + 1 \in 1 .. n /\ k + 1 \in 1 .. n /\ j + 1 < k + 1
      BY <1>1, <1>10
    <2>2. r[j] = b[j + 1] /\ r[k] = b[k + 1]
      BY <2>1, <1>1
    <2> QED  BY <2>1, <2>2, <1>3, <1>10
  <1>11. Waiting(r, g, c + 1)
    BY <1>8, <1>10 DEF Waiting
  <1>12. c + 1 \in 0 .. g
    BY <1>8
  <1> QED  BY <1>8, <1>11, <1>12 DEF h, r

(* Without a request at its head a buffer holds the same datagrams.        *)
LEMMA WaitingTail ==
    ASSUME NEW b \in Seq(Piece), b # <<>>, NEW g \in Nat, NEW c \in 0 .. g,
           Waiting(b, g, c), b[1].kind # "dgram"
    PROVE  Waiting(Tail(b), g, c)
  <1> DEFINE r == Tail(b)
             n == Len(b)
  <1>1. /\ n \in Nat /\ n > 0 /\ DOMAIN b = 1 .. n /\ DOMAIN r = 1 .. n - 1
        /\ \A k \in 1 .. n - 1 : r[k] = b[k + 1]
    BY TailPlaces
  <1>2. Numbers(r) = c + 1 .. g
    BY NumbersTail DEF Waiting
  <1>3. \A j, k \in 1 .. n :
          j < k /\ b[j].kind = "dgram" /\ b[k].kind = "dgram" => b[j].n < b[k].n
    BY <1>1 DEF Waiting
  <1> HIDE DEF r, n
  <1>4. ASSUME NEW j \in DOMAIN r, NEW k \in DOMAIN r, j < k, r[j].kind = "dgram", r[k].kind = "dgram"
        PROVE  r[j].n < r[k].n
    <2>1. j \in 1 .. n - 1 /\ k \in 1 .. n - 1 /\ j + 1 \in 1 .. n /\ k + 1 \in 1 .. n /\ j + 1 < k + 1
      BY <1>1, <1>4
    <2>2. r[j] = b[j + 1] /\ r[k] = b[k + 1]
      BY <2>1, <1>1
    <2> QED  BY <2>1, <2>2, <1>3, <1>4
  <1> QED  BY <1>2, <1>4 DEF Waiting, r

(* The client sends one piece more.                                        *)
LEMMA WaitingAppend ==
    ASSUME NEW b \in Seq(Piece), NEW g \in Nat, NEW c \in 0 .. g, Waiting(b, g, c), NEW p \in Piece
    PROVE  /\ p.kind = "dgram" /\ p.n = g + 1 => Waiting(Append(b, p), g + 1, c)
           /\ p.kind # "dgram" => Waiting(Append(b, p), g, c)
  <1> DEFINE r == Append(b, p)
             n == Len(b)
  <1>1. /\ n \in Nat /\ DOMAIN b = 1 .. n /\ DOMAIN r = 1 .. n + 1 /\ r[n + 1] = p
        /\ \A k \in 1 .. n : r[k] = b[k]
    OBVIOUS
  <1>2. /\ Numbers(b) = c + 1 .. g
        /\ p.kind = "dgram" => Numbers(r) = Numbers(b) \cup {p.n}
        /\ p.kind # "dgram" => Numbers(r) = Numbers(b)
    BY NumbersAppend DEF Waiting
  <1>3. \A j, k \in 1 .. n :
          j < k /\ b[j].kind = "dgram" /\ b[k].kind = "dgram" => b[j].n < b[k].n
    BY <1>1 DEF Waiting
  <1>4. \A k \in 1 .. n : b[k].kind = "dgram" => b[k].n \in c + 1 .. g
    BY <1>1, <1>2 DEF Numbers
  <1> HIDE DEF r, n
  <1>5. ASSUME p.kind = "dgram" => p.n = g + 1,
               NEW j \in DOMAIN r, NEW k \in DOMAIN r, j < k, r[j].kind = "dgram", r[k].kind = "dgram"
        PROVE  r[j].n < r[k].n
    <2>1. j \in 1 .. n /\ r[j] = b[j]
      BY <1>1, <1>5
    <2>2. CASE k = n + 1
      BY <2>1, <2>2, <1>1, <1>4, <1>5
    <2>3. CASE k \in 1 .. n
      BY <2>1, <2>3, <1>1, <1>3, <1>5
    <2> QED  BY <2>2, <2>3, <1>1
  <1>6. CASE p.kind = "dgram" /\ p.n = g + 1
    <2>1. Numbers(r) = c + 1 .. g + 1
      <3>1. c + 1 \in Nat /\ c + 1 <= g + 1
        OBVIOUS
      <3>2. (c + 1 .. g) \cup {g + 1} = c + 1 .. g + 1
        BY <3>1, IntervalGrows
      <3> QED  BY <3>2, <1>2, <1>6
    <2> QED  BY <2>1, <1>5, <1>6 DEF Waiting, r
  <1>7. CASE p.kind # "dgram"
    <2>1. Numbers(r) = c + 1 .. g
      BY <1>2, <1>7
    <2> QED  BY <2>1, <1>5, <1>7 DEF Waiting, r
  <1> QED  BY <1>6, <1>7
-----------------------------------------------------------------------------
Send == [to : Peers \cup {None}, n : Nat]

(* The numbers that were sent and that are queued are behind the buffer.   *)
LEMMA GoneBefore ==
    ASSUME NEW S \in Seq(Send), NEW L, NEW q \in Seq(Piece), NEW c \in Nat,
           Gone(S, L, q, c), Queue(q)
    PROVE  /\ \A k \in DOMAIN S : S[k].n \in 0 .. c
           /\ \A k \in DOMAIN q : q[k].n \in 1 .. c
  <1>1. ASSUME NEW k \in DOMAIN S PROVE S[k].n \in 0 .. c
    <2>1. S[k].n = 0 \/ S[k].n \in Out(S)
      BY DEF Out
    <2>2. Out(S) \subseteq 1 .. c
      BY DEF Gone
    <2> QED  BY <2>1, <2>2
  <1>2. ASSUME NEW k \in DOMAIN q PROVE q[k].n \in 1 .. c
    <2>1. q[k].n \in Numbers(q)
      BY DEF Numbers, Queue
    <2> QED  BY <2>1 DEF Gone
  <1> QED  BY <1>1, <1>2

(* The next datagram is sent ...                                           *)
LEMMA GoneSent ==
    ASSUME NEW S \in Seq(Send), NEW L, NEW q \in Seq(Piece), NEW c \in Nat,
           Gone(S, L, q, c), NEW e \in Send, e.n = c + 1
    PROVE  Gone(Append(S, e), L, q, c + 1)
  <1> DEFINE A == Out(S)
             C == Numbers(q)
  <1>1. Out(Append(S, e)) = A \cup {c + 1}
    <2>1. {c + 1} \ {0} = {c + 1}
      OBVIOUS
    <2> QED  BY <2>1, OutAppend
  <1>2. (A \cup L) \cup C = 1 .. c /\ Apart(A, L, C)
    BY DEF Gone
  <1> HIDE DEF A, C
  <1>3. ((A \cup {c + 1}) \cup L) \cup C = 1 .. c + 1
    BY <1>2
  <1>4. Apart(A \cup {c + 1}, L, C)
    BY <1>2 DEF Apart
  <1> QED  BY <1>1, <1>3, <1>4 DEF Gone, C

(* ... or lost ...                                                         *)
LEMMA GoneLost ==
    ASSUME NEW S, NEW L, NEW q, NEW c \in Nat, Gone(S, L, q, c)
    PROVE  Gone(S, L \cup {c + 1}, q, c + 1)
  <1> DEFINE A == Out(S)
             C == Numbers(q)
  <1>2. (A \cup L) \cup C = 1 .. c /\ Apart(A, L, C)
    BY DEF Gone
  <1> HIDE DEF A, C
  <1>3. (A \cup (L \cup {c + 1})) \cup C = 1 .. c + 1
    BY <1>2
  <1>4. Apart(A, L \cup {c + 1}, C)
    BY <1>2 DEF Apart
  <1> QED  BY <1>3, <1>4 DEF Gone, A, C

(* ... or queued.                                                          *)
LEMMA GoneQueued ==
    ASSUME NEW S \in Seq(Send), NEW L, NEW q \in Seq(Piece), NEW c \in Nat,
           Gone(S, L, q, c), Queue(q), InOrder(S, q),
           NEW p \in Piece, p.kind = "dgram", p.to \in Domains, p.n = c + 1
    PROVE  Gone(S, L, Append(q, p), c + 1) /\ Queue(Append(q, p)) /\ InOrder(S, Append(q, p))
  <1> DEFINE A == Out(S)
             C == Numbers(q)
             r == Append(q, p)
             n == Len(q)
  <1>1. Numbers(r) = C \cup {c + 1}
    BY NumbersAppend
  <1>2. (A \cup L) \cup C = 1 .. c /\ Apart(A, L, C)
    BY DEF Gone
  <1>3. /\ n \in Nat /\ DOMAIN q = 1 .. n /\ DOMAIN r = 1 .. n + 1 /\ r[n + 1] = p
        /\ \A k \in 1 .. n : r[k] = q[k]
    OBVIOUS
  <1>4. /\ \A k \in DOMAIN S : S[k].n \in 0 .. c
        /\ \A k \in 1 .. n : q[k].n \in 1 .. c
    BY <1>3, GoneBefore
  <1> HIDE DEF A, C, r, n
  <1>5. (A \cup L) \cup (C \cup {c + 1}) = 1 .. c + 1
    BY <1>2
  <1>6. Apart(A, L, C \cup {c + 1})
    BY <1>2 DEF Apart
  <1>7. Gone(S, L, r, c + 1)
    BY <1>1, <1>5, <1>6 DEF Gone, A
  <1>8. \A k \in DOMAIN r : r[k].kind = "dgram" /\ r[k].to \in Domains
    BY <1>3 DEF Queue
  <1>9. ASSUME NEW j \in DOMAIN r, NEW k \in DOMAIN r, j < k PROVE r[j].n < r[k].n
    <2>1. j \in 1 .. n /\ r[j] = q[j]
      BY <1>3, <1>9
    <2>2. CASE k = n + 1
      BY <2>1, <2>2, <1>3, <1>4
    <2>3. CASE k \in 1 .. n
      BY <2>1, <2>3, <1>3, <1>9 DEF Queue
    <2> QED  BY <2>2, <2>3, <1>3
  <1>10. ASSUME NEW j \in DOMAIN S, NEW k \in DOMAIN r, S[j].to = r[k].to PROVE S[j].n < r[k].n
    <2>2. CASE k = n + 1
      BY <2>2, <1>3, <1>4
    <2>3. CASE k \in 1 .. n
      BY <2>3, <1>3, <1>10 DEF InOrder
    <2> QED  BY <2>2, <2>3, <1>3
  <1>11. Queue(r) /\ InOrder(S, r)
    BY <1>8, <1>9, <1>10 DEF Queue, InOrder
  <1> QED  BY <1>7, <1>11 DEF r

(* What is sent without the queue keeps the order: it is the youngest, and *)
(* nothing is queued for its peer.                                         *)
LEMMA OrderSent ==
    ASSUME NEW S \in Seq(Send), NEW q \in Seq(Piece), InOrder(S, q), NEW e \in Send,
           \A k \in DOMAIN S : S[k].n < e.n, \A k \in DOMAIN q : q[k].to # e.to
    PROVE  InOrder(Append(S, e), q)
  <1> DEFINE r == Append(S, e)
             n == Len(S)
  <1>1. /\ n \in Nat /\ DOMAIN S = 1 .. n /\ DOMAIN r = 1 .. n + 1 /\ r[n + 1] = e
        /\ \A k \in 1 .. n : r[k] = S[k]
    OBVIOUS
  <1> HIDE DEF r, n
  <1>2. ASSUME NEW j \in DOMAIN r, NEW k \in DOMAIN r, j < k, r[j].to = r[k].to
        PROVE  r[j].n < r[k].n
    <2>1. j \in 1 .. n /\ r[j] = S[j]
      BY <1>1, <1>2
    <2>2. CASE k = n + 1
      BY <2>1, <2>2, <1>1
    <2>3. CASE k \in 1 .. n
      BY <2>1, <2>3, <1>1, <1>2 DEF InOrder
    <2> QED  BY <2>2, <2>3, <1>1
  <1>3. ASSUME NEW j \in DOMAIN r, NEW k \in DOMAIN q, r[j].to = q[k].to PROVE r[j].n < q[k].n
    <2>2. j # n + 1
      BY <1>1, <1>3
    <2>3. j \in 1 .. n /\ r[j] = S[j]
      BY <2>2, <1>1
    <2> QED  BY <2>3, <1>1, <1>3 DEF InOrder
  <1> QED  BY <1>2, <1>3 DEF InOrder, r
-----------------------------------------------------------------------------
(* A part of the queue is a queue.                                         *)
LEMMA PartOfQueue ==
    ASSUME NEW q \in Seq(Piece), Queue(q), NEW I \in SUBSET DOMAIN q, NEW p, p = Picked(q, I)
    PROVE  /\ p \in Seq(Piece) /\ Len(p) <= Len(q) /\ Queue(p)
           /\ \A j \in DOMAIN p : \E i \in I : p[j] = q[i]
           /\ \A m : m \in Numbers(p) <=> \E i \in I : m = q[i].n
  <1>1. p \in Seq(Piece) /\ Len(p) <= Len(q)
    BY PickedQueue
  <1> DEFINE l == Len(p)
  <1>2. \E e \in [1 .. l -> I] :
          /\ \A k \in I : \E j \in 1 .. l : e[j] = k
          /\ \A j, k \in 1 .. l : j < k => e[j] < e[k]
          /\ \A j \in 1 .. l : p[j] = q[e[j]]
    BY PickedQueue
  <1>3. PICK e \in [1 .. l -> I] :
          /\ \A k \in I : \E j \in 1 .. l : e[j] = k
          /\ \A j, k \in 1 .. l : j < k => e[j] < e[k]
          /\ \A j \in 1 .. l : p[j] = q[e[j]]
    BY <1>2
  <1>4. DOMAIN p = 1 .. l
    BY <1>1
  <1> HIDE DEF l
  <1>5. \A j \in 1 .. l : e[j] \in I /\ e[j] \in DOMAIN q /\ p[j] = q[e[j]]
    BY <1>3
  <1>6. \A j \in DOMAIN p : \E i \in I : p[j] = q[i]
    BY <1>4, <1>5
  <1>7. \A k \in DOMAIN p : p[k].kind = "dgram" /\ p[k].to \in Domains
    BY <1>4, <1>5 DEF Queue
  <1>8. \A j, k \in DOMAIN p : j < k => p[j].n < p[k].n
    BY <1>3, <1>4, <1>5 DEF Queue
  <1>9. ASSUME NEW m PROVE m \in Numbers(p) <=> \E i \in I : m = q[i].n
    <2>1. m \in Numbers(p) <=> \E j \in 1 .. l : p[j].kind = "dgram" /\ m = p[j].n
      BY <1>4 DEF Numbers
    <2>2. \A j \in 1 .. l : p[j].kind = "dgram"
      BY <1>4, <1>7
    <2> QED  BY <2>1, <2>2, <1>5, <1>3
  <1> QED  BY <1>1, <1>6, <1>7, <1>8, <1>9 DEF Queue

(* flush_pending_domain and drop_pending_domain part the queue in two.     *)
LEMMA SplitQueue ==
    ASSUME NEW x, NEW q \in Seq(Piece), q = x.queue, Queue(q), NEW d,
           NEW p, p = OfDomain(x, d), NEW r, r = Others(x, d)
    PROVE  /\ p \in Seq(Piece) /\ Queue(p) /\ \A k \in DOMAIN p : p[k].to = d
           /\ r \in Seq(Piece) /\ Queue(r) /\ \A k \in DOMAIN r : r[k].to # d
           /\ Len(r) <= Len(q)
           /\ \A k \in DOMAIN p : \E i \in DOMAIN q : p[k] = q[i]
           /\ \A k \in DOMAIN r : \E i \in DOMAIN q : r[k] = q[i]
           /\ Numbers(q) = Numbers(p) \cup Numbers(r) /\ Numbers(p) \cap Numbers(r) = {}
  <1> DEFINE I == {k \in DOMAIN q : q[k].to = d}
             J == {k \in DOMAIN q : q[k].to # d}
  <1>1. p = Picked(q, I) /\ r = Picked(q, J) /\ I \in SUBSET DOMAIN q /\ J \in SUBSET DOMAIN q
    BY DEF OfDomain, Others
  <1>2. /\ \A k \in I : k \in DOMAIN q /\ q[k].to = d
        /\ \A k \in J : k \in DOMAIN q /\ q[k].to # d
        /\ \A k \in DOMAIN q : k \in I \/ k \in J
    OBVIOUS
  <1> HIDE DEF I, J
  <1>3. /\ p \in Seq(Piece) /\ Queue(p) /\ \A k \in DOMAIN p : \E i \in I : p[k] = q[i]
        /\ \A m : m \in Numbers(p) <=> \E i \in I : m = q[i].n
    BY <1>1, PartOfQueue
  <1>4. /\ r \in Seq(Piece) /\ Len(r) <= Len(q) /\ Queue(r)
        /\ \A k \in DOMAIN r : \E i \in J : r[k] = q[i]
        /\ \A m : m \in Numbers(r) <=> \E i \in J : m = q[i].n
    BY <1>1, PartOfQueue
  <1>5. \A m : m \in Numbers(q) <=> \E k \in DOMAIN q : m = q[k].n
    BY DEF Numbers, Queue
  <1>6. Numbers(q) = Numbers(p) \cup Numbers(r)
    <2>1. \A m : m \in Numbers(q) <=> m \in Numbers(p) \/ m \in Numbers(r)
      BY ONLY <1>2, <1>3, <1>4, <1>5
    <2> QED  BY <2>1
  <1>7. Numbers(p) \cap Numbers(r) = {}
    <2> SUFFICES ASSUME NEW i \in I, NEW j \in J, q[i].n = q[j].n PROVE FALSE
      BY <1>3, <1>4
    <2>1. i \in DOMAIN q /\ j \in DOMAIN q /\ i # j
      BY <1>2
    <2>4. i \in Nat /\ j \in Nat /\ q[i] \in Piece /\ q[j] \in Piece
      BY ONLY <2>1, q \in Seq(Piece)
    <2>2. i \in Nat /\ j \in Nat /\ q[i].n \in Nat /\ q[j].n \in Nat
      BY ONLY <2>4 DEF Piece
    <2>3. i < j \/ j < i
      BY <2>1, <2>2
    <2> QED  BY <2>1, <2>2, <2>3 DEF Queue
  <1>8. /\ \A k \in DOMAIN p : p[k].to = d /\ \E i \in DOMAIN q : p[k] = q[i]
        /\ \A k \in DOMAIN r : r[k].to # d /\ \E i \in DOMAIN q : r[k] = q[i]
    BY ONLY <1>2, <1>3, <1>4
  <1> QED  BY ONLY <1>3, <1>4, <1>6, <1>7, <1>8

(* The packets for a name are dropped from the queue.                      *)
LEMMA DropQueue ==
    ASSUME NEW S \in Seq(Send), NEW L, NEW q \in Seq(Piece), NEW c \in Nat,
           Gone(S, L, q, c), InOrder(S, q), NEW p, NEW r,
           NEW K, K = L \cup Numbers(p),
           Numbers(q) = Numbers(p) \cup Numbers(r), Numbers(p) \cap Numbers(r) = {},
           \A k \in DOMAIN r : \E i \in DOMAIN q : r[k] = q[i]
    PROVE  Gone(S, K, r, c) /\ InOrder(S, r)
  <1> DEFINE A == Out(S)
             P == Numbers(p)
             R == Numbers(r)
  <1>1. (A \cup L) \cup (P \cup R) = 1 .. c /\ Apart(A, L, P \cup R) /\ P \cap R = {}
    BY DEF Gone
  <1> HIDE DEF A, P, R
  <1>2. (A \cup (L \cup P)) \cup R = 1 .. c
    <2>1. (A \cup (L \cup P)) \cup R = (A \cup L) \cup (P \cup R)
      OBVIOUS
    <2> QED  BY <2>1, <1>1
  <1>3. Apart(A, L \cup P, R)
    BY <1>1 DEF Apart
  <1>4. Gone(S, L \cup P, r, c)
    BY <1>2, <1>3 DEF Gone, A, R
  <1>5. InOrder(S, r)
    BY DEF InOrder
  <1> QED  BY <1>4, <1>5 DEF P

(* What flush_pending_domain sends of a part p of the queue.               *)
Flush(p, d) == [i \in DOMAIN p |-> [to |-> d, n |-> p[i].n]]

(* The packets for a name are sent from the queue.                         *)
LEMMA FlushQueue ==
    ASSUME NEW S \in Seq(Send), NEW L, NEW q \in Seq(Piece), NEW c \in Nat,
           Gone(S, L, q, c), Queue(q), InOrder(S, q), NEW d \in Domains,
           NEW p \in Seq(Piece), NEW r \in Seq(Piece), Queue(p),
           \A k \in DOMAIN p : p[k].to = d, \A k \in DOMAIN r : r[k].to # d,
           \A k \in DOMAIN p : \E i \in DOMAIN q : p[k] = q[i],
           \A k \in DOMAIN r : \E i \in DOMAIN q : r[k] = q[i],
           Numbers(q) = Numbers(p) \cup Numbers(r), Numbers(p) \cap Numbers(r) = {}
    PROVE  /\ S \o Flush(p, d) \in Seq(Send)
           /\ Gone(S \o Flush(p, d), L, r, c) /\ InOrder(S \o Flush(p, d), r)
  <1> DEFINE a == Len(S)
             b == Len(p)
             F == Flush(p, d)
             H == S \o F
  <1>1. a \in Nat /\ b \in Nat /\ DOMAIN S = 1 .. a /\ DOMAIN p = 1 .. b
    OBVIOUS
  <1>2. \A k \in 1 .. b : p[k].n \in Nat /\ p[k].n # 0 /\ p[k].kind = "dgram"
    <2>1. \A k \in DOMAIN q : q[k].n \in 1 .. c
      BY GoneBefore
    <2>2. \A k \in 1 .. b : p[k].n \in 1 .. c
      BY <2>1, <1>1
    <2> QED  BY <2>2, <1>1 DEF Queue
  <1>3. F \in Seq(Send) /\ Len(F) = b /\ \A k \in 1 .. b : F[k].to = d /\ F[k].n = p[k].n
    <2>1. d \in Peers \cup {None}
      BY DEF Peers
    <2>2. \A k \in 1 .. b : [to |-> d, n |-> p[k].n] \in Send
      BY <1>2, <2>1 DEF Send
    <2>3. F = [k \in 1 .. b |-> [to |-> d, n |-> p[k].n]]
      BY <1>1 DEF Flush
    <2> HIDE DEF F
    <2> QED  BY <1>1, <2>2, <2>3
  <1> HIDE DEF F
  <1>4. /\ H \in Seq(Send) /\ DOMAIN H = 1 .. a + b
        /\ \A k \in 1 .. a : H[k] = S[k]
        /\ \A k \in 1 .. b : H[a + k] = F[k]
    <2>0. F \in Seq(Send) /\ Len(F) = b
      BY <1>3
    <2>6. S \o F \in Seq(Send) /\ Len(S \o F) = Len(S) + Len(F)
      BY ONLY S \in Seq(Send), <2>0, ConcatProperties
    <2>1. H \in Seq(Send) /\ Len(H) = a + b
      BY ONLY <2>0, <2>6
    <2>2. \A k \in 1 .. a + b : H[k] = IF k <= a THEN S[k] ELSE F[k - a]
      BY ONLY S \in Seq(Send), <1>3, ConcatProperties, <1>1
    <2>3. DOMAIN H = 1 .. a + b
      BY ONLY <2>1
    <2>4. \A k \in 1 .. a : k \in 1 .. a + b /\ k <= a
      BY ONLY <1>1
    <2>5. \A k \in 1 .. b : a + k \in 1 .. a + b /\ ~(a + k <= a) /\ (a + k) - a = k
      BY ONLY <1>1
    <2> HIDE DEF H, a, b
    <2> QED  BY ONLY <2>1, <2>2, <2>3, <2>4, <2>5
  <1> HIDE DEF H, a, b
  <1>5. \A k \in 1 .. a + b : k \in 1 .. a \/ (k - a \in 1 .. b /\ k = a + (k - a))
    BY <1>1
  <1>6. ASSUME NEW m PROVE m \in Out(H) <=> m \in Out(S) \/ m \in Numbers(p)
    <2>1. m \in Out(H) <=> m # 0 /\ \E k \in 1 .. a + b : m = H[k].n
      BY <1>4 DEF Out
    <2>2. m \in Out(S) <=> m # 0 /\ \E k \in 1 .. a : m = S[k].n
      BY <1>1 DEF Out
    <2>3. m \in Numbers(p) <=> \E k \in 1 .. b : m = p[k].n
      BY <1>1, <1>2 DEF Numbers
    <2>4. \A k \in 1 .. a : k \in 1 .. a + b
      BY <1>1
    <2>5. \A k \in 1 .. b : a + k \in 1 .. a + b
      BY <1>1
    <2>6. ASSUME m \in Out(H) PROVE m \in Out(S) \/ m \in Numbers(p)
      <3>1. PICK k \in 1 .. a + b : m = H[k].n
        BY <2>1, <2>6
      <3>2. CASE k \in 1 .. a
        BY <3>1, <3>2, <2>1, <2>2, <2>6, <1>4
      <3>3. CASE k - a \in 1 .. b /\ k = a + (k - a)
        BY <3>1, <3>3, <2>3, <1>3, <1>4
      <3> QED  BY <3>2, <3>3, <1>5
    <2>7. ASSUME m \in Out(S) PROVE m \in Out(H)
      BY <2>7, <2>1, <2>2, <2>4, <1>4
    <2>8. ASSUME m \in Numbers(p) PROVE m \in Out(H)
      <3>1. PICK k \in 1 .. b : m = p[k].n
        BY <2>8, <2>3
      <3>2. a + k \in 1 .. a + b /\ H[a + k].n = m /\ m # 0
        BY <3>1, <2>5, <1>2, <1>3, <1>4
      <3> QED  BY <3>2, <2>1
    <2> QED  BY <2>6, <2>7, <2>8
  <1>7. Out(H) = Out(S) \cup Numbers(p)
    BY <1>6
  <1>8. Gone(H, L, r, c)
    <2> DEFINE A == Out(S)
               P == Numbers(p)
               R == Numbers(r)
    <2>1. (A \cup L) \cup (P \cup R) = 1 .. c /\ Apart(A, L, P \cup R) /\ P \cap R = {}
      BY DEF Gone
    <2>2. Out(H) = A \cup P
      BY <1>7
    <2> HIDE DEF A, P, R
    <2>3. ((A \cup P) \cup L) \cup R = (A \cup L) \cup (P \cup R)
      OBVIOUS
    <2>4. Apart(A \cup P, L, R)
      BY <2>1 DEF Apart
    <2> QED  BY <2>1, <2>2, <2>3, <2>4 DEF Gone, R
  <1>9. ASSUME NEW j \in DOMAIN H, NEW k \in DOMAIN H, j < k, H[j].to = H[k].to
        PROVE  H[j].n < H[k].n
    <2>1. CASE k \in 1 .. a
      <3>1. j \in 1 .. a
        BY <1>1, <1>4, <1>9, <2>1
      <3> QED  BY <3>1, <2>1, <1>1, <1>4, <1>9 DEF InOrder
    <2>2. CASE j \in 1 .. a /\ k - a \in 1 .. b /\ k = a + (k - a)
      <3>1. H[k].to = d /\ H[k].n = p[k - a].n /\ H[j] = S[j] /\ S[j].to = p[k - a].to
        BY <2>2, <1>1, <1>3, <1>4, <1>9
      <3>2. PICK i \in DOMAIN q : p[k - a] = q[i]
        BY <2>2, <1>1
      <3> QED  BY <2>2, <3>1, <3>2, <1>1 DEF InOrder
    <2>3. CASE j - a \in 1 .. b /\ j = a + (j - a) /\ k - a \in 1 .. b /\ k = a + (k - a)
      <3>1. H[k].n = p[k - a].n /\ H[j].n = p[j - a].n
        BY <2>3, <1>3, <1>4
      <3>2. j - a < k - a
        BY <1>1, <1>4, <1>9
      <3> QED  BY <2>3, <3>1, <3>2, <1>1 DEF Queue
    <2>4. j \in 1 .. a + b /\ k \in 1 .. a + b
      BY <1>4
    <2>5. k \in 1 .. a \/ (j \in 1 .. a /\ k - a \in 1 .. b /\ k = a + (k - a))
          \/ (j - a \in 1 .. b /\ j = a + (j - a) /\ k - a \in 1 .. b /\ k = a + (k - a))
      BY <1>5, <2>4
    <2> QED  BY <2>1, <2>2, <2>3, <2>5
  <1>10. ASSUME NEW j \in DOMAIN H, NEW k \in DOMAIN r, H[j].to = r[k].to PROVE H[j].n < r[k].n
    <2>1. CASE j \in 1 .. a
      <3>1. PICK i \in DOMAIN q : r[k] = q[i]
        OBVIOUS
      <3> QED  BY <3>1, <2>1, <1>1, <1>4, <1>10 DEF InOrder
    <2>2. CASE j - a \in 1 .. b /\ j = a + (j - a)
      <3>1. H[j].to = d
        BY <2>2, <1>3, <1>4
      <3> QED  BY <3>1, <1>10
    <2> QED  BY <2>1, <2>2, <1>4, <1>5
  <1>11. InOrder(H, r)
    BY <1>9, <1>10 DEF InOrder
  <1> QED  BY <1>4, <1>8, <1>11 DEF H, F
-----------------------------------------------------------------------------
(* A step of an open stream that leaves it open.                           *)
LEMMA StillOpen ==
    ASSUME NEW x, StreamInv(x), x.counted, NEW y \in Stream,
           y.state = x.state, y.counted = x.counted, y.udp => y.timer, Len(y.queue) <= MaxPackets,
           Requested(y), Accounted(y), Queue(y.queue), InOrder(y.sent, y.queue), Kept(y)
    PROVE  StreamInv(y) /\ y.counted
  <1>1. x.state = "connected"
    BY DEF StreamInv, Holds
  <1>2. Holds(y)
    BY <1>1 DEF Holds
  <1> QED  BY <1>2 DEF StreamInv

(* The fields of an open stream.                                           *)
LEMMA OpenFields ==
    ASSUME NEW x, StreamInv(x), x.counted
    PROVE  /\ x \in Stream /\ x.buf \in Seq(Piece) /\ x.queue \in Seq(Piece) /\ x.sent \in Seq(Send)
           /\ x.got \in Nat /\ x.pieces \in Nat /\ x.bad \in Nat /\ x.lost \in SUBSET Nat
           /\ x.empty \in SUBSET Nat /\ Kept(x)
           /\ x.target \in Peers \cup {None} /\ x.parsed \in BOOLEAN /\ x.half \in BOOLEAN
           /\ x.state = "connected" /\ (x.udp => x.timer) /\ Len(x.queue) <= MaxPackets
           /\ Requested(x) /\ Accounted(x) /\ Queue(x.queue) /\ InOrder(x.sent, x.queue)
  BY DEF StreamInv, Holds, Stream, Send

(* A piece without a request, in front of others.                          *)
LEMMA RequestGone ==
    ASSUME NEW b \in Seq(Piece), b # <<>>, NEW parsed, RequestFirst(b, parsed), NEW new
    PROVE  RequestFirst(Tail(b), new)
  <1> SUFFICES ASSUME NEW k \in DOMAIN Tail(b), Tail(b)[k].kind \in {"connect", "packet"}
               PROVE  FALSE
    BY DEF RequestFirst
  <1>1. k \in 1 .. Len(b) - 1 /\ Len(b) \in Nat /\ DOMAIN b = 1 .. Len(b) /\ Tail(b)[k] = b[k + 1]
    BY TailPlaces
  <1>2. k + 1 \in DOMAIN b /\ k + 1 # 1
    BY <1>1
  <1> QED  BY <1>1, <1>2 DEF RequestFirst

(* The stream was asked for a piece that is whole, so its buffer has one.  *)
LEMMA WholeHead ==
    ASSUME NEW x, x.buf \in Seq(Piece), x.half \in BOOLEAN, Whole(x) > 0
    PROVE  /\ x.buf # <<>> /\ Head(x.buf) = x.buf[1] /\ Head(x.buf) \in Piece
           /\ Tail(x.buf) \in Seq(Piece) /\ Len(Tail(x.buf)) = Len(x.buf) - 1
           /\ Len(x.buf) \in Nat \ {0}
  <1>1. x.buf # <<>>
    BY DEF Whole
  <1> QED  BY <1>1, TailPlaces

(* The head of the buffer was handled; dropped, if it was empty.           *)
LEMMA HeadDropped ==
    ASSUME NEW x, x.buf \in Seq(Piece), x.buf # <<>>, Dropped(x),
           NEW y, y.buf = Tail(x.buf), y.empty = x.empty, x.lost \subseteq y.lost,
           y.mode = "connect" => x.mode = "connect",
           x.buf[1].kind = "dgram" => x.buf[1].len # 0 \/ x.buf[1].n \in y.lost,
           y.mode = "connect" => \A m \in y.lost :
              m \in x.lost \/ (x.buf[1].kind = "dgram" /\ x.buf[1].len = 0 /\ m = x.buf[1].n)
    PROVE  Dropped(y)
  <1> DEFINE b == x.buf
             t == Tail(x.buf)
             n == Len(x.buf)
  <1>1. /\ n \in Nat /\ n > 0 /\ DOMAIN b = 1 .. n /\ DOMAIN t = 1 .. n - 1
        /\ \A k \in 1 .. n - 1 : t[k] = b[k + 1]
    BY TailPlaces
  <1>2. /\ b[1].kind = "dgram" => Numbers(b) = Numbers(t) \cup {b[1].n}
        /\ b[1].kind # "dgram" => Numbers(b) = Numbers(t)
    BY NumbersTail
  <1>3. /\ x.empty \subseteq x.lost \cup Numbers(b)
        /\ \A k \in DOMAIN b : b[k].kind = "dgram" => (b[k].n \in x.empty <=> b[k].len = 0)
        /\ x.mode = "connect" => x.lost \subseteq x.empty
    BY DEF Dropped
  <1>4. y.buf = t /\ b = x.buf
    OBVIOUS
  <1> HIDE DEF b, t, n
  <1>5. 1 \in DOMAIN b
    BY <1>1
  <1>6. y.empty \subseteq y.lost \cup Numbers(t)
    <2>1. CASE b[1].kind = "dgram"
      <3>1. b[1].n \in x.empty => b[1].n \in y.lost
        BY <2>1, <1>3, <1>4, <1>5
      <3> QED  BY <3>1, <2>1, <1>2, <1>3
    <2>2. CASE b[1].kind # "dgram"
      BY <2>2, <1>2, <1>3
    <2> QED  BY <2>1, <2>2
  <1>7. \A k \in DOMAIN t : t[k].kind = "dgram" => (t[k].n \in y.empty <=> t[k].len = 0)
    <2> SUFFICES ASSUME NEW k \in DOMAIN t
                 PROVE  t[k].kind = "dgram" => (t[k].n \in y.empty <=> t[k].len = 0)
      OBVIOUS
    <2>1. k + 1 \in DOMAIN b /\ t[k] = b[k + 1]
      BY <1>1
    <2> QED  BY <2>1, <1>3
  <1>8. y.mode = "connect" => y.lost \subseteq y.empty
    BY <1>3, <1>4, <1>5
  <1> QED  BY <1>4, <1>6, <1>7, <1>8 DEF Dropped

\* the number of p, if it is an empty datagram
Blank(p) == IF p.kind = "dgram" /\ p.len = 0 THEN {p.n} ELSE {}

(* A piece joins the buffer under a number of its own.                     *)
LEMMA PieceDropped ==
    ASSUME NEW x, x.buf \in Seq(Piece), Dropped(x), NEW p \in Piece,
           NEW y, y.buf = Append(x.buf, p), y.empty = x.empty \cup Blank(p), y.lost = x.lost,
           y.mode = x.mode,
           p.kind = "dgram" => p.n \notin x.empty /\ p.n \notin Numbers(x.buf)
    PROVE  Dropped(y)
  <1> DEFINE b == x.buf
             a == Append(x.buf, p)
             n == Len(x.buf)
  <1>1. /\ n \in Nat /\ DOMAIN b = 1 .. n /\ DOMAIN a = 1 .. n + 1 /\ a[n + 1] = p
        /\ \A k \in 1 .. n : a[k] = b[k]
    OBVIOUS
  <1>2. /\ p.kind = "dgram" => Numbers(a) = Numbers(b) \cup {p.n}
        /\ p.kind # "dgram" => Numbers(a) = Numbers(b)
    BY NumbersAppend
  <1>3. /\ x.empty \subseteq x.lost \cup Numbers(b)
        /\ \A k \in DOMAIN b : b[k].kind = "dgram" => (b[k].n \in x.empty <=> b[k].len = 0)
        /\ x.mode = "connect" => x.lost \subseteq x.empty
    BY DEF Dropped
  <1>4. y.buf = a
    OBVIOUS
  <1>5. \A k \in DOMAIN b : b[k].kind = "dgram" => b[k].n \in Numbers(b)
    BY DEF Numbers
  <1>6. p.kind = "dgram" => p.n \notin x.empty /\ p.n \notin Numbers(b)
    OBVIOUS
  <1> HIDE DEF a, b, n
  <1>7. y.empty \subseteq y.lost \cup Numbers(a)
    BY <1>2, <1>3 DEF Blank
  <1>8. \A k \in DOMAIN a : a[k].kind = "dgram" => (a[k].n \in y.empty <=> a[k].len = 0)
    <2> SUFFICES ASSUME NEW k \in DOMAIN a, a[k].kind = "dgram"
                 PROVE  a[k].n \in y.empty <=> a[k].len = 0
      OBVIOUS
    <2>1. CASE k = n + 1
      BY <2>1, <1>1, <1>6 DEF Blank
    <2>2. CASE k # n + 1
      <3>1. k \in DOMAIN b /\ a[k] = b[k]
        BY <2>2, <1>1
      <3>2. b[k].n \notin Blank(p)
        BY <3>1, <1>5, <1>6 DEF Blank
      <3> QED  BY <3>1, <3>2, <1>3
    <2> QED  BY <2>1, <2>2
  <1>9. y.mode = "connect" => y.lost \subseteq y.empty
    BY <1>3
  <1> QED  BY <1>4, <1>7, <1>8, <1>9 DEF Dropped

(* A request leaves the buffer.                                            *)
LEMMA RequestParsed ==
    ASSUME NEW x, StreamInv(x), x.counted, Whole(x) > 0, Head(x.buf).kind \in {"connect", "packet"},
           NEW y \in Stream, y.buf = Tail(x.buf), y.parsed,
           y.mode = (IF Head(x.buf).kind = "packet" THEN "packet" ELSE x.mode),
           y.state = x.state, y.counted = x.counted, y.udp => y.timer,
           y.queue = x.queue, y.got = x.got, y.lost = x.lost, y.pieces = x.pieces,
           y.empty = x.empty,
           \/ y.sent = x.sent
           \/ /\ y.sent = Append(<<>>, [to |-> x.buf[1].to, n |-> 0]) /\ x.sent = <<>>
              /\ Head(x.buf).kind = "connect"
    PROVE  StreamInv(y) /\ y.counted
  <1>1. /\ x.buf \in Seq(Piece) /\ x.queue \in Seq(Piece) /\ x.sent \in Seq(Send) /\ x.got \in Nat
        /\ x.pieces \in Nat /\ x.half \in BOOLEAN /\ Len(x.queue) <= MaxPackets
        /\ Requested(x) /\ Accounted(x) /\ Queue(x.queue) /\ InOrder(x.sent, x.queue) /\ Kept(x)
    BY OpenFields
  <1>2. /\ x.buf # <<>> /\ Head(x.buf) = x.buf[1] /\ Head(x.buf) \in Piece
        /\ Tail(x.buf) \in Seq(Piece) /\ Len(Tail(x.buf)) = Len(x.buf) - 1 /\ Len(x.buf) \in Nat \ {0}
    BY <1>1, WholeHead
  <1>3. /\ 1 \in DOMAIN x.buf /\ x.buf[1].kind # "dgram" /\ ~x.parsed /\ x.mode = "connect"
        /\ x.sent = <<>> /\ x.queue = <<>>
    BY <1>1, <1>2 DEF Requested, RequestFirst
  <1>4. RequestFirst(y.buf, y.parsed)
    BY <1>1, <1>2, RequestGone DEF Requested
  <1>5. Requested(y)
    <2>1. Len(x.buf) <= x.pieces
      BY <1>1 DEF Requested
    <2>2. Len(y.buf) <= y.pieces /\ y.pieces > 0
      <3>1. Len(y.buf) = Len(x.buf) - 1
        BY <1>2
      <3> HIDE DEF Whole
      <3> QED  BY ONLY <2>1, <3>1, <1>1, <1>2, y.pieces = x.pieces
    <2>3. y.queue = <<>> /\ y.parsed
      BY <1>3
    <2> QED  BY ONLY <1>4, <2>2, <2>3 DEF Requested
  <1>6. PICK c \in 0 .. x.got : Waiting(x.buf, x.got, c) /\ Gone(x.sent, x.lost, x.queue, c)
    BY <1>1 DEF Accounted
  <1>7. Waiting(y.buf, y.got, c)
    BY <1>1, <1>2, <1>3, <1>6, WaitingTail
  <1>8. Out(y.sent) = Out(x.sent) /\ InOrder(y.sent, y.queue)
    <2>1. CASE y.sent = x.sent
      BY <2>1, <1>1
    <2>2. CASE y.sent = Append(<<>>, [to |-> x.buf[1].to, n |-> 0])
      <3> DEFINE e == [to |-> x.buf[1].to, n |-> 0]
      <3>0. x.buf[1] \in Piece
        BY <1>2
      <3>8. x.buf[1].to \in Peers \cup {None} /\ 0 \in Nat
        BY ONLY <3>0 DEF Piece
      <3>1. e \in Send /\ e.n = 0
        BY ONLY <3>8 DEF Send
      <3> HIDE DEF e
      <3> DEFINE z == <<>>
      <3>2. z \in Seq(Send)
        OBVIOUS
      <3>9. Out(Append(z, e)) = Out(z) \cup ({e.n} \ {0})
        <4> HIDE DEF z
        <4> QED  BY ONLY <3>1, <3>2, OutAppend
      <3>3. Out(Append(<<>>, e)) = Out(<<>>) \cup ({e.n} \ {0})
        BY ONLY <3>9
      <3>4. y.sent = Append(<<>>, e)
        BY <2>2 DEF e
      <3>5. Out(y.sent) = Out(x.sent)
        BY <3>1, <3>3, <3>4, <1>3
      <3>6. DOMAIN y.sent = {1} /\ y.queue = <<>>
        <4>1. DOMAIN Append(<<>>, e) = {1}
          BY ONLY <3>1
        <4> QED  BY <4>1, <3>4, <1>3
      <3>7. InOrder(y.sent, y.queue)
        BY <3>6 DEF InOrder
      <3> QED  BY <3>5, <3>7
    <2> QED  BY <2>1, <2>2
  <1>9. Gone(y.sent, y.lost, y.queue, c)
    BY <1>6, <1>8 DEF Gone
  <1>10. Accounted(y)
    BY <1>7, <1>9 DEF Accounted
  <1>11. Dropped(y)
    BY <1>1, <1>2, <1>3, HeadDropped DEF Kept
  <1>12. ZeroFirst(y.sent, y.mode)
    <2>1. CASE y.sent = x.sent
      BY <2>1, <1>3 DEF ZeroFirst
    <2>2. CASE y.sent = Append(<<>>, [to |-> x.buf[1].to, n |-> 0]) /\ Head(x.buf).kind = "connect"
      <3> DEFINE e == [to |-> x.buf[1].to, n |-> 0]
      <3>1. DOMAIN Append(<<>>, e) = {1}
        <4> HIDE DEF e
        <4> QED  OBVIOUS
      <3>2. y.mode = "connect"
        BY <2>2, <1>3
      <3> QED  BY <3>1, <3>2, <2>2 DEF ZeroFirst
    <2> QED  BY <2>1, <2>2
  <1> QED  BY <1>1, <1>5, <1>8, <1>10, <1>11, <1>12, StillOpen DEF Kept

(* A step that leaves the data of a stream alone.                          *)
LEMMA DataKept ==
    ASSUME NEW x, StreamInv(x), x.counted, NEW y \in Stream,
           y.buf = x.buf, y.parsed = x.parsed, y.mode = x.mode, y.state = x.state,
           y.counted = x.counted, y.udp => y.timer, y.queue = x.queue, y.got = x.got,
           y.lost = x.lost, y.pieces = x.pieces, y.sent = x.sent, y.empty = x.empty
    PROVE  StreamInv(y) /\ y.counted
  <1>1. Kept(y)
    BY DEF StreamInv, Kept, Dropped
  <1> QED  BY <1>1 DEF StreamInv, Requested, Holds, Accounted

(* A datagram leaves the buffer: it is sent to a peer for which nothing is *)
(* queued, lost, or queued for a name.                                     *)
LEMMA DatagramHandled ==
    ASSUME NEW x, StreamInv(x), x.counted, Whole(x) > 0, Head(x.buf).kind = "dgram",
           NEW y \in Stream, y.buf = Tail(x.buf), y.parsed = x.parsed, y.mode = x.mode,
           y.state = x.state, y.counted = x.counted, y.udp => y.timer,
           y.got = x.got, y.pieces = x.pieces, y.empty = x.empty,
           \/ /\ y.queue = x.queue /\ y.lost = x.lost /\ x.parsed /\ Head(x.buf).len # 0
              /\ \E e \in Send : /\ y.sent = Append(x.sent, e) /\ e.n = Head(x.buf).n
                                 /\ x.mode = "connect" \/ e.to \in Ips
           \/ /\ y.queue = x.queue /\ y.sent = x.sent /\ y.lost = x.lost \cup {Head(x.buf).n}
              /\ Head(x.buf).len = 0 \/ x.mode = "packet"
           \/ /\ y.sent = x.sent /\ y.lost = x.lost /\ x.mode = "packet" /\ Head(x.buf).len # 0
              /\ y.queue = Append(x.queue, Head(x.buf)) /\ Head(x.buf).to \in Domains
              /\ Len(x.queue) < MaxPackets
    PROVE  StreamInv(y) /\ y.counted
  <1> DEFINE h == x.buf[1]
  <1>1. /\ x.buf \in Seq(Piece) /\ x.queue \in Seq(Piece) /\ x.sent \in Seq(Send) /\ x.got \in Nat
        /\ x.pieces \in Nat /\ x.half \in BOOLEAN /\ Len(x.queue) <= MaxPackets
        /\ Requested(x) /\ Accounted(x) /\ Queue(x.queue) /\ InOrder(x.sent, x.queue) /\ Kept(x)
    BY OpenFields
  <1>2. /\ x.buf # <<>> /\ Head(x.buf) = h /\ h \in Piece
        /\ Tail(x.buf) \in Seq(Piece) /\ Len(Tail(x.buf)) = Len(x.buf) - 1 /\ Len(x.buf) \in Nat \ {0}
    BY <1>1, WholeHead
  <1>3. PICK c \in 0 .. x.got : Waiting(x.buf, x.got, c) /\ Gone(x.sent, x.lost, x.queue, c)
    BY <1>1 DEF Accounted
  <1>4. h.kind = "dgram"
    BY <1>2
  <1>5. h.n = c + 1 /\ c + 1 \in 0 .. x.got /\ Waiting(y.buf, y.got, c + 1)
    BY <1>1, <1>2, <1>3, <1>4, WaitingHead
  <1>6. c \in Nat
    OBVIOUS
  <1>7. RequestFirst(y.buf, y.parsed)
    BY <1>1, <1>2, RequestGone DEF Requested
  <1>8. Len(y.buf) <= y.pieces /\ y.pieces > 0
    <2>1. Len(x.buf) <= x.pieces /\ Len(y.buf) = Len(x.buf) - 1
      BY <1>1, <1>2 DEF Requested
    <2> QED  BY ONLY <2>1, <1>1, <1>2, y.pieces = x.pieces
  <1>14. Dropped(y)
    BY <1>1, <1>2, <1>4, HeadDropped DEF Kept
  <1>15. ASSUME y.sent = x.sent PROVE Kept(y)
    BY <1>1, <1>14, <1>15 DEF Kept
  <1> HIDE DEF h
  <1>9. ASSUME y.queue = x.queue, x.parsed \/ y.sent = x.sent
        PROVE  Requested(y)
    BY <1>1, <1>7, <1>8, <1>9 DEF Requested
  <1>10. ASSUME Gone(y.sent, y.lost, y.queue, c + 1) PROVE Accounted(y)
    BY <1>5, <1>10 DEF Accounted
  <1>11. ASSUME NEW e \in Send, y.sent = Append(x.sent, e), e.n = h.n,
                x.mode = "connect" \/ e.to \in Ips, y.queue = x.queue, y.lost = x.lost, x.parsed
         PROVE  StreamInv(y) /\ y.counted
    <2>1. Accounted(y)
      BY <1>1, <1>3, <1>5, <1>6, <1>10, <1>11, GoneSent
    <2>2. \A k \in DOMAIN x.sent : x.sent[k].n < e.n
      <3>1. \A k \in DOMAIN x.sent : x.sent[k].n \in 0 .. c
        BY <1>1, <1>3, <1>6, GoneBefore
      <3> QED  BY <3>1, <1>5, <1>6, <1>11
    <2>3. \A k \in DOMAIN x.queue : x.queue[k].to # e.to
      <3>1. CASE x.mode = "connect"
        <4>1. x.queue = <<>>
          BY <3>1, <1>1 DEF Requested
        <4> QED  BY <4>1
      <3>2. CASE e.to \in Ips
        BY <3>2, <1>1, UotAssumption DEF Queue
      <3> QED  BY <3>1, <3>2, <1>11
    <2>4. InOrder(y.sent, y.queue)
      BY <2>2, <2>3, <1>1, <1>11, OrderSent
    <2>5. ZeroFirst(y.sent, y.mode)
      <3>1. /\ DOMAIN y.sent = 1 .. Len(x.sent) + 1 /\ DOMAIN x.sent = 1 .. Len(x.sent)
            /\ Len(x.sent) \in Nat /\ y.sent[Len(x.sent) + 1] = e
            /\ \A k \in 1 .. Len(x.sent) : y.sent[k] = x.sent[k]
        BY <1>1, <1>11
      <3>2. e.n # 0
        BY <1>5, <1>6, <1>11
      <3>3. ZeroFirst(x.sent, x.mode) /\ y.mode = x.mode
        BY <1>1 DEF Kept
      <3> QED  BY <3>1, <3>2, <3>3 DEF ZeroFirst
    <2> QED  BY <2>1, <2>4, <2>5, <1>1, <1>9, <1>11, <1>14, StillOpen DEF Kept
  <1>12. ASSUME y.queue = x.queue, y.sent = x.sent, y.lost = x.lost \cup {h.n}
         PROVE  StreamInv(y) /\ y.counted
    <2>1. Accounted(y)
      BY <1>3, <1>5, <1>6, <1>10, <1>12, GoneLost
    <2> QED  BY <2>1, <1>1, <1>9, <1>12, <1>15, StillOpen
  <1>13. ASSUME y.sent = x.sent, y.lost = x.lost, x.mode = "packet", h.to \in Domains,
                y.queue = Append(x.queue, h), Len(x.queue) < MaxPackets
         PROVE  StreamInv(y) /\ y.counted
    <2>1. Gone(y.sent, y.lost, y.queue, c + 1) /\ Queue(y.queue) /\ InOrder(y.sent, y.queue)
      <3>1. /\ Gone(x.sent, x.lost, Append(x.queue, h), c + 1)
            /\ Queue(Append(x.queue, h)) /\ InOrder(x.sent, Append(x.queue, h))
        BY ONLY <1>1, <1>2, <1>3, <1>4, <1>5, <1>6, <1>13, GoneQueued
      <3> QED  BY ONLY <3>1, <1>13
    <2>2. Requested(y)
      BY <1>1, <1>7, <1>8, <1>13 DEF Requested
    <2>3. Len(y.queue) <= MaxPackets
      <3>1. Len(y.queue) = Len(x.queue) + 1 /\ Len(x.queue) \in Nat
        BY <1>1, <1>2, <1>13
      <3> QED  BY <3>1, <1>13, UotAssumption
    <2> QED  BY <2>1, <2>2, <2>3, <1>10, <1>13, <1>15, StillOpen
  <1> QED  BY <1>2, <1>11, <1>12, <1>13

(* What is flushed, packet by packet.                                      *)
LEMMA FlushPlaces ==
    ASSUME NEW p \in Seq(Piece), NEW d \in Domains
    PROVE  /\ Len(p) \in Nat /\ DOMAIN p = 1 .. Len(p) /\ Flush(p, d) \in Seq(Send)
           /\ Len(Flush(p, d)) = Len(p) /\ \A k \in 1 .. Len(p) : Flush(p, d)[k].n = p[k].n
  <1>1. \A k \in DOMAIN p : p[k] \in Piece
    OBVIOUS
  <1>2. \A k \in DOMAIN p : p[k].n \in Nat
    BY <1>1 DEF Piece
  <1>3. d \in Peers \cup {None}
    BY DEF Peers
  <1>4. \A k \in DOMAIN p : [to |-> d, n |-> p[k].n] \in Send
    BY <1>2, <1>3 DEF Send
  <1>5. Flush(p, d) = [i \in 1 .. Len(p) |-> [to |-> d, n |-> p[i].n]] /\ DOMAIN p = 1 .. Len(p)
        /\ Len(p) \in Nat
    BY DEF Flush
  <1> QED  BY <1>4, <1>5

(* The packets for a name leave the queue: they are sent or dropped.       *)
LEMMA QueueHandled ==
    ASSUME NEW x, StreamInv(x), x.counted, NEW d \in Domains, NEW y \in Stream,
           y.buf = x.buf, y.parsed = x.parsed, y.mode = x.mode, y.state = x.state,
           y.counted = x.counted, y.udp => y.timer, y.got = x.got, y.pieces = x.pieces,
           y.empty = x.empty,
           y.queue = Others(x, d),
           \/ y.lost = x.lost /\ y.sent = x.sent \o Flush(OfDomain(x, d), d)
           \/ y.sent = x.sent /\ y.lost = x.lost \cup Numbers(OfDomain(x, d))
    PROVE  StreamInv(y) /\ y.counted
  <1> DEFINE q == x.queue
             p == OfDomain(x, d)
             r == Others(x, d)
  <1>1. /\ x.buf \in Seq(Piece) /\ q \in Seq(Piece) /\ x.sent \in Seq(Send) /\ x.got \in Nat
        /\ x.pieces \in Nat /\ Len(q) <= MaxPackets
        /\ Requested(x) /\ Accounted(x) /\ Queue(q) /\ InOrder(x.sent, q) /\ Kept(x)
    BY OpenFields
  <1>2. q = x.queue /\ p = OfDomain(x, d) /\ r = Others(x, d)
    OBVIOUS
  <1> HIDE DEF q, p, r
  <1>3. /\ p \in Seq(Piece) /\ Queue(p) /\ \A k \in DOMAIN p : p[k].to = d
        /\ r \in Seq(Piece) /\ Queue(r) /\ \A k \in DOMAIN r : r[k].to # d
        /\ Len(r) <= Len(q)
        /\ \A k \in DOMAIN p : \E i \in DOMAIN q : p[k] = q[i]
        /\ \A k \in DOMAIN r : \E i \in DOMAIN q : r[k] = q[i]
        /\ Numbers(q) = Numbers(p) \cup Numbers(r) /\ Numbers(p) \cap Numbers(r) = {}
    BY <1>1, <1>2, SplitQueue
  <1>4. PICK c \in 0 .. x.got : Waiting(x.buf, x.got, c) /\ Gone(x.sent, x.lost, q, c)
    BY <1>1 DEF Accounted, q
  <1>5. c \in Nat /\ Waiting(y.buf, y.got, c)
    BY <1>4
  <1>6. y.queue = r /\ Len(y.queue) <= MaxPackets
    <2>1. Len(r) \in Nat /\ Len(q) \in Nat
      BY <1>1, <1>3
    <2> QED  BY <2>1, <1>1, <1>2, <1>3, UotAssumption
  <1>7. x.mode = "connect" => r = <<>> /\ p = <<>>
    <2>1. x.mode = "connect" => DOMAIN q = {}
      BY <1>1 DEF Requested, q
    <2>2. x.mode = "connect" => DOMAIN r = {} /\ DOMAIN p = {}
      BY <2>1, <1>3
    <2> QED  BY <2>2, <1>3
  <1>8. ASSUME x.mode = "connect" => y.sent = x.sent PROVE Requested(y)
    BY <1>1, <1>6, <1>7, <1>8 DEF Requested
  <1>11. ASSUME x.lost \subseteq y.lost, x.mode = "connect" => y.lost = x.lost PROVE Dropped(y)
    BY <1>1, <1>11 DEF Kept, Dropped
  <1>9. CASE y.lost = x.lost /\ y.sent = x.sent \o Flush(p, d)
    <2>1. Gone(y.sent, y.lost, y.queue, c) /\ InOrder(y.sent, y.queue)
      <3>1. Gone(x.sent \o Flush(p, d), x.lost, r, c) /\ InOrder(x.sent \o Flush(p, d), r)
        BY ONLY <1>1, <1>3, <1>4, <1>5, d \in Domains, FlushQueue
      <3> QED  BY ONLY <3>1, <1>6, <1>9
    <2>2. ASSUME x.mode = "connect" PROVE y.sent = x.sent
      <3>1. DOMAIN p = {} /\ Flush(p, d) = [i \in DOMAIN p |-> [to |-> d, n |-> p[i].n]]
        BY <2>2, <1>7 DEF Flush
      <3>2. Flush(p, d) = <<>>
        BY <3>1
      <3>3. x.sent \o <<>> = x.sent
        BY <1>1
      <3> QED  BY <3>2, <3>3, <1>9
    <2>3. Accounted(y)
      BY <2>1, <1>4, <1>5 DEF Accounted
    <2>4. ZeroFirst(y.sent, y.mode)
      <3>1. CASE x.mode = "connect"
        BY <3>1, <2>2, <1>1 DEF Kept
      <3>2. CASE x.mode # "connect"
        <4> DEFINE F == Flush(p, d)
        <4>1. /\ Len(p) \in Nat /\ DOMAIN p = 1 .. Len(p) /\ F \in Seq(Send)
              /\ Len(F) = Len(p) /\ \A k \in 1 .. Len(p) : F[k].n = p[k].n
          BY <1>3, FlushPlaces
        <4>2. \A k \in DOMAIN p : p[k].n # 0
          <5>1. \A k \in DOMAIN q : q[k].n \in 1 .. c
            BY <1>1, <1>4, <1>5, GoneBefore
          <5>2. \A k \in DOMAIN q : q[k].n # 0
            BY <5>1, <1>5
          <5> QED  BY <5>2, <1>3
        <4>3. \A k \in DOMAIN x.sent : x.sent[k].n # 0
          BY <3>2, <1>1 DEF Kept, ZeroFirst
        <4> HIDE DEF F
        <4>4. \A k \in DOMAIN (x.sent \o F) : (x.sent \o F)[k].n # 0
          <5> DEFINE m == Len(x.sent)
          <5>0. x.sent \in Seq(Send) /\ F \in Seq(Send)
            BY ONLY <4>1, <1>1 DEF Kept, Stream
          <5>4. /\ x.sent \o F \in Seq(Send) /\ Len(x.sent \o F) = m + Len(F)
                /\ \A k \in 1 .. m + Len(F) :
                     (x.sent \o F)[k] = IF k <= m THEN x.sent[k] ELSE F[k - m]
            BY ONLY <5>0, ConcatProperties
          <5>1. /\ m \in Nat /\ DOMAIN x.sent = 1 .. m /\ DOMAIN (x.sent \o F) = 1 .. m + Len(F)
                /\ \A k \in 1 .. m : (x.sent \o F)[k] = x.sent[k]
                /\ \A k \in 1 .. m + Len(F) : k > m => (x.sent \o F)[k] = F[k - m]
            <6>1. m \in Nat /\ DOMAIN x.sent = 1 .. m /\ Len(F) \in Nat
              BY ONLY <5>0
            <6>2. DOMAIN (x.sent \o F) = 1 .. m + Len(F)
              BY ONLY <5>4
            <6> HIDE DEF m
            <6>3. \A k \in 1 .. m : (x.sent \o F)[k] = x.sent[k]
              BY ONLY <6>1, <5>4
            <6>4. \A k \in 1 .. m + Len(F) : k > m => (x.sent \o F)[k] = F[k - m]
              BY ONLY <6>1, <5>4
            <6> QED  BY ONLY <6>1, <6>2, <6>3, <6>4
          <5> HIDE DEF m
          <5>2. ASSUME NEW k \in 1 .. m + Len(F), k > m PROVE (x.sent \o F)[k].n # 0
            <6>1. k - m \in 1 .. Len(p)
              BY ONLY <5>1, <5>2, <4>1
            <6>2. F[k - m].n = p[k - m].n
              BY ONLY <6>1, <4>1
            <6>3. p[k - m].n # 0
              BY ONLY <6>1, <4>1, <4>2
            <6>4. (x.sent \o F)[k] = F[k - m]
              BY ONLY <5>1, <5>2
            <6> QED  BY ONLY <6>2, <6>3, <6>4
          <5>3. ASSUME NEW k \in 1 .. m + Len(F), ~(k > m) PROVE (x.sent \o F)[k].n # 0
            <6>1. k \in 1 .. m
              BY ONLY <5>1, <5>3, <4>1
            <6> QED  BY <6>1, <5>1, <4>3
          <5> QED  BY <5>1, <5>2, <5>3
        <4> QED  BY <4>4, <1>9 DEF F, ZeroFirst
      <3> QED  BY <3>1, <3>2
    <2> QED  BY <2>1, <2>2, <2>3, <2>4, <1>3, <1>6, <1>8, <1>9, <1>11, StillOpen DEF Kept
  <1>10. CASE y.sent = x.sent /\ y.lost = x.lost \cup Numbers(p)
    <2>1. Gone(y.sent, y.lost, y.queue, c) /\ InOrder(y.sent, y.queue)
      <3>1. Gone(x.sent, x.lost \cup Numbers(p), r, c) /\ InOrder(x.sent, r)
        <4>1. /\ x.sent \in Seq(Send) /\ q \in Seq(Piece) /\ c \in Nat
              /\ p \in Seq(Piece) /\ r \in Seq(Piece)
              /\ Gone(x.sent, x.lost, q, c) /\ InOrder(x.sent, q)
              /\ Numbers(q) = Numbers(p) \cup Numbers(r) /\ Numbers(p) \cap Numbers(r) = {}
              /\ \A k \in DOMAIN r : \E i \in DOMAIN q : r[k] = q[i]
          BY ONLY <1>1, <1>3, <1>4, <1>5
        <4> DEFINE L == x.lost
                   K == L \cup Numbers(p)
        <4>2. K = L \cup Numbers(p) /\ Gone(x.sent, L, q, c)
          BY <4>1
        <4> HIDE DEF K, L
        <4>3. Gone(x.sent, K, r, c) /\ InOrder(x.sent, r)
          BY ONLY <4>1, <4>2, DropQueue
        <4> QED  BY <4>3 DEF K, L
      <3> QED  BY ONLY <3>1, <1>6, <1>10
    <2>3. Accounted(y)
      BY <2>1, <1>4, <1>5 DEF Accounted
    <2>4. x.mode = "connect" => y.lost = x.lost
      <3>1. p = <<>> => Numbers(p) = {}
        BY DEF Numbers
      <3> QED  BY <3>1, <1>7, <1>10
    <2>5. Kept(y)
      BY <2>4, <1>1, <1>10, <1>11 DEF Kept
    <2> QED  BY <2>1, <2>3, <2>5, <1>3, <1>6, <1>8, <1>10, StillOpen
  <1> QED  BY <1>2, <1>9, <1>10
-----------------------------------------------------------------------------
(* How many pieces of a kind a payload has.                                *)
LEMMA Counts012 ==
    ASSUME NEW p, NEW q, NEW kind
    PROVE  /\ Count(<<>>, kind) = 0
           /\ Count(<<p>>, kind) = (IF p.kind = kind THEN 1 ELSE 0)
           /\ Count(<<p, q>>, kind) = (IF p.kind = kind THEN 1 ELSE 0) + (IF q.kind = kind THEN 1 ELSE 0)
  <1>1. /\ Cardinality({}) = 0 /\ Cardinality({1}) = 1 /\ Cardinality({2}) = 1
        /\ IsFiniteSet({1})
    BY FS_EmptySet, FS_Singleton
  <1>2. Cardinality({1, 2}) = 2
    <2>1. Cardinality({1} \cup {2}) = Cardinality({1}) + 1
      BY <1>1, FS_AddElement
    <2>2. {1} \cup {2} = {1, 2}
      OBVIOUS
    <2> QED  BY <2>1, <2>2, <1>1
  <1>3. Count(<<>>, kind) = 0
    <2>1. {k \in DOMAIN <<>> : <<>>[k].kind = kind} = {}
      OBVIOUS
    <2> QED  BY <2>1, <1>1 DEF Count
  <1>4. Count(<<p>>, kind) = (IF p.kind = kind THEN 1 ELSE 0)
    <2>1. {k \in DOMAIN <<p>> : <<p>>[k].kind = kind} = (IF p.kind = kind THEN {1} ELSE {})
      OBVIOUS
    <2> QED  BY <2>1, <1>1 DEF Count
  <1>5. Count(<<p, q>>, kind) = (IF p.kind = kind THEN 1 ELSE 0) + (IF q.kind = kind THEN 1 ELSE 0)
    <2>1. {k \in DOMAIN <<p, q>> : <<p, q>>[k].kind = kind}
            = (IF p.kind = kind THEN {1} ELSE {}) \cup (IF q.kind = kind THEN {2} ELSE {})
      OBVIOUS
    <2>2. CASE p.kind = kind /\ q.kind = kind
      BY <2>1, <2>2, <1>2 DEF Count
    <2>3. CASE p.kind = kind /\ q.kind # kind
      BY <2>1, <2>3, <1>1 DEF Count
    <2>4. CASE p.kind # kind /\ q.kind = kind
      BY <2>1, <2>4, <1>1 DEF Count
    <2>5. CASE p.kind # kind /\ q.kind # kind
      BY <2>1, <2>5, <1>1 DEF Count
    <2> QED  BY <2>2, <2>3, <2>4, <2>5
  <1> QED  BY <1>3, <1>4, <1>5

(* The empty datagrams of a payload.                                       *)
LEMMA Empties012 ==
    ASSUME NEW p, NEW q
    PROVE  /\ Empties(<<>>) = {} /\ Empties(<<p>>) = Blank(p)
           /\ Empties(<<p, q>>) = Blank(p) \cup Blank(q)
  <1>1. Empties(<<>>) = {}
    BY DEF Empties
  <1>2. Empties(<<p>>) = Blank(p)
    <2>1. DOMAIN <<p>> = {1} /\ <<p>>[1] = p
      OBVIOUS
    <2> QED  BY <2>1 DEF Empties, Blank
  <1>3. Empties(<<p, q>>) = Blank(p) \cup Blank(q)
    <2> DEFINE s == <<p, q>>
    <2>1. DOMAIN s = {1, 2} /\ s[1] = p /\ s[2] = q
      OBVIOUS
    <2> HIDE DEF s
    <2>2. Empties(s) = Blank(p) \cup Blank(q)
      BY <2>1 DEF Empties, Blank
    <2> QED  BY <2>2 DEF s
  <1> QED  BY <1>1, <1>2, <1>3

\* What may come first in a payload: a datagram, something malformed, or the
\* request of a stream that has sent nothing.
MayCome(x, p) ==
    \/ p.kind = "dgram" /\ p.n = x.got + 1
    \/ p.kind = "bad"
    \/ p.kind \in {"connect", "packet"} /\ x.mode = "connect" /\ x.pieces = 0

LEMMA CountOne ==
    ASSUME NEW p, NEW kind
    PROVE  Count(<<p>>, kind) = (IF p.kind = kind THEN 1 ELSE 0) /\ Count(<<p>>, kind) \in Nat
  <1>1. Count(<<p>>, kind) = (IF p.kind = kind THEN 1 ELSE 0)
    BY Counts012, Zenon
  <1> QED  BY <1>1

(* The pieces of a payload.                                                *)
LEMMA PayloadPieces ==
    ASSUME NEW x, x.got \in Nat, NEW ps \in Payloads(x)
    PROVE  \/ ps = <<>>
           \/ \E p \in Piece : ps = <<p>> /\ MayCome(x, p)
           \/ \E p, q \in Piece : /\ ps = <<p, q>> /\ MayCome(x, p)
                                  /\ q.kind = "dgram" /\ q.n = x.got + 1 + Count(<<p>>, "dgram")
  <1>1. ASSUME NEW n \in Nat, NEW a, NEW p \in Datagrams(a, n)
        PROVE  p \in Piece /\ p.kind = "dgram" /\ p.n = n
    BY DEF Datagrams, Piece
  <1>2. ASSUME NEW p \in Requests PROVE p \in Piece /\ p.kind \in {"connect", "packet"}
    BY DEF Requests, Piece
  <1>3. ASSUME NEW p \in Bad(x) PROVE p \in Piece /\ p.kind = "bad"
    BY DEF Bad, Piece
  <1>4. ASSUME NEW p \in Firsts(x) PROVE p \in Piece /\ MayCome(x, p)
    <2>1. CASE NeedsRequest(x)
      <3>1. p \in Requests
        BY <2>1 DEF Firsts
      <3> QED  BY <3>1, <2>1, <1>2 DEF NeedsRequest, MayCome
    <2>2. CASE ~NeedsRequest(x)
      <3>1. p \in Datagrams(Addressed(x), x.got + 1) /\ x.got + 1 \in Nat
        BY <2>2 DEF Firsts
      <3> QED  BY <3>1, <1>1 DEF MayCome
    <2> QED  BY <2>1, <2>2
  <1>5. CASE ps \in (IF x.half THEN {<<>>} ELSE {})
    BY <1>5
  <1>6. CASE ps \in {<<p>> : p \in Firsts(x) \cup Bad(x)}
    <2>1. PICK p \in Firsts(x) \cup Bad(x) : ps = <<p>>
      BY <1>6
    <2>2. p \in Piece /\ MayCome(x, p)
      BY <1>3, <1>4 DEF MayCome
    <2> QED  BY <2>1, <2>2
  <1>7. ASSUME NEW p \in Firsts(x), NEW a, NEW q \in Datagrams(a, x.got + 1 + Count(<<p>>, "dgram")),
               ps = <<p, q>>
        PROVE  \E p1, q1 \in Piece : /\ ps = <<p1, q1>> /\ MayCome(x, p1)
                                     /\ q1.kind = "dgram" /\ q1.n = x.got + 1 + Count(<<p1>>, "dgram")
    <2>1. x.got + 1 + Count(<<p>>, "dgram") \in Nat
      <3>1. Count(<<p>>, "dgram") \in Nat
        BY CountOne
      <3> QED  BY <3>1
    <2>2. q \in Piece /\ q.kind = "dgram" /\ q.n = x.got + 1 + Count(<<p>>, "dgram")
      BY <2>1, <1>1
    <2> QED  BY <2>2, <1>4, <1>7
  <1>8. CASE ps \in UNION {{<<p, q>> : q \in Datagrams(IF NeedsRequest(x) THEN p.kind = "packet"
                                             ELSE Addressed(x),
                                             x.got + 1 + Count(<<p>>, "dgram"))} : p \in Firsts(x)}
    <2>1. \E p \in Firsts(x) : \E q \in Datagrams(IF NeedsRequest(x) THEN p.kind = "packet"
                                             ELSE Addressed(x),
                                             x.got + 1 + Count(<<p>>, "dgram")) : ps = <<p, q>>
      BY <1>8
    <2> QED  BY <2>1, <1>7
  <1> QED  BY <1>5, <1>6, <1>8 DEF Payloads

(* One piece joins a buffer.                                               *)
LEMMA PieceJoins ==
    ASSUME NEW b \in Seq(Piece), NEW p \in Piece, NEW parsed, RequestFirst(b, parsed),
           p.kind \in {"connect", "packet"} => b = <<>> /\ ~parsed
    PROVE  RequestFirst(Append(b, p), parsed) /\ Append(b, p) \in Seq(Piece)
           /\ Len(Append(b, p)) = Len(b) + 1
  <1> DEFINE r == Append(b, p)
             n == Len(b)
  <1>1. /\ n \in Nat /\ DOMAIN b = 1 .. n /\ DOMAIN r = 1 .. n + 1 /\ r[n + 1] = p
        /\ r \in Seq(Piece) /\ Len(r) = n + 1
        /\ \A k \in 1 .. n : r[k] = b[k]
    OBVIOUS
  <1>2. b = <<>> => n = 0
    OBVIOUS
  <1> HIDE DEF r, n
  <1>3. ASSUME NEW k \in 1 .. n + 1, r[k].kind \in {"connect", "packet"} PROVE k = 1 /\ ~parsed
    <2>1. CASE k \in 1 .. n
      BY <2>1, <1>1, <1>3 DEF RequestFirst
    <2>2. CASE k = n + 1
      BY <2>2, <1>1, <1>2, <1>3
    <2> QED  BY <2>1, <2>2, <1>1
  <1>4. RequestFirst(r, parsed)
    BY <1>1, <1>3 DEF RequestFirst
  <1> QED  BY <1>1, <1>4 DEF r, n

(* One piece more of the client, in an open stream.                        *)
LEMMA PieceBuffered ==
    ASSUME NEW x, StreamInv(x), x.counted, NEW p \in Piece, MayCome(x, p), NEW y \in Stream,
           y.buf = Append(x.buf, p), y.pieces = x.pieces + 1,
           y.got = x.got + (IF p.kind = "dgram" THEN 1 ELSE 0),
           y.parsed = x.parsed, y.mode = x.mode, y.state = x.state, y.counted = x.counted,
           y.udp => y.timer, y.queue = x.queue, y.lost = x.lost, y.sent = x.sent,
           y.empty = x.empty \cup Blank(p)
    PROVE  StreamInv(y) /\ y.counted
  <1>1. /\ x.buf \in Seq(Piece) /\ x.got \in Nat /\ x.pieces \in Nat /\ Len(x.queue) <= MaxPackets
        /\ Requested(x) /\ Accounted(x) /\ Queue(x.queue) /\ InOrder(x.sent, x.queue) /\ Kept(x)
    BY OpenFields
  <1>2. p.kind \in {"connect", "packet"} => x.buf = <<>> /\ ~x.parsed
    <2> SUFFICES ASSUME p.kind \in {"connect", "packet"} PROVE x.buf = <<>> /\ ~x.parsed
      OBVIOUS
    <2>1. x.mode = "connect" /\ x.pieces = 0
      BY DEF MayCome
    <2>2. ~x.parsed /\ Len(x.buf) = 0
      <3>1. Len(x.buf) \in Nat /\ Len(x.buf) <= x.pieces
        BY <1>1 DEF Requested
      <3> QED  BY <3>1, <2>1, <1>1 DEF Requested
    <2> QED  BY <2>2, <1>1
  <1>3. RequestFirst(y.buf, y.parsed) /\ Len(y.buf) = Len(x.buf) + 1 /\ Len(x.buf) \in Nat
    BY <1>1, <1>2, PieceJoins DEF Requested
  <1>4. Len(y.buf) <= y.pieces /\ y.pieces > 0
    <2>1. Len(x.buf) <= x.pieces
      BY <1>1 DEF Requested
    <2> QED  BY ONLY <2>1, <1>1, <1>3, y.pieces = x.pieces + 1
  <1>5. Requested(y)
    BY <1>1, <1>3, <1>4 DEF Requested
  <1>6. PICK c \in 0 .. x.got : Waiting(x.buf, x.got, c) /\ Gone(x.sent, x.lost, x.queue, c)
    BY <1>1 DEF Accounted
  <1>7. Waiting(y.buf, y.got, c) /\ c \in 0 .. y.got
    <2>1. CASE p.kind = "dgram"
      <3>1. p.n = x.got + 1
        BY <2>1 DEF MayCome
      <3>2. Waiting(Append(x.buf, p), x.got + 1, c)
        BY ONLY <2>1, <3>1, <1>1, <1>6, p \in Piece, WaitingAppend
      <3> QED  BY <3>2, <2>1, <1>1
    <2>2. CASE p.kind # "dgram"
      <3>1. Waiting(Append(x.buf, p), x.got, c)
        BY ONLY <2>2, <1>1, <1>6, p \in Piece, WaitingAppend
      <3> QED  BY <3>1, <2>2, <1>1
    <2> QED  BY <2>1, <2>2
  <1>8. Accounted(y)
    BY <1>6, <1>7 DEF Accounted
  <1>9. p.kind = "dgram" => p.n \notin x.empty /\ p.n \notin Numbers(x.buf)
    <2> SUFFICES ASSUME p.kind = "dgram" PROVE p.n \notin x.empty /\ p.n \notin Numbers(x.buf)
      OBVIOUS
    <2>1. p.n = x.got + 1
      BY DEF MayCome
    <2>2. Numbers(x.buf) = c + 1 .. x.got /\ x.lost \subseteq 1 .. c
      BY <1>6 DEF Waiting, Gone
    <2>3. p.n \notin Numbers(x.buf) /\ p.n \notin x.lost
      BY <2>1, <2>2, <1>1
    <2> QED  BY <2>3, <1>1 DEF Kept, Dropped
  <1>10. Dropped(y)
    BY <1>1, <1>9, PieceDropped DEF Kept
  <1>11. Kept(y)
    BY <1>1, <1>10 DEF Kept
  <1> QED  BY <1>1, <1>5, <1>8, <1>11, StillOpen

(* Two pieces at once are two pieces in turn.                              *)
LEMMA TwoAppended ==
    ASSUME NEW b \in Seq(Piece), NEW p \in Piece, NEW q \in Piece
    PROVE  b \o <<p, q>> = Append(Append(b, p), q) /\ Append(b, p) \in Seq(Piece)
  <1> DEFINE c == Append(b, p)
             d == Append(c, q)
             e == b \o <<p, q>>
             n == Len(b)
  <1>1. /\ c \in Seq(Piece) /\ n \in Nat /\ Len(c) = n + 1 /\ c[n + 1] = p
        /\ \A k \in 1 .. n : c[k] = b[k]
    OBVIOUS
  <1>2. /\ e \in Seq(Piece) /\ Len(e) = n + 2 /\ e[n + 1] = p /\ e[n + 2] = q
        /\ \A k \in 1 .. n : e[k] = b[k]
    OBVIOUS
  <1> HIDE DEF c, e
  <1>3. /\ d \in Seq(Piece) /\ Len(d) = (n + 1) + 1 /\ d[(n + 1) + 1] = q
        /\ \A k \in 1 .. n + 1 : d[k] = c[k]
    BY <1>1
  <1> HIDE DEF d, n
  <1>4. (n + 1) + 1 = n + 2 /\ \A k \in 1 .. n + 2 : k \in 1 .. n \/ k = n + 1 \/ k = n + 2
    BY <1>1
  <1>5. \A k \in 1 .. n + 2 : e[k] = d[k]
    BY <1>1, <1>2, <1>3, <1>4
  <1>6. e = d
    BY ONLY <1>2, <1>3, <1>4, <1>5
  <1> QED  BY <1>1, <1>6 DEF c, d, e

(* A payload of the client joins the buffer.                               *)
LEMMA PayloadBuffered ==
    ASSUME NEW x, StreamInv(x), x.counted, NEW ps \in Payloads(x), NEW half \in BOOLEAN,
           NEW y, y = Buffered(x, ps, half)
    PROVE  StreamInv(y) /\ y.counted
  <1>1. /\ x \in Stream /\ x.buf \in Seq(Piece) /\ x.got \in Nat /\ x.pieces \in Nat /\ x.bad \in Nat
        /\ (x.udp => x.timer) /\ x.empty \in SUBSET Nat
    BY OpenFields
  <1>2. ASSUME NEW z, StreamInv(z), z.counted, NEW p \in Piece, MayCome(z, p),
               NEW h \in BOOLEAN, NEW w,
               w = [z EXCEPT !.buf = Append(@, p), !.half = h, !.pieces = @ + 1,
                             !.got = @ + (IF p.kind = "dgram" THEN 1 ELSE 0),
                             !.bad = @ + (IF p.kind = "bad" THEN 1 ELSE 0),
                             !.empty = @ \cup Blank(p)]
        PROVE  StreamInv(w) /\ w.counted
    <2>1. /\ z \in Stream /\ z.buf \in Seq(Piece) /\ z.got \in Nat /\ z.pieces \in Nat
          /\ z.bad \in Nat /\ (z.udp => z.timer) /\ z.empty \in SUBSET Nat
      BY <1>2, OpenFields
    <2>2. Append(z.buf, p) \in Seq(Piece) /\ z.pieces + 1 \in Nat
          /\ z.got + (IF p.kind = "dgram" THEN 1 ELSE 0) \in Nat
          /\ z.bad + (IF p.kind = "bad" THEN 1 ELSE 0) \in Nat
      BY <2>1
    <2>6. z.empty \cup Blank(p) \in SUBSET Nat
      BY <2>1, p \in Piece DEF Piece, Blank
    <2>3. w \in Stream
      <3> DEFINE b == Append(z.buf, p)
                 m == z.pieces + 1
                 g == z.got + (IF p.kind = "dgram" THEN 1 ELSE 0)
                 e == z.bad + (IF p.kind = "bad" THEN 1 ELSE 0)
                 m0 == z.empty \cup Blank(p)
      <3>1. w = [z EXCEPT !.buf = b, !.half = h, !.pieces = m, !.got = g, !.bad = e,
                        !.empty = m0]
        BY <1>2
      <3>2. b \in Seq(Piece) /\ h \in BOOLEAN /\ m \in Nat /\ g \in Nat /\ e \in Nat
            /\ m0 \in SUBSET Nat
        BY <2>2, <2>6
      <3> HIDE DEF b, m, g, e, m0
      <3> QED  BY ONLY <2>1, <3>1, <3>2 DEF Stream
    <2>4. /\ w.buf = Append(z.buf, p) /\ w.pieces = z.pieces + 1
          /\ w.got = z.got + (IF p.kind = "dgram" THEN 1 ELSE 0)
          /\ w.parsed = z.parsed /\ w.mode = z.mode /\ w.state = z.state /\ w.counted = z.counted
          /\ w.udp = z.udp /\ w.timer = z.timer
          /\ w.queue = z.queue /\ w.lost = z.lost /\ w.sent = z.sent
          /\ w.empty = z.empty \cup Blank(p)
      BY ONLY <2>1, <1>2 DEF Stream
    <2>5. w.udp => w.timer
      BY <2>1, <2>4
    <2> QED  BY ONLY <1>2, <2>3, <2>4, <2>5, PieceBuffered
  <1> HIDE DEF Buffered
  <1>3. CASE ps = <<>>
    <2>1. y = [x EXCEPT !.buf = x.buf, !.half = half, !.pieces = x.pieces, !.got = x.got, !.bad = x.bad,
                     !.empty = x.empty]
      <3>1. x.buf \o ps = x.buf /\ x.pieces + Len(ps) = x.pieces
        BY <1>1, <1>3
      <3>2. Count(ps, "dgram") = 0 /\ Count(ps, "bad") = 0
        BY <1>3, Counts012, Zenon
      <3>3. x.got + Count(ps, "dgram") = x.got /\ x.bad + Count(ps, "bad") = x.bad
        BY <3>2, <1>1
      <3>4. y = [x EXCEPT !.buf = x.buf \o ps, !.half = half, !.pieces = x.pieces + Len(ps),
                          !.got = x.got + Count(ps, "dgram"), !.bad = x.bad + Count(ps, "bad"),
                          !.empty = x.empty \cup Empties(ps)]
        BY DEF Buffered
      <3>5. Empties(ps) = {}
        BY <1>3, Empties012, Zenon
      <3>6. x.empty \cup Empties(ps) = x.empty
        BY <3>5
      <3> QED  BY ONLY <3>1, <3>3, <3>4, <3>6
    <2>2. /\ y \in Stream /\ y.buf = x.buf /\ y.pieces = x.pieces /\ y.got = x.got
          /\ y.parsed = x.parsed /\ y.mode = x.mode /\ y.state = x.state /\ y.counted = x.counted
          /\ y.udp = x.udp /\ y.timer = x.timer
          /\ y.queue = x.queue /\ y.lost = x.lost /\ y.sent = x.sent /\ y.empty = x.empty
      BY ONLY <1>1, <2>1, half \in BOOLEAN DEF Stream
    <2>3. y.udp => y.timer
      BY <1>1, <2>2
    <2> QED  BY ONLY <2>2, <2>3, StreamInv(x), x.counted, DataKept
  <1>4. ASSUME NEW p \in Piece, ps = <<p>>, MayCome(x, p)
        PROVE  StreamInv(y) /\ y.counted
    <2>1. /\ x.buf \o <<p>> = Append(x.buf, p) /\ Len(<<p>>) = 1
          /\ Count(<<p>>, "dgram") = (IF p.kind = "dgram" THEN 1 ELSE 0)
          /\ Count(<<p>>, "bad") = (IF p.kind = "bad" THEN 1 ELSE 0)
      BY <1>1, CountOne
    <2>3. Empties(<<p>>) = Blank(p)
      BY Empties012, Zenon
    <2>2. y = [x EXCEPT !.buf = Append(@, p), !.half = half, !.pieces = @ + 1,
                             !.got = @ + (IF p.kind = "dgram" THEN 1 ELSE 0),
                             !.bad = @ + (IF p.kind = "bad" THEN 1 ELSE 0),
                             !.empty = @ \cup Blank(p)]
      BY <2>1, <2>3, <1>4 DEF Buffered
    <2> QED  BY <2>2, <1>2, <1>4
  <1>5. ASSUME NEW p \in Piece, NEW q \in Piece, ps = <<p, q>>, MayCome(x, p),
               q.kind = "dgram", q.n = x.got + 1 + Count(<<p>>, "dgram")
        PROVE  StreamInv(y) /\ y.counted
    <2> DEFINE gp == IF p.kind = "dgram" THEN 1 ELSE 0
               bp == IF p.kind = "bad" THEN 1 ELSE 0
               z == [x EXCEPT !.buf = Append(@, p), !.half = half, !.pieces = @ + 1,
                              !.got = @ + gp, !.bad = @ + bp, !.empty = @ \cup Blank(p)]
               w == [z EXCEPT !.buf = Append(@, q), !.half = half, !.pieces = @ + 1,
                              !.got = @ + 1, !.bad = @ + 0, !.empty = @ \cup Blank(q)]
    <2>1. /\ x.buf \o <<p, q>> = Append(Append(x.buf, p), q) /\ Len(<<p, q>>) = 2
          /\ Append(x.buf, p) \in Seq(Piece)
      BY <1>1, TwoAppended
    <2>2. /\ Count(<<p, q>>, "dgram") = gp + 1 /\ Count(<<p, q>>, "bad") = bp + 0
          /\ Count(<<p>>, "dgram") = gp
      BY <1>5, Counts012, CountOne
    <2>3. StreamInv(z) /\ z.counted
      BY <1>2, <1>5
    <2>4. gp \in Nat /\ bp \in Nat
      OBVIOUS
    <2> HIDE DEF gp, bp
    <2>5. z.got = x.got + gp /\ z.buf = Append(x.buf, p) /\ z.pieces = x.pieces + 1
          /\ z.bad = x.bad + bp /\ z.empty = x.empty \cup Blank(p)
      BY <1>1 DEF Stream
    <2>6. MayCome(z, q)
      BY <1>1, <1>5, <2>2, <2>4, <2>5 DEF MayCome
    <2>7. w = [z EXCEPT !.buf = Append(@, q), !.half = half, !.pieces = @ + 1,
                        !.got = @ + (IF q.kind = "dgram" THEN 1 ELSE 0),
                        !.bad = @ + (IF q.kind = "bad" THEN 1 ELSE 0),
                        !.empty = @ \cup Blank(q)]
      BY <1>5
    <2>8. StreamInv(w) /\ w.counted
      <3> HIDE DEF z, w
      <3> QED  BY ONLY <1>2, <1>5, <2>3, <2>6, <2>7, half \in BOOLEAN
    <2>9. y = w
      <3>1. /\ x.pieces + 2 = (x.pieces + 1) + 1 /\ x.got + (gp + 1) = (x.got + gp) + 1
            /\ x.bad + (bp + 0) = (x.bad + bp) + 0
        BY <1>1, <2>4
      <3>2. y = [x EXCEPT !.buf = Append(Append(x.buf, p), q), !.half = half,
                          !.pieces = (x.pieces + 1) + 1,
                          !.got = (x.got + gp) + 1, !.bad = (x.bad + bp) + 0,
                          !.empty = (x.empty \cup Blank(p)) \cup Blank(q)]
        <4>1. Empties(<<p, q>>) = Blank(p) \cup Blank(q)
          BY Empties012, Zenon
        <4>2. x.empty \cup Empties(<<p, q>>) = (x.empty \cup Blank(p)) \cup Blank(q)
          BY <4>1
        <4> QED  BY <1>5, <2>1, <2>2, <3>1, <4>2 DEF Buffered
      <3>3. ASSUME NEW b, NEW c, NEW m, NEW n, NEW g, NEW h, NEW d, NEW e, NEW k, NEW l,
                   NEW v, v = [x EXCEPT !.buf = b, !.half = half, !.pieces = m, !.got = g,
                                        !.bad = d, !.empty = k]
            PROVE  [v EXCEPT !.buf = c, !.half = half, !.pieces = n, !.got = h, !.bad = e,
                             !.empty = l]
                   = [x EXCEPT !.buf = c, !.half = half, !.pieces = n, !.got = h, !.bad = e,
                               !.empty = l]
        BY ONLY <3>3, <1>1 DEF Stream
      <3>4. w = [z EXCEPT !.buf = Append(Append(x.buf, p), q), !.half = half,
                          !.pieces = (x.pieces + 1) + 1,
                          !.got = (x.got + gp) + 1, !.bad = (x.bad + bp) + 0,
                          !.empty = (x.empty \cup Blank(p)) \cup Blank(q)]
        <4> HIDE DEF z
        <4> QED  BY <2>5
      <3>5. z = [x EXCEPT !.buf = Append(x.buf, p), !.half = half, !.pieces = x.pieces + 1,
                          !.got = x.got + gp, !.bad = x.bad + bp,
                          !.empty = x.empty \cup Blank(p)]
        OBVIOUS
      <3> HIDE DEF z, w
      <3> QED  BY ONLY <3>2, <3>3, <3>4, <3>5, Zenon
    <2> QED  BY ONLY <2>8, <2>9
  <1> QED  BY <1>1, <1>3, <1>4, <1>5, PayloadPieces
-----------------------------------------------------------------------------
(* SendDirect and SendDomain on the stream of a datagram.                  *)
LEMMA DatagramSteps ==
    ASSUME NEW x, StreamInv(x), x.counted, Whole(x) > 0,
           NEW h, h = Head(x.buf), h.kind = "dgram", NEW y,
           \/ y = Lost(Pop(x), h) /\ (h.len = 0 \/ x.mode = "packet")
           \/ y = Sent(Pop(x), h) /\ h.len # 0 /\ x.parsed /\ (x.mode = "connect" \/ h.to \in Ips)
           \/ y = Enqueue(Pop(x), h) /\ x.mode = "packet" /\ h.to \in Domains
    PROVE  StreamInv(y) /\ y.counted
  <1>1. /\ x \in Stream /\ x.buf \in Seq(Piece) /\ x.queue \in Seq(Piece) /\ x.sent \in Seq(Send)
        /\ x.lost \in SUBSET Nat /\ x.half \in BOOLEAN /\ x.target \in Peers \cup {None}
        /\ (x.udp => x.timer)
    BY OpenFields
  <1>2. h \in Piece /\ Tail(x.buf) \in Seq(Piece)
    BY <1>1, WholeHead
  <1>3. h.n \in Nat /\ h.to \in Peers \cup {None}
    BY <1>2 DEF Piece
  <1> DEFINE t == Tail(x.buf)
             l == x.lost \cup {h.n}
             e == [to |-> IF x.mode = "connect" THEN x.target ELSE h.to, n |-> h.n]
             S == Append(x.sent, e)
             q == Append(x.queue, h)
  <1>4. /\ t \in Seq(Piece) /\ l \in SUBSET Nat /\ e \in Send /\ S \in Seq(Send) /\ q \in Seq(Piece)
    <2>1. e \in Send
      BY <1>1, <1>3 DEF Send
    <2> HIDE DEF e
    <2> QED  BY <1>1, <1>2, <1>3, <2>1
  <1>5. e.n = h.n /\ (x.mode = "connect" \/ h.to \in Ips => x.mode = "connect" \/ e.to \in Ips)
    OBVIOUS
  <1>6. CASE y = Lost(Pop(x), h) /\ (h.len = 0 \/ x.mode = "packet")
    <2>1. y = [x EXCEPT !.buf = t, !.lost = l]
      BY <1>1, <1>6 DEF Lost, Pop, Stream
    <2> HIDE DEF t, l
    <2>2. /\ y \in Stream /\ y.buf = t /\ y.parsed = x.parsed /\ y.mode = x.mode
          /\ y.state = x.state /\ y.counted = x.counted /\ y.udp = x.udp /\ y.timer = x.timer
          /\ y.got = x.got /\ y.pieces = x.pieces /\ y.queue = x.queue /\ y.sent = x.sent /\ y.lost = l
          /\ y.empty = x.empty
      BY ONLY <2>1, <1>1, <1>4 DEF Stream
    <2>3. y.udp => y.timer
      BY <1>1, <2>2
    <2> QED  BY <2>2, <2>3, <1>6, DatagramHandled DEF t, l
  <1>7. CASE y = Sent(Pop(x), h) /\ h.len # 0 /\ x.parsed /\ (x.mode = "connect" \/ h.to \in Ips)
    <2>1. y = [x EXCEPT !.buf = t, !.udp = TRUE, !.timer = TRUE, !.sent = S]
      BY <1>1, <1>7 DEF Sent, Pop, Stream
    <2> HIDE DEF t, S
    <2>2. /\ y \in Stream /\ y.buf = t /\ y.parsed = x.parsed /\ y.mode = x.mode
          /\ y.state = x.state /\ y.counted = x.counted /\ y.udp = TRUE /\ y.timer = TRUE
          /\ y.got = x.got /\ y.pieces = x.pieces /\ y.queue = x.queue /\ y.sent = S /\ y.lost = x.lost
          /\ y.empty = x.empty
      BY ONLY <2>1, <1>1, <1>4 DEF Stream, Send
    <2>3. y.udp => y.timer
      BY <2>2
    <2>4. y.sent = Append(x.sent, e)
      BY <2>2 DEF S
    <2>5. y.buf = Tail(x.buf)
      BY <2>2 DEF t
    <2> HIDE DEF e
    <2> QED  BY <2>2, <2>3, <2>4, <2>5, <1>4, <1>5, <1>7, DatagramHandled
  <1>8. CASE y = Enqueue(Pop(x), h) /\ x.mode = "packet" /\ h.to \in Domains
    <2>1. CASE h.len = 0 \/ Len(Pop(x).queue) >= MaxPackets
      <3>1. y = Lost(Pop(x), h)
        BY <1>8, <2>1 DEF Enqueue
      <3> QED  BY <3>1, <1>6, <1>8
    <2>2. CASE ~(h.len = 0 \/ Len(Pop(x).queue) >= MaxPackets)
      <3>1. y = [x EXCEPT !.buf = t, !.queue = q]
        BY <1>1, <1>8, <2>2 DEF Enqueue, Pop, Stream
      <3>2. Len(x.queue) < MaxPackets
        <4>1. Pop(x).queue = x.queue /\ Len(x.queue) \in Nat
          BY <1>1 DEF Pop, Stream
        <4> QED  BY <4>1, <2>2, UotAssumption
      <3> HIDE DEF t, q
      <3>3. /\ y \in Stream /\ y.buf = t /\ y.parsed = x.parsed /\ y.mode = x.mode
            /\ y.state = x.state /\ y.counted = x.counted /\ y.udp = x.udp /\ y.timer = x.timer
            /\ y.got = x.got /\ y.pieces = x.pieces /\ y.queue = q /\ y.sent = x.sent /\ y.lost = x.lost
            /\ y.empty = x.empty
        BY ONLY <3>1, <1>1, <1>4 DEF Stream
      <3>4. y.udp => y.timer
        BY <1>1, <3>3
      <3> QED  BY <2>2, <3>2, <3>3, <3>4, <1>8, DatagramHandled DEF t, q
    <2> QED  BY <2>1, <2>2
  <1> QED  BY <1>6, <1>7, <1>8

(* What the parser makes of a request.                                     *)
LEMMA RequestSteps ==
    ASSUME NEW x, StreamInv(x), x.counted, Whole(x) > 0, NEW h, h = Head(x.buf), NEW y, NEW a,
           a = [Pop(x) EXCEPT !.parsed = TRUE, !.target = h.to],
           \/ h.kind = "packet" /\ y = [Pop(x) EXCEPT !.mode = "packet", !.parsed = TRUE]
           \/ h.kind = "connect" /\ y = [a EXCEPT !.has = TRUE]
           \/ h.kind = "connect" /\ h.to \in Domains /\ y = Ask(a, h.to, "connect")
           \/ h.kind = "connect" /\ y = Sent([a EXCEPT !.has = TRUE], [to |-> None, n |-> 0])
    PROVE  StreamInv(y) /\ y.counted
  <1>1. /\ x \in Stream /\ x.buf \in Seq(Piece) /\ x.sent \in Seq(Send)
        /\ x.half \in BOOLEAN /\ (x.udp => x.timer) /\ Requested(x)
    BY OpenFields
  <1>2. h \in Piece /\ h = x.buf[1] /\ Tail(x.buf) \in Seq(Piece) /\ 1 \in DOMAIN x.buf
    BY <1>1, WholeHead
  <1>3. h.to \in Peers \cup {None}
    BY <1>2 DEF Piece
  <1>4. h.kind \in {"connect", "packet"} => x.mode = "connect" /\ x.sent = <<>>
    BY <1>1, <1>2 DEF Requested, RequestFirst
  <1> DEFINE t == Tail(x.buf)
             e == [to |-> h.to, n |-> 0]
             S == Append(<<>>, e)
  <1>5. t \in Seq(Piece) /\ e \in Send /\ S \in Seq(Send)
    <2>1. e \in Send
      BY <1>3 DEF Send
    <2> HIDE DEF e
    <2> QED  BY <1>2, <2>1
  <1> HIDE DEF t
  <1>6. CASE h.kind = "packet" /\ y = [Pop(x) EXCEPT !.mode = "packet", !.parsed = TRUE]
    <2>1. y = [x EXCEPT !.buf = t, !.mode = "packet", !.parsed = TRUE]
      BY <1>1, <1>6 DEF Pop, Stream, t
    <2>2. /\ y \in Stream /\ y.buf = t /\ y.parsed = TRUE /\ y.mode = "packet"
          /\ y.state = x.state /\ y.counted = x.counted /\ y.udp = x.udp /\ y.timer = x.timer
          /\ y.got = x.got /\ y.pieces = x.pieces /\ y.queue = x.queue /\ y.sent = x.sent
          /\ y.lost = x.lost /\ y.empty = x.empty
      BY ONLY <2>1, <1>1, <1>5 DEF Stream
    <2>3. y.udp => y.timer
      BY <1>1, <2>2
    <2> QED  BY <2>2, <2>3, <1>6, RequestParsed DEF t
  <1>7. CASE h.kind = "connect" /\ y = [a EXCEPT !.has = TRUE]
    <2>1. y = [x EXCEPT !.buf = t, !.parsed = TRUE, !.target = h.to, !.has = TRUE]
      BY <1>1, <1>7 DEF Pop, Stream, t
    <2>2. /\ y \in Stream /\ y.buf = t /\ y.parsed = TRUE /\ y.mode = x.mode
          /\ y.state = x.state /\ y.counted = x.counted /\ y.udp = x.udp /\ y.timer = x.timer
          /\ y.got = x.got /\ y.pieces = x.pieces /\ y.queue = x.queue /\ y.sent = x.sent
          /\ y.lost = x.lost /\ y.empty = x.empty
      BY ONLY <2>1, <1>1, <1>3, <1>5 DEF Stream
    <2>3. y.udp => y.timer
      BY <1>1, <2>2
    <2>4. /\ y.mode = (IF Head(x.buf).kind = "packet" THEN "packet" ELSE x.mode)
          /\ Head(x.buf).kind \in {"connect", "packet"} /\ y.parsed /\ y.buf = Tail(x.buf)
      BY <2>2, <1>7 DEF t
    <2> QED  BY ONLY <2>2, <2>3, <2>4, StreamInv(x), x.counted, Whole(x) > 0, RequestParsed
  <1>8. CASE h.kind = "connect" /\ h.to \in Domains /\ y = Ask(a, h.to, "connect")
    <2>1. y = [x EXCEPT !.buf = t, !.parsed = TRUE, !.target = h.to,
                        !.asked = h.to, !.why = "connect"]
      BY <1>1, <1>8 DEF Pop, Stream, Ask, t
    <2>2. /\ y \in Stream /\ y.buf = t /\ y.parsed = TRUE /\ y.mode = x.mode
          /\ y.state = x.state /\ y.counted = x.counted /\ y.udp = x.udp /\ y.timer = x.timer
          /\ y.got = x.got /\ y.pieces = x.pieces /\ y.queue = x.queue /\ y.sent = x.sent
          /\ y.lost = x.lost /\ y.empty = x.empty
      BY ONLY <2>1, <1>1, <1>3, <1>5, <1>8 DEF Stream
    <2>3. y.udp => y.timer
      BY <1>1, <2>2
    <2> QED  BY <2>2, <2>3, <1>8, RequestParsed DEF t
  <1>9. CASE h.kind = "connect" /\ y = Sent([a EXCEPT !.has = TRUE], [to |-> None, n |-> 0])
    <2>1. y = [x EXCEPT !.buf = t, !.parsed = TRUE, !.target = h.to, !.has = TRUE,
                        !.udp = TRUE, !.timer = TRUE, !.sent = S]
      <3> DEFINE b == [a EXCEPT !.has = TRUE]
      <3>1. b = [x EXCEPT !.buf = t, !.parsed = TRUE, !.target = h.to, !.has = TRUE]
        BY <1>1 DEF Pop, Stream, t
      <3>2. b.mode = "connect" /\ b.sent = <<>> /\ b.target = h.to
        BY <3>1, <1>1, <1>4, <1>9 DEF Stream
      <3>3. y = [b EXCEPT !.udp = TRUE, !.timer = TRUE, !.sent = S]
        BY <3>2, <1>9 DEF Sent
      <3> HIDE DEF b, S
      <3> QED  BY ONLY <3>1, <3>3, <1>1 DEF Stream
    <2> HIDE DEF S
    <2>2. /\ y \in Stream /\ y.buf = t /\ y.parsed = TRUE /\ y.mode = x.mode
          /\ y.state = x.state /\ y.counted = x.counted /\ y.udp = TRUE /\ y.timer = TRUE
          /\ y.got = x.got /\ y.pieces = x.pieces /\ y.queue = x.queue /\ y.sent = S
          /\ y.lost = x.lost /\ y.empty = x.empty
      BY ONLY <2>1, <1>1, <1>3, <1>5 DEF Stream, Send
    <2>3. y.udp => y.timer
      BY <2>2
    <2>4. y.sent = Append(<<>>, [to |-> x.buf[1].to, n |-> 0])
      BY <2>2, <1>2 DEF S
    <2> QED  BY <2>2, <2>3, <2>4, <1>4, <1>9, RequestParsed DEF t
  <1> QED  BY <1>6, <1>7, <1>8, <1>9

(* A query is made or ends.                                                *)
LEMMA QuerySteps ==
    ASSUME NEW x, StreamInv(x), x.counted, NEW y,
           \/ \E d \in Domains : y = Ask(x, d, "packet")
           \/ y = Answered(x)
           \/ y = [Answered(x) EXCEPT !.has = TRUE]
           \/ y = NoSocket(x)
    PROVE  StreamInv(y) /\ y.counted
  <1>1. x \in Stream /\ (x.udp => x.timer)
    BY OpenFields
  <1>2. /\ y \in Stream /\ y.buf = x.buf /\ y.parsed = x.parsed /\ y.mode = x.mode
        /\ y.state = x.state /\ y.counted = x.counted /\ y.timer = x.timer
        /\ y.got = x.got /\ y.pieces = x.pieces /\ y.queue = x.queue /\ y.sent = x.sent
        /\ y.lost = x.lost /\ y.empty = x.empty
        /\ (y.udp = x.udp \/ y.udp = FALSE)
    <2>1. CASE \E d \in Domains : y = Ask(x, d, "packet")
      BY <2>1, <1>1 DEF Stream, Ask
    <2>2. CASE y = Answered(x)
      BY <2>2, <1>1 DEF Stream, Answered
    <2>3. CASE y = [Answered(x) EXCEPT !.has = TRUE]
      BY <2>3, <1>1 DEF Stream, Answered
    <2>4. CASE y = NoSocket(x)
      BY <2>4, <1>1 DEF Stream, NoSocket
    <2> QED  BY <2>1, <2>2, <2>3, <2>4
  <1>4. y.udp => y.timer
    BY <1>1, <1>2
  <1> QED  BY <1>2, <1>4, DataKept

(* The name is known, or there is no such name.                            *)
LEMMA PendingSteps ==
    ASSUME NEW x, StreamInv(x), x.counted, NEW d \in Domains, NEW y,
           y = DropDomain(x, d) \/ y \in Flushed(x, d)
    PROVE  StreamInv(y) /\ y.counted
  <1>1. ASSUME NEW z, StreamInv(z), z.counted, NEW w, w = DropDomain(z, d)
        PROVE  StreamInv(w) /\ w.counted
    <2> DEFINE p == OfDomain(z, d)
               r == Others(z, d)
               l == z.lost \cup Numbers(p)
    <2>1. /\ z \in Stream /\ z.queue \in Seq(Piece) /\ z.lost \in SUBSET Nat
          /\ (z.udp => z.timer) /\ Queue(z.queue)
      BY <1>1, OpenFields
    <2>2. p \in Seq(Piece) /\ r \in Seq(Piece)
      BY <2>1, SplitQueue
    <2>3. l \in SUBSET Nat
      <3>1. Numbers(p) \in SUBSET Nat
        <4>1. \A k \in DOMAIN p : p[k] \in Piece
          BY <2>2
        <4>2. \A k \in DOMAIN p : p[k].n \in Nat
          BY <4>1 DEF Piece
        <4> QED  BY <4>2 DEF Numbers
      <3> QED  BY <3>1, <2>1
    <2>4. w = [z EXCEPT !.queue = r, !.lost = l]
      BY <1>1 DEF DropDomain
    <2> HIDE DEF l, r, p
    <2>5. /\ w \in Stream /\ w.buf = z.buf /\ w.parsed = z.parsed /\ w.mode = z.mode
          /\ w.state = z.state /\ w.counted = z.counted /\ w.udp = z.udp /\ w.timer = z.timer
          /\ w.got = z.got /\ w.pieces = z.pieces /\ w.queue = r /\ w.sent = z.sent
          /\ w.lost = l /\ w.empty = z.empty
      BY ONLY <2>1, <2>2, <2>3, <2>4 DEF Stream
    <2>6. w.udp => w.timer
      BY <2>1, <2>5
    <2> QED  BY <2>5, <2>6, <1>1, QueueHandled DEF l, r, p
  <1>2. ASSUME NEW w, w = FlushDomain(x, d)
        PROVE  StreamInv(w) /\ w.counted
    <2> DEFINE p == OfDomain(x, d)
               r == Others(x, d)
               S == x.sent \o Flush(p, d)
               e == p # <<>>
    <2>1. /\ x \in Stream /\ x.queue \in Seq(Piece) /\ x.sent \in Seq(Send)
          /\ (x.udp => x.timer) /\ Queue(x.queue)
          /\ x.udp \in BOOLEAN /\ x.timer \in BOOLEAN
      <3>1. /\ x \in Stream /\ x.queue \in Seq(Piece) /\ x.sent \in Seq(Send)
            /\ (x.udp => x.timer) /\ Queue(x.queue)
        BY OpenFields
      <3>2. x.udp \in BOOLEAN /\ x.timer \in BOOLEAN
        BY <3>1 DEF Stream
      <3> QED  BY <3>1, <3>2
    <2>2. p \in Seq(Piece) /\ r \in Seq(Piece)
      BY <2>1, SplitQueue
    <2>3. S \in Seq(Send)
      <3> HIDE DEF p
      <3>6. Flush(p, d) \in Seq(Send)
        BY <2>2, FlushPlaces
      <3> QED  BY <3>6, <2>1
    <2>4. w = [x EXCEPT !.queue = r, !.udp = @ \/ e, !.timer = @ \/ e, !.sent = S]
      BY <1>2 DEF FlushDomain, Flush
    <2>7. e \in BOOLEAN
      OBVIOUS
    <2> HIDE DEF S, r, p, e
    <2> DEFINE ud == x.udp \/ e
               ti == x.timer \/ e
    <2>8. ud \in BOOLEAN /\ ti \in BOOLEAN /\ (ud => ti)
      BY <2>1, <2>7
    <2>9. w = [x EXCEPT !.queue = r, !.udp = ud, !.timer = ti, !.sent = S]
      BY <2>4
    <2> HIDE DEF ud, ti
    <2>5. /\ w \in Stream /\ w.buf = x.buf /\ w.parsed = x.parsed /\ w.mode = x.mode
          /\ w.state = x.state /\ w.counted = x.counted /\ w.udp = ud /\ w.timer = ti
          /\ w.got = x.got /\ w.pieces = x.pieces /\ w.queue = r /\ w.sent = S
          /\ w.lost = x.lost /\ w.empty = x.empty
      BY ONLY <2>1, <2>2, <2>3, <2>8, <2>9 DEF Stream, Send
    <2>6. w.udp => w.timer
      BY <2>8, <2>5
    <2> QED  BY <2>5, <2>6, QueueHandled DEF S, r, p
  <1>3. StreamInv(NoSocket(x)) /\ NoSocket(x).counted
    BY QuerySteps
  <1> QED  BY <1>1, <1>2, <1>3 DEF Flushed
-----------------------------------------------------------------------------
(* A stream without data is accounted for.                                 *)
LEMMA NoData ==
    /\ Waiting(<<>>, 0, 0) /\ Gone(<<>>, {}, <<>>, 0) /\ Queue(<<>>) /\ InOrder(<<>>, <<>>)
    /\ Len(<<>>) = 0 /\ \A p : RequestFirst(<<>>, p)
    /\ \A x : x.buf = <<>> /\ x.sent = <<>> /\ x.lost = {} /\ x.empty = {} => Kept(x)
  <1>1. Numbers(<<>>) = {} /\ Out(<<>>) = {} /\ 1 .. 0 = {} /\ 0 + 1 = 1
    BY DEF Numbers, Out
  <1>2. Waiting(<<>>, 0, 0)
    BY <1>1 DEF Waiting
  <1>3. Gone(<<>>, {}, <<>>, 0)
    BY <1>1 DEF Gone, Apart
  <1>4. ASSUME NEW x, x.buf = <<>>, x.sent = <<>>, x.lost = {}, x.empty = {} PROVE Kept(x)
    BY <1>4 DEF Kept, Dropped, ZeroFirst
  <1> QED  BY <1>2, <1>3, <1>4 DEF Queue, InOrder, RequestFirst

(* Whatever ends a stream leaves nothing of it.                            *)
LEMMA StreamOver ==
    ASSUME NEW x \in Stream, NEW state \in {"left", "closed"}, NEW y, y = Over(x, state)
    PROVE  StreamInv(y) /\ ~y.counted
  <1>1. y = [x EXCEPT !.counted = FALSE, !.asked = None, !.why = "none", !.queue = <<>>,
                      !.timer = FALSE, !.udp = FALSE, !.state = state, !.mode = "packet",
                      !.parsed = FALSE, !.target = None, !.has = FALSE, !.buf = <<>>,
                      !.half = FALSE, !.pieces = 0, !.got = 0, !.bad = 0, !.sent = <<>>, !.lost = {},
                      !.empty = {}]
    BY DEF Over, UotClose, Stream
  <1>3. y \in Stream
    <2>1. ASSUME NEW b, b \in Seq(Piece), NEW a, a \in Domains \cup {None},
                 NEW z, z = [x EXCEPT !.counted = FALSE, !.asked = a, !.why = "none", !.queue = b,
                                      !.timer = FALSE, !.udp = FALSE]
          PROVE  z \in Stream
      BY <2>1 DEF Stream
    <2>2. ASSUME NEW z, z \in Stream, NEW t, t \in Peers \cup {None},
                 NEW v, v = [z EXCEPT !.state = state, !.mode = "packet",
                        !.parsed = FALSE, !.target = t, !.has = FALSE]
          PROVE  v \in Stream
      <3>1. state \in {"free", "connected", "left", "closed"}
        OBVIOUS
      <3> QED  BY ONLY <3>1, <2>2 DEF Stream
    <2>3. ASSUME NEW v, v \in Stream, NEW b, b \in Seq(Piece),
                 NEW w, w = [v EXCEPT !.buf = b, !.half = FALSE, !.pieces = 0, !.got = 0, !.bad = 0]
          PROVE  w \in Stream
      BY ONLY <2>3 DEF Stream
    <2>4. ASSUME NEW v, v \in Stream, NEW S, S \in Seq(Send), NEW l, l \in SUBSET Nat,
                 NEW w, w = [v EXCEPT !.sent = S, !.lost = l, !.empty = l]
          PROVE  w \in Stream
      BY ONLY <2>4 DEF Stream, Send
    <2> DEFINE e == <<>>
               z == [x EXCEPT !.counted = FALSE, !.asked = None, !.why = "none", !.queue = e,
                                      !.timer = FALSE, !.udp = FALSE]
               v == [z EXCEPT !.state = state, !.mode = "packet",
                        !.parsed = FALSE, !.target = None, !.has = FALSE]
               w == [v EXCEPT !.buf = e, !.half = FALSE, !.pieces = 0, !.got = 0, !.bad = 0]
    <2>5. e \in Seq(Piece) /\ e \in Seq(Send) /\ {} \in SUBSET Nat
      OBVIOUS
    <2>6. None \in Peers \cup {None} /\ None \in Domains \cup {None}
      OBVIOUS
    <2>7. y = [w EXCEPT !.sent = e, !.lost = {}, !.empty = {}]
      BY <1>1 DEF Stream
    <2> HIDE DEF e
    <2>8. z \in Stream
      BY ONLY <2>1, <2>5, <2>6, Zenon
    <2> HIDE DEF z
    <2>9. v \in Stream
      BY ONLY <2>2, <2>8, <2>6, Zenon
    <2> HIDE DEF v
    <2>10. w \in Stream
      BY ONLY <2>3, <2>9, <2>5, Zenon
    <2> HIDE DEF w
    <2> QED  BY ONLY <2>4, <2>10, <2>7, <2>5, Zenon
  <1>4. /\ y.counted = FALSE /\ y.asked = None /\ y.queue = <<>> /\ y.timer = FALSE /\ y.udp = FALSE
        /\ y.state = state /\ y.mode = "packet" /\ y.parsed = FALSE /\ y.buf = <<>> /\ y.pieces = 0
        /\ y.got = 0 /\ y.sent = <<>> /\ y.lost = {} /\ y.empty = {}
    BY <1>1 DEF Stream
  <1>5. Requested(y)
    BY <1>4, NoData DEF Requested
  <1>6. Holds(y)
    BY <1>4, UotAssumption DEF Holds
  <1>7. Accounted(y)
    <2>1. 0 \in 0 .. y.got
      BY <1>4
    <2> QED  BY <2>1, <1>4, NoData DEF Accounted
  <1>8. Queue(y.queue) /\ InOrder(y.sent, y.queue)
    BY <1>4, NoData
  <1>9. Kept(y)
    BY <1>4, NoData
  <1> QED  BY <1>3, <1>4, <1>5, <1>6, <1>7, <1>8, <1>9 DEF StreamInv

(* A stream that opens, or is refused.                                     *)
LEMMA StreamOpens ==
    ASSUME NEW x, StreamInv(x), x.state = "free", NEW y,
           \/ y = [x EXCEPT !.state = "closed"]
           \/ y = [x EXCEPT !.state = "connected", !.mode = "packet", !.parsed = TRUE,
                            !.counted = TRUE]
           \/ y = [x EXCEPT !.state = "connected", !.mode = "connect", !.parsed = FALSE,
                            !.counted = TRUE]
    PROVE  StreamInv(y) /\ (y.counted <=> y.state = "connected") /\ ~x.counted
  <1>1. /\ x \in Stream /\ ~x.counted /\ ~x.udp /\ ~x.timer /\ x.asked = None /\ x.queue = <<>>
        /\ x.buf = <<>> /\ x.got = 0 /\ x.pieces = 0 /\ x.sent = <<>> /\ x.lost = {}
        /\ x.empty = {}
        /\ Requested(x)
    BY DEF StreamInv, Holds
  <1>2. /\ y \in Stream /\ y.udp = x.udp /\ y.timer = x.timer /\ y.asked = x.asked
        /\ y.queue = x.queue /\ y.buf = x.buf /\ y.got = x.got /\ y.pieces = x.pieces
        /\ y.sent = x.sent /\ y.lost = x.lost /\ y.empty = x.empty
        /\ y.state # "free"
        /\ (y.counted <=> y.state = "connected")
        /\ (y.counted /\ ~y.parsed => y.mode = "connect") /\ y.parsed \in BOOLEAN
        /\ (y.mode = "connect" /\ y.parsed => y.state = "closed" /\ x.mode = "connect" /\ x.parsed)
    <2>1. CASE y = [x EXCEPT !.state = "closed"]
      BY <2>1, <1>1 DEF Stream
    <2>2. CASE y = [x EXCEPT !.state = "connected", !.mode = "packet", !.parsed = TRUE,
                             !.counted = TRUE]
      BY <2>2, <1>1 DEF Stream
    <2>3. CASE y = [x EXCEPT !.state = "connected", !.mode = "connect", !.parsed = FALSE,
                             !.counted = TRUE]
      BY <2>3, <1>1 DEF Stream
    <2> QED  BY <2>1, <2>2, <2>3
  <1>3. ~(x.mode = "connect" /\ x.parsed)
    BY <1>1 DEF Requested
  <1>4. Requested(y)
    <2>1. RequestFirst(y.buf, y.parsed) /\ Len(y.buf) <= y.pieces
      BY <1>1, <1>2, NoData
    <2> QED  BY <2>1, <1>1, <1>2, <1>3 DEF Requested
  <1>5. Holds(y)
    <2>2. y.counted <=> y.state = "connected"
      BY <1>2
    <2>3. y.udp = x.udp /\ y.timer = x.timer /\ y.asked = None /\ y.queue = <<>> /\ y.state # "free"
      BY <1>1, <1>2
    <2>4. Len(y.queue) <= MaxPackets
      BY <2>3, UotAssumption
    <2> QED  BY <2>2, <2>3, <2>4, <1>1 DEF Holds
  <1>6. Accounted(y) /\ Queue(y.queue) /\ InOrder(y.sent, y.queue)
    <2>1. 0 \in 0 .. y.got
      BY <1>1, <1>2
    <2> QED  BY <2>1, <1>1, <1>2, NoData DEF Accounted
  <1>7. Kept(y)
    BY <1>1, <1>2, NoData
  <1> QED  BY <1>1, <1>2, <1>4, <1>5, <1>6, <1>7 DEF StreamInv
-----------------------------------------------------------------------------
(* The slots in use, when one stream changes.                              *)
LEMMA CountedChanges ==
    ASSUME NEW v, NEW w, NEW s \in Streams, \A r \in Streams : r # s => w[r] = v[r]
    PROVE  /\ Cardinality(Counted(v)) \in Nat
           /\ (w[s].counted <=> v[s].counted) => Cardinality(Counted(w)) = Cardinality(Counted(v))
           /\ w[s].counted /\ ~v[s].counted => Cardinality(Counted(w)) = Cardinality(Counted(v)) + 1
           /\ ~w[s].counted /\ v[s].counted => Cardinality(Counted(w)) = Cardinality(Counted(v)) - 1
  <1>1. Counted(v) \in SUBSET Streams /\ IsFiniteSet(Streams)
    BY UotAssumption DEF Counted
  <1>2. IsFiniteSet(Counted(v))
    BY <1>1, FS_Subset
  <1>3. Cardinality(Counted(v)) \in Nat
    BY <1>2, FS_CardinalityType
  <1>4. s \in Counted(v) <=> v[s].counted
    BY DEF Counted
  <1>5. CASE w[s].counted <=> v[s].counted
    <2>1. Counted(w) = Counted(v)
      BY <1>5 DEF Counted
    <2> QED  BY <2>1, <1>3, <1>5
  <1>6. CASE w[s].counted /\ ~v[s].counted
    <2>1. Counted(w) = Counted(v) \cup {s}
      BY <1>6 DEF Counted
    <2> HIDE DEF Counted
    <2>2. Cardinality(Counted(w)) = Cardinality(Counted(v)) + 1
      BY <2>1, <1>2, <1>4, <1>6, FS_AddElement
    <2> QED  BY <2>2, <1>3, <1>6
  <1>7. CASE ~w[s].counted /\ v[s].counted
    <2>1. Counted(w) = Counted(v) \ {s}
      BY <1>7 DEF Counted
    <2>2. Cardinality(Counted(w)) = Cardinality(Counted(v)) - 1
      BY <2>1, <1>2, <1>4, <1>7, FS_RemoveElement
    <2> QED  BY <2>2, <1>3, <1>7
  <1> QED  BY <1>5, <1>6, <1>7

\* Where the loops are after a step that works on s.
At(s, y) ==
    /\ pc' \in {"idle", "parse", "pending"} /\ ret' \in {"idle", "parse"}
    /\ cur' \in Streams \cup {None} /\ open' \in BOOLEAN /\ resolver' \in BOOLEAN
    /\ pc' # "idle" => cur' = s /\ y.counted

(* A step that changes one stream and its slot keeps the invariant if it   *)
(* keeps that of the stream.                                               *)
LEMMA OneStream ==
    ASSUME UotInv, NEW s \in Streams, NEW y, StreamInv(y), u' = [u EXCEPT ![s] = y], At(s, y),
           \/ slots' = slots /\ (y.counted <=> u[s].counted)
           \/ slots' = slots + 1 /\ slots < MaxUotStreams /\ y.counted /\ ~u[s].counted
           \/ slots' = SlotsWithout(u[s]) /\ ~y.counted
    PROVE  UotInv'
  <1>1. /\ u \in [Streams -> Stream] /\ slots \in 0 .. MaxUotStreams
        /\ \A r \in Streams : StreamInv(u[r])
        /\ slots = Cardinality(Counted(u))
    BY DEF UotInv, TypeOK
  <1>2. y \in Stream
    BY DEF StreamInv
  <1>3. u' \in [Streams -> Stream] /\ u'[s] = y /\ \A r \in Streams : r # s => u'[r] = u[r]
    BY <1>1, <1>2
  <1>4. \A r \in Streams : StreamInv(u'[r])
    BY <1>1, <1>3
  <1>5. /\ Cardinality(Counted(u)) \in Nat
        /\ (y.counted <=> u[s].counted) => Cardinality(Counted(u')) = Cardinality(Counted(u))
        /\ y.counted /\ ~u[s].counted => Cardinality(Counted(u')) = Cardinality(Counted(u)) + 1
        /\ ~y.counted /\ u[s].counted => Cardinality(Counted(u')) = Cardinality(Counted(u)) - 1
    <2> DEFINE v == u
               w == u'
    <2>1. w[s] = y /\ \A r \in Streams : r # s => w[r] = v[r]
      BY <1>3
    <2> HIDE DEF v, w
    <2>2. /\ Cardinality(Counted(v)) \in Nat
          /\ (w[s].counted <=> v[s].counted) => Cardinality(Counted(w)) = Cardinality(Counted(v))
          /\ w[s].counted /\ ~v[s].counted => Cardinality(Counted(w)) = Cardinality(Counted(v)) + 1
          /\ ~w[s].counted /\ v[s].counted => Cardinality(Counted(w)) = Cardinality(Counted(v)) - 1
      BY <2>1, CountedChanges
    <2> QED  BY <2>1, <2>2 DEF v, w
  <1>6. slots' = Cardinality(Counted(u')) /\ slots' \in 0 .. MaxUotStreams
    <2>1. u[s].counted => Cardinality(Counted(u)) > 0
      <3> SUFFICES ASSUME u[s].counted, Cardinality(Counted(u)) = 0 PROVE FALSE
        BY <1>5
      <3>1. Counted(u) \in SUBSET Streams /\ IsFiniteSet(Streams) /\ s \in Counted(u)
        BY UotAssumption DEF Counted
      <3>2. IsFiniteSet(Counted(u))
        BY <3>1, FS_Subset
      <3> QED  BY <3>1, <3>2, FS_EmptySet
    <2>2. CASE slots' = slots /\ (y.counted <=> u[s].counted)
      BY <2>2, <1>1, <1>5
    <2>3. CASE slots' = slots + 1 /\ slots < MaxUotStreams /\ y.counted /\ ~u[s].counted
      BY <2>3, <1>1, <1>5, UotAssumption
    <2>4. CASE slots' = SlotsWithout(u[s]) /\ ~y.counted
      <3>1. CASE u[s].counted
        <4> DEFINE m == Cardinality(Counted(u))
                   n == Cardinality(Counted(u'))
        <4>1. m \in Nat /\ m > 0 /\ slots = m /\ slots \in 0 .. MaxUotStreams /\ n = m - 1
          BY <2>1, <2>4, <3>1, <1>1, <1>5
        <4> HIDE DEF m, n
        <4>2. slots' = slots - 1
          BY <2>4, <3>1, <4>1 DEF SlotsWithout
        <4>3. slots' = n /\ slots' \in 0 .. MaxUotStreams
          BY ONLY <4>1, <4>2, UotAssumption
        <4> QED  BY <4>3 DEF n
      <3>2. CASE ~u[s].counted
        <4>1. slots' = slots
          BY <2>4, <3>2 DEF SlotsWithout
        <4> QED  BY <4>1, <2>4, <3>2, <1>1, <1>5
      <3> QED  BY <3>1, <3>2
    <2> QED  BY <2>2, <2>3, <2>4
  <1>7. \A r \in Streams : Len(u'[r].queue) <= MaxPackets
    BY <1>4 DEF StreamInv, Holds
  <1>8. TypeOK'
    BY <1>3, <1>6, <1>7 DEF TypeOK, At
  <1>9. pc' # "idle" => cur' \in Streams /\ u'[cur'].counted
    BY <1>3 DEF At
  <1>10. (Counted(u))' = Counted(u')
    BY DEF Counted
  <1> QED  BY <1>4, <1>6, <1>8, <1>9, <1>10 DEF UotInv
-----------------------------------------------------------------------------
(* The steps of the loops.                                                 *)
LEMMA TheCurrent ==
    ASSUME UotInv, pc # "idle"
    PROVE  /\ cur \in Streams /\ StreamInv(u[cur]) /\ u[cur].counted /\ u[cur] \in Stream
           /\ open \in BOOLEAN /\ resolver \in BOOLEAN /\ ret \in {"idle", "parse"}
           /\ pc \in {"parse", "pending"} /\ cur \in Streams \cup {None}
  BY DEF UotInv, TypeOK, StreamInv

LEMMA CurrentStays ==
    ASSUME UotInv, pc # "idle", NEW y, StreamInv(y), y.counted, Becomes(y),
           pc' \in {"idle", "parse", "pending"}, ret' \in {"idle", "parse"},
           open' = open, resolver' = resolver,
           cur' = cur \/ (pc' = "idle" /\ cur' = None)
    PROVE  UotInv'
  <1>1. cur \in Streams /\ u[cur].counted /\ open \in BOOLEAN /\ resolver \in BOOLEAN
    BY TheCurrent
  <1>2. At(cur, y)
    BY <1>1 DEF At
  <1>3. u' = [u EXCEPT ![cur] = y] /\ slots' = slots /\ (y.counted <=> u[cur].counted)
    BY <1>1 DEF Becomes
  <1> QED  BY <1>1, <1>2, <1>3, OneStream

\* ngx_anytls_stream_close of any stream, while its caller is done
LEMMA StreamCloses ==
    ASSUME UotInv, NEW s \in Streams, NEW state \in {"left", "closed"},
           u' = [u EXCEPT ![s] = Over(@, state)], slots' = SlotsWithout(u[s]),
           pc' = "idle", cur' \in Streams \cup {None}, ret' \in {"idle", "parse"},
           open' = open, resolver' = resolver
    PROVE  UotInv'
  <1>1. u[s] \in Stream /\ open \in BOOLEAN /\ resolver \in BOOLEAN
    BY DEF UotInv, TypeOK
  <1> DEFINE y == Over(u[s], state)
  <1>2. StreamInv(y) /\ ~y.counted
    BY <1>1, StreamOver
  <1>3. u' = [u EXCEPT ![s] = y]
    BY <1>1 DEF UotInv, TypeOK
  <1> HIDE DEF y
  <1>4. At(s, y)
    BY <1>1 DEF At
  <1> QED  BY <1>2, <1>3, <1>4, OneStream

LEMMA ParseSteps ==
    ASSUME UotInv, \/ PacketRequest \/ ConnectRequest \/ ConnectAsks \/ ConnectAnswered
                   \/ ConnectRefused \/ SendDirect \/ SendDomain \/ ParseDone
    PROVE  UotInv'
  <1> DEFINE x == u[cur]
             h == Head(x.buf)
             a == [Pop(x) EXCEPT !.parsed = TRUE, !.target = h.to]
  <1>1. ASSUME pc # "idle"
        PROVE  cur \in Streams /\ StreamInv(x) /\ x.counted
    BY <1>1, TheCurrent
  <1>2. Asking = a /\ x0 = x /\ First = h
    BY DEF Asking, x0, First
  <1>3. ASSUME NEW kinds, Parsing(kinds)
        PROVE  pc = "parse" /\ Whole(x) > 0 /\ h.kind \in kinds
    BY <1>3 DEF Parsing, x0, First
  <1>4. ASSUME Keeps, pc # "idle"
        PROVE  /\ pc' \in {"idle", "parse", "pending"} /\ ret' \in {"idle", "parse"}
               /\ open' = open /\ resolver' = resolver /\ cur' = cur
    BY <1>4, TheCurrent DEF Keeps
  <1>5. ASSUME Stop, pc # "idle"
        PROVE  /\ pc' = "idle" /\ ret' \in {"idle", "parse"}
               /\ open' = open /\ resolver' = resolver /\ cur' = None
    BY <1>5, TheCurrent DEF Stop
  <1> HIDE DEF x, h, a
  <1>6. CASE PacketRequest
    <2> DEFINE y == [Pop(x) EXCEPT !.mode = "packet", !.parsed = TRUE]
    <2>1. pc = "parse" /\ Whole(x) > 0 /\ h.kind = "packet" /\ Becomes(y) /\ Keeps
      BY <1>6, <1>2, <1>3 DEF PacketRequest
    <2>2. StreamInv(y) /\ y.counted
      BY <2>1, <1>1, RequestSteps DEF a, h
    <2> HIDE DEF y
    <2> QED  BY <2>1, <2>2, <1>4, CurrentStays
  <1>7. CASE ConnectRequest
    <2> DEFINE y == [a EXCEPT !.has = TRUE]
    <2>1. pc = "parse" /\ Whole(x) > 0 /\ h.kind = "connect" /\ Becomes(y) /\ Keeps
      BY <1>7, <1>2, <1>3 DEF ConnectRequest
    <2>2. StreamInv(y) /\ y.counted
      BY <2>1, <1>1, RequestSteps DEF a, h
    <2> HIDE DEF y
    <2> QED  BY <2>1, <2>2, <1>4, CurrentStays
  <1>8. CASE ConnectAsks
    <2> DEFINE y == Ask(a, h.to, "connect")
    <2>1. pc = "parse" /\ Whole(x) > 0 /\ h.kind = "connect" /\ h.to \in Domains /\ Becomes(y) /\ Stop
      BY <1>8, <1>2, <1>3 DEF ConnectAsks
    <2>2. StreamInv(y) /\ y.counted
      BY <2>1, <1>1, RequestSteps DEF a, h
    <2> HIDE DEF y
    <2> QED  BY <2>1, <2>2, <1>5, CurrentStays
  <1>9. CASE ConnectAnswered
    <2> DEFINE y == [a EXCEPT !.has = TRUE]
               z == Sent(y, [to |-> None, n |-> 0])
    <2>1. pc = "parse" /\ Whole(x) > 0 /\ h.kind = "connect" /\ (Becomes(y) \/ Becomes(z)) /\ Stop
      BY <1>9, <1>2, <1>3 DEF ConnectAnswered
    <2>2. StreamInv(y) /\ y.counted
      BY <2>1, <1>1, RequestSteps DEF a, h
    <2>3. StreamInv(z) /\ z.counted
      BY <2>1, <1>1, RequestSteps DEF a, h
    <2> HIDE DEF y, z
    <2> QED  BY <2>1, <2>2, <2>3, <1>5, CurrentStays
  <1>10. CASE ConnectRefused
    <2>1. pc = "parse" /\ CloseStream(cur) /\ Stop
      BY <1>10, <1>3 DEF ConnectRefused
    <2> QED  BY <2>1, <1>1, <1>5, StreamCloses DEF CloseStream
  <1>11. CASE SendDirect
    <2> DEFINE y == IF h.len = 0 THEN Lost(Pop(x), h) ELSE Sent(Pop(x), h)
    <2>1. /\ pc = "parse" /\ Whole(x) > 0 /\ h.kind = "dgram" /\ Becomes(y) /\ Keeps
          /\ x.parsed /\ (x.mode = "connect" \/ h.to \in Ips)
      BY <1>11, <1>2, <1>3 DEF SendDirect, Direct
    <2>2. StreamInv(y) /\ y.counted
      BY <2>1, <1>1, DatagramSteps DEF h
    <2> HIDE DEF y
    <2> QED  BY <2>1, <2>2, <1>4, CurrentStays
  <1>12. CASE SendDomain
    <2> DEFINE y == Enqueue(Pop(x), h)
    <2>1. /\ pc = "parse" /\ Whole(x) > 0 /\ h.kind = "dgram" /\ Becomes(y)
          /\ x.mode = "packet" /\ h.to \in Domains
      BY <1>12, <1>2, <1>3 DEF SendDomain
    <2>2. StreamInv(y) /\ y.counted
      BY <2>1, <1>1, DatagramSteps DEF h
    <2>3. /\ pc' \in {"idle", "parse", "pending"} /\ ret' \in {"idle", "parse"}
          /\ open' = open /\ resolver' = resolver /\ cur' = cur
      BY <1>12, <2>1, TheCurrent DEF SendDomain
    <2> HIDE DEF y
    <2> QED  BY <2>1, <2>2, <2>3, CurrentStays
  <1>13. CASE ParseDone
    <2>1. pc = "parse" /\ Stop /\ u' = u /\ slots' = slots
      BY <1>13 DEF ParseDone
    <2>2. u' = [u EXCEPT ![cur] = x]
      BY <2>1 DEF UotInv, TypeOK, x
    <2> QED  BY <2>1, <2>2, <1>1, <1>5, CurrentStays DEF Becomes
  <1> QED  BY <1>6, <1>7, <1>8, <1>9, <1>10, <1>11, <1>12, <1>13

LEMMA PendingLoop ==
    ASSUME UotInv, PendingAsks \/ PendingAnswered \/ PendingRefused \/ PendingDone
    PROVE  UotInv'
  <1> DEFINE x == u[cur]
             d == Head(x.queue).to
  <1>1. /\ pc = "pending" /\ x0 = x
    BY DEF PendingAsks, PendingAnswered, PendingRefused, PendingDone, Resolving, x0
  <1>2. cur \in Streams /\ StreamInv(x) /\ x.counted
    BY <1>1, TheCurrent
  <1>3. ASSUME Return
        PROVE  /\ pc' \in {"idle", "parse", "pending"} /\ ret' \in {"idle", "parse"}
               /\ open' = open /\ resolver' = resolver
               /\ cur' = cur \/ (pc' = "idle" /\ cur' = None)
    BY <1>1, <1>3, TheCurrent DEF Return
  <1>4. ASSUME Keeps
        PROVE  /\ pc' \in {"idle", "parse", "pending"} /\ ret' \in {"idle", "parse"}
               /\ open' = open /\ resolver' = resolver /\ cur' = cur
    BY <1>1, <1>4, TheCurrent DEF Keeps
  <1>5. ASSUME x.queue # <<>> PROVE d \in Domains
    <2>1. x.queue \in Seq(Piece) /\ Queue(x.queue)
      BY <1>2, OpenFields
    <2>2. 1 \in DOMAIN x.queue /\ Head(x.queue) = x.queue[1]
      BY <2>1, <1>5, TailPlaces
    <2> QED  BY <2>1, <2>2 DEF Queue
  <1> HIDE DEF x, d
  <1>6. CASE PendingAsks
    <2> DEFINE y == Ask(x, d, "packet")
    <2>1. x.queue # <<>> /\ Becomes(y) /\ Return
      BY <1>6, <1>1 DEF PendingAsks, Resolving, d
    <2>2. StreamInv(y) /\ y.counted
      BY <2>1, <1>2, <1>5, QuerySteps
    <2> HIDE DEF y
    <2> QED  BY <2>1, <2>2, <1>1, <1>3, CurrentStays
  <1>7. CASE PendingAnswered
    <2>1. PICK y \in Flushed(x, d) : x.queue # <<>> /\ Becomes(y) /\ Keeps
      BY <1>7, <1>1 DEF PendingAnswered, Resolving, d
    <2>2. StreamInv(y) /\ y.counted
      BY <2>1, <1>2, <1>5, PendingSteps
    <2> QED  BY <2>1, <2>2, <1>1, <1>4, CurrentStays
  <1>8. CASE PendingRefused
    <2> DEFINE y == DropDomain(x, d)
    <2>1. x.queue # <<>> /\ Becomes(y) /\ Keeps
      BY <1>8, <1>1 DEF PendingRefused, Resolving, d
    <2>2. StreamInv(y) /\ y.counted
      BY <2>1, <1>2, <1>5, PendingSteps
    <2> HIDE DEF y
    <2> QED  BY <2>1, <2>2, <1>1, <1>4, CurrentStays
  <1>9. CASE PendingDone
    <2>1. Return /\ u' = u /\ slots' = slots
      BY <1>9 DEF PendingDone
    <2>2. u' = [u EXCEPT ![cur] = x]
      BY <2>1 DEF UotInv, TypeOK, x
    <2> QED  BY <2>1, <2>2, <1>1, <1>2, <1>3, CurrentStays DEF Becomes
  <1> QED  BY <1>6, <1>7, <1>8, <1>9
-----------------------------------------------------------------------------
(* The events.                                                             *)
LEMMA SessionOver ==
    ASSUME UotInv, SessionEnds
    PROVE  UotInv'
  <1>1. /\ \A s \in Streams : u'[s] = Over(u[s], "closed")
        /\ DOMAIN u' = Streams /\ u' = [s \in Streams |-> u'[s]]
        /\ slots' = 0 /\ open' = FALSE /\ pc' = "idle" /\ cur' = None /\ ret' = "idle"
        /\ resolver' = resolver
    BY DEF SessionEnds
  <1>2. \A s \in Streams : StreamInv(u'[s]) /\ ~u'[s].counted
    <2>1. \A s \in Streams : u[s] \in Stream
      BY DEF UotInv, TypeOK
    <2> QED  BY <1>1, <2>1, StreamOver
  <1>3. u' \in [Streams -> Stream]
    BY <1>1, <1>2 DEF StreamInv
  <1>4. (Counted(u))' = {}
    BY <1>2 DEF Counted
  <1>5. slots' = Cardinality((Counted(u))')
    BY <1>1, <1>4, FS_EmptySet
  <1>6. \A s \in Streams : Len(u'[s].queue) <= MaxPackets
    BY <1>2 DEF StreamInv, Holds
  <1>7. resolver \in BOOLEAN /\ 0 \in 0 .. MaxUotStreams
    BY UotAssumption DEF UotInv, TypeOK
  <1>8. TypeOK'
    BY <1>1, <1>3, <1>6, <1>7 DEF TypeOK
  <1>9. \A s \in Streams : StreamInv(u[s])'
    BY <1>2 DEF StreamInv, Requested, Holds, Accounted
  <1> QED  BY <1>1, <1>2, <1>5, <1>8 DEF UotInv

LEMMA Handled ==
    ASSUME UotInv, NEW s \in Streams, u[s].counted, NEW y, StreamInv(y), y.counted,
           NEW at \in {"parse", "pending"}, Handles(s, y, at)
    PROVE  UotInv'
  <1>1. At(s, y)
    BY DEF At, Handles, UotInv, TypeOK
  <1>2. u' = [u EXCEPT ![s] = y] /\ slots' = slots
    BY DEF Handles
  <1> QED  BY <1>1, <1>2, OneStream

LEMMA Opened ==
    ASSUME UotInv, NEW s \in Streams, Open(s)
    PROVE  UotInv'
  <1> DEFINE x == u[s]
  <1>1. StreamInv(x) /\ x.state = "free" /\ u \in [Streams -> Stream] /\ x \in Stream
        /\ slots \in Nat /\ MaxUotStreams \in Nat
    BY UotAssumption DEF UotInv, TypeOK, Open
  <1>2. /\ pc' = "idle" /\ cur' = cur /\ ret' = ret /\ open' = open /\ resolver' = resolver
        /\ open \in BOOLEAN /\ resolver \in BOOLEAN /\ cur \in Streams \cup {None}
        /\ ret \in {"idle", "parse"}
    BY DEF UotInv, TypeOK, Open, Keeps, Idle
  <1>3. \A y : At(s, y)
    BY <1>2 DEF At
  <1>4. CASE CapReached
    <2> DEFINE y == [x EXCEPT !.state = "closed"]
    <2>1. u' = [u EXCEPT ![s] = y] /\ slots' = slots
      BY <1>4, <1>1 DEF Open
    <2>2. y.state = "closed"
      BY <1>1 DEF Stream
    <2>3. StreamInv(y) /\ ~y.counted /\ ~x.counted
      BY <1>1, <2>2, StreamOpens
    <2> HIDE DEF y
    <2> QED  BY <1>3, <2>1, <2>3, OneStream
  <1>5. CASE ~CapReached
    <2>1. slots' = slots + 1 /\ slots < MaxUotStreams
      BY <1>5, <1>1 DEF Open, CapReached
    <2>2. ASSUME NEW y, \/ y = [x EXCEPT !.state = "connected", !.mode = "packet",
                                        !.parsed = TRUE, !.counted = TRUE]
                        \/ y = [x EXCEPT !.state = "connected", !.mode = "connect",
                                        !.parsed = FALSE, !.counted = TRUE],
                 u' = [u EXCEPT ![s] = y]
          PROVE  UotInv'
      <3>1. y.state = "connected"
        BY <1>1, <2>2 DEF Stream
      <3> HIDE DEF x
      <3>2. StreamInv(y) /\ (y.counted <=> y.state = "connected") /\ ~x.counted
        BY ONLY <1>1, <2>2, StreamOpens
      <3>3. StreamInv(y) /\ y.counted /\ ~x.counted
        BY <3>1, <3>2
      <3> USE DEF x
      <3> QED  BY <1>3, <2>1, <2>2, <3>3, OneStream
    <2>3. PICK mode \in {"packet", "connect"} :
              u' = [u EXCEPT ![s].state = "connected", ![s].mode = mode,
                             ![s].parsed = (mode = "packet"), ![s].counted = TRUE]
      BY <1>5 DEF Open
    <2>4. CASE mode = "packet"
      <3>1. u' = [u EXCEPT ![s].state = "connected", ![s].mode = "packet",
                           ![s].parsed = TRUE, ![s].counted = TRUE]
        BY <2>3, <2>4
      <3>2. u' = [u EXCEPT ![s] = [x EXCEPT !.state = "connected", !.mode = "packet",
                                           !.parsed = TRUE, !.counted = TRUE]]
        BY <3>1, <1>1 DEF Stream
      <3> QED  BY <3>2, <2>2
    <2>5. CASE mode = "connect"
      <3>1. u' = [u EXCEPT ![s].state = "connected", ![s].mode = "connect",
                           ![s].parsed = FALSE, ![s].counted = TRUE]
        BY <2>3, <2>5
      <3>2. u' = [u EXCEPT ![s] = [x EXCEPT !.state = "connected", !.mode = "connect",
                                           !.parsed = FALSE, !.counted = TRUE]]
        BY <3>1, <1>1 DEF Stream
      <3> QED  BY <3>2, <2>2
    <2> QED  BY <2>4, <2>5
  <1> QED  BY <1>4, <1>5

LEMMA PayloadComes ==
    ASSUME UotInv, NEW s \in Streams, ClientPayload(s)
    PROVE  UotInv'
  <1> DEFINE x == u[s]
  <1>1. StreamInv(x) /\ x.counted /\ u \in [Streams -> Stream] /\ x.state = "connected"
    BY DEF UotInv, TypeOK, ClientPayload, StreamInv, Holds
  <1>2. PICK ps \in Payloads(x), half \in BOOLEAN :
          \/ SessionEnds
          \/ /\ u' = [u EXCEPT ![s] = Buffered(@, ps, half)]
             /\ UNCHANGED <<pc, cur>> \/ (pc' = "parse" /\ cur' = s)
             /\ UNCHANGED <<slots, open, resolver, ret>>
    BY DEF ClientPayload
  <1>3. CASE SessionEnds
    BY <1>3, SessionOver
  <1>4. CASE /\ u' = [u EXCEPT ![s] = Buffered(@, ps, half)]
             /\ UNCHANGED <<pc, cur>> \/ (pc' = "parse" /\ cur' = s)
             /\ UNCHANGED <<slots, open, resolver, ret>>
    <2> DEFINE y == Buffered(x, ps, half)
    <2>1. u' = [u EXCEPT ![s] = y]
      BY <1>4, <1>1
    <2>2. StreamInv(y) /\ y.counted
      BY <1>1, PayloadBuffered
    <2> HIDE DEF y
    <2>3. pc = "idle"
      BY DEF ClientPayload, Idle
    <2>4. At(s, y)
      BY <1>4, <2>2, <2>3 DEF At, UotInv, TypeOK
    <2> QED  BY <2>1, <2>2, <2>4, <1>1, <1>4, OneStream
  <1> QED  BY <1>2, <1>3, <1>4

LEMMA QueryEnds ==
    ASSUME UotInv, NEW s \in Streams, Answer(s)
    PROVE  UotInv'
  <1> DEFINE x == u[s]
             z == Answered(x)
  <1>1. StreamInv(x) /\ x.counted /\ x.asked \in Domains
    <2>1. StreamInv(x) /\ x.asked # None
      BY DEF UotInv, Answer, ResolveOk, ResolveError
    <2> QED  BY <2>1 DEF StreamInv, Holds, Stream
  <1>2. StreamInv(z) /\ z.counted
    BY <1>1, QuerySteps
  <1>3. CASE Handles(s, [z EXCEPT !.has = TRUE], "parse")
    <2> DEFINE y == [z EXCEPT !.has = TRUE]
    <2>1. StreamInv(y) /\ y.counted
      BY <1>1, QuerySteps
    <2> HIDE DEF y
    <2> QED  BY <1>1, <2>1, <1>3, Handled DEF y
  <1>4. CASE \E y \in Flushed(z, x.asked) : Handles(s, y, "pending")
    <2>1. PICK y \in Flushed(z, x.asked) : Handles(s, y, "pending")
      BY <1>4
    <2> HIDE DEF z
    <2>2. StreamInv(y) /\ y.counted
      BY <1>1, <1>2, PendingSteps
    <2> QED  BY <1>1, <2>1, <2>2, Handled
  <1>5. CASE CloseStream(s) /\ Keeps
    <2>1. pc' = "idle"
      BY <1>5 DEF Keeps, Answer, ResolveOk, ResolveError, Idle
    <2>2. /\ cur' \in Streams \cup {None} /\ ret' \in {"idle", "parse"}
          /\ open' = open /\ resolver' = resolver
      BY <1>5 DEF Keeps, UotInv, TypeOK
    <2> QED  BY <1>5, <2>1, <2>2, StreamCloses DEF CloseStream
  <1>6. CASE Handles(s, DropDomain(z, x.asked), "pending")
    <2> DEFINE y == DropDomain(z, x.asked)
    <2> HIDE DEF z
    <2>1. StreamInv(y) /\ y.counted
      BY <1>1, <1>2, PendingSteps
    <2> HIDE DEF y
    <2>2. Handles(s, y, "pending")
      BY <1>6 DEF y
    <2> QED  BY <1>1, <2>1, <2>2, Handled
  <1> QED  BY <1>3, <1>4, <1>5, <1>6 DEF Answer, ResolveOk, ResolveError

LEMMA StreamEnds ==
    ASSUME UotInv, NEW s \in Streams, IdleTimeout(s) \/ ClientFin(s) \/ UdpError(s)
    PROVE  UotInv'
  <1>1. /\ pc' = "idle" /\ cur' \in Streams \cup {None} /\ ret' \in {"idle", "parse"}
        /\ open' = open /\ resolver' = resolver
    BY DEF IdleTimeout, ClientFin, UdpError, Idle, Keeps, UotInv, TypeOK
  <1>2. CASE IdleTimeout(s)
    <2>1. PICK state \in {"closed", "left"} : u' = [u EXCEPT ![s] = Over(@, state)]
      BY <1>2 DEF IdleTimeout
    <2>2. slots' = SlotsWithout(u[s])
      BY <1>2 DEF IdleTimeout
    <2> QED  BY <1>1, <2>1, <2>2, StreamCloses
  <1>3. CASE ClientFin(s) \/ UdpError(s)
    <2>1. CloseStream(s)
      BY <1>3 DEF ClientFin, UdpError
    <2> QED  BY <1>1, <2>1, StreamCloses DEF CloseStream
  <1> QED  BY <1>2, <1>3
-----------------------------------------------------------------------------
(* The invariant holds at first and is kept by every step.                 *)
LEMMA InitInv == Init => UotInv
  <1> SUFFICES ASSUME Init PROVE UotInv
    OBVIOUS
  <1> DEFINE e == <<>>
             f == [state |-> "free", mode |-> "packet", parsed |-> FALSE, target |-> None,
                   has |-> FALSE, buf |-> e, half |-> FALSE, queue |-> e, asked |-> None,
                   why |-> "none", counted |-> FALSE, udp |-> FALSE, timer |-> FALSE,
                   pieces |-> 0, got |-> 0, bad |-> 0, sent |-> e, lost |-> {},
                   empty |-> {}]
  <1>1. u = [s \in Streams |-> f]
    BY DEF Init
  <1>2. e \in Seq(Piece) /\ e \in Seq(Send) /\ {} \in SUBSET Nat
    OBVIOUS
  <1>3. /\ f.counted = FALSE /\ f.asked = None /\ f.queue = <<>> /\ f.timer = FALSE /\ f.udp = FALSE
        /\ f.state = "free" /\ f.mode = "packet" /\ f.parsed = FALSE /\ f.buf = <<>> /\ f.pieces = 0
        /\ f.got = 0 /\ f.sent = <<>> /\ f.lost = {} /\ f.empty = {}
    OBVIOUS
  <1>4. f \in Stream
    <2> HIDE DEF e
    <2> QED  BY <1>2 DEF Stream, Send
  <1> HIDE DEF f
  <1>5. Requested(f)
    BY <1>3, NoData DEF Requested
  <1>6. Holds(f)
    BY <1>3, UotAssumption DEF Holds
  <1>7. Accounted(f)
    <2>1. 0 \in 0 .. f.got
      BY <1>3
    <2> QED  BY <2>1, <1>3, NoData DEF Accounted
  <1>8. Queue(f.queue) /\ InOrder(f.sent, f.queue)
    BY <1>3, NoData
  <1>14. Kept(f)
    BY <1>3, NoData
  <1>9. StreamInv(f)
    BY <1>14, <1>4, <1>5, <1>6, <1>7, <1>8 DEF StreamInv
  <1>10. \A s \in Streams : u[s] = f
    BY <1>1
  <1>11. Counted(u) = {}
    BY <1>3, <1>10 DEF Counted
  <1>12. slots = Cardinality(Counted(u))
    BY <1>11, FS_EmptySet DEF Init
  <1>13. TypeOK
    <2>1. \A s \in Streams : Len(u[s].queue) <= MaxPackets
      BY <1>6, <1>10 DEF Holds
    <2>2. u \in [Streams -> Stream]
      BY <1>1, <1>4
    <2>3. /\ slots = 0 /\ open = TRUE /\ resolver \in BOOLEAN
          /\ pc = "idle" /\ cur = None /\ ret = "idle"
      BY DEF Init
    <2> QED  BY ONLY <2>1, <2>2, <2>3, UotAssumption DEF TypeOK
  <1> QED  BY <1>9, <1>10, <1>12, <1>13 DEF Init, UotInv

LEMMA NextInv == UotInv /\ [Next]_vars => UotInv'
  <1> SUFFICES ASSUME UotInv, [Next]_vars PROVE UotInv'
    OBVIOUS
  <1>1. CASE Step
    <2>1. CASE PayloadError \/ NoSocketDirect
      BY <2>1, SessionOver DEF PayloadError, NoSocketDirect
    <2> QED  BY <1>1, <2>1, ParseSteps, PendingLoop DEF Step
  <1>2. ASSUME NEW s \in Streams,
               \/ Open(s) \/ ClientPayload(s) \/ Answer(s)
               \/ IdleTimeout(s) \/ ClientFin(s) \/ UdpError(s)
        PROVE  UotInv'
    BY <1>2, Opened, PayloadComes, QueryEnds, StreamEnds
  <1>3. CASE UNCHANGED vars
    BY <1>3 DEF vars, UotInv, TypeOK, Counted, StreamInv, Requested, Holds, Accounted,
                 Kept, Dropped
  <1> QED  BY <1>1, <1>2, <1>3 DEF Next

(* The inductive invariant is one.                                         *)
THEOREM Invariant == Spec => []UotInv
  BY InitInv, NextInv, PTL DEF Spec

\* No more streams than the limit use UDP over TCP, no queue grows over its
\* limit, and every field keeps its type (ngx_anytls_uot_open,
\* ngx_anytls_uot_enqueue_pending).
THEOREM TypeCorrect == Spec => []TypeOK
  <1>1. UotInv => TypeOK
    BY DEF UotInv
  <1> QED  BY <1>1, Invariant, PTL

\* Whatever ends a stream, ngx_anytls_uot_close gives back its slot, socket,
\* timer, query and packets.
THEOREM ReleasedTheorem == Spec => []ResourcesReleased
  <1>1. UotInv => ResourcesReleased
    BY DEF UotInv, ResourcesReleased, Counted, StreamInv, Holds
  <1> QED  BY <1>1, Invariant, PTL

\* Every datagram of an open stream is sent, dropped, queued or buffered, each
\* in one way, and those for one peer are sent in order; empty ones are dropped,
\* in connect mode no others, and a datagram the client did not send goes out
\* first (ngx_anytls_uot_client_payload, _send_resolved, _enqueue_pending).
THEOREM AccountedTheorem == Spec => []DatagramsAccounted
  <1>1. ASSUME UotInv, NEW s \in Streams, NEW x, x = u[s]
        PROVE  LET out == {x.sent[k].n : k \in DOMAIN x.sent} \ {0}
                   parts == <<out, x.lost, Numbers(x.queue), Numbers(x.buf)>>
               IN  /\ out \cup x.lost \cup Numbers(x.queue) \cup Numbers(x.buf) = 1 .. x.got
                   /\ \A j, k \in 1 .. 4 : j # k => parts[j] \cap parts[k] = {}
                   /\ \A j, k \in DOMAIN x.sent :
                         j < k /\ x.sent[j].to = x.sent[k].to => x.sent[j].n < x.sent[k].n
                   /\ x.empty \subseteq x.lost \cup Numbers(x.buf)
                   /\ x.mode = "connect" => x.lost \subseteq x.empty
                   /\ \A k \in DOMAIN x.sent : x.sent[k].n = 0 => k = 1 /\ x.mode = "connect"
    <2> DEFINE A == Out(x.sent)
               B == x.lost
               C == Numbers(x.queue)
               D == Numbers(x.buf)
    <2>1. StreamInv(x) /\ x.got \in Nat
      BY <1>1 DEF UotInv, StreamInv, Stream
    <2>2. PICK c \in 0 .. x.got :
            /\ D = c + 1 .. x.got /\ (A \cup B) \cup C = 1 .. c /\ Apart(A, B, C)
      BY <2>1 DEF StreamInv, Accounted, Waiting, Gone
    <2>3. {x.sent[k].n : k \in DOMAIN x.sent} \ {0} = A
      BY DEF Out
    <2>4. \A j, k \in DOMAIN x.sent :
             j < k /\ x.sent[j].to = x.sent[k].to => x.sent[j].n < x.sent[k].n
      BY <2>1 DEF StreamInv, InOrder
    <2>8. /\ x.empty \subseteq x.lost \cup Numbers(x.buf)
          /\ x.mode = "connect" => x.lost \subseteq x.empty
          /\ \A k \in DOMAIN x.sent : x.sent[k].n = 0 => k = 1 /\ x.mode = "connect"
      BY <2>1 DEF StreamInv, Kept, Dropped, ZeroFirst
    <2> HIDE DEF A, B, C, D
    <2>5. ((A \cup B) \cup C) \cup D = 1 .. x.got
      <3>1. \A m : m \in 1 .. x.got <=> m \in 1 .. c \/ m \in c + 1 .. x.got
        BY <2>1
      <3> QED  BY <2>2, <3>1
    <2>6. A \cap D = {} /\ B \cap D = {} /\ C \cap D = {}
      <3>1. \A m : ~(m \in 1 .. c /\ m \in c + 1 .. x.got)
        BY <2>1
      <3> QED  BY <2>2, <3>1
    <2>7. \A j, k \in 1 .. 4 : j # k => <<A, B, C, D>>[j] \cap <<A, B, C, D>>[k] = {}
      <3>1. A \cap B = {} /\ A \cap C = {} /\ B \cap C = {}
        BY <2>2 DEF Apart
      <3> DEFINE p == <<A, B, C, D>>
      <3>2. p[1] = A /\ p[2] = B /\ p[3] = C /\ p[4] = D
        OBVIOUS
      <3>3. \A j \in 1 .. 4 : j = 1 \/ j = 2 \/ j = 3 \/ j = 4
        OBVIOUS
      <3> HIDE DEF p
      <3>4. \A j, k \in 1 .. 4 : j # k => p[j] \cap p[k] = {}
        BY <2>6, <3>1, <3>2, <3>3
      <3> QED  BY <3>4 DEF p
    <2> QED  BY <2>3, <2>4, <2>5, <2>7, <2>8 DEF B, C, D
  <1>2. UotInv => DatagramsAccounted
    BY <1>1 DEF DatagramsAccounted
  <1> QED  BY <1>2, Invariant, PTL
=============================================================================
