------------------------------ MODULE GateProofs ------------------------------
(***************************************************************************)
(* Proofs about Gate for every length of the prefix and of the padding,    *)
(* every size of the buffers and every budget: what a plaintext request is *)
(* answered, where a session starts, and what a relay delivers.            *)
(***************************************************************************)
EXTENDS Gate, TLAPS, SequenceTheorems

Early == {"peek", "tls", "auth"}

\* Before the connection is a session or a relay nothing of a relay is there.
EarlyOk ==
    /\ sk["fallback"].net = "none" /\ sk["fallback"].sent = 0 /\ sk["fallback"].read = 0
    /\ ~connected /\ replay = <<>>
    /\ \A x \in Sides : buf[x] = <<>> /\ sk[x].got = <<>>

\* In the SSL phase the bytes are peeked at or belong to the handshake.
PeekOk ==
    /\ sk["client"].read = 0 /\ authLen = 0
    /\ sk["client"].sent <= IF who.kind = "http" THEN Whole ELSE 1

\* What was read while the client authenticates was collected, and is less than
\* the client has to show.
AuthOk ==
    /\ who.kind # "http" /\ authLen = sk["client"].read
    /\ authLen < PrefixLen + who.padding

\* What a relay read is sent or waits, and the connect timer runs until the
\* fallback is there.
RelayOk ==
    /\ ~sk["client"].timer /\ sk["fallback"].timer = ~connected
    /\ InOrder((sk["fallback"].got \o replay) \o buf["client"], sk["client"].read)
    /\ sk["client"].got \o buf["fallback"] = Collected(sk["fallback"].read)

\* A read loop belongs to its phase, and a relay reads a side when nothing of
\* that side waits.
LoopOk ==
    /\ pc = "auth" => phase = "auth"
    /\ pc \in Sides => phase = "fallback" /\ buf[pc] = <<>>
    /\ pc = "client" => replay = <<>>

\* What is left of a connection that ended.
EndOk ==
    /\ AnswerAsWhole
    /\ answer # "none" \/ ended # "none" => phase = "closed"
    /\ ended = "fallback" /\ sk["fallback"].net = "up" =>
         sk["client"].got = Collected(sk["fallback"].sent)

GateInv ==
    /\ TypeOK
    /\ who.kind # "user" => who.padding = 0
    /\ \A x \in Sides : sk[x].read <= sk[x].sent
    /\ phase \in Early => EarlyOk
    /\ phase \in {"peek", "tls"} => PeekOk
    /\ phase = "auth" => AuthOk
    /\ phase = "session" => HandsOverClean
    /\ phase = "fallback" => RelayOk
    /\ LoopOk
    /\ EndOk

(* Three parts of what is relayed join in any grouping.                    *)
LEMMA JoinThree ==
    ASSUME NEW s \in Seq(Nat), NEW t \in Seq(Nat), NEW u \in Seq(Nat)
    PROVE  (s \o t) \o u = s \o (t \o u)
  BY ConcatAssociative, SMT

(* Nothing in front of or behind what is relayed adds nothing.             *)
LEMMA JoinNone ==
    ASSUME NEW s \in Seq(Nat)
    PROVE  <<>> \o s = s /\ s \o <<>> = s
  BY ConcatEmptySeq, SMT

(***************************************************************************)
(* The operations on sockets                                               *)
(***************************************************************************)

\* j is socket k with other events.
Same(k, j) ==
    /\ j \in Socket /\ j.net = k.net /\ j.sent = k.sent /\ j.read = k.read
    /\ j.got = k.got /\ j.timer = k.timer

(* Registering the read event changes events only.                         *)
LEMMA ArmReadSame ==
    ASSUME NEW k \in Socket, NEW j, j = ArmRead(k)
    PROVE  Same(k, j)
  <1>1. CASE k.ract \/ k.rready
    BY <1>1 DEF ArmRead, Same
  <1>2. CASE ~(k.ract \/ k.rready)
    <2> DEFINE a == [k EXCEPT !.ract = TRUE]
               e == Reports(a)
    <2>1. e \in BOOLEAN
      BY DEF Reports, Avail, Readable, Writable, Socket
    <2>2. j = [a EXCEPT !.edge = e]
      BY <1>2 DEF ArmRead
    <2>3. a \in Socket /\ Same(k, a)
      BY DEF Socket, Same
    <2> HIDE DEF a, e
    <2> QED  BY <2>1, <2>2, <2>3 DEF Same, Socket
  <1> QED  BY <1>1, <1>2

(* Registering the write event changes events only.                        *)
LEMMA ArmWriteSame ==
    ASSUME NEW k \in Socket, NEW j, j = ArmWrite(k)
    PROVE  Same(k, j)
  <1>1. CASE k.wact \/ k.wready
    BY <1>1 DEF ArmWrite, Same
  <1>2. CASE ~(k.wact \/ k.wready)
    <2> DEFINE a == [k EXCEPT !.wact = TRUE]
               e == a.edge \/ Reports(a)
    <2>1. e \in BOOLEAN
      BY DEF Reports, Avail, Readable, Writable, Socket
    <2>2. j = [a EXCEPT !.edge = e]
      BY <1>2 DEF ArmWrite
    <2>3. a \in Socket /\ Same(k, a)
      BY DEF Socket, Same
    <2> HIDE DEF a, e
    <2> QED  BY <2>1, <2>2, <2>3 DEF Same, Socket
  <1> QED  BY <1>1, <1>2

(* A report of epoll changes events only.                                  *)
LEMMA ReportSame ==
    ASSUME NEW k \in Socket, NEW j, j = Report(k)
    PROVE  Same(k, j)
  <1> DEFINE a == k.rready \/ (k.ract /\ Readable(k))
             b == k.rposted \/ (k.ract /\ Readable(k))
             c == k.wready \/ (k.wact /\ Writable(k))
             d == k.wposted \/ (k.wact /\ Writable(k))
  <1>1. a \in BOOLEAN /\ b \in BOOLEAN /\ c \in BOOLEAN /\ d \in BOOLEAN
    BY DEF Avail, Readable, Writable, Socket
  <1>2. j = [k EXCEPT !.edge = FALSE, !.rready = a, !.rposted = b, !.wready = c, !.wposted = d]
    BY DEF Report
  <1> HIDE DEF a, b, c, d
  <1> QED  BY <1>1, <1>2 DEF Same, Socket

(* A socket without events is the same socket, and has no timer.           *)
LEMMA QuietSame ==
    ASSUME NEW k \in Socket, NEW j, j = Quiet(k)
    PROVE  /\ j \in Socket /\ j.net = k.net /\ j.sent = k.sent /\ j.read = k.read
           /\ j.got = k.got
  BY DEF Quiet, Socket

(* A read takes at least a byte, not more than the peer sent and not more  *)
(* than the buffer holds.                                                  *)
LEMMA RecvTakes ==
    ASSUME NEW k \in Socket, NEW size \in Nat \ {0}, Avail(k) > 0, NEW j, j = Recv(k, size)
    PROVE  /\ j \in Socket /\ j.net = k.net /\ j.sent = k.sent /\ j.got = k.got
           /\ j.timer = k.timer /\ j.read > k.read /\ j.read <= j.sent
           /\ j.read - k.read <= size
  <1> DEFINE n == IF Avail(k) < size THEN Avail(k) ELSE size
             r == k.read + n
             d == k.rready /\ n = size
  <1>1. k.sent \in Nat /\ k.read \in Nat /\ k.rready \in BOOLEAN
    BY DEF Socket
  <1>2. n \in Nat /\ n > 0 /\ n <= size /\ n <= k.sent - k.read
    BY <1>1 DEF Avail
  <1>3. r \in Nat /\ r > k.read /\ r <= k.sent /\ r - k.read <= size
    BY <1>1, <1>2
  <1>4. d \in BOOLEAN
    BY <1>1
  <1>5. j = [k EXCEPT !.read = r, !.rready = d]
    BY DEF Recv
  <1> HIDE DEF n, r, d
  <1> QED  BY <1>3, <1>4, <1>5 DEF Socket

(* A part of what waits, behind what was sent already.                     *)
LEMMA SplitSeq ==
    ASSUME NEW u \in Seq(Nat), NEW s \in Seq(Nat), NEW n \in 0 .. Len(s)
    PROVE  /\ u \o SubSeq(s, 1, n) \in Seq(Nat) /\ SubSeq(s, n + 1, Len(s)) \in Seq(Nat)
           /\ (u \o SubSeq(s, 1, n)) \o SubSeq(s, n + 1, Len(s)) = u \o s
  <1>1. Len(s) \in Nat /\ \A i \in 1 .. Len(s) : s[i] \in Nat
    BY ElementOfSeq
  <1>2. SubSeq(s, 1, n) \in Seq(Nat) /\ SubSeq(s, n + 1, Len(s)) \in Seq(Nat)
    <2>1. \A i \in 1 .. n : s[i] \in Nat
      BY <1>1
    <2>2. \A i \in n + 1 .. Len(s) : s[i] \in Nat
      BY <1>1
    <2>3. n \in Int /\ n + 1 \in Int /\ Len(s) \in Int /\ 1 \in Int
      BY <1>1
    <2> QED  BY <2>1, <2>2, <2>3, SubSeqProperties
  <1>3. SubSeq(s, 1, n) \o SubSeq(s, n + 1, Len(s)) = SubSeq(s, 1, Len(s))
    <2>1. 1 \in 1 .. Len(s) + 1 /\ n \in 1 - 1 .. Len(s) /\ Len(s) \in n .. Len(s)
      BY <1>1
    <2> QED  BY <2>1, ConcatAdjacentSubSeq
  <1>4. SubSeq(s, 1, n) \o SubSeq(s, n + 1, Len(s)) = s
    BY <1>3, SubSeqFull
  <1> DEFINE p == SubSeq(s, 1, n)
             q == SubSeq(s, n + 1, Len(s))
  <1>5. p \in Seq(Nat) /\ q \in Seq(Nat) /\ p \o q = s
    BY <1>2, <1>4
  <1> HIDE DEF p, q
  <1>6. u \o p \in Seq(Nat)
    BY <1>5, ConcatProperties
  <1>7. (u \o p) \o q = u \o (p \o q)
    BY <1>5, JoinThree, Zenon
  <1> QED  BY <1>5, <1>6, <1>7 DEF p, q

\* What a flush of b to socket k comes to: nothing is lost or reordered.
FlushOk(k, b, r) ==
    /\ r.rc \in {"ok", "again", "error"}
    /\ r.rc # "error" =>
         /\ r.sk \in Socket /\ r.left \in Seq(Nat)
         /\ r.sk.net = k.net /\ r.sk.sent = k.sent /\ r.sk.read = k.read
         /\ r.sk.timer = k.timer /\ r.sk.got \o r.left = k.got \o b
    /\ r.rc = "ok" => r.left = <<>>

(* The socket takes the first n bytes of b.                                *)
LEMMA TookOk ==
    ASSUME NEW k \in Socket, NEW b \in Seq(Nat), NEW n \in 0 .. Len(b), NEW j, j = Took(k, b, n)
    PROVE  /\ j \in Socket /\ j.net = k.net /\ j.sent = k.sent /\ j.read = k.read
           /\ j.timer = k.timer /\ Rest(b, n) \in Seq(Nat) /\ j.got \o Rest(b, n) = k.got \o b
  <1> DEFINE u == k.got
             g == u \o SubSeq(b, 1, n)
  <1>1. u \in Seq(Nat)
    BY DEF Socket
  <1> HIDE DEF u
  <1>2. g \in Seq(Nat) /\ Rest(b, n) \in Seq(Nat) /\ g \o Rest(b, n) = u \o b
    BY <1>1, SplitSeq DEF Rest
  <1>3. j = [k EXCEPT !.got = g]
    BY DEF Took, u
  <1> HIDE DEF g
  <1>4. j \in Socket /\ j.got = g /\ j.net = k.net /\ j.sent = k.sent /\ j.read = k.read
        /\ j.timer = k.timer
    BY <1>2, <1>3 DEF Socket
  <1> QED  BY <1>2, <1>4 DEF u

(* ngx_anytls_fallback_flush_buf: in each of its outcomes what the socket  *)
(* was sent and what is left are what was there before, in order.          *)
LEMMA FlushBufOk ==
    ASSUME NEW k \in Socket, NEW b \in Seq(Nat), NEW r \in FlushBuf(k, b)
    PROVE  FlushOk(k, b, r)
  <1>0. Len(b) \in Nat
    OBVIOUS
  <1>1. CASE b = <<>>
    <2>1. r = [sk |-> k, left |-> b, rc |-> "ok"]
      BY <1>1 DEF FlushBuf
    <2> QED  BY <1>1, <2>1 DEF FlushOk
  <1>2. CASE b # <<>> /\ r \in SocketFull(k, b)
    <2>1. PICK n \in 0 .. Len(b) :
            r = [sk |-> ArmWrite([Took(k, b, n) EXCEPT !.full = TRUE, !.wready = FALSE]),
                 left |-> Rest(b, n), rc |-> "again"]
      <3>1. PICK n \in (IF k.full THEN {0} ELSE {m \in 1 .. WriteBudget : m < Len(b)}) :
              r = [sk |-> ArmWrite([Took(k, b, n) EXCEPT !.full = TRUE, !.wready = FALSE]),
                   left |-> Rest(b, n), rc |-> "again"]
        BY <1>2 DEF SocketFull
      <3>2. n \in 0 .. Len(b)
        BY <1>0, <3>1, RelayAssumption
      <3> QED  BY <3>1, <3>2
    <2> DEFINE t == Took(k, b, n)
               a == [t EXCEPT !.full = TRUE, !.wready = FALSE]
               j == ArmWrite(a)
    <2>2. /\ t \in Socket /\ t.net = k.net /\ t.sent = k.sent /\ t.read = k.read
          /\ t.timer = k.timer /\ Rest(b, n) \in Seq(Nat) /\ t.got \o Rest(b, n) = k.got \o b
      BY TookOk
    <2> HIDE DEF t
    <2>3. a \in Socket /\ Same(t, a)
      BY <2>2 DEF Socket, Same
    <2> HIDE DEF a
    <2>4. Same(a, j)
      BY <2>3, ArmWriteSame
    <2>5. r.sk = j /\ r.left = Rest(b, n) /\ r.rc = "again"
      BY <2>1 DEF j, a, t
    <2> HIDE DEF j
    <2> QED  BY <2>2, <2>3, <2>4, <2>5 DEF FlushOk, Same
  <1>3. CASE b # <<>> /\ r \in BudgetSpent(k, b)
    <2> DEFINE n == WriteBudget
               t == Took(k, b, n)
               a == [t EXCEPT !.wposted = TRUE]
               j == ArmWrite(a)
    <2>1. n \in 0 .. Len(b) /\ r = [sk |-> j, left |-> Rest(b, n), rc |-> "again"]
      BY <1>0, <1>3, RelayAssumption DEF BudgetSpent
    <2>2. /\ t \in Socket /\ t.net = k.net /\ t.sent = k.sent /\ t.read = k.read
          /\ t.timer = k.timer /\ Rest(b, n) \in Seq(Nat) /\ t.got \o Rest(b, n) = k.got \o b
      BY <2>1, TookOk
    <2> HIDE DEF t
    <2>3. a \in Socket /\ Same(t, a)
      BY <2>2 DEF Socket, Same
    <2> HIDE DEF a
    <2>4. Same(a, j)
      BY <2>3, ArmWriteSame
    <2> HIDE DEF j
    <2>5. r.sk = j /\ r.left = Rest(b, n) /\ r.rc = "again"
      BY <2>1
    <2> QED  BY <2>2, <2>3, <2>4, <2>5 DEF FlushOk, Same
  <1>4. CASE b # <<>> /\ r \in AllSent(k, b)
    <2> DEFINE n == Len(b)
               t == Took(k, b, n)
    <2>1. n \in 0 .. Len(b) /\ r = [sk |-> t, left |-> <<>>, rc |-> "ok"]
      BY <1>0, <1>4 DEF AllSent
    <2>2. /\ t \in Socket /\ t.net = k.net /\ t.sent = k.sent /\ t.read = k.read
          /\ t.timer = k.timer /\ Rest(b, n) \in Seq(Nat) /\ t.got \o Rest(b, n) = k.got \o b
      BY <2>1, TookOk
    <2>3. Rest(b, n) = <<>>
      BY <1>0, EmptySeq DEF Rest
    <2> HIDE DEF t
    <2>4. r.sk = t /\ r.left = <<>> /\ r.rc = "ok"
      BY <2>1
    <2> QED  BY <2>2, <2>3, <2>4 DEF FlushOk
  <1>5. CASE b # <<>> /\ r \in WriteFails(k, b)
    <2>1. r.rc = "error"
      BY <1>5 DEF WriteFails
    <2> QED  BY <2>1 DEF FlushOk
  <1> QED  BY <1>1, <1>2, <1>3, <1>4, <1>5 DEF FlushBuf

(* ngx_anytls_auth_process, called with less than the client has to show:  *)
(* it takes all of the read while it needs more and when the client falls  *)
(* back, and ends exactly behind the padding when the client is a user.    *)
LEMMA AuthProcessTakes ==
    ASSUME NEW p \in 0 .. MaxPadding, NEW match \in BOOLEAN, NEW len \in Nat,
           len < PrefixLen + (IF match THEN p ELSE 0), NEW n \in 1 .. MaxPadding + 1,
           NEW r, r = AuthProcess(len, n, match, p)
    PROVE  /\ r.result \in {"more", "ok", "fallback"} /\ r.len \in 0 .. AuthMax
           /\ r.result = "more" => /\ r.len = len + n
                                   /\ r.len < PrefixLen + (IF match THEN p ELSE 0)
           /\ r.result = "ok" => /\ match /\ len + r.consumed = PrefixLen + p
                                 /\ r.consumed \in 0 .. n
           /\ r.result = "fallback" => ~match /\ r.len = len + n
  <1> DEFINE head == IF len < PrefixLen THEN Least(n, PrefixLen - len) ELSE 0
             need == PrefixLen + p
             more == Least(n - head, (IF match THEN need ELSE AuthMax) - len - head)
             got  == IF len + head < PrefixLen THEN head ELSE head + more
             l == len + got
             res == CASE l < PrefixLen -> "more"
                      [] l >= PrefixLen /\ ~match -> "fallback"
                      [] match /\ l >= PrefixLen /\ l < need -> "more"
                      [] match /\ l >= need -> "ok"
  <1>1. r = [len |-> l, consumed |-> got, result |-> res]
    BY DEF AuthProcess
  <1> HIDE DEF l, got, res
  <1>2. r.len = l /\ r.consumed = got /\ r.result = res
    BY <1>1
  <1>3. PrefixLen \in Nat /\ MaxPadding \in Nat
    BY AuthAssumption
  <1> USE DEF l, got, res
  <1>4. got \in Nat /\ got <= n /\ l <= AuthMax /\ (match => l <= need)
        /\ (got = n \/ (match /\ l = need))
    <2>1. head \in Nat /\ head <= n /\ (len + head < PrefixLen => head = n)
          /\ (len < PrefixLen /\ ~(len + head < PrefixLen) => head = PrefixLen - len /\ head >= 1)
          /\ (len >= PrefixLen => head = 0 /\ match)
      BY <1>3 DEF Least
    <2> HIDE DEF head
    <2>2. CASE len + head < PrefixLen
      BY <1>3, <2>1, <2>2 DEF AuthMax
    <2>3. CASE ~(len + head < PrefixLen) /\ match
      BY <1>3, <2>1, <2>3 DEF AuthMax, Least
    <2>4. CASE ~(len + head < PrefixLen) /\ ~match
      BY <1>3, <2>1, <2>4 DEF AuthMax, Least
    <2> QED  BY <2>2, <2>3, <2>4
  <1> HIDE DEF head, more, got
  <1>5. l \in Nat /\ l \in 0 .. AuthMax
    BY <1>3, <1>4 DEF AuthMax
  <1>6. CASE l < PrefixLen
    <2>1. res = "more"
      BY <1>3, <1>5, <1>6
    <2> QED  BY <1>2, <1>3, <1>4, <1>5, <1>6, <2>1
  <1>7. CASE l >= PrefixLen /\ ~match
    <2>1. res = "fallback"
      BY <1>3, <1>5, <1>7
    <2> QED  BY <1>2, <1>3, <1>4, <1>5, <1>7, <2>1
  <1>8. CASE match /\ l >= PrefixLen /\ l < need
    <2>1. res = "more"
      BY <1>3, <1>5, <1>8
    <2> QED  BY <1>2, <1>3, <1>4, <1>5, <1>8, <2>1
  <1>9. CASE match /\ l >= need
    <2>1. res = "ok"
      BY <1>3, <1>5, <1>9
    <2>2. l = need
      BY <1>3, <1>4, <1>5, <1>9
    <2> QED  BY <1>2, <1>3, <1>4, <1>5, <1>9, <2>1, <2>2
  <1> QED  BY <1>3, <1>5, <1>6, <1>7, <1>8, <1>9

(* However far the request has arrived, what the handler decides is the    *)
(* answer to the whole of it, or to a request with a sound line.           *)
LEMMA IsHttpAsWhole ==
    ASSUME NEW q \in Request, NEW sent \in 0 .. Whole, NEW v, v = IsHttp(q, Seen(q, sent)),
           v # "again"
    PROVE  /\ v \in {"400", "405", "497"}
           /\ \/ v = HttpsPortAnswer(q)
              \/ q.line = "bad" /\ v = HttpsPortAnswer(Forgiven(q))
  <1> DEFINE n == Seen(q, sent)
             f == Forgiven(q)
  <1>1. /\ q.full \in {2, 3, 4, 5, 7} /\ q.method \in {"page", "notAllowed", "unknown"}
        /\ q.line \in {"sound", "bad"}
    BY DEF Request, Whole
  <1>2. n \in 0 .. 6 /\ n <= q.full
    BY <1>1 DEF Seen, Whole
  <1>f. /\ f.method = q.method /\ f.line = "sound" /\ f.full = q.full
        /\ Acceptable(f) = Acceptable(q)
    BY DEF Request, Forgiven, Acceptable
  <1> HIDE DEF n, f
  <1>3. v = IsHttp(q, n)
    BY DEF n
  <1>4. n >= 2
    BY <1>2, <1>3 DEF IsHttp, Whole
  <1>5. CASE q.method = "unknown"
    <2>1. v = "400"
      BY <1>2, <1>3, <1>4, <1>5 DEF IsHttp
    <2> QED  BY <1>5, <2>1 DEF HttpsPortAnswer
  <1>6. CASE q.method # "unknown" /\ n = 4 /\ q.version = "other"
    <2>1. v = "400"
      BY <1>2, <1>3, <1>4, <1>6 DEF IsHttp, Whole
    <2> QED  BY <1>6, <2>1 DEF HttpsPortAnswer, Acceptable
  <1>7. CASE q.method # "unknown" /\ n = 3 /\ q.line = "bad"
    <2>1. v = "400"
      BY <1>2, <1>3, <1>4, <1>7 DEF IsHttp, Whole
    <2> QED  BY <1>7, <2>1 DEF HttpsPortAnswer
  <1>8. CASE q.method # "unknown" /\ n = 6
    <2>1. v = IF ~Acceptable(q) THEN "400"
              ELSE IF q.method = "notAllowed" THEN "405" ELSE "497"
      BY <1>3, <1>8 DEF IsHttp, Whole
    <2>2. q.full = 7
      BY <1>1, <1>2, <1>8
    <2>3. q.line = "sound" => v = HttpsPortAnswer(q)
      BY <1>8, <2>1, <2>2 DEF HttpsPortAnswer, Whole
    <2>4. v = HttpsPortAnswer(f)
      BY <1>8, <1>f, <2>1, <2>2 DEF HttpsPortAnswer, Whole
    <2> QED  BY <1>1, <2>1, <2>3, <2>4 DEF f
  <1>9. CASE /\ q.method # "unknown" /\ n # 6
             /\ ~(n = 4 /\ q.version = "other") /\ ~(n = 3 /\ q.line = "bad")
    <2>1. v = "400" /\ n = q.full
      BY <1>2, <1>3, <1>4, <1>9 DEF IsHttp, Whole
    <2>2. q.full < 6
      BY <1>1, <1>2, <1>9, <2>1
    <2> QED  BY <1>1, <2>1, <2>2 DEF HttpsPortAnswer, Whole
  <1> QED  BY <1>5, <1>6, <1>7, <1>8, <1>9

(* Nothing was collected of a client that sent nothing.                    *)
LEMMA CollectedNone ==
    Collected(0) = <<>>
  <1>1. Collected(0) \in Seq(Nat) /\ Len(Collected(0)) = 0
    BY DEF Collected
  <1> QED  BY <1>1, EmptySeq

(* What is read next follows what was read before.                         *)
LEMMA CollectedGrows ==
    ASSUME NEW old \in Socket, NEW new \in Socket, new.read >= old.read
    PROVE  /\ Collected(old.read) \in Seq(Nat) /\ Between(old, new) \in Seq(Nat)
           /\ Collected(old.read) \o Between(old, new) = Collected(new.read)
  <1> DEFINE m == old.read
             n == new.read
             s == Collected(m)
             t == Between(old, new)
             u == Collected(n)
  <1>1. m \in Nat /\ n \in Nat /\ n >= m
    BY DEF Socket
  <1>2. s \in Seq(Nat) /\ Len(s) = m /\ \A i \in 1 .. m : s[i] = i
    BY <1>1 DEF Collected
  <1>3. t \in Seq(Nat) /\ Len(t) = n - m /\ \A i \in 1 .. n - m : t[i] = m + i
    BY <1>1 DEF Between
  <1>4. u \in Seq(Nat) /\ Len(u) = n /\ \A i \in 1 .. n : u[i] = i
    BY <1>1 DEF Collected
  <1> HIDE DEF m, n, s, t, u
  <1>5. s \o t \in Seq(Nat) /\ Len(s \o t) = n
        /\ \A i \in 1 .. n : (s \o t)[i] = IF i <= m THEN s[i] ELSE t[i - m]
    BY <1>1, <1>2, <1>3, ConcatProperties
  <1>6. \A i \in 1 .. n : (s \o t)[i] = u[i]
    BY <1>1, <1>2, <1>3, <1>4, <1>5
  <1>7. s \o t = u
    BY <1>4, <1>5, <1>6, SeqEqual
  <1> QED  BY <1>2, <1>3, <1>7 DEF m, n, s, t, u

(***************************************************************************)
(* Kinds of steps                                                          *)
(***************************************************************************)

(* Finalizing the sockets keeps all but their events.                      *)
LEMMA QuietAll ==
    ASSUME NEW s \in [Sides -> Socket], NEW t, t = [x \in Sides |-> Quiet(s[x])]
    PROVE  /\ t \in [Sides -> Socket]
           /\ \A x \in Sides : /\ t[x].net = s[x].net /\ t[x].sent = s[x].sent
                               /\ t[x].read = s[x].read /\ t[x].got = s[x].got
  BY QuietSame

(* ... and with them that nothing was read that was not sent.              *)
LEMMA QuietReads ==
    ASSUME NEW s \in [Sides -> Socket], \A x \in Sides : s[x].read <= s[x].sent,
           NEW t, t = [x \in Sides |-> Quiet(s[x])]
    PROVE  t \in [Sides -> Socket] /\ \A x \in Sides : t[x].read <= t[x].sent
  <1>1. t \in [Sides -> Socket] /\ \A x \in Sides : /\ t[x].sent = s[x].sent
                                                   /\ t[x].read = s[x].read
    BY QuietAll
  <1> QED  BY <1>1

(* A step that closes the connection: the answer and the side that ended   *)
(* the relay have to be right.                                             *)
LEMMA ClosedOk ==
    ASSUME GateInv, phase' = "closed", pc' = "idle", loops' = 0, sk' \in [Sides -> Socket],
           \A x \in Sides : sk'[x].read <= sk'[x].sent,
           UNCHANGED <<conf, who, frames>>, authLen' \in 0 .. AuthMax,
           connected' \in BOOLEAN, replay' \in Seq(Nat), buf' \in [Sides -> Seq(Nat)],
           answer' \in {"none", "400", "405", "497"}, AnswerAsWhole',
           ended' \in Sides \cup {"none"},
           ended' = "fallback" /\ sk'["fallback"].net = "up" =>
             sk'["client"].got = Collected(sk'["fallback"].sent)
    PROVE  GateInv'
  <1>1. TypeOK'
    BY GateAssumption DEF GateInv, TypeOK
  <1>2. LoopOk' /\ EndOk'
    BY DEF LoopOk, EndOk, Sides
  <1> QED  BY <1>1, <1>2 DEF GateInv, Early

(* A step that closes the connection and does nothing else.                *)
LEMMA FinalizeOk ==
    ASSUME GateInv, phase # "closed", NEW s \in [Sides -> Socket],
           \A x \in Sides : s[x].read <= s[x].sent,
           phase' = "closed", pc' = "idle", loops' = 0,
           sk' = [x \in Sides |-> Quiet(s[x])],
           UNCHANGED <<conf, who, frames, answer, ended>>, authLen' \in 0 .. AuthMax,
           connected' \in BOOLEAN, replay' \in Seq(Nat), buf' \in [Sides -> Seq(Nat)]
    PROVE  GateInv'
  <1>1. answer = "none" /\ ended = "none"
    BY DEF GateInv, EndOk
  <1>2. /\ sk' \in [Sides -> Socket]
        /\ \A x \in Sides : sk'[x].read <= sk'[x].sent
    BY QuietReads
  <1>3. AnswerAsWhole'
    BY <1>1 DEF AnswerAsWhole
  <1>4. answer' \in {"none", "400", "405", "497"} /\ ended' \in Sides \cup {"none"}
        /\ ended' # "fallback"
    BY <1>1
  <1> QED  BY <1>2, <1>3, <1>4, ClosedOk

\* The sockets change, but nothing is read or sent.
SocketsOnly ==
    /\ UNCHANGED <<conf, who, authLen, frames, answer, connected, replay, buf, ended>>
    /\ sk' \in [Sides -> Socket]
    /\ \A x \in Sides : /\ sk'[x].read = sk[x].read /\ sk'[x].got = sk[x].got
                        /\ sk'[x].sent >= sk[x].sent

(* A step that reads and sends nothing and stays in its phase.             *)
LEMMA SocketsOnlyOk ==
    ASSUME GateInv, SocketsOnly, phase' = phase, phase \notin {"closed", "session"},
           pc' \in {"idle", "auth"} \cup Sides, loops' \in 0 .. ReadLoops, LoopOk',
           phase \in {"peek", "tls"} =>
             sk'["client"].sent <= IF who.kind = "http" THEN Whole ELSE 1,
           phase # "fallback" =>
             sk'["fallback"].net = sk["fallback"].net /\ sk'["fallback"].sent = sk["fallback"].sent,
           phase = "fallback" => \A x \in Sides : sk'[x].timer = sk[x].timer
    PROVE  GateInv'
  <1> USE DEF SocketsOnly
  <1>1. TypeOK'
    BY DEF GateInv, TypeOK
  <1>2. who'.kind # "user" => who'.padding = 0
    BY DEF GateInv
  <1>3. \A x \in Sides : sk'[x].read <= sk'[x].sent
    BY DEF GateInv, TypeOK, Socket
  <1>4. phase \in Early => EarlyOk'
    BY DEF GateInv, EarlyOk, Early, Sides
  <1>5. phase \in {"peek", "tls"} => PeekOk'
    BY DEF GateInv, PeekOk, Sides
  <1>6. phase = "auth" => AuthOk'
    BY DEF GateInv, AuthOk, Sides
  <1>7. phase = "fallback" => RelayOk'
    BY DEF GateInv, RelayOk, Sides, InOrder, Collected
  <1>8. answer = "none" /\ ended = "none"
    BY DEF GateInv, EndOk
  <1>9. EndOk'
    BY <1>8 DEF EndOk, AnswerAsWhole
  <1> QED  BY <1>1, <1>2, <1>3, <1>4, <1>5, <1>6, <1>7, <1>9 DEF GateInv

(* A loop that goes on or ends keeps its place.                            *)
LEMMA LoopKept ==
    ASSUME GateInv, UNCHANGED <<phase, buf, replay>>, pc' = pc \/ pc' = "idle"
    PROVE  LoopOk'
  BY DEF GateInv, LoopOk, Sides

(***************************************************************************)
(* The peers and the kernel                                                *)
(***************************************************************************)

(* A socket that is replaced by one with other events, or of which the     *)
(* peer sent more.                                                         *)
LEMMA OneSocket ==
    ASSUME GateInv, NEW x \in Sides, NEW j \in Socket, sk' = [sk EXCEPT ![x] = j],
           UNCHANGED <<conf, who, authLen, frames, answer, connected, replay, buf, ended>>,
           j.read = sk[x].read, j.got = sk[x].got, j.sent >= sk[x].sent
    PROVE  /\ SocketsOnly /\ sk'[x] = j /\ \A y \in Sides : y # x => sk'[y] = sk[y]
           /\ \A y \in Sides : sk[y].sent \in Nat
  BY DEF SocketsOnly, GateInv, TypeOK, Socket

(* Bytes arrive.                                                           *)
LEMMA PeerSendsOk ==
    ASSUME GateInv, NEW x \in Sides, PeerSends(x)
    PROVE  GateInv'
  <1> DEFINE k == sk[x]
             n == k.sent + 1
             e == k.edge \/ k.ract
             j == [k EXCEPT !.sent = n, !.edge = e]
  <1>1. k \in Socket /\ sk \in [Sides -> Socket]
    BY DEF GateInv, TypeOK
  <1>2. n \in Nat /\ n > k.sent /\ e \in BOOLEAN
    BY <1>1 DEF Socket
  <1>3. sk' = [sk EXCEPT ![x] = j]
    BY <1>1 DEF PeerSends
  <1> HIDE DEF k, n, e
  <1>4. j \in Socket /\ j.sent = n /\ j.read = k.read /\ j.got = k.got /\ j.timer = k.timer
        /\ j.net = k.net
    BY <1>1, <1>2 DEF Socket
  <1> HIDE DEF j
  <1>5. SocketsOnly /\ sk'[x] = j /\ \A y \in Sides : y # x => sk'[y] = sk[y]
    <2>1. j.read = sk[x].read /\ j.got = sk[x].got /\ j.sent >= sk[x].sent
      BY <1>1, <1>2, <1>4 DEF k, Socket
    <2>2. UNCHANGED <<conf, who, authLen, frames, answer, connected, replay, buf, ended>>
      BY DEF PeerSends, gate, relay
    <2> QED  BY <1>3, <1>4, <2>1, <2>2, OneSocket
  <1>6. UNCHANGED <<phase, pc, loops>> /\ phase \notin {"closed", "session"}
        /\ UNCHANGED <<buf, replay>>
    BY DEF PeerSends, relay
  <1>7. pc' \in {"idle", "auth"} \cup Sides /\ loops' \in 0 .. ReadLoops
    BY <1>6 DEF GateInv, TypeOK
  <1>8. LoopOk'
    BY <1>6, LoopKept
  <1>9. phase # "fallback" => x = "client"
    BY <1>6 DEF PeerSends, GateInv, EarlyOk, Early, TypeOK, Sides
  <1>10. phase \in {"peek", "tls"} =>
             sk'["client"].sent <= IF who.kind = "http" THEN Whole ELSE 1
    <2> SUFFICES ASSUME phase \in {"peek", "tls"}
                 PROVE  n <= IF who.kind = "http" THEN Whole ELSE 1
      BY <1>4, <1>5, <1>9
    <2>1. MaySend("client")
      BY <1>9 DEF PeerSends
    <2>2. sk["client"].sent < IF who.kind = "http" THEN Whole ELSE 1
      BY <2>1 DEF MaySend
    <2> QED  BY <1>1, <1>9, <2>2 DEF n, k, Socket, Whole
  <1>11. phase # "fallback" =>
             sk'["fallback"].net = sk["fallback"].net /\ sk'["fallback"].sent = sk["fallback"].sent
    BY <1>5, <1>9 DEF Sides
  <1>12. \A y \in Sides : sk'[y].timer = sk[y].timer
    BY <1>4, <1>5 DEF k
  <1> QED  BY <1>5, <1>6, <1>7, <1>8, <1>10, <1>11, <1>12, SocketsOnlyOk

(* A step of the environment that changes events of a socket.              *)
LEMMA EventsOk ==
    ASSUME GateInv, NEW x \in Sides, NEW j, Same(sk[x], j), sk' = [sk EXCEPT ![x] = j],
           phase \notin {"closed", "session"},
           pc' = pc \/ pc' = "idle", loops' \in 0 .. ReadLoops,
           UNCHANGED <<conf, who, phase, authLen, frames, answer, connected, replay, buf, ended>>
    PROVE  GateInv'
  <1>1. j \in Socket /\ j.read = sk[x].read /\ j.got = sk[x].got /\ j.sent = sk[x].sent
        /\ j.net = sk[x].net /\ j.timer = sk[x].timer /\ sk[x].sent \in Nat
    BY DEF Same, GateInv, TypeOK, Socket
  <1>2. SocketsOnly /\ sk'[x] = j /\ \A y \in Sides : y # x => sk'[y] = sk[y]
    <2>1. j.sent >= sk[x].sent
      BY <1>1
    <2> QED  BY <1>1, <2>1, OneSocket
  <1>3. LoopOk'
    BY LoopKept
  <1>4. \A y \in Sides : sk'[y].timer = sk[y].timer /\ sk'[y].net = sk[y].net
                         /\ sk'[y].sent = sk[y].sent
    BY <1>1, <1>2
  <1>5. phase \in {"peek", "tls"} =>
             sk'["client"].sent <= IF who.kind = "http" THEN Whole ELSE 1
    BY <1>4 DEF GateInv, PeekOk, Sides
  <1>6. pc' \in {"idle", "auth"} \cup Sides
    BY DEF GateInv, TypeOK
  <1> QED  BY <1>2, <1>3, <1>4, <1>5, <1>6, SocketsOnlyOk DEF Sides

(* The peer closes its side.                                               *)
LEMMA PeerEndsOk ==
    ASSUME GateInv, NEW x \in Sides, PeerEnds(x)
    PROVE  GateInv'
  <1> DEFINE k == sk[x]
             e == k.edge \/ k.ract
             j == [k EXCEPT !.eof = TRUE, !.edge = e]
  <1>1. k \in Socket /\ sk \in [Sides -> Socket] /\ e \in BOOLEAN /\ loops \in 0 .. ReadLoops
    BY DEF GateInv, TypeOK, Socket
  <1>2. sk' = [sk EXCEPT ![x] = j]
    BY <1>1 DEF PeerEnds
  <1> HIDE DEF k, e
  <1>3. Same(k, j)
    BY <1>1 DEF Same, Socket
  <1> HIDE DEF j
  <1>4. Same(sk[x], j) /\ UNCHANGED <<conf, who, phase, authLen, frames, answer, connected,
                                      replay, buf, ended, pc, loops>>
        /\ phase \notin {"closed", "session"}
    BY <1>3 DEF k, PeerEnds, gate, relay
  <1> QED  BY <1>1, <1>2, <1>4, EventsOk

(* There is room in a send buffer again.                                   *)
LEMMA PeerReadsOk ==
    ASSUME GateInv, NEW x \in Sides, PeerReads(x)
    PROVE  GateInv'
  <1> DEFINE k == sk[x]
             e == k.edge \/ k.wact
             j == [k EXCEPT !.full = FALSE, !.edge = e]
  <1>1. k \in Socket /\ sk \in [Sides -> Socket] /\ e \in BOOLEAN /\ loops \in 0 .. ReadLoops
    BY DEF GateInv, TypeOK, Socket
  <1>2. sk' = [sk EXCEPT ![x] = j]
    BY <1>1 DEF PeerReads
  <1> HIDE DEF k, e
  <1>3. Same(k, j)
    BY <1>1 DEF Same, Socket
  <1> HIDE DEF j
  <1>4. Same(sk[x], j) /\ UNCHANGED <<conf, who, phase, authLen, frames, answer, connected,
                                      replay, buf, ended, pc, loops>>
        /\ phase \notin {"closed", "session"}
    BY <1>3 DEF k, PeerReads, gate, relay
  <1> QED  BY <1>1, <1>2, <1>4, EventsOk

(* epoll reports a socket.                                                 *)
LEMMA EpollReportOk ==
    ASSUME GateInv, NEW x \in Sides, EpollReport(x)
    PROVE  GateInv'
  <1> DEFINE j == Report(sk[x])
  <1>1. sk[x] \in Socket /\ sk \in [Sides -> Socket] /\ loops \in 0 .. ReadLoops
    BY DEF GateInv, TypeOK
  <1>2. sk' = [sk EXCEPT ![x] = j]
    BY <1>1 DEF EpollReport
  <1>3. Same(sk[x], j)
    BY <1>1, ReportSame
  <1> HIDE DEF j
  <1>4. UNCHANGED <<conf, who, phase, authLen, frames, answer, connected, replay, buf, ended,
                    pc, loops>>
        /\ phase \notin {"closed", "session"}
    BY DEF EpollReport, gate, relay, Idle
  <1> QED  BY <1>1, <1>2, <1>3, <1>4, EventsOk

(* The connect to the fallback ends.                                       *)
LEMMA ConnectEndsOk ==
    ASSUME GateInv, ConnectEnds
    PROVE  GateInv'
  <1>1. PICK n \in {"up", "err"} :
          sk' = [sk EXCEPT !["fallback"].net = n, !["fallback"].edge = TRUE]
    BY DEF ConnectEnds
  <1> DEFINE k == sk["fallback"]
             j == [k EXCEPT !.net = n, !.edge = TRUE]
  <1>2. k \in Socket /\ sk \in [Sides -> Socket] /\ loops \in 0 .. ReadLoops
        /\ "fallback" \in Sides
    BY DEF GateInv, TypeOK, Sides
  <1>3. sk' = [sk EXCEPT !["fallback"] = j]
    BY <1>1, <1>2
  <1> HIDE DEF k
  <1>4. j \in Socket /\ j.sent = k.sent /\ j.read = k.read /\ j.got = k.got /\ j.timer = k.timer
    BY <1>2 DEF Socket
  <1> HIDE DEF j
  <1>5. phase = "fallback" /\ UNCHANGED <<conf, who, phase, authLen, frames, answer, connected,
                                      replay, buf, ended, pc, loops>>
    BY DEF ConnectEnds, gate, relay
  <1>6. SocketsOnly /\ sk'["fallback"] = j /\ \A y \in Sides : y # "fallback" => sk'[y] = sk[y]
    <2>1. j.sent >= k.sent
      BY <1>2, <1>4 DEF Socket
    <2> QED  BY <1>2, <1>3, <1>4, <1>5, <2>1, OneSocket DEF k
  <1>7. \A y \in Sides : sk'[y].timer = sk[y].timer
    BY <1>4, <1>6 DEF k
  <1>8. LoopOk'
    BY <1>5, LoopKept
  <1>9. pc' \in {"idle", "auth"} \cup Sides /\ loops' \in 0 .. ReadLoops
    BY <1>5 DEF GateInv, TypeOK
  <1> QED  BY <1>5, <1>6, <1>7, <1>8, <1>9, SocketsOnlyOk

(***************************************************************************)
(* Before the client is authenticated                                      *)
(***************************************************************************)

(* ngx_anytls_reject_plain_http_handler: every outcome of a peek.          *)
LEMMA PeekHandlerOk ==
    ASSUME GateInv, PeekHandler
    PROVE  GateInv'
  <1> DEFINE k == sk["client"]
             verdict == IF k.sent = 0 THEN "again"
                        ELSE IF who.kind # "http" THEN "tls"
                        ELSE IsHttp(who.req, Seen(who.req, k.sent))
  <1>1. /\ phase = "peek" /\ pc = "idle"
        /\ UNCHANGED <<conf, who, authLen, frames, connected, replay, buf, ended>>
    BY DEF PeekHandler, Idle, gate, relay
  <1>2. /\ k \in Socket /\ sk \in [Sides -> Socket] /\ loops \in 0 .. ReadLoops
        /\ "client" \in Sides /\ authLen \in 0 .. AuthMax /\ connected \in BOOLEAN
        /\ replay \in Seq(Nat) /\ buf \in [Sides -> Seq(Nat)]
        /\ \A x \in Sides : sk[x].read <= sk[x].sent
    BY DEF GateInv, TypeOK, Sides
  <1>3. \/ /\ verdict = "again" /\ ~(k.sent = 0 /\ k.eof)
           /\ sk' = [sk EXCEPT !["client"] = Wait(@)]
           /\ UNCHANGED <<phase, pc, loops, answer>>
        \/ /\ k.sent = 0 /\ k.eof
           /\ Finalize(sk) /\ UNCHANGED answer
        \/ /\ verdict = "tls"
           /\ phase' = "tls"
           /\ sk' = [sk EXCEPT !["client"].timer = FALSE, !["client"].rposted = FALSE]
           /\ UNCHANGED <<pc, loops, answer>>
        \/ /\ verdict \notin {"again", "tls"}
           /\ answer' = verdict /\ Finalize(sk)
    BY DEF PeekHandler
  <1> HIDE DEF verdict
  <1>4. CASE /\ sk' = [sk EXCEPT !["client"] = Wait(@)]
             /\ UNCHANGED <<phase, pc, loops, answer>>
    <2> DEFINE a == [k EXCEPT !.rposted = FALSE, !.rready = FALSE, !.timer = TRUE]
               j == ArmRead(a)
    <2>1. a \in Socket /\ a.read = k.read /\ a.got = k.got /\ a.sent = k.sent /\ a.net = k.net
      BY <1>2 DEF Socket
    <2> HIDE DEF a
    <2>2. Same(a, j)
      BY <2>1, ArmReadSame
    <2>3. sk' = [sk EXCEPT !["client"] = j]
      BY <1>2, <1>4 DEF Wait, a
    <2> HIDE DEF j
    <2>4. SocketsOnly /\ sk'["client"] = j /\ \A y \in Sides : y # "client" => sk'[y] = sk[y]
      <3>1. j \in Socket /\ j.read = k.read /\ j.got = k.got /\ j.sent >= k.sent
        BY <1>2, <2>1, <2>2 DEF Same, Socket
      <3> QED  BY <1>1, <1>2, <1>4, <2>3, <3>1, OneSocket
    <2>5. sk'["client"].sent <= IF who.kind = "http" THEN Whole ELSE 1
      BY <1>1, <2>1, <2>2, <2>4 DEF GateInv, PeekOk, Same
    <2>6. sk'["fallback"] = sk["fallback"]
      BY <2>4 DEF Sides
    <2>7. LoopOk'
      BY <1>1, <1>4, LoopKept
    <2> QED  BY <1>1, <1>2, <1>4, <2>4, <2>5, <2>6, <2>7, SocketsOnlyOk
  <1>5. CASE Finalize(sk) /\ UNCHANGED answer
    BY <1>1, <1>2, <1>5, FinalizeOk DEF Finalize
  <1>6. CASE /\ verdict = "tls" /\ phase' = "tls"
             /\ sk' = [sk EXCEPT !["client"].timer = FALSE, !["client"].rposted = FALSE]
             /\ UNCHANGED <<pc, loops, answer>>
    <2> DEFINE j == [k EXCEPT !.timer = FALSE, !.rposted = FALSE]
    <2>1. j \in Socket /\ j.read = k.read /\ j.got = k.got /\ j.sent = k.sent
      BY <1>2 DEF Socket
    <2>2. sk' = [sk EXCEPT !["client"] = j]
      BY <1>2, <1>6
    <2> HIDE DEF j
    <2>3. SocketsOnly /\ sk'["client"] = j /\ \A y \in Sides : y # "client" => sk'[y] = sk[y]
      <3>1. j.sent >= k.sent
        BY <1>2, <2>1 DEF Socket
      <3> QED  BY <1>1, <1>2, <1>6, <2>1, <2>2, <3>1, OneSocket
    <2>4. TypeOK'
      BY <1>1, <1>6, <2>3 DEF SocketsOnly, GateInv, TypeOK
    <2>5. EarlyOk' /\ PeekOk'
      BY <1>1, <2>1, <2>3 DEF SocketsOnly, GateInv, EarlyOk, PeekOk, Early, Sides
    <2>6. LoopOk'
      BY <1>1, <1>6 DEF LoopOk, Sides
    <2>7. EndOk'
      BY <1>1, <1>6 DEF GateInv, EndOk, AnswerAsWhole
    <2>8. \A x \in Sides : sk'[x].read <= sk'[x].sent
      BY <1>2, <2>1, <2>3
    <2>9. who'.kind # "user" => who'.padding = 0
      BY <1>1 DEF GateInv
    <2> QED  BY <1>6, <2>4, <2>5, <2>6, <2>7, <2>8, <2>9 DEF GateInv, Early
  <1>7. CASE /\ verdict \notin {"again", "tls"}
             /\ answer' = verdict /\ Finalize(sk)
    <2>1. who.kind = "http" /\ verdict = IsHttp(who.req, Seen(who.req, k.sent))
      BY <1>7 DEF verdict
    <2>2. k.sent \in 0 .. Whole
      <3>1. PeekOk
        BY <1>1 DEF GateInv
      <3>2. k.sent <= Whole
        BY <2>1, <3>1 DEF PeekOk
      <3>3. k.sent \in Nat
        BY <1>2 DEF Socket
      <3> QED  BY <3>2, <3>3 DEF Whole
    <2>3. who.req \in Request
      BY GateAssumption DEF GateInv, TypeOK, Client
    <2>4. /\ verdict \in {"400", "405", "497"}
          /\ \/ verdict = HttpsPortAnswer(who.req)
             \/ who.req.line = "bad" /\ verdict = HttpsPortAnswer(Forgiven(who.req))
      BY <1>7, <2>1, <2>2, <2>3, IsHttpAsWhole
    <2>5. AnswerAsWhole'
      <3>1. /\ HttpsPortAnswer(who.req)' = HttpsPortAnswer(who.req)
            /\ HttpsPortAnswer(Forgiven(who.req))' = HttpsPortAnswer(Forgiven(who.req))
        BY <1>1 DEF HttpsPortAnswer, Acceptable, Forgiven
      <3>2. phase' = "closed" /\ who' = who
        BY <1>1, <1>7 DEF Finalize
      <3> QED  BY <1>7, <2>1, <2>4, <3>1, <3>2 DEF AnswerAsWhole
    <2>6. /\ sk' \in [Sides -> Socket]
          /\ \A x \in Sides : sk'[x].read <= sk'[x].sent
      <3>1. sk' = [x \in Sides |-> Quiet(sk[x])]
        BY <1>7 DEF Finalize
      <3> QED  BY <1>2, <3>1, QuietReads
    <2>7. ended' = "none"
      BY <1>1 DEF GateInv, EndOk
    <2>8. phase' = "closed" /\ pc' = "idle" /\ loops' = 0
      BY <1>7 DEF Finalize
    <2>9. answer' \in {"none", "400", "405", "497"}
      BY <1>7, <2>4
    <2> QED  BY <1>1, <1>2, <2>5, <2>6, <2>7, <2>8, <2>9, ClosedOk
  <1> QED  BY <1>3, <1>4, <1>5, <1>6, <1>7

(* The timers of the early phases and of the connect end the connection.   *)
LEMMA TimeoutOk ==
    ASSUME GateInv, Timeout
    PROVE  GateInv'
  <1>1. /\ phase # "closed" /\ Finalize(sk)
        /\ UNCHANGED <<conf, who, authLen, frames, answer, connected, replay, buf, ended>>
    BY DEF Timeout, PeekTimeout, AuthTimeout, ConnectTimeout, Idle, gate, relay
  <1>2. /\ sk \in [Sides -> Socket] /\ authLen \in 0 .. AuthMax /\ connected \in BOOLEAN
        /\ replay \in Seq(Nat) /\ buf \in [Sides -> Seq(Nat)]
        /\ \A x \in Sides : sk[x].read <= sk[x].sent
    BY DEF GateInv, TypeOK
  <1> QED  BY <1>1, <1>2, FinalizeOk DEF Finalize

(* The handshake ends: authentication starts with no byte of TLS payload   *)
(* seen.                                                                   *)
LEMMA TlsEndsOk ==
    ASSUME GateInv, TlsEnds
    PROVE  GateInv'
  <1> DEFINE k == sk["client"]
             j == [k EXCEPT !.sent = 0, !.ract = TRUE, !.rready = TRUE,
                            !.edge = FALSE, !.rposted = TRUE, !.timer = TRUE]
  <1>1. /\ phase = "tls" /\ pc = "idle"
        /\ UNCHANGED <<conf, who, authLen, frames, answer, connected, replay, buf, ended>>
    BY DEF TlsEnds, Idle, gate, relay
  <1>2. /\ k \in Socket /\ sk \in [Sides -> Socket]
        /\ "client" \in Sides /\ authLen \in 0 .. AuthMax /\ connected \in BOOLEAN
        /\ replay \in Seq(Nat) /\ buf \in [Sides -> Seq(Nat)]
        /\ \A x \in Sides : sk[x].read <= sk[x].sent
    BY DEF GateInv, TypeOK, Sides
  <1>3. CASE Finalize(sk)
    BY <1>1, <1>2, <1>3, FinalizeOk DEF Finalize
  <1>4. CASE /\ who.kind # "http" /\ phase' = "auth" /\ sk' = [sk EXCEPT !["client"] = j]
             /\ UNCHANGED <<pc, loops>>
    <2>1. j \in Socket /\ j.read = k.read /\ j.got = k.got /\ j.sent = 0
      BY <1>2 DEF Socket
    <2> HIDE DEF j
    <2>2. sk' \in [Sides -> Socket] /\ sk'["client"] = j /\ sk'["fallback"] = sk["fallback"]
      BY <1>2, <1>4, <2>1 DEF Sides
    <2>3. k.read = 0 /\ authLen = 0
      BY <1>1 DEF GateInv, PeekOk
    <2>4. TypeOK'
      BY <1>1, <1>4, <2>2 DEF GateInv, TypeOK
    <2>5. EarlyOk'
      BY <1>1, <2>1, <2>2 DEF GateInv, EarlyOk, Early, Sides
    <2>6. AuthOk'
      <3>1. who.padding \in Nat
        BY AuthAssumption DEF GateInv, TypeOK, Client
      <3> QED  BY <1>1, <1>4, <2>1, <2>2, <2>3, <3>1, AuthAssumption DEF AuthOk
    <2>7. LoopOk'
      BY <1>1, <1>4 DEF LoopOk, Sides
    <2>8. EndOk'
      BY <1>1, <1>4 DEF GateInv, EndOk, AnswerAsWhole
    <2>9. \A x \in Sides : sk'[x].read <= sk'[x].sent
      BY <1>2, <2>1, <2>2, <2>3 DEF Sides
    <2>10. who'.kind # "user" => who'.padding = 0
      BY <1>1 DEF GateInv
    <2> QED  BY <1>4, <2>4, <2>5, <2>6, <2>7, <2>8, <2>9, <2>10 DEF GateInv, Early
  <1> QED  BY <1>3, <1>4 DEF TlsEnds

(* The read handler starts its loop.                                       *)
LEMMA AuthEventOk ==
    ASSUME GateInv, AuthEvent
    PROVE  GateInv'
  <1> DEFINE k == sk["client"]
             j == [k EXCEPT !.rposted = FALSE]
  <1>1. /\ phase = "auth" /\ pc' = "auth" /\ loops' = 0
        /\ UNCHANGED <<conf, who, phase, authLen, frames, answer, connected, replay, buf, ended>>
    BY DEF AuthEvent, gate, relay
  <1>2. k \in Socket /\ sk \in [Sides -> Socket] /\ "client" \in Sides
    BY DEF GateInv, TypeOK, Sides
  <1>3. sk' = [sk EXCEPT !["client"] = j]
    BY <1>2 DEF AuthEvent
  <1>4. j \in Socket /\ j.read = k.read /\ j.got = k.got /\ j.sent = k.sent /\ k.sent \in Nat
    BY <1>2 DEF Socket
  <1> HIDE DEF j
  <1>5. SocketsOnly /\ sk'["client"] = j /\ \A y \in Sides : y # "client" => sk'[y] = sk[y]
    <2>1. j.sent >= k.sent
      BY <1>4
    <2> QED  BY <1>1, <1>2, <1>3, <1>4, <2>1, OneSocket
  <1>6. LoopOk'
    BY <1>1 DEF LoopOk, Sides
  <1>7. 0 \in 0 .. ReadLoops
    BY GateAssumption
  <1>8. sk'["fallback"] = sk["fallback"]
    BY <1>5 DEF Sides
  <1> QED  BY <1>1, <1>5, <1>6, <1>7, <1>8, SocketsOnlyOk

(* The read loop of authentication ends.                                   *)
LEMMA AuthDoneOk ==
    ASSUME GateInv, AuthDone
    PROVE  GateInv'
  <1> DEFINE k == sk["client"]
  <1>1. /\ pc = "auth" /\ phase = "auth"
        /\ UNCHANGED <<conf, who, authLen, frames, answer, connected, replay, buf, ended>>
    BY DEF AuthDone, gate, relay, GateInv, LoopOk
  <1>2. /\ k \in Socket /\ sk \in [Sides -> Socket]
        /\ "client" \in Sides /\ authLen \in 0 .. AuthMax /\ connected \in BOOLEAN
        /\ replay \in Seq(Nat) /\ buf \in [Sides -> Seq(Nat)]
        /\ \A x \in Sides : sk[x].read <= sk[x].sent
    BY DEF GateInv, TypeOK, Sides
  <1>3. 0 \in 0 .. ReadLoops
    BY GateAssumption
  <1>4. CASE Finalize(sk)
    BY <1>1, <1>2, <1>4, FinalizeOk DEF Finalize
  <1>5. CASE /\ sk' = [sk EXCEPT !["client"] = ArmRead([@ EXCEPT !.rready = FALSE])]
             /\ pc' = "idle" /\ loops' = 0 /\ UNCHANGED phase
    <2> DEFINE a == [k EXCEPT !.rready = FALSE]
               j == ArmRead(a)
    <2>1. a \in Socket /\ Same(k, a)
      BY <1>2 DEF Socket, Same
    <2> HIDE DEF a
    <2>2. Same(a, j)
      BY <2>1, ArmReadSame
    <2>3. sk' = [sk EXCEPT !["client"] = j]
      BY <1>2, <1>5 DEF a
    <2> HIDE DEF j
    <2>4. Same(k, j)
      BY <2>1, <2>2 DEF Same
    <2> QED  BY <1>1, <1>2, <1>3, <1>5, <2>3, <2>4, EventsOk
  <1>6. CASE /\ sk' = [sk EXCEPT !["client"] = [ArmRead(@) EXCEPT !.rposted = TRUE]]
             /\ pc' = "idle" /\ loops' = 0 /\ UNCHANGED phase
    <2> DEFINE a == ArmRead(k)
               j == [a EXCEPT !.rposted = TRUE]
    <2>1. Same(k, a)
      BY <1>2, ArmReadSame
    <2>2. sk' = [sk EXCEPT !["client"] = j]
      BY <1>2, <1>6
    <2> HIDE DEF a
    <2>3. Same(k, j)
      BY <2>1 DEF Same, Socket
    <2> HIDE DEF j
    <2> QED  BY <1>1, <1>2, <1>3, <1>6, <2>2, <2>3, EventsOk
  <1> QED  BY <1>4, <1>5, <1>6 DEF AuthDone

(* A step of a relay that goes on.                                         *)
LEMMA RelayStepOk ==
    ASSUME GateInv, phase' = "fallback", phase # "closed", sk' \in [Sides -> Socket],
           \A x \in Sides : sk'[x].read <= sk'[x].sent,
           UNCHANGED <<conf, who, frames, answer, ended>>, authLen' \in 0 .. AuthMax,
           connected' \in BOOLEAN, replay' \in Seq(Nat), buf' \in [Sides -> Seq(Nat)],
           pc' \in {"idle", "auth"} \cup Sides, loops' \in 0 .. ReadLoops, LoopOk', RelayOk'
    PROVE  GateInv'
  <1>1. TypeOK'
    BY DEF GateInv, TypeOK
  <1>2. EndOk'
    BY DEF GateInv, EndOk, AnswerAsWhole
  <1>3. who'.kind # "user" => who'.padding = 0
    BY DEF GateInv
  <1> QED  BY <1>1, <1>2, <1>3 DEF GateInv, Early

(* A relay starts: the connect is under way or done, and all that was read *)
(* of the client waits to be replayed.                                     *)
LEMMA FallbackStartOk ==
    ASSUME GateInv, phase = "auth", NEW k \in Socket, k.read <= k.sent,
           k.got = <<>>, NEW c \in {Connecting, ConnectedAtOnce},
           sk' = [[sk EXCEPT !["client"] = [k EXCEPT !.timer = FALSE]]
                      EXCEPT !["fallback"] = [c EXCEPT !.wposted = TRUE]],
           connected' = (c.net = "up"), replay' \in Replays(k.read),
           phase' = "fallback", pc' = "idle", loops' = 0, UNCHANGED buf,
           UNCHANGED <<conf, who, frames, answer, ended>>, authLen' \in 0 .. AuthMax
    PROVE  GateInv'
  <1> DEFINE h == [k EXCEPT !.timer = FALSE]
             j == [c EXCEPT !.wposted = TRUE]
             n == k.read
             e == c.net = "up"
  <1>1. h \in Socket /\ h.read = n /\ h.sent = k.sent /\ h.got = <<>> /\ ~h.timer /\ n \in Nat
    BY DEF Socket
  <1>2. <<>> \in Seq(Nat)
    OBVIOUS
  <1>3. /\ j \in Socket /\ j.read = 0 /\ j.sent = 0 /\ j.got = <<>> /\ j.timer = ~e
        /\ e \in BOOLEAN
    <2>1. /\ NoSocket \in Socket /\ NoSocket.read = 0 /\ NoSocket.sent = 0
          /\ NoSocket.got = <<>> /\ NoSocket.timer = FALSE
      BY <1>2 DEF NoSocket, Socket
    <2>2. CASE c = Connecting
      <3>1. c \in Socket /\ c.read = 0 /\ c.sent = 0 /\ c.got = <<>> /\ c.timer = TRUE
            /\ c.net = "syn"
        BY <2>1, <2>2 DEF Connecting, Socket
      <3> QED  BY <3>1 DEF Socket
    <2>3. CASE c = ConnectedAtOnce
      <3>1. c \in Socket /\ c.read = 0 /\ c.sent = 0 /\ c.got = <<>> /\ c.timer = FALSE
            /\ c.net = "up"
        BY <2>1, <2>3 DEF ConnectedAtOnce, Socket
      <3> QED  BY <3>1 DEF Socket
    <2> QED  BY <2>2, <2>3
  <1>4. sk \in [Sides -> Socket] /\ buf \in [Sides -> Seq(Nat)]
    BY DEF GateInv, TypeOK
  <1>5. sk' = [[sk EXCEPT !["client"] = h] EXCEPT !["fallback"] = j] /\ connected' = e
    OBVIOUS
  <1> HIDE DEF h, j, e
  <1>6. sk' \in [Sides -> Socket] /\ sk'["client"] = h /\ sk'["fallback"] = j
    BY <1>1, <1>3, <1>4, <1>5 DEF Sides
  <1>7. \A x \in Sides : sk'[x].read <= sk'[x].sent
    <2>1. h.read <= h.sent /\ j.read <= j.sent
      BY <1>1, <1>3
    <2> QED  BY <1>6, <2>1 DEF Sides
  <1>8. Collected(n) \in Seq(Nat)
    BY <1>1 DEF Collected
  <1>9. replay' \in Seq(Nat) /\ InOrder(replay', n)
    <2>1. replay' = Collected(n) \/ (conf.proxy /\ replay' = <<0>> \o Collected(n))
      BY DEF Replays
    <2>2. <<0>> \o Collected(n) \in Seq(Nat)
      BY <1>8, ConcatProperties
    <2> QED  BY <1>8, <2>1, <2>2 DEF InOrder
  <1>10. buf'["client"] = <<>> /\ buf'["fallback"] = <<>>
    BY DEF GateInv, EarlyOk, Early, Sides
  <1>11. RelayOk'
    <2>1. (sk'["fallback"].got \o replay') \o buf'["client"] = replay'
      BY <1>3, <1>6, <1>9, <1>10, JoinNone
    <2>2. InOrder((sk["fallback"].got \o replay) \o buf["client"], sk["client"].read)'
      BY <1>1, <1>6, <1>9, <2>1 DEF InOrder, Collected
    <2>3. sk'["client"].got \o buf'["fallback"] = <<>>
      BY <1>1, <1>6, <1>10
    <2>4. sk'["client"].got \o buf'["fallback"] = Collected(sk'["fallback"].read)
      BY <1>3, <1>6, <2>3, CollectedNone
    <2>5. (sk["client"].got \o buf["fallback"] = Collected(sk["fallback"].read))'
      BY <2>4 DEF Collected
    <2>6. ~sk'["client"].timer /\ sk'["fallback"].timer = ~connected'
      BY <1>1, <1>3, <1>5, <1>6
    <2> QED  BY <2>2, <2>5, <2>6 DEF RelayOk
  <1>12. LoopOk'
    BY DEF LoopOk, Sides
  <1>13. 0 \in 0 .. ReadLoops
    BY GateAssumption
  <1> QED  BY <1>3, <1>4, <1>5, <1>6, <1>7, <1>9, <1>11, <1>12, <1>13, RelayStepOk

(* One read of authentication and what auth_process makes of it.           *)
LEMMA AuthBytesOk ==
    ASSUME GateInv, AuthBytes
    PROVE  GateInv'
  <1> DEFINE c == sk["client"]
             k == Recv(c, ReadSize)
             s == [sk EXCEPT !["client"] = k]
             n == k.read - c.read
             match == who.kind = "user"
             p == who.padding
             r == AuthProcess(authLen, n, match, p)
  <1>1. /\ pc = "auth" /\ phase = "auth" /\ Avail(c) > 0 /\ loops < ReadLoops
        /\ UNCHANGED <<conf, who, ended>> /\ authLen' = r.len
    BY DEF AuthBytes, gate, GateInv, LoopOk, MoreLoops
  <1>2. /\ c \in Socket /\ sk \in [Sides -> Socket] /\ loops \in 0 .. ReadLoops
        /\ "client" \in Sides /\ authLen \in 0 .. AuthMax /\ connected \in BOOLEAN
        /\ replay \in Seq(Nat) /\ buf \in [Sides -> Seq(Nat)]
        /\ \A x \in Sides : sk[x].read <= sk[x].sent
    BY DEF GateInv, TypeOK, Sides
  <1>3. /\ p \in 0 .. MaxPadding /\ match \in BOOLEAN /\ (~match => p = 0)
        /\ ReadSize \in 1 .. MaxPadding + 1 /\ ReadSize \in Nat \ {0}
        /\ PrefixLen \in Nat /\ MaxPadding \in Nat
    BY AuthAssumption, GateAssumption DEF GateInv, TypeOK, Client
  <1>4. /\ k \in Socket /\ k.net = c.net /\ k.sent = c.sent /\ k.got = c.got
        /\ k.timer = c.timer /\ k.read > c.read /\ k.read <= k.sent
        /\ n <= ReadSize
    BY <1>1, <1>2, <1>3, RecvTakes
  <1>5. c.read \in Nat /\ k.read \in Nat /\ c.got = <<>> /\ authLen = c.read
        /\ authLen < PrefixLen + p /\ who.kind # "http" /\ who.kind \in {"user", "stranger"}
    BY <1>1, <1>2, <1>4 DEF GateInv, AuthOk, EarlyOk, Early, Socket, Sides, TypeOK, Client
  <1> DEFINE outcome ==
           \/ /\ r.result = "more"
              /\ sk' = s /\ loops' = loops + 1
              /\ UNCHANGED <<phase, frames, answer, relay, pc>>
           \/ /\ r.result = "ok"
              /\ phase' = "session" /\ frames' = c.read + r.consumed + 1
              /\ sk' = AuthOver(s) /\ pc' = "idle" /\ loops' = 0
              /\ UNCHANGED <<answer, relay>>
           \/ /\ r.result = "fallback" /\ conf.fallback
              /\ FallbackStart(AuthOver(s), r.len)
              /\ UNCHANGED <<frames, answer>>
           \/ /\ r.result = "fallback" /\ ~conf.fallback
              /\ answer' = "400" /\ Finalize(s)
              /\ UNCHANGED <<frames, relay>>
  <1>7. outcome
    BY DEF AuthBytes
  <1> HIDE DEF k
  <1>8. n \in 1 .. MaxPadding + 1 /\ k.read = c.read + n
    BY <1>3, <1>4, <1>5
  <1>9. /\ r.result \in {"more", "ok", "fallback"} /\ r.len \in 0 .. AuthMax
        /\ r.result = "more" => /\ r.len = authLen + n
                                /\ r.len < PrefixLen + (IF match THEN p ELSE 0)
        /\ r.result = "ok" => /\ match /\ authLen + r.consumed = PrefixLen + p
                              /\ r.consumed \in 0 .. n
        /\ r.result = "fallback" => ~match /\ r.len = authLen + n
    <2> HIDE DEF n, match, p
    <2>1. authLen < PrefixLen + (IF match THEN p ELSE 0) /\ authLen \in Nat
      BY <1>3, <1>5
    <2> QED  BY <1>3, <1>8, <2>1, AuthProcessTakes
  <1> HIDE DEF r
  <1>10. s \in [Sides -> Socket] /\ s["client"] = k /\ s["fallback"] = sk["fallback"]
         /\ \A x \in Sides : s[x].read <= s[x].sent
    BY <1>2, <1>4 DEF Sides
  <1>11. AuthOver(s) = [sk EXCEPT !["client"] = [k EXCEPT !.timer = FALSE]]
    BY <1>2 DEF AuthOver
  <1> HIDE DEF s
  <1>12. CASE /\ r.result = "more"
              /\ sk' = s /\ loops' = loops + 1
              /\ UNCHANGED <<phase, frames, answer, relay, pc>>
    <2>0. UNCHANGED <<frames, answer, connected, replay, buf>>
      BY <1>12 DEF relay
    <2>1. TypeOK'
      <3>1. loops' \in 0 .. ReadLoops
        BY <1>1, <1>2, <1>12, GateAssumption
      <3> QED  BY <1>1, <1>9, <1>10, <1>12, <2>0, <3>1 DEF GateInv, TypeOK
    <2>2. EarlyOk'
      BY <1>1, <1>4, <1>5, <1>10, <1>12, <2>0 DEF GateInv, EarlyOk, Early, Sides
    <2>3. AuthOk'
      BY <1>1, <1>3, <1>5, <1>8, <1>9, <1>10, <1>12 DEF AuthOk
    <2>4. LoopOk'
      BY <1>1, <1>12 DEF LoopOk, Sides
    <2>5. EndOk'
      BY <1>1, <1>12, <2>0 DEF GateInv, EndOk, AnswerAsWhole
    <2>6. who'.kind # "user" => who'.padding = 0
      BY <1>1 DEF GateInv
    <2> QED  BY <1>1, <1>10, <1>12, <2>1, <2>2, <2>3, <2>4, <2>5, <2>6 DEF GateInv, Early
  <1>13. CASE /\ r.result = "ok"
              /\ phase' = "session" /\ frames' = c.read + r.consumed + 1
              /\ sk' = AuthOver(s) /\ pc' = "idle" /\ loops' = 0
              /\ UNCHANGED <<answer, relay>>
    <2> DEFINE h == [k EXCEPT !.timer = FALSE]
    <2>0. UNCHANGED <<answer, connected, replay, buf>>
      BY <1>13 DEF relay
    <2>1. h \in Socket /\ h.read = k.read /\ h.sent = k.sent /\ ~h.timer
      BY <1>4 DEF Socket
    <2> HIDE DEF h
    <2>2. sk' \in [Sides -> Socket] /\ sk'["client"] = h /\ sk'["fallback"] = sk["fallback"]
      BY <1>2, <1>11, <1>13, <2>1 DEF h, Sides
    <2>3. frames' = PrefixLen + p + 1 /\ frames' <= k.read + 1 /\ frames' \in Nat
      <3>1. frames' = (authLen + r.consumed) + 1
        BY <1>5, <1>13
      <3>2. authLen + r.consumed = PrefixLen + p /\ match
        BY <1>9, <1>13
      <3>3. frames' = PrefixLen + p + 1 /\ frames' \in Nat
        BY <1>3, <3>1, <3>2
      <3>4. r.consumed \in 0 .. n
        BY <1>9, <1>13
      <3> HIDE DEF n
      <3>5. authLen + r.consumed + 1 <= k.read + 1
        BY <1>5, <1>8, <3>4
      <3> QED  BY <1>5, <1>13, <3>3, <3>5
    <2>4. HandsOverClean'
      BY <1>1, <1>9, <1>13, <2>1, <2>2, <2>3 DEF HandsOverClean
    <2>5. TypeOK'
      <3>1. 0 \in 0 .. ReadLoops
        BY GateAssumption
      <3> QED  BY <1>1, <1>9, <1>13, <2>0, <2>2, <2>3, <3>1 DEF GateInv, TypeOK
    <2>6. LoopOk'
      BY <1>13 DEF LoopOk, Sides
    <2>7. EndOk'
      BY <1>1, <1>13, <2>0 DEF GateInv, EndOk, AnswerAsWhole
    <2>8. who'.kind # "user" => who'.padding = 0
      BY <1>1 DEF GateInv
    <2>9. \A x \in Sides : sk'[x].read <= sk'[x].sent
      BY <1>2, <1>4, <2>1, <2>2 DEF Sides
    <2> QED  BY <1>13, <2>4, <2>5, <2>6, <2>7, <2>8, <2>9 DEF GateInv, Early
  <1>14. CASE /\ r.result = "fallback" /\ conf.fallback
              /\ FallbackStart(AuthOver(s), r.len)
              /\ UNCHANGED <<frames, answer>>
    <2>0. r.len = k.read
      BY <1>5, <1>8, <1>9, <1>14
    <2>1. CASE Finalize(AuthOver(s)) /\ UNCHANGED relay
      <3> DEFINE t == AuthOver(s)
                 h == [k EXCEPT !.timer = FALSE]
      <3>1. h \in Socket /\ h.read = k.read /\ h.sent = k.sent
        BY <1>4 DEF Socket
      <3>2. t = [sk EXCEPT !["client"] = h]
        BY <1>11
      <3> HIDE DEF t, h
      <3>3. t \in [Sides -> Socket] /\ \A x \in Sides : t[x].read <= t[x].sent
        BY <1>2, <1>4, <3>1, <3>2 DEF Sides
      <3>4. /\ phase' = "closed" /\ pc' = "idle" /\ loops' = 0
            /\ sk' = [x \in Sides |-> Quiet(t[x])]
        BY <2>1 DEF t, Finalize
      <3>5. UNCHANGED <<connected, replay, buf, frames, answer>>
        BY <1>14, <2>1 DEF relay
      <3> QED  BY <1>1, <1>2, <1>9, <3>3, <3>4, <3>5, FinalizeOk
    <2>2. ASSUME NEW d \in {Connecting, ConnectedAtOnce},
                 sk' = [AuthOver(s) EXCEPT !["fallback"] = [d EXCEPT !.wposted = TRUE]],
                 connected' = (d.net = "up"), replay' \in Replays(r.len),
                 phase' = "fallback", pc' = "idle", loops' = 0, UNCHANGED buf
          PROVE  GateInv'
      <3>1. sk' = [[sk EXCEPT !["client"] = [k EXCEPT !.timer = FALSE]]
                      EXCEPT !["fallback"] = [d EXCEPT !.wposted = TRUE]]
        BY <1>11, <2>2
      <3>2. replay' \in Replays(k.read) /\ k.got = <<>>
        BY <1>4, <1>5, <2>0, <2>2
      <3>3. UNCHANGED <<conf, who, frames, answer, ended>> /\ authLen' \in 0 .. AuthMax
        BY <1>1, <1>9, <1>14
      <3> QED  BY <1>1, <1>4, <2>2, <3>1, <3>2, <3>3, FallbackStartOk
    <2> QED  BY <1>14, <2>1, <2>2 DEF FallbackStart
  <1>15. CASE /\ r.result = "fallback" /\ ~conf.fallback
              /\ answer' = "400" /\ Finalize(s)
              /\ UNCHANGED <<frames, relay>>
    <2>1. who.kind = "stranger"
      BY <1>5, <1>9, <1>15
    <2>2. AnswerAsWhole'
      BY <1>1, <1>15, <2>1 DEF AnswerAsWhole
    <2>3. /\ sk' \in [Sides -> Socket]
          /\ \A x \in Sides : sk'[x].read <= sk'[x].sent
      <3>1. sk' = [x \in Sides |-> Quiet(s[x])]
        BY <1>15 DEF Finalize
      <3> QED  BY <1>10, <3>1, QuietReads
    <2>4. ended' = "none"
      BY <1>1 DEF GateInv, EndOk
    <2>5. phase' = "closed" /\ pc' = "idle" /\ loops' = 0
          /\ UNCHANGED <<connected, replay, buf, frames>>
      BY <1>15 DEF Finalize, relay
    <2>6. answer' \in {"none", "400", "405", "497"}
      BY <1>15
    <2> QED  BY <1>1, <1>2, <1>9, <2>2, <2>3, <2>4, <2>5, <2>6, ClosedOk
  <1> QED  BY <1>7, <1>12, <1>13, <1>14, <1>15

(***************************************************************************)
(* The relay                                                               *)
(***************************************************************************)

(* A step of a relay that changes events only.                             *)
LEMMA RelayEventsOk ==
    ASSUME GateInv, phase = "fallback", sk' \in [Sides -> Socket],
           \A y \in Sides : Same(sk[y], sk'[y]),
           pc' \in {"idle", "auth"} \cup Sides, loops' \in 0 .. ReadLoops, LoopOk',
           UNCHANGED <<conf, who, phase, authLen, frames, answer, connected, replay, buf, ended>>
    PROVE  GateInv'
  <1>1. \A y \in Sides : sk[y].sent \in Nat
    BY DEF GateInv, TypeOK, Socket
  <1>2. SocketsOnly
    BY <1>1 DEF SocketsOnly, Same
  <1>3. \A y \in Sides : sk'[y].timer = sk[y].timer
    BY DEF Same
  <1> QED  BY <1>2, <1>3, SocketsOnlyOk

(* What was read of the client is flushed to the fallback.                 *)
LEMMA ToFallback ==
    ASSUME GateInv, phase = "fallback", replay = <<>>, NEW s \in [Sides -> Socket],
           s["client"].timer = sk["client"].timer, s["client"].got = sk["client"].got,
           s["fallback"] = sk["fallback"], NEW b \in Seq(Nat),
           InOrder(sk["fallback"].got \o b, s["client"].read),
           NEW r, FlushOk(s["fallback"], b, r), r.rc # "error",
           sk' = [s EXCEPT !["fallback"] = r.sk], buf' = [buf EXCEPT !["client"] = r.left],
           UNCHANGED <<conf, replay, connected>>
    PROVE  RelayOk' /\ sk' \in [Sides -> Socket] /\ buf' \in [Sides -> Seq(Nat)]
  <1>1. /\ r.sk \in Socket /\ r.left \in Seq(Nat) /\ r.sk.read = sk["fallback"].read
        /\ r.sk.timer = sk["fallback"].timer /\ r.sk.got \o r.left = sk["fallback"].got \o b
    BY DEF FlushOk
  <1>2. buf \in [Sides -> Seq(Nat)] /\ sk \in [Sides -> Socket]
    BY DEF GateInv, TypeOK
  <1>3. /\ sk' \in [Sides -> Socket] /\ sk'["fallback"] = r.sk /\ sk'["client"] = s["client"]
        /\ buf' \in [Sides -> Seq(Nat)] /\ buf'["client"] = r.left
        /\ buf'["fallback"] = buf["fallback"]
    BY <1>1, <1>2 DEF Sides
  <1>4. InOrder((sk["fallback"].got \o replay) \o buf["client"], sk["client"].read)'
    <2>1. r.sk.got \in Seq(Nat)
      BY <1>1 DEF Socket
    <2>2. (sk'["fallback"].got \o replay') \o buf'["client"] = sk["fallback"].got \o b
      BY <1>1, <1>3, <2>1, JoinNone
    <2> QED  BY <1>3, <2>2 DEF InOrder, Collected
  <1>5. (sk["client"].got \o buf["fallback"] = Collected(sk["fallback"].read))'
    <2>1. sk["client"].got \o buf["fallback"] = Collected(sk["fallback"].read)
      BY DEF GateInv, RelayOk
    <2> QED  BY <1>1, <1>3, <2>1 DEF Collected
  <1>6. ~sk'["client"].timer /\ sk'["fallback"].timer = ~connected'
    BY <1>1, <1>3 DEF GateInv, RelayOk
  <1> QED  BY <1>3, <1>4, <1>5, <1>6 DEF RelayOk

(* What was read of the fallback is flushed to the client.                 *)
LEMMA ToClient ==
    ASSUME GateInv, phase = "fallback", NEW s \in [Sides -> Socket],
           s["fallback"].timer = sk["fallback"].timer, s["fallback"].got = sk["fallback"].got,
           Same(sk["client"], s["client"]), NEW b \in Seq(Nat),
           sk["client"].got \o b = Collected(s["fallback"].read),
           NEW r, FlushOk(s["client"], b, r), r.rc # "error",
           sk' = [s EXCEPT !["client"] = r.sk], buf' = [buf EXCEPT !["fallback"] = r.left],
           UNCHANGED <<conf, replay, connected>>
    PROVE  RelayOk' /\ sk' \in [Sides -> Socket] /\ buf' \in [Sides -> Seq(Nat)]
  <1>1. /\ r.sk \in Socket /\ r.left \in Seq(Nat) /\ r.sk.read = sk["client"].read
        /\ r.sk.timer = sk["client"].timer /\ r.sk.got \o r.left = sk["client"].got \o b
    BY DEF FlushOk, Same
  <1>2. buf \in [Sides -> Seq(Nat)] /\ sk \in [Sides -> Socket]
    BY DEF GateInv, TypeOK
  <1>3. /\ sk' \in [Sides -> Socket] /\ sk'["client"] = r.sk /\ sk'["fallback"] = s["fallback"]
        /\ buf' \in [Sides -> Seq(Nat)] /\ buf'["fallback"] = r.left
        /\ buf'["client"] = buf["client"]
    BY <1>1, <1>2 DEF Sides
  <1>4. InOrder((sk["fallback"].got \o replay) \o buf["client"], sk["client"].read)'
    <2>1. InOrder((sk["fallback"].got \o replay) \o buf["client"], sk["client"].read)
      BY DEF GateInv, RelayOk
    <2> QED  BY <1>1, <1>3, <2>1 DEF InOrder, Collected
  <1>5. (sk["client"].got \o buf["fallback"] = Collected(sk["fallback"].read))'
    BY <1>1, <1>3 DEF Collected
  <1>6. ~sk'["client"].timer /\ sk'["fallback"].timer = ~connected'
    BY <1>1, <1>3 DEF GateInv, RelayOk
  <1> QED  BY <1>3, <1>4, <1>5, <1>6 DEF RelayOk

(* What the buffer of a side holds, behind what the other side was sent.   *)
LEMMA RelayFacts ==
    ASSUME GateInv, phase = "fallback"
    PROVE  /\ sk \in [Sides -> Socket] /\ buf \in [Sides -> Seq(Nat)] /\ replay \in Seq(Nat)
           /\ \A x \in Sides : sk[x] \in Socket /\ buf[x] \in Seq(Nat)
                               /\ sk[x].got \in Seq(Nat) /\ sk[x].read \in Nat
           /\ replay = <<>> => InOrder(sk["fallback"].got \o buf["client"], sk["client"].read)
           /\ sk["client"].got \o buf["fallback"] = Collected(sk["fallback"].read)
  <1>1. /\ sk \in [Sides -> Socket] /\ buf \in [Sides -> Seq(Nat)] /\ replay \in Seq(Nat)
        /\ \A x \in Sides : sk[x] \in Socket /\ buf[x] \in Seq(Nat)
                            /\ sk[x].got \in Seq(Nat) /\ sk[x].read \in Nat
    BY DEF GateInv, TypeOK, Socket
  <1>2. replay = <<>> => sk["fallback"].got \o replay = sk["fallback"].got
    BY <1>1, JoinNone DEF Sides
  <1>3. RelayOk
    BY DEF GateInv
  <1> QED  BY <1>1, <1>2, <1>3 DEF RelayOk

(* The read event of a side: it waits, flushes what waits, or reads.       *)
LEMMA FallbackReadEventOk ==
    ASSUME GateInv, NEW x \in Sides, FallbackReadEvent(x)
    PROVE  GateInv'
  <1> DEFINE k == sk[x]
             h == [k EXCEPT !.rposted = FALSE]
             s == [sk EXCEPT ![x] = h]
  <1>1. /\ phase = "fallback" /\ pc = "idle"
        /\ UNCHANGED <<conf, who, authLen, frames, answer, connected, replay, ended>>
    BY DEF FallbackReadEvent, gate, Idle
  <1>2. /\ k \in Socket /\ sk \in [Sides -> Socket] /\ loops \in 0 .. ReadLoops
        /\ authLen \in 0 .. AuthMax /\ connected \in BOOLEAN
        /\ replay \in Seq(Nat) /\ buf \in [Sides -> Seq(Nat)]
        /\ \A y \in Sides : sk[y].read <= sk[y].sent
    BY DEF GateInv, TypeOK
  <1>3. /\ [sk EXCEPT ![x].rposted = FALSE] = s
        /\ ReadBegins(x)
    BY <1>2 DEF FallbackReadEvent
  <1>4. Same(k, h)
    BY <1>2 DEF Same, Socket
  <1> HIDE DEF h
  <1>5. s \in [Sides -> Socket] /\ s[x] = h /\ \A y \in Sides : y # x => s[y] = sk[y]
    BY <1>2, <1>4 DEF Same
  <1>6. \A y \in Sides : Same(sk[y], s[y])
    <2>1. \A y \in Sides : Same(sk[y], sk[y])
      BY <1>2 DEF Same
    <2> QED  BY <1>4, <1>5, <2>1
  <1>7. \A y \in Sides : s[y].read <= s[y].sent
    BY <1>2, <1>6 DEF Same
  <1>8. Other(x) \in Sides /\ Other(x) # x /\ 0 \in 0 .. ReadLoops
    BY GateAssumption DEF Other, Sides
  <1>9. \/ /\ x = "client" /\ replay # <<>>
           /\ sk' = [s EXCEPT !["fallback"] = ArmWrite(@)]
           /\ UNCHANGED <<phase, buf, pc, loops>>
        \/ /\ (x = "client" => replay = <<>>) /\ buf[x] # <<>>
           /\ \E r \in FlushBuf(s[Other(x)], buf[x]) :
                IF r.rc = "error" THEN Finalize(s) /\ UNCHANGED buf
                ELSE Flushed(x, s, buf[x], r) /\ UNCHANGED <<phase, pc, loops>>
        \/ /\ (x = "client" => replay = <<>>) /\ buf[x] = <<>>
           /\ sk' = s /\ pc' = x /\ loops' = 0 /\ UNCHANGED <<phase, buf>>
    BY <1>3 DEF ReadBegins
  <1> HIDE DEF s
  <1>10. CASE /\ sk' = [s EXCEPT !["fallback"] = ArmWrite(@)]
              /\ UNCHANGED <<phase, buf, pc, loops>>
    <2> DEFINE j == ArmWrite(s["fallback"])
    <2>1. s["fallback"] \in Socket
      BY <1>5 DEF Sides
    <2>2. Same(s["fallback"], j)
      BY <2>1, ArmWriteSame
    <2>3. sk' = [s EXCEPT !["fallback"] = j]
      BY <1>5, <1>10 DEF Sides
    <2> HIDE DEF j
    <2>4. sk' \in [Sides -> Socket] /\ sk'["fallback"] = j /\ sk'["client"] = s["client"]
      BY <1>5, <2>2, <2>3 DEF Sides, Same
    <2>5. \A y \in Sides : Same(sk[y], sk'[y])
      BY <1>6, <2>2, <2>4 DEF Same, Sides
    <2>6. LoopOk'
      BY <1>1, <1>10, LoopKept
    <2>7. pc' \in {"idle", "auth"} \cup Sides
      BY <1>1, <1>10
    <2> QED  BY <1>1, <1>2, <1>10, <2>4, <2>5, <2>6, <2>7, RelayEventsOk
  <1>11. ASSUME x = "client" => replay = <<>>, NEW r \in FlushBuf(s[Other(x)], buf[x]),
                IF r.rc = "error" THEN Finalize(s) /\ UNCHANGED buf
                ELSE Flushed(x, s, buf[x], r) /\ UNCHANGED <<phase, pc, loops>>
         PROVE  GateInv'
    <2>1. CASE r.rc = "error"
      <3>1. Finalize(s) /\ UNCHANGED buf
        BY <1>11, <2>1
      <3> QED  BY <1>1, <1>2, <1>5, <1>7, <3>1, FinalizeOk DEF Finalize
    <2>2. CASE r.rc # "error"
      <3> DEFINE b == buf[x]
      <3>1. /\ buf' = [buf EXCEPT ![x] = r.left] /\ sk' = [s EXCEPT ![Other(x)] = r.sk]
            /\ UNCHANGED <<phase, pc, loops>>
        BY <1>11, <2>2 DEF Flushed
      <3>2. b \in Seq(Nat) /\ s[Other(x)] \in Socket
        BY <1>2, <1>5, <1>8
      <3>3. FlushOk(s[Other(x)], b, r)
        BY <1>11, <3>2, FlushBufOk
      <3>4. RelayOk' /\ sk' \in [Sides -> Socket] /\ buf' \in [Sides -> Seq(Nat)]
        <4>1. CASE x = "client"
          <5>1. InOrder(sk["fallback"].got \o b, s["client"].read)
            BY <1>1, <1>6, <1>11, <4>1, RelayFacts DEF Same, Sides, InOrder
          <5>2. s["fallback"] = sk["fallback"] /\ Other(x) = "fallback"
            BY <1>5, <4>1 DEF Sides, Other
          <5>3. s["client"].timer = sk["client"].timer /\ s["client"].got = sk["client"].got
            BY <1>6 DEF Same, Sides
          <5> HIDE DEF b
          <5> QED  BY <1>1, <1>5, <1>11, <2>2, <3>1, <3>2, <3>3, <4>1, <5>1, <5>2, <5>3, ToFallback
        <4>2. CASE x = "fallback"
          <5>1. sk["client"].got \o b = Collected(s["fallback"].read)
            BY <1>1, <1>6, <4>2, RelayFacts DEF Same, Sides
          <5>2. Same(sk["client"], s["client"]) /\ Other(x) = "client"
            BY <1>6, <4>2 DEF Sides, Other
          <5>3. s["fallback"].timer = sk["fallback"].timer /\ s["fallback"].got = sk["fallback"].got
            BY <1>6 DEF Same, Sides
          <5> HIDE DEF b
          <5> QED  BY <1>1, <1>5, <2>2, <3>1, <3>2, <3>3, <4>2, <5>1, <5>2, <5>3, ToClient
        <4> QED  BY <4>1, <4>2 DEF Sides
      <3>5. \A y \in Sides : sk'[y].read <= sk'[y].sent
        BY <1>5, <1>7, <1>8, <2>2, <3>1, <3>3 DEF FlushOk
      <3>6. LoopOk' /\ pc' \in {"idle", "auth"} \cup Sides
        BY <1>1, <3>1 DEF LoopOk, Sides
      <3> QED  BY <1>1, <1>2, <3>1, <3>4, <3>5, <3>6, RelayStepOk
    <2> QED  BY <2>1, <2>2
  <1>12. CASE /\ (x = "client" => replay = <<>>) /\ buf[x] = <<>>
              /\ sk' = s /\ pc' = x /\ loops' = 0 /\ UNCHANGED <<phase, buf>>
    <2>1. LoopOk'
      BY <1>1, <1>12 DEF LoopOk, Sides
    <2> QED  BY <1>1, <1>5, <1>6, <1>8, <1>12, <2>1, RelayEventsOk
  <1> QED  BY <1>9, <1>10, <1>11, <1>12

(* One read of a side and its flush to the other.                          *)
LEMMA FallbackBytesOk ==
    ASSUME GateInv, NEW x \in Sides, FallbackBytes(x)
    PROVE  GateInv'
  <1> DEFINE c == sk[x]
             k == Recv(c, BufferSize)
             s == [sk EXCEPT ![x] = k]
             b == Between(c, k)
  <1>1. /\ phase = "fallback" /\ pc = x /\ Avail(c) > 0 /\ loops < ReadLoops
        /\ buf[x] = <<>> /\ (x = "client" => replay = <<>>)
        /\ UNCHANGED <<conf, who, authLen, frames, answer, connected, replay, ended>>
    BY DEF FallbackBytes, gate, GateInv, LoopOk, MoreLoops
  <1>2. /\ c \in Socket /\ sk \in [Sides -> Socket] /\ loops \in 0 .. ReadLoops
        /\ authLen \in 0 .. AuthMax /\ connected \in BOOLEAN
        /\ replay \in Seq(Nat) /\ buf \in [Sides -> Seq(Nat)]
        /\ \A y \in Sides : sk[y].read <= sk[y].sent
    BY DEF GateInv, TypeOK
  <1>3. \E r \in FlushBuf(s[Other(x)], b) :
             \/ r.rc = "error" /\ Finalize(s) /\ UNCHANGED buf
             \/ /\ r.rc # "error" /\ Flushed(x, s, b, r)
                /\ IF r.rc = "ok" THEN loops' = loops + 1 /\ UNCHANGED pc
                   ELSE loops' = 0 /\ pc' = "idle"
                /\ UNCHANGED phase
    BY DEF FallbackBytes
  <1>4. /\ k \in Socket /\ k.net = c.net /\ k.sent = c.sent /\ k.got = c.got
        /\ k.timer = c.timer /\ k.read > c.read /\ k.read <= k.sent
    BY <1>1, <1>2, RecvTakes, RelayAssumption
  <1> HIDE DEF k
  <1>5. s \in [Sides -> Socket] /\ s[x] = k /\ \A y \in Sides : y # x => s[y] = sk[y]
    BY <1>2, <1>4
  <1>6. Other(x) \in Sides /\ Other(x) # x /\ 0 \in 0 .. ReadLoops
        /\ loops + 1 \in 0 .. ReadLoops
    BY <1>1, <1>2, GateAssumption DEF Other, Sides
  <1>7. \A y \in Sides : s[y].read <= s[y].sent
    BY <1>2, <1>4, <1>5
  <1>8. /\ Collected(c.read) \in Seq(Nat) /\ b \in Seq(Nat)
        /\ Collected(c.read) \o b = Collected(k.read)
    <2>1. k.read >= c.read
      BY <1>2, <1>4 DEF Socket
    <2> QED  BY <1>2, <1>4, <2>1, CollectedGrows
  <1> HIDE DEF s, b
  <1>9. PICK r \in FlushBuf(s[Other(x)], b) :
             \/ r.rc = "error" /\ Finalize(s) /\ UNCHANGED buf
             \/ /\ r.rc # "error" /\ Flushed(x, s, b, r)
                /\ IF r.rc = "ok" THEN loops' = loops + 1 /\ UNCHANGED pc
                   ELSE loops' = 0 /\ pc' = "idle"
                /\ UNCHANGED phase
    BY <1>3
  <1>10. CASE r.rc = "error"
    <2>1. Finalize(s) /\ UNCHANGED buf
      BY <1>9, <1>10
    <2> QED  BY <1>1, <1>2, <1>5, <1>7, <2>1, FinalizeOk DEF Finalize
  <1>11. CASE r.rc # "error"
    <2>1. /\ buf' = [buf EXCEPT ![x] = r.left] /\ sk' = [s EXCEPT ![Other(x)] = r.sk]
          /\ IF r.rc = "ok" THEN loops' = loops + 1 /\ UNCHANGED pc
             ELSE loops' = 0 /\ pc' = "idle"
          /\ UNCHANGED phase
      BY <1>9, <1>11 DEF Flushed
    <2>2. FlushOk(s[Other(x)], b, r)
      BY <1>5, <1>6, <1>8, FlushBufOk
    <2>3. RelayOk' /\ sk' \in [Sides -> Socket] /\ buf' \in [Sides -> Seq(Nat)]
      <3>1. CASE x = "client"
        <4> DEFINE f == sk["fallback"].got
                   m == c.read
        <4>1. f \in Seq(Nat) /\ (f = Collected(m) \/ (conf.proxy /\ f = <<0>> \o Collected(m)))
          <5>1. /\ sk["fallback"].got \in Seq(Nat)
                /\ InOrder(sk["fallback"].got \o buf["client"], sk["client"].read)
            BY <1>1, <3>1, RelayFacts DEF Sides
          <5>2. sk["fallback"].got \o buf["client"] = sk["fallback"].got
            BY <1>1, <3>1, <5>1, JoinNone
          <5> QED  BY <3>1, <5>1, <5>2 DEF InOrder
        <4>2. <<0>> \in Seq(Nat)
          OBVIOUS
        <4> HIDE DEF f, m
        <4>3. InOrder(f \o b, k.read)
          <5>1. Collected(m) \in Seq(Nat) /\ Collected(m) \o b = Collected(k.read)
            BY <1>8 DEF m
          <5>2. CASE f = Collected(m)
            BY <5>1, <5>2 DEF InOrder
          <5>3. CASE conf.proxy /\ f = <<0>> \o Collected(m)
            <6> DEFINE z == <<0>>
                       q == Collected(m)
            <6>1. z \in Seq(Nat) /\ q \in Seq(Nat) /\ f = z \o q
              BY <4>2, <5>1, <5>3
            <6> HIDE DEF z, q
            <6>2. (z \o q) \o b = z \o (q \o b)
              BY <1>8, <6>1, JoinThree, Zenon
            <6>3. f \o b = <<0>> \o Collected(k.read)
              BY <5>1, <6>1, <6>2 DEF z, q
            <6> QED  BY <5>3, <6>3 DEF InOrder
          <5> QED  BY <4>1, <5>2, <5>3
        <4>4. InOrder(sk["fallback"].got \o b, s["client"].read)
          BY <1>5, <3>1, <4>3 DEF f
        <4>5. s["fallback"] = sk["fallback"] /\ Other(x) = "fallback"
          BY <1>5, <3>1 DEF Sides, Other
        <4>6. s["client"].timer = sk["client"].timer /\ s["client"].got = sk["client"].got
          BY <1>4, <1>5, <3>1
        <4> QED  BY <1>1, <1>5, <1>8, <1>11, <2>1, <2>2, <3>1, <4>4, <4>5, <4>6, ToFallback
      <3>2. CASE x = "fallback"
        <4>1. sk["client"].got \o b = Collected(s["fallback"].read)
          <5>1. sk["client"].got \in Seq(Nat)
                /\ sk["client"].got \o buf["fallback"] = Collected(sk["fallback"].read)
            BY <1>1, RelayFacts DEF Sides
          <5>2. sk["client"].got = Collected(c.read)
            BY <1>1, <3>2, <5>1, JoinNone
          <5> QED  BY <1>5, <1>8, <3>2, <5>2
        <4>2. Same(sk["client"], s["client"]) /\ Other(x) = "client"
          BY <1>2, <1>5, <3>2 DEF Sides, Other, Same
        <4>3. s["fallback"].timer = sk["fallback"].timer /\ s["fallback"].got = sk["fallback"].got
          BY <1>4, <1>5, <3>2
        <4> QED  BY <1>1, <1>5, <1>8, <1>11, <2>1, <2>2, <3>2, <4>1, <4>2, <4>3, ToClient
      <3> QED  BY <3>1, <3>2 DEF Sides
    <2>4. \A y \in Sides : sk'[y].read <= sk'[y].sent
      BY <1>5, <1>6, <1>7, <1>11, <2>1, <2>2 DEF FlushOk
    <2>5. LoopOk'
      <3>1. CASE r.rc = "ok"
        <4>1. r.left = <<>>
          BY <2>2, <3>1 DEF FlushOk
        <4>2. buf'[x] = <<>> /\ pc' = x
          BY <1>1, <1>2, <2>1, <3>1, <4>1
        <4> QED  BY <1>1, <2>1, <4>2 DEF LoopOk, Sides
      <3>2. CASE r.rc # "ok"
        BY <2>1, <3>2 DEF LoopOk, Sides
      <3> QED  BY <3>1, <3>2
    <2>6. pc' \in {"idle", "auth"} \cup Sides /\ loops' \in 0 .. ReadLoops
      BY <1>1, <1>6, <2>1
    <2> QED  BY <1>1, <1>2, <2>1, <2>3, <2>4, <2>5, <2>6, RelayStepOk
  <1> QED  BY <1>10, <1>11

(* The read loop of a side ends: with an end of file of the fallback all   *)
(* it sent has been delivered.                                             *)
LEMMA FallbackReadDoneOk ==
    ASSUME GateInv, NEW x \in Sides, FallbackReadDone(x)
    PROVE  GateInv'
  <1> DEFINE k == sk[x]
  <1>1. /\ pc = x /\ phase = "fallback" /\ buf[x] = <<>>
        /\ UNCHANGED <<conf, who, authLen, frames, answer, connected, replay, buf>>
    BY DEF FallbackReadDone, gate, relay, GateInv, LoopOk
  <1>2. /\ k \in Socket /\ sk \in [Sides -> Socket]
        /\ authLen \in 0 .. AuthMax /\ connected \in BOOLEAN
        /\ replay \in Seq(Nat) /\ buf \in [Sides -> Seq(Nat)]
        /\ \A y \in Sides : sk[y].read <= sk[y].sent
    BY DEF GateInv, TypeOK
  <1>3. 0 \in 0 .. ReadLoops
    BY GateAssumption
  <1>4. CASE Avail(k) = 0 /\ Finalize(sk) /\ ended' = x
    <2>0. sk' = [y \in Sides |-> Quiet(sk[y])]
      BY <1>4 DEF Finalize
    <2>1. /\ sk' \in [Sides -> Socket]
          /\ \A y \in Sides : /\ sk'[y].read <= sk'[y].sent
                              /\ sk'[y].sent = sk[y].sent /\ sk'[y].got = sk[y].got
      <3>1. /\ sk' \in [Sides -> Socket]
            /\ \A y \in Sides : /\ sk'[y].sent = sk[y].sent /\ sk'[y].read = sk[y].read
                                /\ sk'[y].got = sk[y].got
        BY <1>2, <2>0, QuietAll
      <3> QED  BY <1>2, <3>1
    <2>2. phase' = "closed" /\ pc' = "idle" /\ loops' = 0
      BY <1>4 DEF Finalize
    <2>3. answer' = "none"
      BY <1>1 DEF GateInv, EndOk
    <2>4. AnswerAsWhole'
      BY <2>3 DEF AnswerAsWhole
    <2>5. ended' = "fallback" => sk'["client"].got = Collected(sk'["fallback"].sent)
      <3> SUFFICES ASSUME x = "fallback"
                   PROVE  sk["client"].got = Collected(sk["fallback"].sent)
        BY <1>4, <2>1 DEF Sides
      <3>1. sk["fallback"].read = sk["fallback"].sent
        BY <1>2, <1>4 DEF Avail, Socket
      <3>2. sk["client"].got \in Seq(Nat)
            /\ sk["client"].got \o buf["fallback"] = Collected(sk["fallback"].read)
        BY <1>1, RelayFacts DEF Sides
      <3> QED  BY <1>1, <3>1, <3>2, JoinNone
    <2> QED  BY <1>1, <1>2, <1>4, <2>1, <2>2, <2>3, <2>4, <2>5, ClosedOk
  <1>5. CASE /\ sk' = [sk EXCEPT ![x] = ArmRead([@ EXCEPT !.rready = FALSE])]
             /\ pc' = "idle" /\ loops' = 0 /\ UNCHANGED <<phase, ended>>
    <2> DEFINE a == [k EXCEPT !.rready = FALSE]
               j == ArmRead(a)
    <2>1. a \in Socket /\ Same(k, a)
      BY <1>2 DEF Socket, Same
    <2> HIDE DEF a
    <2>2. Same(a, j)
      BY <2>1, ArmReadSame
    <2>3. sk' = [sk EXCEPT ![x] = j]
      BY <1>2, <1>5 DEF a
    <2> HIDE DEF j
    <2>4. Same(k, j)
      BY <2>1, <2>2 DEF Same
    <2> QED  BY <1>1, <1>2, <1>3, <1>5, <2>3, <2>4, EventsOk
  <1>6. CASE /\ sk' = [sk EXCEPT ![x] = [ArmRead(@) EXCEPT !.rposted = TRUE]]
             /\ pc' = "idle" /\ loops' = 0 /\ UNCHANGED <<phase, ended>>
    <2> DEFINE a == ArmRead(k)
               j == [a EXCEPT !.rposted = TRUE]
    <2>1. Same(k, a)
      BY <1>2, ArmReadSame
    <2>2. sk' = [sk EXCEPT ![x] = j]
      BY <1>2, <1>6
    <2> HIDE DEF a
    <2>3. Same(k, j)
      BY <2>1 DEF Same, Socket
    <2> HIDE DEF j
    <2> QED  BY <1>1, <1>2, <1>3, <1>6, <2>2, <2>3, EventsOk
  <1> QED  BY <1>4, <1>5, <1>6 DEF FallbackReadDone

(* The write event of a socket that is not ready.                          *)
LEMMA FallbackNotWritableOk ==
    ASSUME GateInv, NEW x \in Sides, FallbackNotWritable(x)
    PROVE  GateInv'
  <1> DEFINE k == sk[x]
             a == [k EXCEPT !.wposted = FALSE]
             j == ArmWrite(a)
  <1>1. k \in Socket /\ sk \in [Sides -> Socket] /\ loops \in 0 .. ReadLoops
    BY DEF GateInv, TypeOK
  <1>2. a \in Socket /\ Same(k, a)
    BY <1>1 DEF Socket, Same
  <1>3. sk' = [sk EXCEPT ![x] = j]
    BY <1>1 DEF FallbackNotWritable
  <1> HIDE DEF a
  <1>4. Same(a, j)
    BY <1>2, ArmWriteSame
  <1> HIDE DEF j
  <1>5. Same(k, j)
    BY <1>2, <1>4 DEF Same
  <1>6. phase = "fallback" /\ UNCHANGED <<conf, who, phase, authLen, frames, answer, connected,
                                          replay, buf, ended, pc, loops>>
    BY DEF FallbackNotWritable, WriteDue, gate, relay
  <1> QED  BY <1>1, <1>3, <1>5, <1>6, EventsOk

(* What was replayed before what was read later, when the replay is sent   *)
(* in part or as a whole.                                                  *)
LEMMA RelayReplayed ==
    ASSUME GateInv, phase = "fallback", NEW j \in Socket, NEW h \in Socket,
           Same(sk["client"], h), j.read = sk["fallback"].read, j.timer = FALSE,
           NEW p \in Seq(Nat), NEW b \in Seq(Nat),
           (j.got \o p) \o b = (sk["fallback"].got \o replay) \o buf["client"],
           sk' = [client |-> h, fallback |-> j], replay' = p,
           buf' = [buf EXCEPT !["client"] = b], connected' = TRUE, UNCHANGED conf
    PROVE  RelayOk' /\ sk' \in [Sides -> Socket] /\ buf' \in [Sides -> Seq(Nat)]
  <1>1. buf \in [Sides -> Seq(Nat)]
    BY DEF GateInv, TypeOK
  <1>2. /\ sk' \in [Sides -> Socket] /\ sk'["fallback"] = j /\ sk'["client"] = h
        /\ buf' \in [Sides -> Seq(Nat)] /\ buf'["client"] = b
        /\ buf'["fallback"] = buf["fallback"]
    BY <1>1 DEF Sides
  <1>3. RelayOk
    BY DEF GateInv
  <1>4. h.read = sk["client"].read /\ h.got = sk["client"].got /\ h.timer = sk["client"].timer
    BY DEF Same
  <1>5. InOrder((sk["fallback"].got \o replay) \o buf["client"], sk["client"].read)'
    BY <1>2, <1>3, <1>4 DEF RelayOk, InOrder, Collected
  <1>6. (sk["client"].got \o buf["fallback"] = Collected(sk["fallback"].read))'
    BY <1>2, <1>3, <1>4 DEF RelayOk, Collected
  <1>7. ~sk'["client"].timer /\ sk'["fallback"].timer = ~connected'
    BY <1>2, <1>3, <1>4 DEF RelayOk
  <1> QED  BY <1>2, <1>5, <1>6, <1>7 DEF RelayOk

(* The write event of the fallback: the replay first, then the buffer.     *)
LEMMA FallbackWritesOk ==
    ASSUME GateInv, FallbackWrites
    PROVE  GateInv'
  <1> DEFINE c == sk["client"]
             f == sk["fallback"]
             k == ConnectDone(f)
  <1>1. /\ phase = "fallback" /\ pc = "idle" /\ phase # "closed"
        /\ UNCHANGED <<conf, who, authLen, frames, answer, ended>>
    BY DEF FallbackWrites, WriteDue, Idle, gate
  <1>2. /\ sk \in [Sides -> Socket] /\ loops \in 0 .. ReadLoops
        /\ authLen \in 0 .. AuthMax /\ connected \in BOOLEAN
        /\ replay \in Seq(Nat) /\ buf \in [Sides -> Seq(Nat)]
        /\ \A y \in Sides : sk[y].read <= sk[y].sent
    BY DEF GateInv, TypeOK
  <1>3. /\ c \in Socket /\ f \in Socket /\ buf["client"] \in Seq(Nat) /\ f.got \in Seq(Nat)
        /\ c.read <= c.sent /\ f.read <= f.sent
    BY <1>2 DEF Sides, Socket
  <1>4. CASE Finalize(sk) /\ UNCHANGED relay
    <2>1. UNCHANGED <<connected, replay, buf>>
      BY <1>4 DEF relay
    <2> QED  BY <1>1, <1>2, <1>4, <2>1, FinalizeOk DEF Finalize
  <1>5. CASE connected' = TRUE /\ Replayed(k)
    <2>1. /\ k \in Socket /\ k.read = f.read /\ k.sent = f.sent /\ k.got = f.got
          /\ k.timer = FALSE
      BY <1>3 DEF ConnectDone, Socket
    <2> HIDE DEF k
    <2>2. PICK r \in FlushBuf(k, replay) :
            \/ /\ r.rc = "error" /\ Finalize(sk) /\ UNCHANGED <<replay, buf>>
            \/ /\ r.rc = "again"
               /\ replay' = r.left /\ sk' = [sk EXCEPT !["fallback"] = r.sk]
               /\ UNCHANGED <<phase, buf, pc, loops>>
            \/ /\ r.rc = "ok"
               /\ replay' = <<>>
               /\ \E q \in FlushBuf(r.sk, buf["client"]) :
                    \/ q.rc = "error" /\ Finalize(sk) /\ UNCHANGED buf
                    \/ /\ q.rc # "error"
                       /\ buf' = [buf EXCEPT !["client"] = q.left]
                       /\ sk' = IF q.rc = "again" THEN [sk EXCEPT !["fallback"] = q.sk]
                                ELSE [client |-> ArmRead(sk["client"]), fallback |-> ArmRead(q.sk)]
                       /\ UNCHANGED <<phase, pc, loops>>
      BY <1>5 DEF Replayed
    <2>3. FlushOk(k, replay, r)
      BY <1>2, <2>1, FlushBufOk
    <2>4. Same(c, c) /\ <<>> \in Seq(Nat)
      BY <1>3 DEF Same
    <2>5. CASE r.rc = "error"
      <3>1. Finalize(sk) /\ UNCHANGED <<replay, buf>>
        BY <2>2, <2>5
      <3> QED  BY <1>1, <1>2, <1>5, <3>1, FinalizeOk DEF Finalize
    <2>6. CASE r.rc = "again"
      <3> DEFINE j == r.sk
                 p == r.left
      <3>1. /\ j \in Socket /\ p \in Seq(Nat) /\ j.read = f.read /\ j.sent = f.sent
            /\ j.timer = FALSE /\ j.got \o p = f.got \o replay
        BY <2>1, <2>3, <2>6 DEF FlushOk
      <3>2. replay' = p /\ sk' = [sk EXCEPT !["fallback"] = j] /\ UNCHANGED <<phase, buf, pc, loops>>
        BY <2>2, <2>6
      <3> HIDE DEF j, p
      <3>3. sk' = [client |-> c, fallback |-> j]
        BY <1>2, <3>1, <3>2 DEF Sides
      <3>4. buf' = [buf EXCEPT !["client"] = buf["client"]]
        BY <1>2, <3>2
      <3>5. (j.got \o p) \o buf["client"] = (f.got \o replay) \o buf["client"]
        BY <3>1
      <3>6. RelayOk' /\ sk' \in [Sides -> Socket] /\ buf' \in [Sides -> Seq(Nat)]
        BY <1>1, <1>3, <1>5, <2>4, <3>1, <3>2, <3>3, <3>4, <3>5, RelayReplayed
      <3>7. \A y \in Sides : sk'[y].read <= sk'[y].sent
        <4>1. sk'["client"] = c /\ sk'["fallback"] = j
          BY <3>3
        <4> QED  BY <1>3, <3>1, <4>1 DEF Sides
      <3>8. LoopOk' /\ pc' \in {"idle", "auth"} \cup Sides
        BY <1>1, <3>2 DEF LoopOk, Sides
      <3> QED  BY <1>1, <1>2, <1>5, <3>1, <3>2, <3>6, <3>7, <3>8, RelayStepOk
    <2>7. CASE r.rc = "ok"
      <3> DEFINE g == r.sk
      <3>1. /\ g \in Socket /\ g.read = f.read /\ g.sent = f.sent
            /\ g.timer = FALSE /\ g.got \o <<>> = f.got \o replay
        BY <2>1, <2>3, <2>7 DEF FlushOk
      <3>2. g.got = f.got \o replay
        <4>1. g.got \in Seq(Nat)
          BY <3>1 DEF Socket
        <4> QED  BY <3>1, <4>1, JoinNone
      <3>3. replay' = <<>>
        BY <2>2, <2>7
      <3>4. PICK q \in FlushBuf(g, buf["client"]) :
              \/ q.rc = "error" /\ Finalize(sk) /\ UNCHANGED buf
              \/ /\ q.rc # "error"
                 /\ buf' = [buf EXCEPT !["client"] = q.left]
                 /\ sk' = IF q.rc = "again" THEN [sk EXCEPT !["fallback"] = q.sk]
                          ELSE [client |-> ArmRead(sk["client"]), fallback |-> ArmRead(q.sk)]
                 /\ UNCHANGED <<phase, pc, loops>>
        BY <2>2, <2>7
      <3> HIDE DEF g
      <3>5. FlushOk(g, buf["client"], q)
        BY <1>3, <3>1, FlushBufOk
      <3>6. CASE q.rc = "error"
        <4>1. Finalize(sk) /\ UNCHANGED buf
          BY <3>4, <3>6
        <4> QED  BY <1>1, <1>2, <1>5, <2>4, <3>3, <4>1, FinalizeOk DEF Finalize
      <3>7. CASE q.rc # "error"
        <4> DEFINE b == q.left
                   u == q.sk
        <4>1. /\ u \in Socket /\ b \in Seq(Nat) /\ u.read = f.read /\ u.sent = f.sent
              /\ u.timer = FALSE /\ u.got \o b = (f.got \o replay) \o buf["client"]
          BY <3>1, <3>2, <3>5, <3>7 DEF FlushOk
        <4>2. /\ buf' = [buf EXCEPT !["client"] = b] /\ UNCHANGED <<phase, pc, loops>>
              /\ sk' = IF q.rc = "again" THEN [sk EXCEPT !["fallback"] = u]
                       ELSE [client |-> ArmRead(c), fallback |-> ArmRead(u)]
          BY <3>4, <3>7
        <4> HIDE DEF b, u
        <4>3. PICK h, j : Same(c, h) /\ Same(u, j) /\ sk' = [client |-> h, fallback |-> j]
          <5>1. CASE q.rc = "again"
            <6>1. sk' = [client |-> c, fallback |-> u]
              BY <1>2, <4>1, <4>2, <5>1 DEF Sides
            <6>2. Same(u, u)
              BY <4>1 DEF Same
            <6> QED  BY <2>4, <6>1, <6>2
          <5>2. CASE q.rc # "again"
            <6>1. sk' = [client |-> ArmRead(c), fallback |-> ArmRead(u)]
              BY <4>2, <5>2
            <6>2. Same(c, ArmRead(c)) /\ Same(u, ArmRead(u))
              BY <1>3, <4>1, ArmReadSame
            <6> QED  BY <6>1, <6>2
          <5> QED  BY <5>1, <5>2
        <4>4. /\ h \in Socket /\ j \in Socket /\ j.read = f.read /\ j.sent = f.sent
              /\ j.timer = FALSE /\ h.read = c.read /\ h.sent = c.sent /\ j.got = u.got
          BY <4>1, <4>3 DEF Same
        <4>5. (j.got \o <<>>) \o b = (f.got \o replay) \o buf["client"]
          <5>1. j.got \in Seq(Nat)
            BY <4>4 DEF Socket
          <5> QED  BY <4>1, <4>4, <5>1, JoinNone
        <4>6. RelayOk' /\ sk' \in [Sides -> Socket] /\ buf' \in [Sides -> Seq(Nat)]
          BY <1>1, <1>5, <2>4, <3>3, <4>1, <4>2, <4>3, <4>4, <4>5, RelayReplayed
        <4>7. \A y \in Sides : sk'[y].read <= sk'[y].sent
          <5>1. sk'["client"] = h /\ sk'["fallback"] = j
            BY <4>3
          <5> QED  BY <1>3, <4>4, <5>1 DEF Sides
        <4>8. LoopOk' /\ pc' \in {"idle", "auth"} \cup Sides
          BY <1>1, <4>2 DEF LoopOk, Sides
        <4> QED  BY <1>1, <1>2, <1>5, <2>4, <3>3, <4>2, <4>6, <4>7, <4>8, RelayStepOk
      <3> QED  BY <3>6, <3>7
    <2> QED  BY <2>3, <2>5, <2>6, <2>7 DEF FlushOk
  <1> QED  BY <1>4, <1>5 DEF FallbackWrites

(* The write event of the client.                                          *)
LEMMA ClientWritesOk ==
    ASSUME GateInv, ClientWrites
    PROVE  GateInv'
  <1> DEFINE c == sk["client"]
             f == sk["fallback"]
             k == [c EXCEPT !.wposted = FALSE]
             b == buf["fallback"]
  <1>1. /\ phase = "fallback" /\ pc = "idle" /\ phase # "closed"
        /\ UNCHANGED <<conf, who, authLen, frames, answer, connected, replay, ended>>
    BY DEF ClientWrites, WriteDue, Idle, gate
  <1>2. /\ sk \in [Sides -> Socket] /\ loops \in 0 .. ReadLoops
        /\ authLen \in 0 .. AuthMax /\ connected \in BOOLEAN
        /\ replay \in Seq(Nat) /\ buf \in [Sides -> Seq(Nat)]
        /\ \A y \in Sides : sk[y].read <= sk[y].sent
    BY DEF GateInv, TypeOK
  <1>3. /\ c \in Socket /\ f \in Socket /\ b \in Seq(Nat) /\ f.read <= f.sent
        /\ c.read <= c.sent
    BY <1>2 DEF Sides
  <1>4. Same(c, k)
    BY <1>3 DEF Same, Socket
  <1>5. PICK r \in FlushBuf(k, b) :
         \/ r.rc = "error" /\ Finalize(sk) /\ UNCHANGED buf
         \/ /\ r.rc # "error"
            /\ buf' = [buf EXCEPT !["fallback"] = r.left]
            /\ sk' = [client |-> r.sk, fallback |-> IF r.rc = "ok" THEN ArmRead(f) ELSE f]
            /\ UNCHANGED <<phase, pc, loops>>
    BY DEF ClientWrites
  <1> HIDE DEF k, b
  <1>6. FlushOk(k, b, r)
    BY <1>3, <1>4, FlushBufOk DEF Same
  <1>7. CASE r.rc = "error"
    <2>1. Finalize(sk) /\ UNCHANGED buf
      BY <1>5, <1>7
    <2> QED  BY <1>1, <1>2, <2>1, FinalizeOk DEF Finalize
  <1>8. CASE r.rc # "error"
    <2> DEFINE j == IF r.rc = "ok" THEN ArmRead(f) ELSE f
               s == [client |-> k, fallback |-> j]
    <2>1. /\ buf' = [buf EXCEPT !["fallback"] = r.left]
          /\ sk' = [client |-> r.sk, fallback |-> j] /\ UNCHANGED <<phase, pc, loops>>
      BY <1>5, <1>8
    <2>2. Same(f, j)
      <3>1. Same(f, ArmRead(f)) /\ Same(f, f)
        BY <1>3, ArmReadSame DEF Same
      <3> QED  BY <3>1
    <2> HIDE DEF j
    <2>3. s \in [Sides -> Socket] /\ s["client"] = k /\ s["fallback"] = j
      BY <1>4, <2>2 DEF Same, Sides
    <2>4. sk' = [s EXCEPT !["client"] = r.sk]
      BY <2>1
    <2> HIDE DEF s
    <2>5. c.got \o b = Collected(j.read)
      BY <1>1, <2>2, RelayFacts DEF Same, b
    <2>6. j.timer = f.timer /\ j.got = f.got /\ j.read = f.read /\ j.sent = f.sent
      BY <2>2 DEF Same
    <2>7. RelayOk' /\ sk' \in [Sides -> Socket] /\ buf' \in [Sides -> Seq(Nat)]
      BY <1>1, <1>3, <1>4, <1>6, <1>8, <2>1, <2>3, <2>4, <2>5, <2>6, ToClient
    <2>8. \A y \in Sides : sk'[y].read <= sk'[y].sent
      <3>1. sk'["client"] = r.sk /\ sk'["fallback"] = j
        BY <2>1
      <3>2. r.sk.read = c.read /\ r.sk.sent = c.sent
        BY <1>4, <1>6, <1>8 DEF FlushOk, Same
      <3> QED  BY <1>3, <2>6, <3>1, <3>2 DEF Sides
    <2>9. LoopOk' /\ pc' \in {"idle", "auth"} \cup Sides
      BY <1>1, <2>1 DEF LoopOk, Sides
    <2> QED  BY <1>1, <1>2, <2>1, <2>7, <2>8, <2>9, RelayStepOk
  <1> QED  BY <1>7, <1>8

(***************************************************************************)
(* The theorems                                                            *)
(***************************************************************************)

(* The server accepts a connection: nothing was read or sent.              *)
LEMMA InitOk ==
    ASSUME Init
    PROVE  GateInv
  <1> DEFINE t == phase = "auth"
             k == [NoSocket EXCEPT !.net = "up", !.wready = TRUE, !.rposted = TRUE, !.timer = t]
  <1>1. <<>> \in Seq(Nat) /\ t \in BOOLEAN
    OBVIOUS
  <1>2. /\ NoSocket \in Socket /\ NoSocket.read = 0 /\ NoSocket.sent = 0
        /\ NoSocket.got = <<>> /\ NoSocket.net = "none"
    BY <1>1 DEF NoSocket, Socket
  <1>3. sk = [client |-> k, fallback |-> NoSocket]
    BY DEF Init
  <1> HIDE DEF t
  <1>4. k \in Socket /\ k.read = 0 /\ k.sent = 0 /\ k.got = <<>>
    BY <1>1, <1>2 DEF Socket
  <1> HIDE DEF k
  <1>5. sk \in [Sides -> Socket] /\ sk["client"] = k /\ sk["fallback"] = NoSocket
    BY <1>2, <1>3, <1>4 DEF Sides
  <1>6. /\ conf \in Listeners /\ who \in Client /\ (who.kind = "http" => conf.ssl)
        /\ (who.kind # "user" => who.padding = 0) /\ phase = FirstPhase(conf)
        /\ authLen = 0 /\ frames = 0 /\ answer = "none" /\ ended = "none"
        /\ connected = FALSE /\ replay = <<>> /\ buf = [x \in Sides |-> <<>>]
        /\ pc = "idle" /\ loops = 0
    BY DEF Init
  <1>7. /\ phase \in {"peek", "tls", "auth"} /\ (who.kind = "http" => phase # "auth")
        /\ PrefixLen \in Nat \ {0} /\ MaxPadding \in Nat /\ ReadLoops \in Nat
        /\ who.padding \in Nat
    BY <1>6, AuthAssumption, GateAssumption DEF FirstPhase, Client
  <1>8. TypeOK
    <2>1. authLen \in 0 .. AuthMax /\ loops \in 0 .. ReadLoops /\ frames \in Nat
      BY <1>6, <1>7 DEF AuthMax
    <2>2. buf \in [Sides -> Seq(Nat)]
      BY <1>1, <1>6
    <2> QED  BY <1>1, <1>5, <1>6, <1>7, <2>1, <2>2 DEF TypeOK
  <1>9. \A x \in Sides : sk[x].read <= sk[x].sent
    BY <1>2, <1>4, <1>5 DEF Sides
  <1>10. EarlyOk
    BY <1>2, <1>4, <1>5, <1>6 DEF EarlyOk, Sides
  <1>11. PeekOk
    BY <1>4, <1>5, <1>6 DEF PeekOk, Whole
  <1>12. phase = "auth" => AuthOk
    BY <1>4, <1>5, <1>6, <1>7 DEF AuthOk
  <1>13. LoopOk /\ EndOk
    BY <1>6 DEF LoopOk, EndOk, AnswerAsWhole, Sides
  <1> QED  BY <1>6, <1>7, <1>8, <1>9, <1>10, <1>11, <1>12, <1>13 DEF GateInv, Early

(* The invariant of a client connection: what was read in each phase, what *)
(* waits, and which loop may run.                                          *)
THEOREM Invariant == Spec => []GateInv
  <1>1. Init => GateInv
    BY InitOk
  <1>2. GateInv /\ [Next]_vars => GateInv'
    <2> SUFFICES ASSUME GateInv, [Next]_vars  PROVE  GateInv'
      OBVIOUS
    <2>1. CASE UNCHANGED vars
      BY <2>1 DEF vars, gate, relay, GateInv, TypeOK, Early, EarlyOk, PeekOk, AuthOk, RelayOk,
                  LoopOk, EndOk, AnswerAsWhole, HandsOverClean, InOrder, Collected
    <2>2. CASE Handler
      BY <2>2, PeekHandlerOk, AuthEventOk, FallbackWritesOk, ClientWritesOk,
         FallbackReadEventOk, FallbackNotWritableOk DEF Handler
    <2>3. CASE Step
      BY <2>3, AuthBytesOk, AuthDoneOk, FallbackBytesOk, FallbackReadDoneOk DEF Step
    <2>4. CASE Timeout
      BY <2>4, TimeoutOk
    <2>5. CASE TlsEnds
      BY <2>5, TlsEndsOk
    <2>6. CASE ConnectEnds
      BY <2>6, ConnectEndsOk
    <2>7. ASSUME NEW x \in Sides,
                 PeerSends(x) \/ PeerEnds(x) \/ PeerReads(x) \/ EpollReport(x)
          PROVE  GateInv'
      BY <2>7, PeerSendsOk, PeerEndsOk, PeerReadsOk, EpollReportOk
    <2> QED  BY <2>1, <2>2, <2>3, <2>4, <2>5, <2>6, <2>7 DEF Next
  <1> QED  BY <1>1, <1>2, PTL DEF Spec

(* The types; a read loop stays within its budget, and authentication      *)
(* within its buffer.                                                      *)
THEOREM TypeCorrect == Spec => []TypeOK
  <1>1. GateInv => TypeOK
    BY DEF GateInv
  <1> QED  BY <1>1, Invariant, PTL

(* However its bytes arrive, a plaintext request with a sound line gets    *)
(* the answer to the whole of it, one with a bad line 400 or the page of    *)
(* the same request with a sound line, and a client that speaks TLS gets    *)
(* none before it was found to be a stranger.                               *)
THEOREM AnswerTheorem == Spec => []AnswerAsWhole
  <1>1. GateInv => AnswerAsWhole
    BY DEF GateInv, EndOk
  <1> QED  BY <1>1, Invariant, PTL

(* A session starts with the byte behind the padding, however the          *)
(* handshake was cut into reads, and no timer of the phases before         *)
(* survives into a session or a relay.                                     *)
THEOREM HandOverTheorem == Spec => []HandsOverClean
  <1>1. GateInv => HandsOverClean
    BY DEF GateInv, HandsOverClean, RelayOk
  <1> QED  BY <1>1, Invariant, PTL

(* What a relay reads of either side reaches the other or waits for it, in *)
(* order and once, the replayed bytes first; an end of file of the         *)
(* fallback ends the relay when all it sent is delivered.                  *)
THEOREM RelayTheorem == Spec => []RelayExact
  <1>1. GateInv => RelayExact
    BY DEF GateInv, RelayExact, RelayOk, EndOk
  <1> QED  BY <1>1, Invariant, PTL
=============================================================================
