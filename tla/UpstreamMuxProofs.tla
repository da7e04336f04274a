-------------------------- MODULE UpstreamMuxProofs --------------------------
(***************************************************************************)
(* Proofs about UpstreamMux, for any set of streams, any sizes and any     *)
(* budgets: the queues of the mux agree with the streams and the events of *)
(* their sockets, the loops stay within their budgets, the shutdown        *)
(* follows the payload, and no read is lost when a budget stops a loop.    *)
(*                                                                         *)
(* The inductive invariant MuxInv ties four things together for each       *)
(* stream: its fields, the registration of its events, and whether it is   *)
(* linked in each of the three queues.  It is stronger than QueuesAgree    *)
(* where a handler relies on more: a stream that is not there has no event *)
(* left to fire, a connecting stream is registered for reading from the    *)
(* start, packet mode streams never take the path of drain_reads, and the  *)
(* stream a loop is at has been taken out of its queue and is still open.  *)
(* Woken, the second half of the file, says of each stream with something  *)
(* to read what will make a handler read it: an event that is due, the     *)
(* handler of the running event, or its place in a queue.                  *)
(***************************************************************************)
EXTENDS UpstreamMux, CollectionLemmas

\* A stream f and its socket k, with its membership in read_ready, write_ready
\* and blocked_upstream_reads.
Agree(k, f, r, w, b) ==
    /\ f.state \in {"free", "closed"} => ~k.ract /\ ~k.wact /\ ~f.posted
    /\ f.state = "connecting" => k.ract
    /\ f.kind = "packet" => f.state \in {"connected", "closed"}
    /\ f.state = "half_closed" => f.shut # "no" /\ (f.shut = "done" <=> f.pend = 0)
    /\ r \/ w \/ b => f.state \in {"connected", "half_closed"}
    /\ f.state \in {"connected", "half_closed"} => (b <=> ~k.ract)
    /\ r => ~b /\ f.kind # "packet"

StreamOK(s) ==
    Agree(sock[s], str[s], s \in Range(readReady), s \in Range(writeReady), s \in Range(blocked))

StreamsOK ==
    /\ sock \in [Streams -> Socket] /\ str \in [Streams -> Stream]
    /\ readReady \in Seq(Streams) /\ writeReady \in Seq(Streams) /\ blocked \in Seq(Streams)
    /\ IsInjective(readReady) /\ IsInjective(writeReady) /\ IsInjective(blocked)
    /\ \A s \in Streams : StreamOK(s)

ScalarsOK ==
    /\ output \in Nat /\ pressure \in BOOLEAN
    /\ pc \in {"idle", "event", "writes", "reads", "read", "dgram"}
    /\ ev \in Streams \cup {None} /\ mask \subseteq {"in", "out", "hup", "posted"}
    /\ cur \in Streams \cup {None}
    /\ frames \in 0 .. FrameBudget /\ visited \in 0 .. StreamBudget /\ last \in BOOLEAN

\* Where the handlers of an event are.
LoopOK ==
    /\ pc # "idle" => ev \in Streams
    /\ "posted" \in mask => pc = "event" /\ mask = {"posted"} /\ str[ev].state \notin {"free", "closed"}
    /\ pc = "read" => /\ cur \in Streams /\ IsOpen(cur) /\ ~IsPacket(cur)
                      /\ cur \notin Range(readReady) \cup Range(blocked)
    /\ pc = "dgram" => cur \in Streams

\* The inductive invariant.
MuxInv == StreamsOK /\ ScalarsOK /\ LoopOK
-----------------------------------------------------------------------------
(* What the operations on a socket do to its read event.                   *)
LEMMA SocketOps ==
    ASSUME NEW k \in Socket
    PROVE  /\ EdgeTriggered(k) \in Socket /\ EdgeTriggered(k).ract = k.ract
           /\ LevelTriggered(k) \in Socket /\ LevelTriggered(k).ract = k.ract
           /\ ArmRead(k) \in Socket /\ ArmRead(k).ract
           /\ DisarmRead(k) \in Socket /\ ~DisarmRead(k).ract
           /\ ArmWrite(k) \in Socket /\ ArmWrite(k).ract = k.ract
           /\ DisarmWrite(k) \in Socket /\ DisarmWrite(k).ract = k.ract
           /\ Closed(k) \in Socket /\ ~Closed(k).ract /\ ~Closed(k).wact
  <1>1. ASSUME NEW j \in Socket
        PROVE  /\ EdgeTriggered(j) \in Socket /\ EdgeTriggered(j).ract = j.ract
               /\ LevelTriggered(j) \in Socket /\ LevelTriggered(j).ract = j.ract
    <2> DEFINE e == Reports(j) # {}
    <2>1. e \in BOOLEAN
      OBVIOUS
    <2> HIDE DEF e
    <2> QED  BY <2>1 DEF EdgeTriggered, LevelTriggered, Socket, e
  <1>2. /\ [k EXCEPT !.ract = TRUE] \in Socket /\ [k EXCEPT !.ract = TRUE].ract
        /\ [k EXCEPT !.ract = FALSE] \in Socket /\ ~[k EXCEPT !.ract = FALSE].ract
        /\ [k EXCEPT !.wact = TRUE] \in Socket /\ [k EXCEPT !.wact = TRUE].ract = k.ract
        /\ [k EXCEPT !.wact = FALSE] \in Socket /\ [k EXCEPT !.wact = FALSE].ract = k.ract
    BY DEF Socket
  <1>3. Closed(k) \in Socket /\ ~Closed(k).ract /\ ~Closed(k).wact
    BY DEF Socket, Closed
  <1>4. ArmRead(k) \in Socket /\ ArmRead(k).ract
    BY <1>1, <1>2, Zenon DEF ArmRead
  <1>5. DisarmRead(k) \in Socket /\ ~DisarmRead(k).ract
    BY <1>1, <1>2, Zenon DEF DisarmRead
  <1>6. ArmWrite(k) \in Socket /\ ArmWrite(k).ract = k.ract
    BY <1>1, <1>2, Zenon DEF ArmWrite
  <1>7. DisarmWrite(k) \in Socket /\ DisarmWrite(k).ract = k.ract
    BY <1>1, <1>2, Zenon DEF DisarmWrite
  <1> QED
    BY <1>1, <1>3, <1>4, <1>5, <1>6, <1>7

LEMMA PendingSentOp ==
    ASSUME NEW k \in Socket, NEW f, NEW n
    PROVE  PendingSent(k, f, n) \in Socket /\ PendingSent(k, f, n).ract = k.ract
  <1>1. [k EXCEPT !.full = TRUE] \in Socket /\ [k EXCEPT !.full = TRUE].ract = k.ract
    BY DEF Socket
  <1> QED
    BY <1>1, SocketOps, Zenon DEF PendingSent

(* What is left of a backlog, and the shutdown that waits for its end.     *)
LEMMA SendPendingOp ==
    ASSUME NEW f \in Stream, NEW n \in 0 .. f.pend
    PROVE  /\ SendPending(f, n) \in Stream
           /\ SendPending(f, n).state = f.state /\ SendPending(f, n).kind = f.kind
           /\ SendPending(f, n).posted = f.posted /\ SendPending(f, n).pend = f.pend - n
           /\ SendPending(f, n).shut = IF f.pend = n /\ f.shut = "pending" THEN "done" ELSE f.shut
  <1> DEFINE v == IF f.pend = n /\ f.shut = "pending" THEN "done" ELSE f.shut
             p == f.pend - n
  <1>1. f.pend \in Nat /\ f.shut \in {"no", "pending", "done"}
    BY DEF Stream
  <1>2. v \in {"no", "pending", "done"} /\ p \in Nat
    BY <1>1
  <1>3. SendPending(f, n) = [f EXCEPT !.pend = p, !.shut = v]
    BY DEF SendPending
  <1> HIDE DEF v, p
  <1>4. [f EXCEPT !.pend = p, !.shut = v] \in Stream
    BY <1>2 DEF Stream
  <1>5. /\ [f EXCEPT !.pend = p, !.shut = v].state = f.state
        /\ [f EXCEPT !.pend = p, !.shut = v].kind = f.kind
        /\ [f EXCEPT !.pend = p, !.shut = v].posted = f.posted
        /\ [f EXCEPT !.pend = p, !.shut = v].pend = p
        /\ [f EXCEPT !.pend = p, !.shut = v].shut = v
    BY DEF Stream
  <1> QED
    BY <1>3, <1>4, <1>5 DEF v, p
-----------------------------------------------------------------------------
(* The other streams keep their place in queue q.                          *)
SameFor(t, q, r) == t \in Range(r) <=> t \in Range(q)

(* A step that changes one stream has only that stream to answer for.      *)
LEMMA OneStream ==
    ASSUME StreamsOK, NEW s \in Streams, NEW k \in Socket, NEW f \in Stream,
           sock' = [sock EXCEPT ![s] = k], str' = [str EXCEPT ![s] = f],
           readReady' \in Seq(Streams), writeReady' \in Seq(Streams), blocked' \in Seq(Streams),
           IsInjective(readReady'), IsInjective(writeReady'), IsInjective(blocked'),
           \A t \in Streams \ {s} : /\ SameFor(t, readReady, readReady')
                                    /\ SameFor(t, writeReady, writeReady')
                                    /\ SameFor(t, blocked, blocked'),
           Agree(k, f, s \in Range(readReady'), s \in Range(writeReady'), s \in Range(blocked'))
    PROVE  StreamsOK'
  <1>1. sock' \in [Streams -> Socket] /\ str' \in [Streams -> Stream]
    BY DEF StreamsOK
  <1>2. sock'[s] = k /\ str'[s] = f /\ \A t \in Streams \ {s} : sock'[t] = sock[t] /\ str'[t] = str[t]
    BY DEF StreamsOK
  <1>3. ASSUME NEW t \in Streams PROVE StreamOK(t)'
    <2>1. CASE t = s
      BY <1>2, <2>1 DEF StreamOK
    <2>2. CASE t # s
      <3>1. StreamOK(t) /\ sock'[t] = sock[t] /\ str'[t] = str[t]
        BY <1>2, <2>2 DEF StreamsOK
      <3>2. /\ t \in Range(readReady') <=> t \in Range(readReady)
            /\ t \in Range(writeReady') <=> t \in Range(writeReady)
            /\ t \in Range(blocked') <=> t \in Range(blocked)
        BY <2>2 DEF SameFor
      <3> QED  BY <3>1, <3>2 DEF StreamOK, Agree
    <2> QED  BY <2>1, <2>2
  <1> QED
    BY <1>1, <1>3 DEF StreamsOK

(* The same for a step that leaves the queues alone.                       *)
LEMMA OneStreamOnly ==
    ASSUME StreamsOK, NEW s \in Streams, NEW k \in Socket, NEW f \in Stream,
           sock' = [sock EXCEPT ![s] = k], str' = [str EXCEPT ![s] = f],
           readReady' = readReady, writeReady' = writeReady, blocked' = blocked,
           Agree(k, f, s \in Range(readReady), s \in Range(writeReady), s \in Range(blocked))
    PROVE  StreamsOK'
  BY OneStream DEF StreamsOK, SameFor

LEMMA StreamFacts ==
    ASSUME StreamsOK, NEW s \in Streams
    PROVE  /\ sock[s] \in Socket /\ str[s] \in Stream
           /\ Agree(sock[s], str[s], s \in Range(readReady), s \in Range(writeReady), s \in Range(blocked))
           /\ sock = [sock EXCEPT ![s] = sock[s]] /\ str = [str EXCEPT ![s] = str[s]]
  BY DEF StreamsOK, StreamOK

(* Nothing but what the streams themselves hold.                           *)
LEMMA SameStreams ==
    ASSUME StreamsOK, UNCHANGED <<sock, str, queues>>
    PROVE  StreamsOK'
  BY DEF StreamsOK, StreamOK, queues

(* ngx_anytls_stream_close takes the stream out of every queue and its     *)
(* events away.                                                            *)
LEMMA Close ==
    ASSUME StreamsOK, NEW s \in Streams, NEW f \in Stream, CloseStream(s, f)
    PROVE  /\ StreamsOK'
           /\ Range(readReady') = Range(readReady) \ {s} /\ Range(blocked') = Range(blocked) \ {s}
           /\ \A t \in Streams \ {s} : str'[t] = str[t]
  <1> DEFINE g == [f EXCEPT !.state = "closed", !.timer = FALSE, !.posted = FALSE, !.pend = 0,
                            !.rready = FALSE]
             k == Closed(sock[s])
  <1>1. g \in Stream /\ g.state = "closed" /\ ~g.posted
    BY DEF Stream
  <1>2. k \in Socket /\ ~k.ract /\ ~k.wact
    BY SocketOps, StreamFacts
  <1>3. sock' = [sock EXCEPT ![s] = k] /\ str' = [str EXCEPT ![s] = g]
    BY DEF CloseStream
  <1> HIDE DEF g, k
  <1>4. /\ readReady \in Seq(Streams) /\ IsInjective(readReady)
        /\ writeReady \in Seq(Streams) /\ IsInjective(writeReady)
        /\ blocked \in Seq(Streams) /\ IsInjective(blocked)
    BY DEF StreamsOK
  <1>5. /\ readReady' = RemoveFirst(readReady, s) /\ writeReady' = RemoveFirst(writeReady, s)
        /\ blocked' = RemoveFirst(blocked, s)
    BY DEF CloseStream, Without
  <1>6. /\ readReady' \in Seq(Streams) /\ IsInjective(readReady') /\ Range(readReady') = Range(readReady) \ {s}
        /\ writeReady' \in Seq(Streams) /\ IsInjective(writeReady') /\ Range(writeReady') = Range(writeReady) \ {s}
        /\ blocked' \in Seq(Streams) /\ IsInjective(blocked') /\ Range(blocked') = Range(blocked) \ {s}
    BY <1>4, <1>5, QueueRemove
  <1>7. Agree(k, g, s \in Range(readReady'), s \in Range(writeReady'), s \in Range(blocked'))
    BY <1>1, <1>2, <1>6 DEF Agree
  <1>8. \A t \in Streams \ {s} : /\ SameFor(t, readReady, readReady')
                                 /\ SameFor(t, writeReady, writeReady')
                                 /\ SameFor(t, blocked, blocked')
    BY <1>6 DEF SameFor
  <1>9. StreamsOK'
    BY <1>1, <1>2, <1>3, <1>6, <1>7, <1>8, OneStream
  <1> QED
    BY <1>3, <1>6, <1>9 DEF StreamsOK
-----------------------------------------------------------------------------
(* The upstream and the kernel leave the registrations as they are.        *)
LEMMA HappensStep ==
    ASSUME MuxInv, NEW s \in Streams, NEW k \in Socket, k.ract = sock[s].ract, k.wact = sock[s].wact,
           Happens(s, k)
    PROVE  MuxInv'
  <1>1. StreamsOK'
    <2>1. Agree(k, str[s], s \in Range(readReady), s \in Range(writeReady), s \in Range(blocked))
      BY StreamFacts DEF MuxInv, Agree
    <2>2. str[s] \in Stream /\ str' = [str EXCEPT ![s] = str[s]]
      BY StreamFacts DEF MuxInv, Happens
    <2> QED  BY <2>1, <2>2, OneStreamOnly DEF MuxInv, Happens, queues
  <1>2. ScalarsOK'
    BY DEF MuxInv, ScalarsOK, Happens, event, loop
  <1>3. LoopOK'
    BY DEF MuxInv, LoopOK, Happens, event, loop, queues, IsOpen, IsPacket
  <1> QED
    BY <1>1, <1>2, <1>3 DEF MuxInv

LEMMA EnvironmentStep ==
    ASSUME MuxInv, NEW s \in Streams, Environment(s)
    PROVE  MuxInv'
  <1> DEFINE x == sock[s]
  <1>1. x \in Socket
    BY StreamFacts DEF MuxInv
  <1>2. /\ x.et \in BOOLEAN /\ x.edge \in BOOLEAN /\ x.ract \in BOOLEAN /\ x.wact \in BOOLEAN
        /\ x.in \in Nat /\ x.arrived \in Nat
    BY <1>1 DEF Socket
  <1> HIDE DEF x
  <1>3. ASSUME NEW e \in BOOLEAN, NEW v \in {"up", "err"}
        PROVE  /\ [x EXCEPT !.net = v, !.edge = e] \in Socket
               /\ [x EXCEPT !.net = v, !.full = FALSE, !.edge = e] \in Socket
               /\ [x EXCEPT !.in = x.in + 1, !.arrived = x.arrived + 1, !.edge = e] \in Socket
               /\ [x EXCEPT !.eof = TRUE, !.edge = e] \in Socket
               /\ [x EXCEPT !.full = FALSE, !.edge = e] \in Socket
    <2> DEFINE a == x.in + 1
               b == x.arrived + 1
    <2>1. a \in Nat /\ b \in Nat
      BY <1>2
    <2> HIDE DEF a, b
    <2>2. [x EXCEPT !.net = v, !.edge = e] \in Socket
      BY <1>1 DEF Socket
    <2>3. [x EXCEPT !.net = v, !.full = FALSE, !.edge = e] \in Socket
      BY <1>1 DEF Socket
    <2>4. [x EXCEPT !.in = a, !.arrived = b, !.edge = e] \in Socket
      BY <1>1, <2>1 DEF Socket
    <2>5. [x EXCEPT !.eof = TRUE, !.edge = e] \in Socket
      BY <1>1 DEF Socket
    <2>6. [x EXCEPT !.full = FALSE, !.edge = e] \in Socket
      BY <1>1 DEF Socket
    <2> QED  BY <2>2, <2>3, <2>4, <2>5, <2>6 DEF a, b
  <1>4. ASSUME NEW e, NEW v
        PROVE  /\ [x EXCEPT !.net = v, !.edge = e].ract = x.ract
               /\ [x EXCEPT !.net = v, !.edge = e].wact = x.wact
               /\ [x EXCEPT !.net = v, !.full = FALSE, !.edge = e].ract = x.ract
               /\ [x EXCEPT !.net = v, !.full = FALSE, !.edge = e].wact = x.wact
               /\ [x EXCEPT !.in = x.in + 1, !.arrived = x.arrived + 1, !.edge = e].ract = x.ract
               /\ [x EXCEPT !.in = x.in + 1, !.arrived = x.arrived + 1, !.edge = e].wact = x.wact
               /\ [x EXCEPT !.eof = TRUE, !.edge = e].ract = x.ract
               /\ [x EXCEPT !.eof = TRUE, !.edge = e].wact = x.wact
               /\ [x EXCEPT !.full = FALSE, !.edge = e].ract = x.ract
               /\ [x EXCEPT !.full = FALSE, !.edge = e].wact = x.wact
    BY <1>1 DEF Socket
  <1>5. CASE Established(s)
    <2>1. Happens(s, [x EXCEPT !.net = "up", !.full = FALSE, !.edge = x.et])
      BY <1>5 DEF Established, x
    <2> QED  BY <1>2, <1>3, <1>4, <2>1, HappensStep DEF x
  <1>6. CASE NetError(s)
    <2>1. Happens(s, [x EXCEPT !.net = "err", !.edge = x.et])
      BY <1>6 DEF NetError, x
    <2> QED  BY <1>2, <1>3, <1>4, <2>1, HappensStep DEF x
  <1> DEFINE e == x.edge \/ (x.et /\ x.ract)
             g == x.edge \/ (x.et /\ x.wact)
  <1>7. e \in BOOLEAN /\ g \in BOOLEAN
    BY <1>2
  <1>8. CASE Arrive(s)
    <2>1. Happens(s, [x EXCEPT !.in = x.in + 1, !.arrived = x.arrived + 1, !.edge = e])
      BY <1>8 DEF Arrive, x
    <2> HIDE DEF e
    <2> QED  BY <1>3, <1>4, <1>7, <2>1, HappensStep DEF x
  <1>9. CASE ArriveEof(s)
    <2>1. Happens(s, [x EXCEPT !.eof = TRUE, !.edge = e])
      BY <1>9 DEF ArriveEof, x
    <2> HIDE DEF e
    <2> QED  BY <1>3, <1>4, <1>7, <2>1, HappensStep DEF x
  <1>10. CASE SpaceFreed(s)
    <2>1. Happens(s, [x EXCEPT !.full = FALSE, !.edge = g])
      BY <1>10 DEF SpaceFreed, x
    <2> HIDE DEF g
    <2> QED  BY <1>3, <1>4, <1>7, <2>1, HappensStep DEF x
  <1> QED
    BY <1>5, <1>6, <1>8, <1>9, <1>10 DEF Environment
-----------------------------------------------------------------------------
(* A handler without a loop is done when it returns.                       *)
LEMMA IdleStep ==
    ASSUME MuxInv, Idle, StreamsOK', output' \in Nat, pressure' \in BOOLEAN, UNCHANGED <<event, loop>>
    PROVE  MuxInv'
  <1>1. ScalarsOK'
    BY DEF MuxInv, ScalarsOK, event, loop
  <1>2. LoopOK'
    BY DEF MuxInv, LoopOK, Idle, event
  <1> QED
    BY <1>1, <1>2 DEF MuxInv

LEMMA OpenTcpStep ==
    ASSUME MuxInv, NEW s \in Streams, OpenTcp(s)
    PROVE  MuxInv'
  <1>1. PICK n \in 0 .. 1 : str' = [str EXCEPT ![s].state = "connecting", ![s].timer = TRUE,
                                               ![s].pend = n, ![s].sentIn = n]
    BY DEF OpenTcp
  <1> DEFINE k == [sock[s] EXCEPT !.net = "syn", !.ract = TRUE, !.wact = TRUE, !.et = TRUE]
             f == [str[s] EXCEPT !.state = "connecting", !.timer = TRUE, !.pend = n, !.sentIn = n]
  <1>2. /\ sock[s] \in Socket /\ str[s] \in Stream /\ str[s].state = "free"
        /\ Agree(sock[s], str[s], s \in Range(readReady), s \in Range(writeReady), s \in Range(blocked))
    BY StreamFacts DEF MuxInv, OpenTcp
  <1>3. k \in Socket /\ k.ract
    BY <1>2 DEF Socket
  <1>4. n \in Nat
    OBVIOUS
  <1>5. f \in Stream /\ f.state = "connecting" /\ f.kind = str[s].kind
    BY <1>2, <1>4 DEF Stream
  <1>6. sock' = [sock EXCEPT ![s] = k] /\ str' = [str EXCEPT ![s] = f]
    BY <1>1 DEF MuxInv, StreamsOK, OpenTcp
  <1> HIDE DEF k, f
  <1>7. Agree(k, f, s \in Range(readReady), s \in Range(writeReady), s \in Range(blocked))
    BY <1>2, <1>3, <1>5 DEF Agree
  <1>8. StreamsOK'
    BY <1>3, <1>5, <1>6, <1>7, OneStreamOnly DEF MuxInv, OpenTcp, queues
  <1> QED
    BY <1>8, IdleStep DEF MuxInv, ScalarsOK, OpenTcp

LEMMA OpenPacketStep ==
    ASSUME MuxInv, NEW s \in Streams, OpenPacket(s)
    PROVE  MuxInv'
  <1> DEFINE k == [sock[s] EXCEPT !.net = "up", !.ract = TRUE]
             f == [str[s] EXCEPT !.state = "connected", !.kind = "packet"]
  <1>2. /\ sock[s] \in Socket /\ str[s] \in Stream /\ str[s].state = "free"
        /\ Agree(sock[s], str[s], s \in Range(readReady), s \in Range(writeReady), s \in Range(blocked))
    BY StreamFacts DEF MuxInv, OpenPacket
  <1>3. k \in Socket /\ k.ract
    BY <1>2 DEF Socket
  <1>5. f \in Stream /\ f.state = "connected" /\ f.kind = "packet"
    BY <1>2 DEF Stream
  <1>6. sock' = [sock EXCEPT ![s] = k] /\ str' = [str EXCEPT ![s] = f]
    BY DEF MuxInv, StreamsOK, OpenPacket
  <1> HIDE DEF k, f
  <1>7. Agree(k, f, s \in Range(readReady), s \in Range(writeReady), s \in Range(blocked))
    BY <1>2, <1>3, <1>5 DEF Agree
  <1>8. StreamsOK'
    BY <1>3, <1>5, <1>6, <1>7, OneStreamOnly DEF MuxInv, OpenPacket, queues
  <1> QED
    BY <1>8, IdleStep DEF MuxInv, ScalarsOK, OpenPacket

(* ngx_anytls_finalize closes every stream.                                *)
LEMMA SessionEndsOK ==
    ASSUME StreamsOK, SessionEnds
    PROVE  StreamsOK'
  <1>1. ASSUME NEW s \in Streams
        PROVE  /\ sock'[s] = Closed(sock[s])
               /\ str'[s] = [str[s] EXCEPT !.state = "closed", !.timer = FALSE, !.posted = FALSE,
                                           !.pend = 0, !.rready = FALSE]
    BY DEF SessionEnds
  <1>2. ASSUME NEW s \in Streams
        PROVE  /\ sock'[s] \in Socket /\ ~sock'[s].ract /\ ~sock'[s].wact
               /\ str'[s] \in Stream /\ str'[s].state = "closed" /\ ~str'[s].posted
    <2> DEFINE x == sock[s]
               y == str[s]
               g == [y EXCEPT !.state = "closed", !.timer = FALSE, !.posted = FALSE, !.pend = 0,
                              !.rready = FALSE]
    <2>1. x \in Socket /\ y \in Stream
      BY StreamFacts
    <2>2. sock'[s] = Closed(x) /\ str'[s] = g
      BY <1>1
    <2> HIDE DEF x, y
    <2>3. Closed(x) \in Socket /\ ~Closed(x).ract /\ ~Closed(x).wact
      BY <2>1, SocketOps
    <2>4. g \in Stream /\ g.state = "closed" /\ ~g.posted
      BY <2>1 DEF Stream
    <2> HIDE DEF g
    <2> QED  BY <2>2, <2>3, <2>4
  <1>3. sock' \in [Streams -> Socket] /\ str' \in [Streams -> Stream]
    <2>1. DOMAIN sock' = Streams /\ sock' = [s \in DOMAIN sock' |-> sock'[s]]
      BY DEF SessionEnds
    <2>2. DOMAIN str' = Streams /\ str' = [s \in DOMAIN str' |-> str'[s]]
      BY DEF SessionEnds
    <2> QED  BY <1>2, <2>1, <2>2
  <1>6. <<>> \in Seq(Streams)
    OBVIOUS
  <1>4. readReady' = <<>> /\ writeReady' = <<>> /\ blocked' = <<>>
    BY DEF SessionEnds
  <1>5. ASSUME NEW s \in Streams PROVE StreamOK(s)'
    BY <1>2, <1>4, EmptyQueue DEF StreamOK, Agree
  <1> QED
    BY <1>3, <1>4, <1>5, <1>6, EmptyQueue DEF StreamsOK

LEMMA ClientPayloadStep ==
    ASSUME MuxInv, NEW s \in Streams, ClientPayload(s)
    PROVE  MuxInv'
  <1> DEFINE y == str[s]
             p == str[s].pend + 1
             c == str[s].sentIn + 1
  <1>1. /\ sock[s] \in Socket /\ y \in Stream /\ y.state \in {"connecting", "connected"}
        /\ Agree(sock[s], y, s \in Range(readReady), s \in Range(writeReady), s \in Range(blocked))
    BY StreamFacts DEF MuxInv, ClientPayload
  <1>2. p \in Nat /\ c \in Nat /\ p - 1 = y.pend
    BY <1>1 DEF Stream
  <1>3. CASE PayloadWaits(s)
    <2> DEFINE f == [y EXCEPT !.sentIn = c, !.pend = p, !.posted = TRUE]
    <2>1. str' = [str EXCEPT ![s] = f] /\ sock' = [sock EXCEPT ![s] = sock[s]]
      BY <1>3, StreamFacts DEF MuxInv, StreamsOK, PayloadWaits
    <2> HIDE DEF y, p, c
    <2>2. f \in Stream /\ f.state = y.state /\ f.kind = y.kind
      BY <1>1, <1>2 DEF Stream
    <2> HIDE DEF f
    <2>3. Agree(sock[s], f, s \in Range(readReady), s \in Range(writeReady), s \in Range(blocked))
      BY <1>1, <2>2 DEF Agree
    <2>4. StreamsOK'
      BY <1>1, <1>3, <2>1, <2>2, <2>3, OneStreamOnly DEF MuxInv, PayloadWaits, queues
    <2> QED
      BY <1>3, <2>4, IdleStep DEF MuxInv, ScalarsOK, ClientPayload, PayloadWaits
  <1>4. CASE PayloadSent(s)
    <2> DEFINE f == [y EXCEPT !.sentIn = c, !.pend = p]
    <2>1. PICK n \in 0 .. y.pend + 1 :
            LET flushed == IF n >= str[s].pend /\ str[s].pend > 0 THEN DisarmWrite(sock[s]) ELSE sock[s]
            IN  /\ Takes(sock[s], f.pend, n)
                /\ str' = [str EXCEPT ![s] = [SendPending(f, n) EXCEPT !.posted = @ \/ n < f.pend]]
                /\ sock' = [sock EXCEPT ![s] = PendingSent(flushed, f, n)]
      BY <1>4 DEF PayloadSent
    <2> DEFINE j == IF n >= str[s].pend /\ str[s].pend > 0 THEN DisarmWrite(sock[s]) ELSE sock[s]
               k == PendingSent(j, f, n)
               h == SendPending(f, n)
               o == h.posted \/ n < f.pend
               g == [h EXCEPT !.posted = o]
    <2>2. str' = [str EXCEPT ![s] = g] /\ sock' = [sock EXCEPT ![s] = k]
      BY <2>1
    <2>3. j \in Socket /\ j.ract = sock[s].ract
      BY <1>1, SocketOps
    <2> HIDE DEF j
    <2>4. k \in Socket /\ k.ract = sock[s].ract
      BY <2>3, PendingSentOp
    <2> HIDE DEF k
    <2>5. n \in 0 .. p
      OBVIOUS
    <2> HIDE DEF y, p, c
    <2>6. f \in Stream /\ f.state = y.state /\ f.kind = y.kind /\ f.pend = p
      BY <1>1, <1>2 DEF Stream
    <2> HIDE DEF f
    <2>7. h \in Stream /\ h.state = y.state /\ h.kind = y.kind
      BY <2>5, <2>6, SendPendingOp
    <2> HIDE DEF h
    <2>8. o \in BOOLEAN
      BY <2>7 DEF Stream
    <2> HIDE DEF o
    <2>9. g \in Stream /\ g.state = y.state /\ g.kind = y.kind
      BY <2>7, <2>8 DEF Stream
    <2> HIDE DEF g
    <2>10. Agree(k, g, s \in Range(readReady), s \in Range(writeReady), s \in Range(blocked))
      BY <1>1, <2>4, <2>9 DEF Agree
    <2>11. StreamsOK'
      BY <1>4, <2>2, <2>4, <2>9, <2>10, OneStreamOnly DEF MuxInv, PayloadSent, queues
    <2> QED
      BY <1>4, <2>11, IdleStep DEF MuxInv, ScalarsOK, ClientPayload, PayloadSent
  <1>5. CASE SessionEnds
    BY <1>5, SessionEndsOK, IdleStep DEF MuxInv, ScalarsOK, ClientPayload, SessionEnds
  <1> QED
    BY <1>3, <1>4, <1>5 DEF ClientPayload

LEMMA ClientFinStep ==
    ASSUME MuxInv, NEW s \in Streams, ClientFin(s)
    PROVE  MuxInv'
  <1> DEFINE y == str[s]
             f == [str[s] EXCEPT !.fin = TRUE]
  <1>1. /\ sock[s] \in Socket /\ y \in Stream /\ y.state \in {"connecting", "connected"}
        /\ Agree(sock[s], y, s \in Range(readReady), s \in Range(writeReady), s \in Range(blocked))
    BY StreamFacts DEF MuxInv, ClientFin
  <1>2. f \in Stream /\ f.state = y.state /\ f.kind = y.kind /\ f.pend = y.pend /\ f.posted = y.posted
    BY <1>1 DEF Stream
  <1>3. CASE IsPacket(s) \/ f.state = "connecting" \/ (sock[s].net = "err" /\ f.pend > 0)
    <2>1. CloseStream(s, f)
      BY <1>3 DEF ClientFin
    <2> HIDE DEF f
    <2>2. StreamsOK'
      BY <1>2, <2>1, Close DEF MuxInv
    <2> QED  BY <2>2, IdleStep DEF MuxInv, ScalarsOK, ClientFin
  <1>4. CASE ~(IsPacket(s) \/ f.state = "connecting" \/ (sock[s].net = "err" /\ f.pend > 0))
    <2>1. PICK n \in 0 .. f.pend :
            /\ str' = [str EXCEPT ![s] = [f EXCEPT !.state = "half_closed", !.pend = @ - n,
                                            !.shut = IF n = f.pend THEN "done" ELSE "pending"]]
            /\ sock' = [sock EXCEPT ![s] = PendingSent(@, f, n)]
            /\ UNCHANGED queues
      BY <1>4 DEF ClientFin
    <2> DEFINE v == IF n = f.pend THEN "done" ELSE "pending"
               p == f.pend - n
               g == [f EXCEPT !.state = "half_closed", !.pend = p, !.shut = v]
               k == PendingSent(sock[s], f, n)
    <2>2. str' = [str EXCEPT ![s] = g] /\ sock' = [sock EXCEPT ![s] = k]
      BY <2>1 DEF MuxInv, StreamsOK
    <2>3. f.kind # "packet" /\ f.state = "connected"
      BY <1>1, <1>2, <1>4 DEF IsPacket
    <2> HIDE DEF f
    <2>4. f.pend \in Nat
      BY <1>2 DEF Stream
    <2>5. p \in Nat /\ v \in {"done", "pending"} /\ (v = "done" <=> p = 0)
      BY <2>4
    <2>6. k \in Socket /\ k.ract = sock[s].ract
      BY <1>1, PendingSentOp
    <2> HIDE DEF k, p, v, y
    <2>7. g \in Stream /\ g.state = "half_closed" /\ g.kind = f.kind /\ g.pend = p /\ g.shut = v
      BY <1>2, <2>5 DEF Stream
    <2> HIDE DEF g
    <2>8. Agree(k, g, s \in Range(readReady), s \in Range(writeReady), s \in Range(blocked))
      BY <1>1, <1>2, <2>3, <2>5, <2>6, <2>7 DEF Agree
    <2>10. StreamsOK /\ readReady' = readReady /\ writeReady' = writeReady /\ blocked' = blocked
      BY <2>1 DEF MuxInv, queues
    <2>9. StreamsOK'
      BY ONLY <2>2, <2>6, <2>7, <2>8, <2>10, s \in Streams, OneStreamOnly
    <2> QED  BY <2>9, IdleStep DEF MuxInv, ScalarsOK, ClientFin
  <1> QED
    BY <1>3, <1>4

LEMMA ConnectTimeoutStep ==
    ASSUME MuxInv, NEW s \in Streams, ConnectTimeout(s)
    PROVE  MuxInv'
  <1>1. str[s] \in Stream
    BY StreamFacts DEF MuxInv
  <1>2. StreamsOK'
    BY <1>1, Close DEF MuxInv, ConnectTimeout
  <1> QED
    BY <1>2, IdleStep DEF MuxInv, ScalarsOK, ConnectTimeout

LEMMA EpollReportStep ==
    ASSUME MuxInv, NEW s \in Streams, EpollReport(s)
    PROVE  MuxInv'
  <1> DEFINE k == [sock[s] EXCEPT !.edge = FALSE]
  <1>1. /\ sock[s] \in Socket /\ str[s] \in Stream
        /\ Agree(sock[s], str[s], s \in Range(readReady), s \in Range(writeReady), s \in Range(blocked))
        /\ str = [str EXCEPT ![s] = str[s]]
    BY StreamFacts DEF MuxInv
  <1>2. k \in Socket /\ k.ract = sock[s].ract /\ k.wact = sock[s].wact
    BY <1>1 DEF Socket
  <1>3. sock' = [sock EXCEPT ![s] = k] /\ str' = [str EXCEPT ![s] = str[s]]
    BY <1>1 DEF EpollReport
  <1> HIDE DEF k
  <1>4. Agree(k, str[s], s \in Range(readReady), s \in Range(writeReady), s \in Range(blocked))
    BY <1>1, <1>2 DEF Agree
  <1>9. StreamsOK /\ readReady' = readReady /\ writeReady' = writeReady /\ blocked' = blocked
    BY DEF MuxInv, EpollReport, queues
  <1>5. StreamsOK'
    BY ONLY <1>1, <1>2, <1>3, <1>4, <1>9, s \in Streams, OneStreamOnly
  <1>6. mask' \subseteq {"in", "out", "hup"}
    BY DEF EpollReport, Reports
  <1>7. ScalarsOK'
    BY <1>6 DEF MuxInv, ScalarsOK, EpollReport, loop
  <1>8. LoopOK'
    BY <1>6 DEF LoopOK, EpollReport
  <1> QED
    BY <1>5, <1>7, <1>8 DEF MuxInv

LEMMA PostedWriteStep ==
    ASSUME MuxInv, NEW s \in Streams, PostedWrite(s)
    PROVE  MuxInv'
  <1> DEFINE f == [str[s] EXCEPT !.posted = FALSE]
  <1>1. /\ sock[s] \in Socket /\ str[s] \in Stream /\ str[s].posted
        /\ Agree(sock[s], str[s], s \in Range(readReady), s \in Range(writeReady), s \in Range(blocked))
        /\ sock = [sock EXCEPT ![s] = sock[s]]
    BY StreamFacts DEF MuxInv, PostedWrite
  <1>2. /\ f \in Stream /\ f.state = str[s].state /\ f.kind = str[s].kind /\ ~f.posted
        /\ f.pend = str[s].pend /\ f.shut = str[s].shut
    BY <1>1 DEF Stream
  <1>3. str' = [str EXCEPT ![s] = f] /\ sock' = [sock EXCEPT ![s] = sock[s]]
    BY <1>1 DEF PostedWrite
  <1> HIDE DEF f
  <1>4. Agree(sock[s], f, s \in Range(readReady), s \in Range(writeReady), s \in Range(blocked))
    BY <1>1, <1>2 DEF Agree
  <1>5. StreamsOK'
    BY <1>1, <1>2, <1>3, <1>4, OneStreamOnly DEF MuxInv, PostedWrite, queues
  <1>6. ScalarsOK'
    BY DEF MuxInv, ScalarsOK, PostedWrite, loop
  <1>7. f.state \notin {"free", "closed"} /\ str'[s] = f
    BY <1>1, <1>2, <1>3 DEF Agree, MuxInv, StreamsOK
  <1>8. LoopOK'
    BY <1>7 DEF LoopOK, PostedWrite
  <1> QED
    BY <1>5, <1>6, <1>8 DEF MuxInv
-----------------------------------------------------------------------------
LEMMA NoneSpent == 0 \in 0 .. FrameBudget /\ 0 \in 0 .. StreamBudget
  BY UpstreamAssumption

LEMMA EventDoneStep ==
    ASSUME MuxInv, EventDone
    PROVE  MuxInv'
  <1>1. StreamsOK'
    BY SameStreams DEF MuxInv, EventDone
  <1>2. ScalarsOK'
    BY DEF MuxInv, ScalarsOK, EventDone, loop
  <1>3. LoopOK'
    BY DEF LoopOK, EventDone
  <1> QED
    BY <1>1, <1>2, <1>3 DEF MuxInv

(* The write handler runs for a stream that is there.                      *)
LEMMA WriteTurnFacts ==
    ASSUME MuxInv, WriteTurn
    PROVE  /\ ev \in Streams /\ str[ev].state \in {"connecting", "connected", "half_closed"}
           /\ sock[ev] \in Socket /\ str[ev] \in Stream
           /\ Agree(sock[ev], str[ev], ev \in Range(readReady), ev \in Range(writeReady), ev \in Range(blocked))
  <1>1. ev \in Streams
    BY DEF MuxInv, LoopOK, WriteTurn
  <1>2. /\ sock[ev] \in Socket /\ str[ev] \in Stream
        /\ Agree(sock[ev], str[ev], ev \in Range(readReady), ev \in Range(writeReady), ev \in Range(blocked))
    BY <1>1, StreamFacts DEF MuxInv
  <1>3. str[ev].state \in {"free", "connecting", "connected", "half_closed", "closed"}
    BY <1>2 DEF Stream
  <1>4. "posted" \in mask \/ sock[ev].wact
    BY DEF WriteTurn
  <1>5. str[ev].state \notin {"free", "closed"}
    BY <1>2, <1>4 DEF Agree, MuxInv, LoopOK
  <1> QED
    BY <1>1, <1>2, <1>3, <1>5

(* The stream of the event, open by now as f says, joins write_ready.      *)
LEMMA JoinWrites ==
    ASSUME MuxInv, WriteTurn, WriteReady, sock' = sock, NEW f \in Stream, str' = [str EXCEPT ![ev] = f],
           f.state \in {"connected", "half_closed"}, output' \in Nat,
           Agree(sock[ev], f, ev \in Range(readReady), ev \in Range(writeReady), ev \in Range(blocked))
    PROVE  MuxInv'
  <1>1. ev \in Streams /\ sock[ev] \in Socket /\ sock' = [sock EXCEPT ![ev] = sock[ev]]
    BY WriteTurnFacts, StreamFacts DEF MuxInv
  <1>2. StreamsOK /\ ScalarsOK /\ readReady' = readReady /\ blocked' = blocked
    BY DEF MuxInv, WriteReady
  <1>3. /\ readReady \in Seq(Streams) /\ IsInjective(readReady)
        /\ writeReady \in Seq(Streams) /\ IsInjective(writeReady)
        /\ blocked \in Seq(Streams) /\ IsInjective(blocked)
    BY <1>2 DEF StreamsOK
  <1>4. /\ writeReady' \in Seq(Streams) /\ IsInjective(writeReady')
        /\ Range(writeReady') = Range(writeReady) \cup {ev}
    <2>1. CASE ev \in Range(writeReady)
      BY <1>3, <2>1 DEF WriteReady
    <2>2. CASE ev \notin Range(writeReady)
      BY <1>1, <1>3, <2>2, QueueAppend DEF WriteReady
    <2> QED  BY <2>1, <2>2
  <1>5. \A t \in Streams \ {ev} : /\ SameFor(t, readReady, readReady')
                                  /\ SameFor(t, writeReady, writeReady')
                                  /\ SameFor(t, blocked, blocked')
    BY <1>2, <1>4 DEF SameFor
  <1>6. Agree(sock[ev], f, ev \in Range(readReady'), ev \in Range(writeReady'), ev \in Range(blocked'))
    BY <1>2 DEF Agree
  <1>7. StreamsOK'
    BY <1>1, <1>2, <1>3, <1>4, <1>5, <1>6, OneStream
  <1>10. /\ pc' = "writes" /\ mask' = {} /\ frames' = 0 /\ visited' = 0 /\ last' = FALSE
         /\ UNCHANGED <<pressure, ev, cur>>
    BY DEF WriteReady
  <1>8. ScalarsOK'
    BY ONLY <1>2, <1>10, output' \in Nat, NoneSpent DEF ScalarsOK
  <1>9. LoopOK'
    BY <1>1 DEF LoopOK, WriteReady
  <1> QED
    BY <1>7, <1>8, <1>9 DEF MuxInv

LEMMA ConnectReadyStep ==
    ASSUME MuxInv, ConnectReady
    PROVE  MuxInv'
  <1> DEFINE f == [str[ev] EXCEPT !.state = "connected", !.timer = FALSE]
  <1>0. WriteTurn /\ WriteReady /\ sock' = sock /\ str[ev].state = "connecting"
    BY DEF ConnectReady
  <1>1. /\ ev \in Streams /\ str[ev] \in Stream
        /\ Agree(sock[ev], str[ev], ev \in Range(readReady), ev \in Range(writeReady), ev \in Range(blocked))
    BY <1>0, WriteTurnFacts
  <1>2. f \in Stream /\ f.state = "connected" /\ f.kind = str[ev].kind
    BY <1>1 DEF Stream
  <1>3. str' = [str EXCEPT ![ev] = f]
    BY <1>1 DEF MuxInv, StreamsOK, ConnectReady
  <1> HIDE DEF f
  <1>4. Agree(sock[ev], f, ev \in Range(readReady), ev \in Range(writeReady), ev \in Range(blocked))
    BY <1>0, <1>1, <1>2 DEF Agree
  <1>5. output' \in Nat
    BY DEF MuxInv, ScalarsOK, ConnectReady
  <1> QED
    BY <1>0, <1>2, <1>3, <1>4, <1>5, JoinWrites

LEMMA WriteHandlerStep ==
    ASSUME MuxInv, WriteHandler
    PROVE  MuxInv'
  <1>0. WriteTurn /\ WriteReady /\ sock' = sock /\ str' = str /\ str[ev].state # "connecting"
    BY DEF WriteHandler
  <1>1. /\ ev \in Streams /\ str[ev] \in Stream /\ str[ev].state \in {"connected", "half_closed"}
        /\ Agree(sock[ev], str[ev], ev \in Range(readReady), ev \in Range(writeReady), ev \in Range(blocked))
    BY <1>0, WriteTurnFacts
  <1>2. str' = [str EXCEPT ![ev] = str[ev]]
    BY <1>0, <1>1, StreamFacts DEF MuxInv
  <1>3. output' \in Nat
    BY DEF MuxInv, ScalarsOK, WriteHandler
  <1> QED
    BY <1>0, <1>1, <1>2, <1>3, JoinWrites

LEMMA ConnectErrorStep ==
    ASSUME MuxInv, ConnectError
    PROVE  MuxInv'
  <1>1. ev \in Streams /\ str[ev] \in Stream
    BY WriteTurnFacts DEF ConnectError
  <1>2. StreamsOK'
    BY <1>1, Close DEF MuxInv, ConnectError
  <1>3. ScalarsOK'
    BY DEF MuxInv, ScalarsOK, ConnectError, loop
  <1>4. LoopOK'
    BY <1>1 DEF LoopOK, ConnectError, WriteTurn
  <1> QED
    BY <1>2, <1>3, <1>4 DEF MuxInv
-----------------------------------------------------------------------------
(* The head of write_ready is an open stream.                              *)
LEMMA WriteHead ==
    ASSUME StreamsOK, writeReady # <<>>
    PROVE  /\ Head(writeReady) \in Streams /\ Head(writeReady) \in Range(writeReady)
           /\ str[Head(writeReady)].state \in {"connected", "half_closed"}
           /\ Tail(writeReady) \in Seq(Streams) /\ IsInjective(Tail(writeReady))
           /\ Range(Tail(writeReady)) = Range(writeReady) \ {Head(writeReady)}
  <1>1. writeReady \in Seq(Streams) /\ IsInjective(writeReady)
    BY DEF StreamsOK
  <1>2. /\ Head(writeReady) \in Streams /\ Head(writeReady) \in Range(writeReady)
        /\ Tail(writeReady) \in Seq(Streams) /\ IsInjective(Tail(writeReady))
        /\ Range(Tail(writeReady)) = Range(writeReady) \ {Head(writeReady)}
    BY <1>1, QueueTail
  <1> DEFINE s == Head(writeReady)
  <1> HIDE DEF s
  <1>3. str[s].state \in {"connected", "half_closed"}
    <2>1. s \in Streams /\ s \in Range(writeReady)
      BY <1>2 DEF s
    <2>2. Agree(sock[s], str[s], s \in Range(readReady), s \in Range(writeReady), s \in Range(blocked))
      BY <2>1, StreamFacts
    <2> QED  BY <2>1, <2>2 DEF Agree
  <1> QED
    BY <1>2, <1>3 DEF s

LEMMA WritePayloadsStep ==
    ASSUME MuxInv, WritePayloads
    PROVE  MuxInv'
  <1> DEFINE s == Head(writeReady)
             y == str[s]
  <1>0. StreamsOK /\ ScalarsOK /\ LoopOK /\ writeReady # <<>>
    BY DEF MuxInv, WritePayloads, MoreWrites
  <1>1. /\ s \in Streams /\ s \in Range(writeReady) /\ y.state \in {"connected", "half_closed"}
        /\ Tail(writeReady) \in Seq(Streams) /\ IsInjective(Tail(writeReady))
        /\ Range(Tail(writeReady)) = Range(writeReady) \ {s}
    BY <1>0, WriteHead
  <1>2. /\ sock[s] \in Socket /\ y \in Stream
        /\ Agree(sock[s], y, s \in Range(readReady), s \in Range(writeReady), s \in Range(blocked))
    BY <1>0, <1>1, StreamFacts
  <1>3. PICK n \in 0 .. y.pend :
          /\ str' = [str EXCEPT ![s] = SendPending(@, n)]
          /\ sock' = [sock EXCEPT ![s] = PendingSent(@, y, n)]
          /\ writeReady' = IF n < y.pend THEN Append(Tail(writeReady), s) ELSE Tail(writeReady)
    BY DEF WritePayloads
  <1> DEFINE f == SendPending(y, n)
             k == PendingSent(sock[s], y, n)
  <1>4. str' = [str EXCEPT ![s] = f] /\ sock' = [sock EXCEPT ![s] = k]
    BY <1>3
  <1>5. k \in Socket /\ k.ract = sock[s].ract
    BY <1>2, PendingSentOp
  <1> DEFINE queue == Tail(writeReady)
  <1>6. writeReady' = queue \/ writeReady' = Append(queue, s)
    BY <1>3
  <1>7. queue \in Seq(Streams) /\ IsInjective(queue) /\ Range(queue) = Range(writeReady) \ {s}
    BY <1>1
  <1> HIDE DEF s, queue, k
  <1>8. /\ f \in Stream /\ f.state = y.state /\ f.kind = y.kind /\ f.pend = y.pend - n
        /\ f.shut = IF y.pend = n /\ y.shut = "pending" THEN "done" ELSE y.shut
    BY <1>2, SendPendingOp
  <1> HIDE DEF y, f
  <1>9. /\ writeReady' \in Seq(Streams) /\ IsInjective(writeReady')
        /\ Range(writeReady') \in {Range(queue), Range(queue) \cup {s}}
    <2>1. CASE writeReady' = queue
      BY <1>7, <2>1
    <2>2. CASE writeReady' = Append(queue, s)
      BY <1>1, <1>7, <2>2, QueueAppend
    <2> QED  BY <1>6, <2>1, <2>2
  <1>10. readReady' = readReady /\ blocked' = blocked
    BY DEF WritePayloads
  <1>11. /\ readReady \in Seq(Streams) /\ IsInjective(readReady)
         /\ blocked \in Seq(Streams) /\ IsInjective(blocked)
    BY <1>0 DEF StreamsOK
  <1>12. \A t \in Streams \ {s} : /\ SameFor(t, readReady, readReady')
                                  /\ SameFor(t, writeReady, writeReady')
                                  /\ SameFor(t, blocked, blocked')
    BY <1>7, <1>9, <1>10 DEF SameFor
  <1>13. f.state = "half_closed" => f.shut # "no" /\ (f.shut = "done" <=> f.pend = 0)
    <2>1. y.pend \in Nat
      BY <1>2 DEF Stream
    <2> SUFFICES ASSUME f.state = "half_closed" PROVE f.shut # "no" /\ (f.shut = "done" <=> f.pend = 0)
      OBVIOUS
    <2>2. y.shut # "no" /\ (y.shut = "done" <=> y.pend = 0)
      BY <1>2, <1>8 DEF Agree
    <2>3. y.shut \in {"no", "pending", "done"}
      BY <1>2 DEF Stream
    <2>4. CASE y.pend = n
      BY <1>8, <2>1, <2>2, <2>3, <2>4
    <2>5. CASE y.pend # n
      BY <1>8, <2>1, <2>2, <2>3, <2>5
    <2> QED  BY <2>4, <2>5
  <1>14. Agree(k, f, s \in Range(readReady'), s \in Range(writeReady'), s \in Range(blocked'))
    BY <1>1, <1>2, <1>5, <1>8, <1>10, <1>13 DEF Agree
  <1>15. StreamsOK'
    BY ONLY <1>0, <1>1, <1>4, <1>5, <1>8, <1>9, <1>10, <1>11, <1>12, <1>14, OneStream
  <1>16. /\ visited' = visited + 1 /\ frames' = frames + 1 /\ last' \in BOOLEAN
         /\ visited < StreamBudget /\ frames < FrameBudget /\ pc = "writes"
         /\ UNCHANGED <<output, pressure, pc, ev, mask, cur>>
    BY DEF WritePayloads, MoreWrites, event
  <1>17. ScalarsOK'
    BY ONLY <1>0, <1>16, UpstreamAssumption DEF ScalarsOK
  <1>18. LoopOK'
    BY ONLY <1>0, <1>16 DEF LoopOK
  <1> QED
    BY <1>15, <1>17, <1>18 DEF MuxInv

LEMMA WriteErrorStep ==
    ASSUME MuxInv, WriteError
    PROVE  MuxInv'
  <1> DEFINE s == Head(writeReady)
  <1>0. StreamsOK /\ ScalarsOK /\ LoopOK /\ writeReady # <<>> /\ CloseStream(s, str[s])
    BY DEF MuxInv, WriteError, MoreWrites
  <1>1. s \in Streams
    BY <1>0, WriteHead
  <1> HIDE DEF s
  <1>2. str[s] \in Stream
    BY <1>0, <1>1, StreamFacts
  <1>3. StreamsOK'
    BY <1>0, <1>1, <1>2, Close
  <1>4. last' \in BOOLEAN /\ pc = "writes" /\ UNCHANGED <<output, pressure, pc, ev, mask, cur, visited, frames>>
    BY DEF WriteError, event
  <1>5. ScalarsOK'
    BY ONLY <1>0, <1>4 DEF ScalarsOK
  <1>6. LoopOK'
    BY ONLY <1>0, <1>4 DEF LoopOK
  <1> QED
    BY <1>3, <1>5, <1>6 DEF MuxInv

(* The loops return to the rest of the event.                              *)
LEMMA LoopsDone ==
    ASSUME MuxInv, pc \in {"writes", "reads"}, Return, UNCHANGED <<sock, str, queues, output, pressure, ev, mask>>
    PROVE  MuxInv'
  <1>1. StreamsOK'
    BY SameStreams DEF MuxInv
  <1>2. ScalarsOK'
    BY NoneSpent DEF MuxInv, ScalarsOK, Return
  <1>3. LoopOK'
    BY DEF MuxInv, LoopOK, Return
  <1> QED
    BY <1>1, <1>2, <1>3 DEF MuxInv
-----------------------------------------------------------------------------
LEMMA ReadTurnFacts ==
    ASSUME MuxInv, ReadTurn
    PROVE  /\ ev \in Streams /\ sock[ev] \in Socket /\ str[ev] \in Stream /\ sock[ev].ract
           /\ Agree(sock[ev], str[ev], ev \in Range(readReady), ev \in Range(writeReady), ev \in Range(blocked))
           /\ "posted" \notin mask
  <1>1. ev \in Streams
    BY DEF MuxInv, LoopOK, ReadTurn
  <1>2. "posted" \notin mask
    BY DEF MuxInv, LoopOK, ReadTurn
  <1> QED
    BY <1>1, <1>2, StreamFacts DEF MuxInv, ReadTurn

LEMMA ReadHandlerStep ==
    ASSUME MuxInv, ReadHandler
    PROVE  MuxInv'
  <1> DEFINE h == str[ev].hup \/ "hup" \in mask
             f == [str[ev] EXCEPT !.rready = TRUE, !.hup = h]
  <1>0. StreamsOK /\ ScalarsOK /\ LoopOK /\ ReadTurn /\ ~IsPacket(ev) /\ pc = "event"
    BY DEF MuxInv, ReadHandler, ReadTurn
  <1>1. /\ ev \in Streams /\ sock[ev] \in Socket /\ str[ev] \in Stream /\ sock[ev].ract
        /\ Agree(sock[ev], str[ev], ev \in Range(readReady), ev \in Range(writeReady), ev \in Range(blocked))
        /\ "posted" \notin mask
    BY <1>0, ReadTurnFacts
  <1>2. str' = [str EXCEPT ![ev] = f] /\ sock' = [sock EXCEPT ![ev] = sock[ev]]
    BY <1>0, <1>1, StreamFacts DEF StreamsOK, ReadHandler
  <1>3. h \in BOOLEAN
    BY <1>1 DEF Stream
  <1> HIDE DEF h
  <1>4. /\ f \in Stream /\ f.state = str[ev].state /\ f.kind = str[ev].kind /\ f.posted = str[ev].posted
        /\ f.pend = str[ev].pend /\ f.shut = str[ev].shut
    BY <1>1, <1>3 DEF Stream
  <1> HIDE DEF f
  <1>5. /\ readReady \in Seq(Streams) /\ IsInjective(readReady)
        /\ writeReady \in Seq(Streams) /\ IsInjective(writeReady)
        /\ blocked \in Seq(Streams) /\ IsInjective(blocked)
    BY <1>0 DEF StreamsOK
  <1>6. writeReady' = writeReady /\ blocked' = blocked
    BY DEF ReadHandler
  <1>7. \/ readReady' = readReady
        \/ IsOpen(ev) /\ ev \notin Range(readReady) \cup Range(blocked) /\ readReady' = Append(readReady, ev)
    BY DEF ReadHandler
  <1>8. /\ readReady' \in Seq(Streams) /\ IsInjective(readReady')
        /\ \/ Range(readReady') = Range(readReady)
           \/ /\ Range(readReady') = Range(readReady) \cup {ev}
              /\ IsOpen(ev) /\ ev \notin Range(blocked)
    <2>1. CASE readReady' = readReady
      BY <1>5, <2>1
    <2>2. CASE ev \notin Range(readReady) \cup Range(blocked) /\ readReady' = Append(readReady, ev) /\ IsOpen(ev)
      BY <1>1, <1>5, <2>2, QueueAppend
    <2> QED  BY <1>7, <2>1, <2>2
  <1>9. \A t \in Streams \ {ev} : /\ SameFor(t, readReady, readReady')
                                  /\ SameFor(t, writeReady, writeReady')
                                  /\ SameFor(t, blocked, blocked')
    BY <1>6, <1>8 DEF SameFor
  <1>10. Agree(sock[ev], f, ev \in Range(readReady'), ev \in Range(writeReady'), ev \in Range(blocked'))
    BY <1>0, <1>1, <1>4, <1>6, <1>8 DEF Agree, IsOpen, IsPacket
  <1>11. StreamsOK'
    BY ONLY <1>0, <1>1, <1>2, <1>4, <1>5, <1>6, <1>8, <1>9, <1>10, OneStream
  <1>12. /\ mask' = mask \ {"in"} /\ UNCHANGED <<output, pressure, ev, cur>>
         /\ \/ pc' = "reads" /\ frames' = 0 /\ visited' = 0 /\ last' = FALSE
            \/ UNCHANGED <<pc, frames, visited, last>>
    BY DEF ReadHandler
  <1>13. ScalarsOK'
    BY ONLY <1>0, <1>12, NoneSpent DEF ScalarsOK
  <1>14. LoopOK'
    BY ONLY <1>0, <1>1, <1>12 DEF LoopOK
  <1> QED
    BY <1>11, <1>13, <1>14 DEF MuxInv

(* drain_reads takes the stream out of the queue before it reads.          *)
LEMMA NextStreamStep ==
    ASSUME MuxInv, NextStream
    PROVE  MuxInv'
  <1>0. StreamsOK /\ ScalarsOK /\ LoopOK /\ readReady # <<>> /\ visited < StreamBudget /\ pc = "reads"
    BY DEF MuxInv, NextStream, MoreReads
  <1>1. readReady \in Seq(Streams) /\ IsInjective(readReady)
    BY <1>0 DEF StreamsOK
  <1>2. cur' = Head(readReady) /\ readReady' = Tail(readReady)
    BY DEF NextStream
  <1>3. /\ cur' \in Range(readReady) /\ cur' \in Streams
        /\ readReady' \in Seq(Streams) /\ IsInjective(readReady')
        /\ Range(readReady') = Range(readReady) \ {cur'}
    BY <1>0, <1>1, <1>2, QueueTail
  <1> DEFINE s == cur'
  <1>4. cur' = s
    OBVIOUS
  <1> HIDE DEF s
  <1>5. /\ s \in Streams /\ s \in Range(readReady) /\ Range(readReady') = Range(readReady) \ {s}
    BY <1>3, <1>4
  <1>6. /\ sock[s] \in Socket /\ str[s] \in Stream
        /\ Agree(sock[s], str[s], s \in Range(readReady), s \in Range(writeReady), s \in Range(blocked))
        /\ sock = [sock EXCEPT ![s] = sock[s]] /\ str = [str EXCEPT ![s] = str[s]]
    BY <1>0, <1>5, StreamFacts
  <1>7. UNCHANGED <<sock, str, writeReady, blocked, output, pressure, frames, ev, mask>>
        /\ visited' = visited + 1 /\ pc' = "read" /\ last' \in BOOLEAN
    BY DEF NextStream
  <1>8. /\ writeReady' \in Seq(Streams) /\ IsInjective(writeReady')
        /\ blocked' \in Seq(Streams) /\ IsInjective(blocked')
    BY <1>0, <1>7 DEF StreamsOK
  <1>9. \A t \in Streams \ {s} : /\ SameFor(t, readReady, readReady')
                                 /\ SameFor(t, writeReady, writeReady')
                                 /\ SameFor(t, blocked, blocked')
    BY <1>5, <1>7 DEF SameFor
  <1>10. Agree(sock[s], str[s], s \in Range(readReady'), s \in Range(writeReady'), s \in Range(blocked'))
    BY <1>5, <1>6, <1>7 DEF Agree
  <1>11. sock' = [sock EXCEPT ![s] = sock[s]] /\ str' = [str EXCEPT ![s] = str[s]]
    BY <1>6, <1>7
  <1>12. StreamsOK'
    BY ONLY <1>0, <1>3, <1>5, <1>6, <1>8, <1>9, <1>10, <1>11, OneStream
  <1>13. ScalarsOK'
    BY ONLY <1>0, <1>3, <1>7, UpstreamAssumption DEF ScalarsOK
  <1>14. str[s].state \in {"connected", "half_closed"} /\ str[s].kind # "packet" /\ s \notin Range(blocked)
    BY <1>5, <1>6 DEF Agree
  <1>15. LoopOK'
    <2>1. ev' \in Streams /\ "posted" \notin mask'
      BY <1>0, <1>7 DEF LoopOK
    <2>2. s \in Streams /\ str'[s].state \in {"connected", "half_closed"} /\ str'[s].kind # "packet"
          /\ s \notin Range(readReady') \cup Range(blocked')
      BY <1>5, <1>7, <1>14
    <2> QED  BY ONLY <1>4, <1>7, <2>1, <2>2 DEF LoopOK, IsOpen, IsPacket
  <1> QED
    BY <1>12, <1>13, <1>15 DEF MuxInv

(* The stream drain_reads is at.                                           *)
LEMMA ReadFacts ==
    ASSUME MuxInv, pc = "read"
    PROVE  /\ StreamsOK /\ ScalarsOK /\ LoopOK
           /\ cur \in Streams /\ sock[cur] \in Socket /\ str[cur] \in Stream
           /\ str[cur].state \in {"connected", "half_closed"} /\ str[cur].kind # "packet"
           /\ cur \notin Range(readReady) /\ cur \notin Range(blocked) /\ sock[cur].ract
           /\ Agree(sock[cur], str[cur], cur \in Range(readReady), cur \in Range(writeReady), cur \in Range(blocked))
           /\ sock = [sock EXCEPT ![cur] = sock[cur]] /\ str = [str EXCEPT ![cur] = str[cur]]
           /\ "posted" \notin mask /\ ev \in Streams
  <1>1. /\ StreamsOK /\ ScalarsOK /\ LoopOK /\ cur \in Streams
        /\ str[cur].state \in {"connected", "half_closed"} /\ str[cur].kind # "packet"
        /\ cur \notin Range(readReady) /\ cur \notin Range(blocked)
        /\ "posted" \notin mask /\ ev \in Streams
    BY DEF MuxInv, LoopOK, IsOpen, IsPacket
  <1>2. /\ sock[cur] \in Socket /\ str[cur] \in Stream
        /\ Agree(sock[cur], str[cur], cur \in Range(readReady), cur \in Range(writeReady), cur \in Range(blocked))
        /\ sock = [sock EXCEPT ![cur] = sock[cur]] /\ str = [str EXCEPT ![cur] = str[cur]]
    BY <1>1, StreamFacts
  <1>3. sock[cur].ract
    BY <1>1, <1>2 DEF Agree, Socket
  <1> QED
    BY <1>1, <1>2, <1>3

(* Only fields that no other part depends on change: what waits in the     *)
(* socket, and whether the read event is ready.                            *)
LEMMA ReadProgress ==
    ASSUME StreamsOK, NEW s \in Streams, NEW i \in Nat, NEW r \in BOOLEAN,
           sock' = [sock EXCEPT ![s].in = i], str' = [str EXCEPT ![s].rready = r],
           UNCHANGED queues
    PROVE  /\ StreamsOK'
           /\ \A t \in Streams : str'[t].state = str[t].state /\ str'[t].kind = str[t].kind
  <1> DEFINE k == [sock[s] EXCEPT !.in = i]
             f == [str[s] EXCEPT !.rready = r]
  <1>1. /\ sock[s] \in Socket /\ str[s] \in Stream
        /\ Agree(sock[s], str[s], s \in Range(readReady), s \in Range(writeReady), s \in Range(blocked))
    BY StreamFacts
  <1>2. k \in Socket /\ k.ract = sock[s].ract /\ k.wact = sock[s].wact
    BY <1>1 DEF Socket
  <1>3. /\ f \in Stream /\ f.state = str[s].state /\ f.kind = str[s].kind /\ f.posted = str[s].posted
        /\ f.pend = str[s].pend /\ f.shut = str[s].shut
    BY <1>1 DEF Stream
  <1>4. sock' = [sock EXCEPT ![s] = k] /\ str' = [str EXCEPT ![s] = f]
    OBVIOUS
  <1> HIDE DEF k, f
  <1>5. Agree(k, f, s \in Range(readReady), s \in Range(writeReady), s \in Range(blocked))
    BY <1>1, <1>2, <1>3 DEF Agree
  <1>6. readReady' = readReady /\ writeReady' = writeReady /\ blocked' = blocked
    BY DEF queues
  <1>7. StreamsOK'
    BY ONLY <1>2, <1>3, <1>4, <1>5, <1>6, StreamsOK, s \in Streams, OneStreamOnly
  <1>8. \A t \in Streams : str'[t].state = str[t].state /\ str'[t].kind = str[t].kind
    BY <1>3, <1>4 DEF StreamsOK
  <1> QED
    BY <1>7, <1>8

(* ngx_anytls_upstream_block_read of an open stream that waits in no queue. *)
LEMMA Block ==
    ASSUME StreamsOK, NEW s \in Streams, str[s].state \in {"connected", "half_closed"},
           s \notin Range(readReady), s \notin Range(blocked),
           BlockRead(s), UNCHANGED <<readReady, writeReady>>
    PROVE  StreamsOK'
  <1> DEFINE k == DisarmRead(sock[s])
             f == [str[s] EXCEPT !.rready = FALSE]
  <1>1. /\ sock[s] \in Socket /\ str[s] \in Stream
        /\ Agree(sock[s], str[s], s \in Range(readReady), s \in Range(writeReady), s \in Range(blocked))
    BY StreamFacts
  <1>2. k \in Socket /\ ~k.ract
    BY <1>1, SocketOps
  <1>3. /\ f \in Stream /\ f.state = str[s].state /\ f.kind = str[s].kind /\ f.posted = str[s].posted
        /\ f.pend = str[s].pend /\ f.shut = str[s].shut
    BY <1>1 DEF Stream
  <1>4. sock' = [sock EXCEPT ![s] = k] /\ str' = [str EXCEPT ![s] = f]
    BY DEF BlockRead
  <1> HIDE DEF k, f
  <1>5. /\ readReady \in Seq(Streams) /\ IsInjective(readReady)
        /\ writeReady \in Seq(Streams) /\ IsInjective(writeReady)
        /\ blocked \in Seq(Streams) /\ IsInjective(blocked)
    BY DEF StreamsOK
  <1>6. blocked' = Append(blocked, s) /\ readReady' = readReady /\ writeReady' = writeReady
    BY DEF BlockRead
  <1>7. blocked' \in Seq(Streams) /\ IsInjective(blocked') /\ Range(blocked') = Range(blocked) \cup {s}
    BY <1>5, <1>6, QueueAppend
  <1>8. \A t \in Streams \ {s} : /\ SameFor(t, readReady, readReady')
                                 /\ SameFor(t, writeReady, writeReady')
                                 /\ SameFor(t, blocked, blocked')
    BY <1>6, <1>7 DEF SameFor
  <1>9. Agree(k, f, s \in Range(readReady'), s \in Range(writeReady'), s \in Range(blocked'))
    BY <1>1, <1>2, <1>3, <1>6, <1>7 DEF Agree
  <1> QED
    BY ONLY <1>2, <1>3, <1>4, <1>5, <1>6, <1>7, <1>8, <1>9, StreamsOK, s \in Streams, OneStream

LEMMA NoRoomStep ==
    ASSUME MuxInv, NoRoom
    PROVE  MuxInv'
  <1>0. pc = "read" /\ BlockRead(cur) /\ UNCHANGED <<readReady, writeReady>>
    BY DEF NoRoom
  <1>1. StreamsOK'
    BY <1>0, ReadFacts, Block
  <1>2. pc' = "reads" /\ UNCHANGED <<output, pressure, cur, frames, visited, last, ev, mask>>
    BY DEF NoRoom
  <1>3. ScalarsOK'
    BY <1>2 DEF MuxInv, ScalarsOK
  <1>4. LoopOK'
    BY <1>0, <1>2, ReadFacts DEF LoopOK
  <1> QED
    BY <1>1, <1>3, <1>4 DEF MuxInv

LEMMA BudgetSpentStep ==
    ASSUME MuxInv, BudgetSpent
    PROVE  MuxInv'
  <1> DEFINE s == cur
  <1>0. pc = "read"
    BY DEF BudgetSpent
  <1>1. /\ StreamsOK /\ s \in Streams /\ sock[s] \in Socket /\ str[s] \in Stream
        /\ str[s].state \in {"connected", "half_closed"} /\ str[s].kind # "packet"
        /\ s \notin Range(readReady) /\ s \notin Range(blocked)
        /\ Agree(sock[s], str[s], s \in Range(readReady), s \in Range(writeReady), s \in Range(blocked))
        /\ sock = [sock EXCEPT ![s] = sock[s]] /\ str = [str EXCEPT ![s] = str[s]]
    BY <1>0, ReadFacts
  <1>2. \E k \in Socket, f \in Stream :
           /\ sock' = [sock EXCEPT ![s] = k] /\ str' = [str EXCEPT ![s] = f]
           /\ k.ract = sock[s].ract /\ k.wact \in BOOLEAN
           /\ f.state = str[s].state /\ f.kind = str[s].kind
           /\ f.pend = str[s].pend /\ f.shut = str[s].shut
    <2>1. CASE UNCHANGED <<sock, str>>
      BY <1>1, <2>1 DEF Socket
    <2>2. CASE ~UNCHANGED <<sock, str>>
      <3> DEFINE k == LevelTriggered(sock[s])
                 f == [str[s] EXCEPT !.rready = FALSE]
      <3>1. sock' = [sock EXCEPT ![s] = k] /\ str' = [str EXCEPT ![s] = f]
        BY <2>2 DEF BudgetSpent, RequeueRead
      <3>2. k \in Socket /\ k.ract = sock[s].ract
        BY <1>1, SocketOps
      <3>3. /\ f \in Stream /\ f.state = str[s].state /\ f.kind = str[s].kind
            /\ f.pend = str[s].pend /\ f.shut = str[s].shut
        BY <1>1 DEF Stream
      <3> HIDE DEF k, f
      <3>4. k.wact \in BOOLEAN
        BY <3>2 DEF Socket
      <3> QED  BY <3>1, <3>2, <3>3, <3>4
    <2> QED  BY <2>1, <2>2
  <1>3. PICK k \in Socket, f \in Stream :
           /\ sock' = [sock EXCEPT ![s] = k] /\ str' = [str EXCEPT ![s] = f]
           /\ k.ract = sock[s].ract /\ k.wact \in BOOLEAN
           /\ f.state = str[s].state /\ f.kind = str[s].kind
           /\ f.pend = str[s].pend /\ f.shut = str[s].shut
    BY <1>2
  <1>5. /\ readReady \in Seq(Streams) /\ IsInjective(readReady)
        /\ writeReady \in Seq(Streams) /\ IsInjective(writeReady)
        /\ blocked \in Seq(Streams) /\ IsInjective(blocked)
    BY <1>1 DEF StreamsOK
  <1>6. readReady' = Append(readReady, s) /\ blocked' = blocked /\ writeReady' = writeReady
    BY DEF BudgetSpent
  <1> HIDE DEF s
  <1>7. readReady' \in Seq(Streams) /\ IsInjective(readReady') /\ Range(readReady') = Range(readReady) \cup {s}
    BY <1>1, <1>5, <1>6, QueueAppend
  <1>8. \A t \in Streams \ {s} : /\ SameFor(t, readReady, readReady')
                                 /\ SameFor(t, writeReady, writeReady')
                                 /\ SameFor(t, blocked, blocked')
    BY <1>6, <1>7 DEF SameFor
  <1>9. Agree(k, f, s \in Range(readReady'), s \in Range(writeReady'), s \in Range(blocked'))
    BY <1>1, <1>3, <1>6, <1>7 DEF Agree
  <1>10. StreamsOK'
    BY ONLY <1>1, <1>3, <1>5, <1>6, <1>7, <1>8, <1>9, OneStream
  <1>11. pc' = "reads" /\ UNCHANGED <<output, pressure, cur, frames, visited, last, ev, mask>>
    BY DEF BudgetSpent
  <1>12. ScalarsOK'
    BY <1>11 DEF MuxInv, ScalarsOK
  <1>13. LoopOK'
    BY <1>0, <1>11, ReadFacts DEF LoopOK
  <1> QED
    BY <1>10, <1>12, <1>13 DEF MuxInv

LEMMA ReadDataStep ==
    ASSUME MuxInv, ReadData
    PROVE  MuxInv'
  <1>0. pc = "read" /\ frames < FrameBudget /\ sock[cur].in > 0
    BY DEF ReadData, Reading
  <1>1. /\ StreamsOK /\ ScalarsOK /\ LoopOK /\ cur \in Streams /\ sock[cur] \in Socket /\ str[cur] \in Stream
        /\ "posted" \notin mask /\ ev \in Streams
    BY <1>0, ReadFacts
  <1> DEFINE i == sock[cur].in - 1
  <1>2. PICK r : r \in {TRUE, sock[cur].in > 1 \/ str[cur].hup} /\ str' = [str EXCEPT ![cur].rready = @ /\ r]
    BY DEF ReadData
  <1> DEFINE e == str[cur].rready /\ r
  <1>3. i \in Nat
    BY <1>0, <1>1 DEF Socket
  <1>4. e \in BOOLEAN
    OBVIOUS
  <1>5. sock' = [sock EXCEPT ![cur].in = i] /\ str' = [str EXCEPT ![cur].rready = e] /\ UNCHANGED queues
    BY <1>2 DEF ReadData
  <1> HIDE DEF i, e
  <1>6. /\ StreamsOK'
        /\ \A t \in Streams : str'[t].state = str[t].state /\ str'[t].kind = str[t].kind
    BY ONLY <1>1, <1>3, <1>4, <1>5, ReadProgress
  <1>7. /\ output' = output + 1 /\ frames' = frames + 1
        /\ UNCHANGED <<pressure, pc, cur, visited, last, ev, mask, readReady, blocked>>
    BY DEF ReadData, queues
  <1>8. ScalarsOK'
    BY ONLY <1>0, <1>1, <1>7, UpstreamAssumption DEF ScalarsOK
  <1>9. LoopOK'
    BY ONLY <1>1, <1>6, <1>7 DEF LoopOK, IsOpen, IsPacket
  <1> QED
    BY <1>6, <1>8, <1>9 DEF MuxInv

LEMMA ReadAgainStep ==
    ASSUME MuxInv, ReadAgain
    PROVE  MuxInv'
  <1>0. pc = "read"
    BY DEF ReadAgain, Reading
  <1>1. /\ StreamsOK /\ ScalarsOK /\ LoopOK /\ cur \in Streams /\ sock[cur] \in Socket /\ str[cur] \in Stream
        /\ "posted" \notin mask /\ ev \in Streams
    BY <1>0, ReadFacts
  <1> DEFINE i == sock[cur].in
  <1>2. i \in Nat
    BY <1>1 DEF Socket
  <1>3. sock' = [sock EXCEPT ![cur].in = i]
    BY <1>1 DEF ReadAgain, StreamsOK, Socket
  <1>4. str' = [str EXCEPT ![cur].rready = FALSE] /\ UNCHANGED queues
    BY DEF ReadAgain
  <1> HIDE DEF i
  <1>5. StreamsOK'
    BY ONLY <1>1, <1>2, <1>3, <1>4, ReadProgress
  <1>6. pc' = "reads" /\ UNCHANGED <<output, pressure, cur, frames, visited, last, ev, mask>>
    BY DEF ReadAgain
  <1>7. ScalarsOK'
    BY ONLY <1>1, <1>6 DEF ScalarsOK
  <1>8. LoopOK'
    BY ONLY <1>1, <1>6 DEF LoopOK
  <1> QED
    BY <1>5, <1>7, <1>8 DEF MuxInv

(* The end of file and an error close the stream drain_reads is at.        *)
LEMMA ReadEndsStep ==
    ASSUME MuxInv, ReadEof \/ ReadError
    PROVE  MuxInv'
  <1>0. pc = "read" /\ CloseStream(cur, str[cur]) /\ pc' = "reads"
        /\ UNCHANGED <<pressure, cur, frames, visited, last, ev, mask>>
        /\ output' \in {output, output + 1}
    BY DEF ReadEof, ReadError, Reading
  <1>1. /\ StreamsOK /\ ScalarsOK /\ LoopOK /\ cur \in Streams /\ str[cur] \in Stream
        /\ "posted" \notin mask /\ ev \in Streams
    BY <1>0, ReadFacts
  <1>2. StreamsOK'
    BY <1>0, <1>1, Close
  <1>3. ScalarsOK'
    BY ONLY <1>0, <1>1 DEF ScalarsOK
  <1>4. LoopOK'
    BY ONLY <1>0, <1>1 DEF LoopOK
  <1> QED
    BY <1>2, <1>3, <1>4 DEF MuxInv

LEMMA PacketHandlerStep ==
    ASSUME MuxInv, PacketHandler
    PROVE  MuxInv'
  <1>0. StreamsOK /\ ScalarsOK /\ LoopOK /\ ReadTurn /\ pc = "event" /\ str[ev].kind = "packet"
    BY DEF MuxInv, PacketHandler, ReadTurn, IsPacket
  <1>1. /\ ev \in Streams /\ sock[ev] \in Socket /\ str[ev] \in Stream /\ sock[ev].ract
        /\ Agree(sock[ev], str[ev], ev \in Range(readReady), ev \in Range(writeReady), ev \in Range(blocked))
        /\ "posted" \notin mask
    BY <1>0, ReadTurnFacts
  <1>2. str[ev].state = "connected" /\ ev \notin Range(readReady) /\ ev \notin Range(blocked)
    BY <1>0, <1>1 DEF Agree
  <1>3. StreamsOK'
    <2>1. CASE BlockRead(ev)
      BY <1>0, <1>1, <1>2, <2>1, Block DEF PacketHandler
    <2>2. CASE ~BlockRead(ev)
      <3> DEFINE i == sock[ev].in
      <3>1. i \in Nat
        BY <1>1 DEF Socket
      <3>2. sock' = [sock EXCEPT ![ev].in = i]
        BY <1>0, <1>1, <2>2 DEF PacketHandler, StreamsOK, Socket
      <3>3. str' = [str EXCEPT ![ev].rready = TRUE] /\ UNCHANGED queues
        BY <2>2 DEF PacketHandler, queues
      <3> HIDE DEF i
      <3> QED  BY ONLY <1>0, <1>1, <3>1, <3>2, <3>3, ReadProgress
    <2> QED  BY <2>1, <2>2
  <1>4. /\ mask' = mask \ {"in"} /\ UNCHANGED <<output, pressure, ev, frames, visited, last>>
        /\ \/ UNCHANGED <<pc, cur>>
           \/ pc' = "dgram" /\ cur' = ev
    BY DEF PacketHandler
  <1>5. ScalarsOK'
    BY ONLY <1>0, <1>1, <1>4 DEF ScalarsOK
  <1>6. LoopOK'
    BY ONLY <1>0, <1>1, <1>4 DEF LoopOK
  <1> QED
    BY <1>3, <1>5, <1>6 DEF MuxInv

(* One datagram leaves the socket, or none is left.                        *)
LEMMA DgramStep ==
    ASSUME MuxInv, ReadDgram \/ LastDgram
    PROVE  MuxInv'
  <1>0. StreamsOK /\ ScalarsOK /\ LoopOK /\ pc = "dgram" /\ cur \in Streams /\ ev \in Streams
    BY DEF MuxInv, ReadDgram, LastDgram, LoopOK
  <1>1. sock[cur] \in Socket /\ str[cur] \in Stream
    BY <1>0, StreamFacts
  <1> DEFINE i == IF sock[cur].in = 0 THEN 0 ELSE sock[cur].in - 1
             r == str[cur].rready
  <1>2. i \in Nat
    BY <1>1 DEF Socket
  <1>3. r \in BOOLEAN
    BY <1>1 DEF Stream
  <1>4. sock' = [sock EXCEPT ![cur].in = i] /\ UNCHANGED <<str, queues>>
    BY DEF ReadDgram, LastDgram
  <1>5. str' = [str EXCEPT ![cur].rready = r]
    BY <1>0, <1>1, <1>4 DEF StreamsOK, Stream
  <1> HIDE DEF i, r
  <1>6. StreamsOK'
    BY ONLY <1>0, <1>2, <1>3, <1>4, <1>5, ReadProgress
  <1>7. /\ output' \in {output, output + 1} /\ UNCHANGED <<pressure, ev, mask>>
        /\ \/ UNCHANGED <<pc, cur, frames, visited, last>>
           \/ pc' = "event" /\ cur' = None /\ frames' = 0 /\ visited' = 0 /\ last' = FALSE
    BY DEF ReadDgram, LastDgram, Return, event, loop
  <1>8. ScalarsOK'
    <2>1. output' \in Nat /\ pressure' \in BOOLEAN
      BY <1>0, <1>7 DEF ScalarsOK
    <2>2. CASE UNCHANGED <<pc, cur, frames, visited, last>>
      BY ONLY <1>0, <1>7, <2>1, <2>2 DEF ScalarsOK
    <2>3. CASE pc' = "event" /\ cur' = None /\ frames' = 0 /\ visited' = 0 /\ last' = FALSE
      BY ONLY <1>0, <1>7, <2>1, <2>3, NoneSpent DEF ScalarsOK
    <2> QED  BY <1>7, <2>2, <2>3
  <1>9. LoopOK'
    BY ONLY <1>0, <1>7 DEF LoopOK
  <1> QED
    BY <1>6, <1>8, <1>9 DEF MuxInv
-----------------------------------------------------------------------------
(* process_blocked takes a prefix of the queue: its loop stops.            *)
LEMMA ResumablePrefix ==
    ASSUME NEW out \in Nat, blocked \in Seq(Streams)
    PROVE  Resumable(out) \in 0 .. Len(blocked)
  <1> DEFINE l == Len(blocked)
             Sz(i) == Size(blocked[i])
             T == {n \in 0 .. l : n < l => out + Sz(n + 1) > MaxOutput}
  <1>1. l \in Nat
    OBVIOUS
  <1>2. MaxOutput \in Nat /\ \A i : Sz(i) \in Nat
    BY UpstreamAssumption DEF Size
  <1> HIDE DEF l, Sz
  <1>3. T \in SUBSET Nat /\ l \in T
    BY <1>1
  <1>4. PICK n \in T : \A m \in T : n <= m
    BY <1>3, LeastNumber
  <1>5. n \in 0 .. l /\ (n < l => out + Sz(n + 1) > MaxOutput)
    BY <1>4
  <1>6. ASSUME NEW i \in 1 .. n PROVE out + Sz(i) <= MaxOutput
    <2>1. i - 1 \in 0 .. l /\ i - 1 < l /\ i - 1 < n /\ (i - 1) + 1 = i
      BY <1>1, <1>5
    <2>2. i - 1 \notin T
      <3> HIDE DEF T
      <3>1. n \in Nat /\ i - 1 \in Nat /\ ~(n <= i - 1)
        BY <1>1, <1>5, <2>1
      <3> QED  BY <1>4, <3>1
    <2>3. ~(out + Sz(i) > MaxOutput)
      BY <2>1, <2>2
    <2> QED  BY <1>2, <2>3
  <1>7. \E m \in 0 .. l : /\ \A i \in 1 .. m : out + Sz(i) <= MaxOutput
                          /\ m < l => out + Sz(m + 1) > MaxOutput
    BY <1>5, <1>6
  <1> QED
    BY <1>7 DEF Resumable, l, Sz

(* Resumed streams leave the queue of blocked reads and are registered.    *)
LEMMA Resume ==
    ASSUME StreamsOK, NEW n \in 0 .. Len(blocked), NEW q, q = SubSeq(blocked, n + 1, Len(blocked))
    PROVE  /\ q \in Seq(Streams) /\ IsInjective(q) /\ Range(q) = Range(blocked) \ Resumed(n)
           /\ Resumed(n) \subseteq Range(blocked)
           /\ \A s \in Resumed(n) :
                 /\ ArmRead(sock[s]) \in Socket
                 /\ Agree(ArmRead(sock[s]), str[s], s \in Range(readReady), s \in Range(writeReady), s \in Range(q))
           /\ \A s \in Streams \ Resumed(n) :
                 Agree(sock[s], str[s], s \in Range(readReady), s \in Range(writeReady), s \in Range(q))
  <1>1. blocked \in Seq(Streams) /\ IsInjective(blocked)
    BY DEF StreamsOK
  <1>2. q \in Seq(Streams) /\ IsInjective(q) /\ Range(q) = Range(blocked) \ Resumed(n)
    BY <1>1, QueueSuffix DEF Resumed
  <1>3. Resumed(n) \subseteq Range(blocked) /\ Range(blocked) \subseteq Streams
    <2>1. /\ Len(blocked) \in Nat /\ Range(blocked) = {blocked[k] : k \in 1 .. Len(blocked)}
          /\ Range(blocked) \subseteq Streams
      BY <1>1, MembersOfSeq
    <2> DEFINE l == Len(blocked)
    <2>2. l \in Nat /\ n \in 0 .. l
      BY <2>1
    <2> HIDE DEF l
    <2>3. \A k \in 1 .. n : k \in 1 .. l
      BY <2>2
    <2> QED  BY <2>1, <2>3 DEF Resumed, l
  <1>4. ASSUME NEW s \in Resumed(n)
        PROVE  /\ ArmRead(sock[s]) \in Socket
               /\ Agree(ArmRead(sock[s]), str[s], s \in Range(readReady), s \in Range(writeReady), s \in Range(q))
    <2>1. s \in Streams /\ s \in Range(blocked) /\ s \notin Range(q)
      BY <1>2, <1>3
    <2>2. /\ sock[s] \in Socket /\ str[s] \in Stream
          /\ Agree(sock[s], str[s], s \in Range(readReady), s \in Range(writeReady), s \in Range(blocked))
      BY <2>1, StreamFacts
    <2>3. ArmRead(sock[s]) \in Socket /\ ArmRead(sock[s]).ract
      BY <2>2, SocketOps
    <2> QED  BY <2>1, <2>2, <2>3 DEF Agree
  <1>5. ASSUME NEW s \in Streams \ Resumed(n)
        PROVE  Agree(sock[s], str[s], s \in Range(readReady), s \in Range(writeReady), s \in Range(q))
    <2>1. Agree(sock[s], str[s], s \in Range(readReady), s \in Range(writeReady), s \in Range(blocked))
      BY StreamFacts
    <2>2. s \in Range(q) <=> s \in Range(blocked)
      BY <1>2
    <2> QED  BY <2>1, <2>2 DEF Agree
  <1> QED
    BY <1>2, <1>3, <1>4, <1>5

LEMMA DrainOkStep ==
    ASSUME MuxInv, NEW k \in 1 .. output, DrainOk(k)
    PROVE  MuxInv'
  <1>0. StreamsOK /\ ScalarsOK /\ Idle /\ output \in Nat
    BY DEF MuxInv, ScalarsOK, DrainOk
  <1> DEFINE out == output - k
             n == Resumable(out)
             q == SubSeq(blocked, n + 1, Len(blocked))
  <1>1. out \in Nat
    BY <1>0
  <1>2. /\ output' = out /\ pressure' = FALSE /\ blocked' = q
        /\ sock' = [s \in Streams |-> IF s \in Resumed(n) THEN ArmRead(sock[s]) ELSE sock[s]]
        /\ UNCHANGED <<str, readReady, writeReady, event, loop>>
    BY DEF DrainOk
  <1> HIDE DEF out
  <1>3. n \in 0 .. Len(blocked)
    BY <1>0, <1>1, ResumablePrefix DEF StreamsOK
  <1> HIDE DEF n
  <1>4. /\ q \in Seq(Streams) /\ IsInjective(q)
        /\ \A s \in Resumed(n) :
              /\ ArmRead(sock[s]) \in Socket
              /\ Agree(ArmRead(sock[s]), str[s], s \in Range(readReady), s \in Range(writeReady), s \in Range(q))
        /\ \A s \in Streams \ Resumed(n) :
              Agree(sock[s], str[s], s \in Range(readReady), s \in Range(writeReady), s \in Range(q))
    BY <1>0, <1>3, Resume
  <1> HIDE DEF q
  <1>5. sock' \in [Streams -> Socket]
    <2>1. \A s \in Streams : sock[s] \in Socket
      BY <1>0, StreamFacts
    <2> QED  BY <1>2, <1>4, <2>1
  <1>6. ASSUME NEW s \in Streams PROVE StreamOK(s)'
    <2>1. CASE s \in Resumed(n)
      <3>1. sock'[s] = ArmRead(sock[s])
        BY <1>2, <2>1
      <3> QED  BY <1>2, <1>4, <2>1, <3>1 DEF StreamOK
    <2>2. CASE s \notin Resumed(n)
      <3>1. sock'[s] = sock[s]
        BY <1>2, <2>2
      <3> QED  BY <1>2, <1>4, <2>2, <3>1 DEF StreamOK
    <2> QED  BY <2>1, <2>2
  <1>7. StreamsOK'
    BY <1>0, <1>2, <1>4, <1>5, <1>6 DEF StreamsOK
  <1> QED
    BY <1>0, <1>1, <1>2, <1>7, IdleStep

(* suspend_reads: what waited for the next budget waits for output.        *)
LEMMA DrainAgainStep ==
    ASSUME MuxInv, NEW k \in 0 .. output - 1, DrainAgain(k)
    PROVE  MuxInv'
  <1>0. StreamsOK /\ ScalarsOK /\ Idle /\ output \in Nat
    BY DEF MuxInv, ScalarsOK, DrainAgain
  <1> DEFINE out == output - k
             n == Resumable(out)
             q == SubSeq(blocked, n + 1, Len(blocked))
             R == Range(readReady)
  <1>1. out \in Nat
    BY <1>0
  <1>2. output' = out /\ pressure' = TRUE /\ UNCHANGED <<writeReady, event, loop>>
    BY DEF DrainAgain
  <1>3. CASE pressure
    <2>1. UNCHANGED <<sock, str, queues>>
      BY <1>2, <1>3 DEF DrainAgain, queues
    <2>2. StreamsOK'
      BY <1>0, <2>1, SameStreams
    <2> QED  BY <1>0, <1>1, <1>2, <2>2, IdleStep
  <1>4. CASE ~pressure
    <2>1. /\ blocked' = q \o readReady /\ readReady' = <<>>
          /\ sock' = [s \in Streams |-> IF s \in Resumed(n) THEN ArmRead(sock[s])
                                        ELSE IF s \in R THEN DisarmRead(sock[s]) ELSE sock[s]]
          /\ str' = [s \in Streams |-> IF s \in R THEN [str[s] EXCEPT !.rready = FALSE] ELSE str[s]]
      BY <1>4 DEF DrainAgain
    <2> HIDE DEF out
    <2>2. n \in 0 .. Len(blocked)
      BY <1>0, <1>1, ResumablePrefix DEF StreamsOK
    <2> HIDE DEF n
    <2>3. /\ q \in Seq(Streams) /\ IsInjective(q)
          /\ Range(q) = Range(blocked) \ Resumed(n) /\ Resumed(n) \subseteq Range(blocked)
          /\ \A s \in Resumed(n) :
                /\ ArmRead(sock[s]) \in Socket
                /\ Agree(ArmRead(sock[s]), str[s], s \in R, s \in Range(writeReady), s \in Range(q))
          /\ \A s \in Streams \ Resumed(n) :
                Agree(sock[s], str[s], s \in R, s \in Range(writeReady), s \in Range(q))
      BY <1>0, <2>2, Resume
    <2> HIDE DEF q, R
    <2>4. \A s \in Streams : s \in R => s \notin Range(blocked)
      <3> SUFFICES ASSUME NEW s \in Streams, s \in R PROVE s \notin Range(blocked)
        OBVIOUS
      <3>1. Agree(sock[s], str[s], s \in Range(readReady), s \in Range(writeReady), s \in Range(blocked))
        BY <1>0, StreamFacts
      <3> QED  BY <3>1 DEF Agree, R
    <2>5. readReady \in Seq(Streams) /\ IsInjective(readReady) /\ R \subseteq Streams
      BY <1>0, MembersOfSeq DEF StreamsOK, R
    <2>6. Range(q) \cap R = {} /\ Resumed(n) \cap R = {}
      BY <2>3, <2>4, <2>5
    <2>7. blocked' \in Seq(Streams) /\ IsInjective(blocked') /\ Range(blocked') = Range(q) \cup R
      <3>1. q \in Seq(Streams) /\ IsInjective(q) /\ Range(q) \cap Range(readReady) = {}
        BY <2>3, <2>6 DEF R
      <3>2. /\ q \o readReady \in Seq(Streams) /\ IsInjective(q \o readReady)
            /\ Range(q \o readReady) = Range(q) \cup Range(readReady)
        BY ONLY <2>5, <3>1, QueueConcat
      <3> QED  BY <2>1, <3>2 DEF R
    <2>8. readReady' \in Seq(Streams) /\ IsInjective(readReady') /\ Range(readReady') = {}
      <3>1. <<>> \in Seq(Streams)
        OBVIOUS
      <3> QED  BY <2>1, <3>1, EmptyQueue
    <2>9. ASSUME NEW s \in Streams
          PROVE  sock'[s] \in Socket /\ str'[s] \in Stream /\ StreamOK(s)'
      <3>1. sock[s] \in Socket /\ str[s] \in Stream
        BY <1>0, StreamFacts
      <3>2. CASE s \in Resumed(n)
        <4>1. sock'[s] = ArmRead(sock[s]) /\ str'[s] = str[s] /\ s \notin R
          BY <2>1, <2>6, <3>2
        <4>2. /\ ArmRead(sock[s]) \in Socket
              /\ Agree(ArmRead(sock[s]), str[s], s \in R, s \in Range(writeReady), s \in Range(q))
          BY <2>3, <3>2
        <4>3. Agree(sock'[s], str'[s], s \in Range(readReady'), s \in Range(writeReady'), s \in Range(blocked'))
          BY <1>2, <2>7, <2>8, <4>1, <4>2 DEF Agree
        <4> QED  BY <3>1, <4>1, <4>2, <4>3 DEF StreamOK
      <3>3. CASE s \in R
        <4> DEFINE x == DisarmRead(sock[s])
                   f == [str[s] EXCEPT !.rready = FALSE]
        <4>1. sock'[s] = x /\ str'[s] = f
          BY <2>1, <2>6, <3>3
        <4>2. x \in Socket /\ ~x.ract
          BY <3>1, SocketOps
        <4>3. /\ f \in Stream /\ f.state = str[s].state /\ f.kind = str[s].kind
              /\ f.posted = str[s].posted /\ f.pend = str[s].pend /\ f.shut = str[s].shut
          BY <3>1 DEF Stream
        <4> HIDE DEF x, f
        <4>4. Agree(sock[s], str[s], s \in R, s \in Range(writeReady), s \in Range(q))
          BY <2>3, <2>6, <3>3
        <4>5. Agree(x, f, s \in Range(readReady'), s \in Range(writeReady'), s \in Range(blocked'))
          BY <1>2, <2>7, <2>8, <3>3, <4>2, <4>3, <4>4 DEF Agree
        <4> QED  BY <4>1, <4>2, <4>3, <4>5 DEF StreamOK
      <3>4. CASE s \notin Resumed(n) /\ s \notin R
        <4>1. sock'[s] = sock[s] /\ str'[s] = str[s]
          BY <2>1, <3>4
        <4>2. Agree(sock[s], str[s], s \in R, s \in Range(writeReady), s \in Range(q))
          BY <2>3, <3>4
        <4>3. Agree(sock[s], str[s], s \in Range(readReady'), s \in Range(writeReady'), s \in Range(blocked'))
          BY <1>2, <2>7, <2>8, <3>4, <4>2 DEF Agree
        <4> QED  BY <3>1, <4>1, <4>3 DEF StreamOK
      <3> QED  BY <3>2, <3>3, <3>4
    <2>10. sock' \in [Streams -> Socket] /\ str' \in [Streams -> Stream]
      <3>1. DOMAIN sock' = Streams /\ sock' = [s \in DOMAIN sock' |-> sock'[s]]
        BY <2>1
      <3>2. DOMAIN str' = Streams /\ str' = [s \in DOMAIN str' |-> str'[s]]
        BY <2>1
      <3> QED  BY <2>9, <3>1, <3>2
    <2>11. StreamsOK'
      BY <1>0, <1>2, <2>7, <2>8, <2>9, <2>10 DEF StreamsOK
    <2> QED  BY <1>0, <1>1, <1>2, <2>11, IdleStep
  <1> QED
    BY <1>3, <1>4
-----------------------------------------------------------------------------
LEMMA InitOK == Init => MuxInv
  <1> SUFFICES ASSUME Init PROVE MuxInv
    OBVIOUS
  <1>1. <<>> \in Seq(Streams)
    OBVIOUS
  <1>2. readReady = <<>> /\ writeReady = <<>> /\ blocked = <<>>
    BY DEF Init
  <1>3. ASSUME NEW s \in Streams
        PROVE  /\ sock[s] \in Socket /\ ~sock[s].ract /\ ~sock[s].wact
               /\ str[s] \in Stream /\ str[s].state = "free" /\ str[s].kind = "tcp" /\ ~str[s].posted
    BY DEF Init, Socket, Stream
  <1>4. sock \in [Streams -> Socket] /\ str \in [Streams -> Stream]
    BY <1>3 DEF Init
  <1>5. ASSUME NEW s \in Streams PROVE StreamOK(s)
    BY <1>2, <1>3, EmptyQueue DEF StreamOK, Agree
  <1>6. StreamsOK
    BY <1>1, <1>2, <1>4, <1>5, EmptyQueue DEF StreamsOK
  <1>7. ScalarsOK
    BY NoneSpent DEF Init, ScalarsOK
  <1>8. LoopOK
    BY DEF Init, LoopOK
  <1> QED
    BY <1>6, <1>7, <1>8 DEF MuxInv

LEMMA NextOK == MuxInv /\ [Next]_vars => MuxInv'
  <1> SUFFICES ASSUME MuxInv, [Next]_vars PROVE MuxInv'
    OBVIOUS
  <1>1. CASE UNCHANGED vars
    BY <1>1 DEF vars, queues, event, loop, MuxInv, StreamsOK, StreamOK, ScalarsOK, LoopOK, IsOpen, IsPacket
  <1>2. ASSUME NEW s \in Streams, Environment(s) PROVE MuxInv'
    BY <1>2, EnvironmentStep
  <1>3. ASSUME NEW s \in Streams, Handler(s) PROVE MuxInv'
    BY <1>3, OpenTcpStep, OpenPacketStep, ClientPayloadStep, ClientFinStep, ConnectTimeoutStep,
       EpollReportStep, PostedWriteStep DEF Handler
  <1>4. CASE WritesDone \/ ReadsDone
    BY <1>4, LoopsDone DEF WritesDone, ReadsDone
  <1>5. CASE EventStep
    BY <1>4, <1>5, EventDoneStep, ConnectReadyStep, ConnectErrorStep, WriteHandlerStep, ReadHandlerStep,
       PacketHandlerStep, WritePayloadsStep, WriteErrorStep, NextStreamStep, BudgetSpentStep,
       NoRoomStep, ReadDataStep, ReadAgainStep, ReadEndsStep, DgramStep DEF EventStep
  <1>6. CASE DrainSome
    BY <1>6, DrainOkStep DEF DrainSome
  <1>7. CASE DrainPart
    BY <1>7, DrainAgainStep DEF DrainPart
  <1> QED
    BY <1>1, <1>2, <1>3, <1>5, <1>6, <1>7 DEF Next

(* The invariant of the upstream mux holds in every reachable state.       *)
THEOREM Invariant == Spec => []MuxInv
  BY InitOK, NextOK, PTL DEF Spec

(* The types, with the budgets of drain_reads and drain_writes: neither    *)
(* loop visits more streams or spends more frames than the schedule allows, *)
(* and no more payload is accounted as sent than waits in pending_in.      *)
THEOREM TypeCorrect == Spec => []TypeOK
  <1>1. MuxInv => TypeOK
    BY DEF MuxInv, StreamsOK, ScalarsOK, TypeOK
  <1> QED
    BY Invariant, <1>1, PTL

(* The queues link a stream at most once and only while it is open,        *)
(* read_ready and blocked_upstream_reads never both, and its read event is *)
(* off exactly while it is in blocked_upstream_reads: what close, requeue, *)
(* block, suspend and resume do to the queues and what they do to epoll    *)
(* never drift apart.                                                      *)
THEOREM QueuesTheorem == Spec => []QueuesAgree
  <1>1. MuxInv => QueuesAgree
    <2> SUFFICES ASSUME MuxInv PROVE QueuesAgree
      OBVIOUS
    <2>1. /\ StreamsOK
          /\ readReady \in Seq(Streams) /\ writeReady \in Seq(Streams) /\ blocked \in Seq(Streams)
          /\ IsInjective(readReady) /\ IsInjective(writeReady) /\ IsInjective(blocked)
      BY DEF MuxInv, StreamsOK
    <2>2. /\ Range(readReady) \subseteq Streams /\ Range(writeReady) \subseteq Streams
          /\ Range(blocked) \subseteq Streams
      BY <2>1, MembersOfSeq
    <2>3. ASSUME NEW s \in Streams
          PROVE  /\ s \in Range(readReady) \/ s \in Range(writeReady) \/ s \in Range(blocked) => IsOpen(s)
                 /\ ~(s \in Range(readReady) /\ s \in Range(blocked))
                 /\ IsOpen(s) => (s \in Range(blocked) <=> ~sock[s].ract)
      <3>1. Agree(sock[s], str[s], s \in Range(readReady), s \in Range(writeReady), s \in Range(blocked))
        BY <2>1, StreamFacts
      <3> QED  BY <3>1 DEF Agree, IsOpen
    <2> QED  BY <2>1, <2>2, <2>3 DEF QueuesAgree
  <1> QED
    BY Invariant, <1>1, PTL

(* A half closed stream has sent the upstream its shutdown exactly when    *)
(* nothing of the client's payload waits any more.                         *)
THEOREM ShutdownTheorem == Spec => []ShutdownAfterPayload
  <1>1. MuxInv => ShutdownAfterPayload
    <2> SUFFICES ASSUME MuxInv, NEW s \in Streams, str[s].state = "half_closed"
                 PROVE  str[s].shut = "done" <=> str[s].pend = 0
      BY DEF ShutdownAfterPayload
    <2>1. Agree(sock[s], str[s], s \in Range(readReady), s \in Range(writeReady), s \in Range(blocked))
      BY StreamFacts DEF MuxInv
    <2> QED  BY <2>1 DEF Agree
  <1> QED
    BY Invariant, <1>1, PTL
-----------------------------------------------------------------------------
(***************************************************************************)
(* No read is lost: a loop that stops at a budget has made the stream it   *)
(* was at level triggered, or keeps the others in a queue.                 *)
(***************************************************************************)

\* What calls for a stream with socket k, b if it is blocked.
Due(k, b) == (k.et => k.edge) \/ b

\* A handler of the running event is still to be told m about stream s.
Told(s, m) == pc = "event" /\ ev = s /\ m \subseteq mask

\* drain_reads is done with s and has not gone on yet.
Visited(s) == pc = "reads" /\ cur = s

\* A loop comes to s, now or in a later event; it has not just left s.
InWrites(s) == s \in Range(writeReady) /\ ~Visited(s)
InReads(s) == (s \in Range(readReady) /\ ~Visited(s)) \/ (pc = "read" /\ cur = s)

\* A TCP stream with something to read is due, or the running handler is told,
\* or recv would give it to a loop that comes to it; the end of a connect brings
\* the stream to write_ready.  An upstream that hung up is due, known or told.
Wakes(k, f, b, t, e, w, r) ==
    /\ f.state \in {"connecting", "connected", "half_closed"} /\ f.kind # "packet" =>
          /\ Readable(k) => \/ Due(k, b) \/ t
                            \/ f.rready /\ (r \/ (k.wact /\ (w \/ f.state = "connecting")))
          /\ HungUp(k) => Due(k, b) \/ f.hup \/ e
    /\ f.state = "connecting" => k.wact
    /\ f.state = "free" => k.net = "none" /\ ~Readable(k)

WakesUp(s) == Wakes(sock[s], str[s], s \in Range(blocked), Told(s, {"in"}), Told(s, {"in", "hup"}),
                    InWrites(s), InReads(s))

\* The strengthening of MuxInv for NoLostRead.
Woken == \A s \in Streams : WakesUp(s)

\* No stream is left over in cur when a loop begins.
AtNone == pc \in {"idle", "event", "writes"} => cur = None
-----------------------------------------------------------------------------
LEMMA AtNoneStep ==
    ASSUME MuxInv, AtNone, [Next]_vars
    PROVE  AtNone'
  <1>1. CASE UNCHANGED <<pc, cur>>
    BY <1>1 DEF AtNone
  <1>2. CASE cur' = None
    BY <1>2 DEF AtNone
  <1>3. CASE cur' = cur /\ pc \in {"idle", "event", "writes"}
    BY <1>3 DEF AtNone
  <1>4. CASE pc' \in {"reads", "read", "dgram"}
    BY <1>4 DEF AtNone
  <1>5. ASSUME NEW s \in Streams, Environment(s)
        PROVE  UNCHANGED <<pc, cur>>
    BY <1>5 DEF Environment, Established, NetError, Arrive, ArriveEof, SpaceFreed, Happens, event, loop
  <1>6. ASSUME NEW s \in Streams, Handler(s)
        PROVE  cur' = cur /\ pc \in {"idle", "event", "writes"}
    BY <1>6 DEF Handler, OpenTcp, OpenPacket, ClientPayload, ClientFin, ConnectTimeout, EpollReport,
                PostedWrite, Idle, loop
  <1>7. CASE EventStep
    BY <1>1, <1>2, <1>3, <1>4, <1>7
       DEF EventStep, EventDone, ConnectReady, ConnectError, WriteHandler, WriteReady, ReadHandler,
           PacketHandler, WritePayloads, WriteError, WritesDone, NextStream, BudgetSpent, NoRoom, ReadData,
           ReadAgain, ReadEof, ReadError, ReadsDone, ReadDgram, LastDgram, Return, ReadTurn, WriteTurn,
           Reading, event, loop
  <1>8. CASE DrainSome \/ DrainPart
    BY <1>1, <1>8 DEF DrainSome, DrainPart, DrainOk, DrainAgain, event, loop
  <1>9. CASE UNCHANGED vars
    BY <1>1, <1>9 DEF vars, event, loop
  <1> QED
    BY <1>1, <1>3, <1>5, <1>6, <1>7, <1>8, <1>9 DEF Next
-----------------------------------------------------------------------------
(* The fields of a stream that count.                                      *)
LEMMA LikeWakes ==
    ASSUME NEW k, NEW f, NEW b, NEW t, NEW e, NEW w, NEW r, Wakes(k, f, b, t, e, w, r),
           NEW g, g.state = f.state, g.kind = f.kind, g.rready = f.rready, g.hup = f.hup
    PROVE  Wakes(k, g, b, t, e, w, r)
  BY DEF Wakes, Due

(* The handlers that run come to nothing less than they did before.        *)
Carried(t) ==
    /\ t \in Range(blocked) => t \in Range(blocked')
    /\ Told(t, {"in"}) => Told(t, {"in"})'
    /\ Told(t, {"in", "hup"}) => Told(t, {"in", "hup"})'
    /\ InWrites(t) => InWrites(t)'
    /\ InReads(t) => InReads(t)'

(* The queues keep a stream.                                               *)
Kept(t) ==
    /\ t \in Range(blocked) => t \in Range(blocked')
    /\ t \in Range(writeReady) => t \in Range(writeReady')
    /\ t \in Range(readReady) => t \in Range(readReady')

LEMMA SameQueues ==
    ASSUME UNCHANGED queues
    PROVE  \A t \in Streams : Kept(t)
  BY DEF Kept, queues

(* A stream that a step leaves alone is called for as before.              *)
LEMMA SameWakes ==
    ASSUME NEW t \in Streams, WakesUp(t), sock'[t] = sock[t], str'[t] = str[t], Carried(t)
    PROVE  WakesUp(t)'
  <1> DEFINE k == sock[t]
             f == str[t]
  <1>1. sock'[t] = k /\ str'[t] = f /\ Wakes(k, f, t \in Range(blocked), Told(t, {"in"}),
            Told(t, {"in", "hup"}), InWrites(t), InReads(t))
    BY DEF WakesUp
  <1> HIDE DEF k, f
  <1>2. Wakes(k, f, t \in Range(blocked'), Told(t, {"in"})', Told(t, {"in", "hup"})',
              InWrites(t)', InReads(t)')
    BY <1>1, Zenon DEF Carried, Wakes, Due
  <1> QED
    BY <1>1, <1>2 DEF WakesUp

(* A step that changes one stream has only that stream to answer for.      *)
LEMMA OneWakes ==
    ASSUME StreamsOK, Woken, NEW s \in Streams, NEW k, NEW f,
           sock' = [sock EXCEPT ![s] = k], str' = [str EXCEPT ![s] = f],
           \A t \in Streams \ {s} : Carried(t),
           Wakes(k, f, s \in Range(blocked'), Told(s, {"in"})', Told(s, {"in", "hup"})',
                 InWrites(s)', InReads(s)')
    PROVE  Woken'
  <1>1. sock'[s] = k /\ str'[s] = f /\ \A t \in Streams \ {s} : sock'[t] = sock[t] /\ str'[t] = str[t]
    BY DEF StreamsOK
  <1>2. WakesUp(s)'
    BY <1>1 DEF WakesUp
  <1>3. ASSUME NEW t \in Streams \ {s} PROVE WakesUp(t)'
    BY <1>1, <1>3, SameWakes DEF Woken
  <1> QED
    BY <1>2, <1>3 DEF Woken

(* While no handler runs, the queues are all that counts.                  *)
LEMMA CarriedIdle ==
    ASSUME pc \in {"idle", "dgram"}, pc' # "reads", NEW t \in Streams, Kept(t)
    PROVE  Carried(t)
  BY DEF Carried, Kept, Told, InWrites, InReads, Visited

LEMMA IdleWakes ==
    ASSUME Woken, pc \in {"idle", "dgram"}, NEW s \in Streams
    PROVE  Wakes(sock[s], str[s], s \in Range(blocked), FALSE, FALSE,
                 s \in Range(writeReady), s \in Range(readReady))
  <1>1. WakesUp(s)
    BY DEF Woken
  <1>2. /\ ~Told(s, {"in"}) /\ ~Told(s, {"in", "hup"})
        /\ InWrites(s) => s \in Range(writeReady)
        /\ InReads(s) => s \in Range(readReady)
    BY DEF Told, InWrites, InReads
  <1> QED
    BY <1>1, <1>2, Zenon DEF WakesUp, Wakes, Due

(* A handler without a loop that leaves the queues alone.                  *)
LEMMA HandlerWakes ==
    ASSUME StreamsOK, Woken, pc \in {"idle", "dgram"}, pc' # "reads", NEW s \in Streams, NEW k, NEW f,
           sock' = [sock EXCEPT ![s] = k], str' = [str EXCEPT ![s] = f], UNCHANGED queues,
           Wakes(k, f, s \in Range(blocked), FALSE, FALSE, s \in Range(writeReady), s \in Range(readReady))
    PROVE  Woken'
  <1>1. \A t \in Streams : Carried(t)
    BY SameQueues, CarriedIdle
  <1>2. /\ s \in Range(blocked) => s \in Range(blocked')
        /\ s \in Range(writeReady) => InWrites(s)'
        /\ s \in Range(readReady) => InReads(s)'
    BY DEF queues, InWrites, InReads, Visited
  <1>3. Wakes(k, f, s \in Range(blocked'), Told(s, {"in"})', Told(s, {"in", "hup"})',
              InWrites(s)', InReads(s)')
    BY <1>2, Zenon DEF Wakes, Due
  <1> QED
    BY <1>1, <1>3, OneWakes

(* A closed stream waits for nothing.                                      *)
LEMMA CloseWakes ==
    ASSUME StreamsOK, Woken, NEW s \in Streams, NEW f \in Stream, CloseStream(s, f),
           \A t \in Streams \ {s} : Kept(t) => Carried(t)
    PROVE  Woken'
  <1> DEFINE g == [f EXCEPT !.state = "closed", !.timer = FALSE, !.posted = FALSE, !.pend = 0,
                            !.rready = FALSE]
             k == Closed(sock[s])
  <1>1. g.state = "closed"
    BY DEF Stream
  <1>2. sock' = [sock EXCEPT ![s] = k] /\ str' = [str EXCEPT ![s] = g]
    BY DEF CloseStream
  <1> HIDE DEF g, k
  <1>3. Wakes(k, g, s \in Range(blocked'), Told(s, {"in"})', Told(s, {"in", "hup"})',
              InWrites(s)', InReads(s)')
    BY <1>1 DEF Wakes
  <1>4. \A t \in Streams \ {s} : Kept(t)
    <2>1. Range(writeReady') = Range(writeReady) \ {s}
      BY QueueRemove DEF StreamsOK, CloseStream, Without
    <2> QED  BY <2>1, Close DEF Kept
  <1> QED
    BY <1>2, <1>3, <1>4, OneWakes
-----------------------------------------------------------------------------
(* The registrations of a socket say nothing about what there is to read.  *)
SameData(j, k) == (Readable(j) <=> Readable(k)) /\ (HungUp(j) <=> HungUp(k))

LEMMA SameFields ==
    ASSUME NEW j, NEW k, j.in = k.in, j.eof = k.eof, j.net = k.net
    PROVE  SameData(j, k)
  BY DEF SameData, Readable, HungUp

(* The trigger of the read event under the operations on a socket.         *)
LEMMA TriggerOps ==
    ASSUME NEW k \in Socket
    PROVE  /\ SameData(LevelTriggered(k), k) /\ ~LevelTriggered(k).et
           /\ SameData(DisarmWrite(k), k) /\ (k.wact => ~DisarmWrite(k).et)
           /\ ~k.wact => DisarmWrite(k) = k
           /\ ArmWrite(k).wact /\ SameData(ArmWrite(k), k)
           /\ (k.wact => ArmWrite(k) = k) /\ (~k.wact /\ k.ract /\ Readable(k) => ArmWrite(k).edge)
           /\ SameData(ArmRead(k), k) /\ (~k.ract /\ Readable(k) => ArmRead(k).edge)
           /\ SameData([k EXCEPT !.full = TRUE], k) /\ [k EXCEPT !.full = TRUE] \in Socket
  <1>1. ASSUME NEW j \in Socket
        PROVE  /\ SameData(LevelTriggered(j), j) /\ ~LevelTriggered(j).et
               /\ SameData(EdgeTriggered(j), j) /\ EdgeTriggered(j).wact = j.wact
               /\ EdgeTriggered(j).edge <=> Reports(j) # {}
    <2> DEFINE e == Reports(j) # {}
    <2>1. e \in BOOLEAN
      OBVIOUS
    <2>2. EdgeTriggered(j) = [j EXCEPT !.et = TRUE, !.edge = e]
      BY DEF EdgeTriggered
    <2> HIDE DEF e
    <2> DEFINE x == [j EXCEPT !.et = TRUE, !.edge = e]
               y == [j EXCEPT !.et = FALSE, !.edge = FALSE]
    <2>3. /\ x.in = j.in /\ x.eof = j.eof /\ x.net = j.net /\ x.wact = j.wact /\ x.edge = e
          /\ y.in = j.in /\ y.eof = j.eof /\ y.net = j.net /\ ~y.et
      BY DEF Socket
    <2> HIDE DEF x, y
    <2>4. SameData(x, j) /\ SameData(y, j)
      BY <2>3, SameFields
    <2>5. LevelTriggered(j) = y
      BY DEF LevelTriggered, y
    <2> QED  BY <2>2, <2>3, <2>4, <2>5 DEF x, e
  <1> DEFINE r == [k EXCEPT !.ract = TRUE]
             w == [k EXCEPT !.wact = TRUE]
             d == [k EXCEPT !.wact = FALSE]
             u == [k EXCEPT !.full = TRUE]
  <1>2. r \in Socket /\ w \in Socket /\ d \in Socket /\ u \in Socket /\ r.ract /\ w.wact /\ w.ract = k.ract
    BY DEF Socket
  <1>3. SameData(r, k) /\ SameData(w, k) /\ SameData(d, k) /\ SameData(u, k) /\ SameData(k, k)
    <2>1. /\ r.in = k.in /\ r.eof = k.eof /\ r.net = k.net
          /\ w.in = k.in /\ w.eof = k.eof /\ w.net = k.net
          /\ d.in = k.in /\ d.eof = k.eof /\ d.net = k.net
          /\ u.in = k.in /\ u.eof = k.eof /\ u.net = k.net
      BY DEF Socket
    <2> HIDE DEF r, w, d, u
    <2> QED  BY <2>1, SameFields
  <1>4. ArmRead(k) = IF k.ract THEN k ELSE EdgeTriggered(r)
    BY DEF ArmRead
  <1>5. ArmWrite(k) = IF k.wact THEN k ELSE EdgeTriggered(w)
    BY DEF ArmWrite
  <1>6. DisarmWrite(k) = IF k.wact THEN LevelTriggered(d) ELSE k
    BY DEF DisarmWrite
  <1>7. SameData(u, k) /\ u \in Socket
    BY <1>2, <1>3
  <1> HIDE DEF r, w, d
  <1>8. ASSUME ~k.ract, Readable(k) PROVE ArmRead(k).edge
    <2>1. Readable(r) /\ r.ract
      BY <1>2, <1>3, <1>8 DEF SameData
    <2>2. Reports(r) # {}
      BY <2>1 DEF Reports
    <2> QED  BY <1>1, <1>2, <1>4, <1>8, <2>2
  <1>9. SameData(ArmRead(k), k)
    <2>1. CASE k.ract
      BY <1>3, <1>4, <2>1
    <2>2. CASE ~k.ract
      <3>1. ArmRead(k) = EdgeTriggered(r) /\ SameData(EdgeTriggered(r), r)
        BY <1>1, <1>2, <1>4, <2>2
      <3> QED  BY <1>3, <3>1 DEF SameData
    <2> QED  BY <2>1, <2>2
  <1>10. SameData(ArmWrite(k), k) /\ ArmWrite(k).wact
    <2>1. CASE k.wact
      BY <1>3, <1>5, <2>1
    <2>2. CASE ~k.wact
      <3>1. ArmWrite(k) = EdgeTriggered(w) /\ EdgeTriggered(w).wact = w.wact
        BY <1>1, <1>2, <1>5, <2>2
      <3>2. SameData(EdgeTriggered(w), k)
        BY <1>1, <1>2, <1>3, Zenon DEF SameData
      <3> QED  BY <1>2, <3>1, <3>2
    <2> QED  BY <2>1, <2>2
  <1>11. SameData(DisarmWrite(k), k)
    <2>1. CASE ~k.wact
      BY <1>3, <1>6, <2>1
    <2>2. CASE k.wact
      <3>1. DisarmWrite(k) = LevelTriggered(d) /\ SameData(LevelTriggered(d), d)
        BY <1>1, <1>2, <1>6, <2>2
      <3> QED  BY <1>3, <3>1 DEF SameData
    <2> QED  BY <2>1, <2>2
  <1>12. (k.wact => ~DisarmWrite(k).et) /\ (~k.wact => DisarmWrite(k) = k)
    BY <1>1, <1>2, <1>6, Zenon
  <1>13. ASSUME ~k.wact, k.ract, Readable(k) PROVE ArmWrite(k).edge
    <2>1. Readable(w) /\ w.ract
      BY <1>2, <1>3, <1>13 DEF SameData
    <2>2. Reports(w) # {}
      BY <2>1 DEF Reports
    <2> QED  BY <1>1, <1>2, <1>5, <1>13, <2>2
  <1>14. k.wact => ArmWrite(k) = k
    BY <1>5
  <1> QED
    BY <1>1, <1>7, <1>8, <1>9, <1>10, <1>11, <1>12, <1>13, <1>14

(* The end of a backlog makes the entry level triggered; registering the   *)
(* write event makes the kernel look at the read event again.              *)
LEMMA SentDue ==
    ASSUME NEW k \in Socket, NEW f \in Stream, NEW n \in 0 .. f.pend, NEW b, k.ract \/ b
    PROVE  /\ SameData(PendingSent(k, f, n), k)
           /\ Readable(k) /\ Due(k, b) => Due(PendingSent(k, f, n), b)
           /\ n = f.pend /\ k.wact => Due(PendingSent(k, f, n), b)
           /\ n # f.pend => PendingSent(k, f, n).wact
  <1> DEFINE u == [k EXCEPT !.full = TRUE]
             j == PendingSent(k, f, n)
  <1>1. f.pend \in Nat
    BY DEF Stream
  <1>2. CASE n = f.pend
    <2>1. j = DisarmWrite(k)
      BY <1>1, <1>2 DEF PendingSent
    <2>2. SameData(j, k) /\ (k.wact => ~j.et) /\ (~k.wact => j = k)
      BY <2>1, TriggerOps
    <2> HIDE DEF j
    <2> QED  BY <1>2, <2>2 DEF Due, j
  <1>3. CASE n # f.pend
    <2>1. j = ArmWrite(u)
      BY <1>1, <1>3 DEF PendingSent
    <2>2. u \in Socket /\ SameData(u, k)
      BY TriggerOps
    <2>3. u.et = k.et /\ u.edge = k.edge /\ u.ract = k.ract
      BY DEF Socket
    <2> HIDE DEF u
    <2>4. /\ SameData(j, u) /\ j.wact
          /\ (u.wact => j = u) /\ (~u.wact /\ u.ract /\ Readable(u) => j.edge)
      BY <2>1, <2>2, TriggerOps
    <2> HIDE DEF j
    <2>5. SameData(j, k) /\ (Readable(u) <=> Readable(k))
      BY <2>2, <2>4 DEF SameData
    <2> QED  BY <1>3, <2>3, <2>4, <2>5 DEF Due, j
  <1> QED
    BY <1>2, <1>3

(* What a send of n payloads means for an open stream.                     *)
LEMMA SentWakes ==
    ASSUME NEW k \in Socket, NEW f \in Stream, NEW n \in 0 .. f.pend, NEW b, k.ract \/ b,
           NEW t, NEW e, NEW w, NEW r, NEW v, Wakes(k, f, b, t, e, w, r),
           f.state \in {"connected", "half_closed"}, n # f.pend /\ w => v
    PROVE  Wakes(PendingSent(k, f, n), f, b, t, e, v, r)
  <1> DEFINE j == PendingSent(k, f, n)
             done == n = f.pend
  <1>1. /\ SameData(j, k)
        /\ Readable(k) /\ Due(k, b) => Due(j, b)
        /\ done /\ k.wact => Due(j, b)
        /\ ~done => j.wact
    BY SentDue
  <1>2. (Readable(j) <=> Readable(k)) /\ (HungUp(j) <=> HungUp(k)) /\ (HungUp(k) => Readable(k))
    BY <1>1 DEF SameData, Readable
  <1>3. ~done /\ w => v
    OBVIOUS
  <1> HIDE DEF j, done
  <1>4. f.kind # "packet" =>
          /\ Readable(k) => Due(k, b) \/ t \/ (f.rready /\ (r \/ (k.wact /\ w)))
          /\ HungUp(k) => Due(k, b) \/ f.hup \/ e
    BY DEF Wakes
  <1>5. f.kind # "packet" =>
          /\ Readable(j) => Due(j, b) \/ t \/ (f.rready /\ (r \/ (j.wact /\ v)))
          /\ HungUp(j) => Due(j, b) \/ f.hup \/ e
    BY <1>1, <1>2, <1>3, <1>4
  <1>6. f.state # "connecting" /\ f.state # "free"
    OBVIOUS
  <1>7. Wakes(j, f, b, t, e, v, r)
    BY <1>5, <1>6 DEF Wakes
  <1> QED
    BY <1>7 DEF j

(* The write event is turned off for an open stream.                       *)
LEMMA DisarmWakes ==
    ASSUME NEW k \in Socket, NEW f, NEW b, NEW t, NEW e, NEW w, NEW r, Wakes(k, f, b, t, e, w, r),
           f.state \in {"connected", "half_closed"}
    PROVE  Wakes(DisarmWrite(k), f, b, t, e, w, r)
  <1> DEFINE j == DisarmWrite(k)
  <1>1. /\ SameData(j, k) /\ (k.wact => ~j.et) /\ (~k.wact => j = k)
    BY TriggerOps
  <1> HIDE DEF j
  <1>2. Wakes(j, f, b, t, e, w, r)
    BY <1>1 DEF Wakes, Due, SameData
  <1> QED
    BY <1>2 DEF j
-----------------------------------------------------------------------------
(* The read event of a connection is on, or the stream is blocked.         *)
LEMMA Registered ==
    ASSUME StreamsOK, NEW s \in Streams, str[s].state \in {"connecting", "connected", "half_closed"}
    PROVE  sock[s].ract \/ s \in Range(blocked)
  <1>1. Agree(sock[s], str[s], s \in Range(readReady), s \in Range(writeReady), s \in Range(blocked))
    BY StreamFacts
  <1> QED
    BY <1>1 DEF Agree

(* An event of the upstream or of the kernel: what the socket has to say   *)
(* is reported again, or it has nothing new to read.                       *)
LEMMA HappensWakes ==
    ASSUME MuxInv, Woken, NEW s \in Streams, NEW k \in Socket, k.wact = sock[s].wact,
           sock[s].net # "none", Happens(s, k),
           str[s].state \in {"connecting", "connected", "half_closed"} =>
               \/ (k.et => k.edge) \/ s \in Range(blocked)
               \/ SameData(k, sock[s]) /\ k.et = sock[s].et /\ (sock[s].edge => k.edge)
    PROVE  Woken'
  <1> DEFINE x == sock[s]
             f == str[s]
             b == s \in Range(blocked)
             t == Told(s, {"in"})
             e == Told(s, {"in", "hup"})
             w == InWrites(s)
             r == InReads(s)
  <1>1. /\ pc' = pc /\ ev' = ev /\ mask' = mask /\ cur' = cur
        /\ readReady' = readReady /\ writeReady' = writeReady /\ blocked' = blocked
        /\ str' = str /\ sock' = [sock EXCEPT ![s] = k]
    BY DEF Happens, event, loop, queues
  <1>2. \A u \in Streams : Carried(u)
    BY <1>1 DEF Carried, Told, InWrites, InReads, Visited
  <1>3. Wakes(x, f, b, t, e, w, r)
    BY DEF Woken, WakesUp
  <1>4. f.state \in {"connecting", "connected", "half_closed"} =>
            \/ (k.et => k.edge) \/ b
            \/ SameData(k, x) /\ k.et = x.et /\ (x.edge => k.edge)
    OBVIOUS
  <1>5. StreamsOK /\ str' = [str EXCEPT ![s] = f] /\ k.wact = x.wact /\ x.net # "none"
    BY <1>1, StreamFacts DEF MuxInv
  <1>6. /\ b => s \in Range(blocked')
        /\ (t => Told(s, {"in"})') /\ (e => Told(s, {"in", "hup"})')
        /\ (w => InWrites(s)') /\ (r => InReads(s)')
    BY <1>2 DEF Carried
  <1> HIDE DEF x, f, b, t, e, w, r
  <1>7. Wakes(k, f, b, t, e, w, r)
    <2>1. CASE (k.et => k.edge) \/ b
      BY <1>3, <1>5, <2>1 DEF Wakes, Due
    <2>2. CASE ~((k.et => k.edge) \/ b)
      <3>1. f.state \in {"connecting", "connected", "half_closed"} =>
               (Readable(k) <=> Readable(x)) /\ (HungUp(k) <=> HungUp(x)) /\ ~(x.et => x.edge)
        BY <1>4, <2>2 DEF SameData
      <3> QED  BY <1>3, <1>5, <2>2, <3>1 DEF Wakes, Due
    <2> QED  BY <2>1, <2>2
  <1>8. Wakes(k, f, s \in Range(blocked'), Told(s, {"in"})', Told(s, {"in", "hup"})',
              InWrites(s)', InReads(s)')
    BY <1>6, <1>7, Zenon DEF Wakes, Due
  <1> QED
    BY <1>1, <1>2, <1>5, <1>8, OneWakes

LEMMA EnvironmentWakes ==
    ASSUME MuxInv, Woken, NEW s \in Streams, Environment(s)
    PROVE  Woken'
  <1> DEFINE x == sock[s]
  <1>1. x \in Socket /\ x.net # "none"
    BY StreamFacts DEF MuxInv, Environment, Established, NetError, Arrive, ArriveEof, SpaceFreed
  <1>2. str[s].state \in {"connecting", "connected", "half_closed"} => x.ract \/ s \in Range(blocked)
    BY Registered DEF MuxInv
  <1>3. x.et \in BOOLEAN /\ x.edge \in BOOLEAN /\ x.ract \in BOOLEAN /\ x.wact \in BOOLEAN
        /\ x.in \in Nat /\ x.arrived \in Nat
    BY <1>1 DEF Socket
  <1> HIDE DEF x
  <1> DEFINE e == x.edge \/ (x.et /\ x.ract)
             g == x.edge \/ (x.et /\ x.wact)
             p == x.in + 1
             a == x.arrived + 1
             ka == [x EXCEPT !.net = "up", !.full = FALSE, !.edge = x.et]
             kb == [x EXCEPT !.net = "err", !.edge = x.et]
             kc == [x EXCEPT !.in = p, !.arrived = a, !.edge = e]
             kd == [x EXCEPT !.eof = TRUE, !.edge = e]
             ke == [x EXCEPT !.full = FALSE, !.edge = g]
  <1>4. e \in BOOLEAN /\ g \in BOOLEAN /\ p \in Nat /\ a \in Nat
        /\ (x.et /\ x.ract => e) /\ (x.edge => g)
    BY <1>3
  <1>5. \/ Happens(s, ka) \/ Happens(s, kb) \/ Happens(s, kc) \/ Happens(s, kd) \/ Happens(s, ke)
    BY DEF Environment, Established, NetError, Arrive, ArriveEof, SpaceFreed, x
  <1> HIDE DEF e, g, p, a
  <1>6. /\ ka \in Socket /\ ka.wact = x.wact /\ ka.et = x.et /\ ka.edge = x.et
        /\ kb \in Socket /\ kb.wact = x.wact /\ kb.et = x.et /\ kb.edge = x.et
    BY <1>1, <1>3 DEF Socket
  <1>7. /\ kc \in Socket /\ kc.wact = x.wact /\ kc.et = x.et /\ kc.edge = e
        /\ kd \in Socket /\ kd.wact = x.wact /\ kd.et = x.et /\ kd.edge = e
    BY <1>1, <1>4 DEF Socket
  <1>8. /\ ke \in Socket /\ ke.wact = x.wact /\ ke.et = x.et /\ ke.edge = g
        /\ ke.in = x.in /\ ke.eof = x.eof /\ ke.net = x.net
    BY <1>1, <1>4 DEF Socket
  <1> HIDE DEF ka, kb, kc, kd, ke
  <1>9. SameData(ke, x)
    BY <1>8, SameFields
  <1>10. CASE Happens(s, ka)
    BY <1>1, <1>6, <1>10, HappensWakes DEF x
  <1>11. CASE Happens(s, kb)
    BY <1>1, <1>6, <1>11, HappensWakes DEF x
  <1>12. CASE Happens(s, kc)
    BY <1>1, <1>2, <1>4, <1>7, <1>12, HappensWakes DEF x
  <1>13. CASE Happens(s, kd)
    BY <1>1, <1>2, <1>4, <1>7, <1>13, HappensWakes DEF x
  <1>14. CASE Happens(s, ke)
    BY <1>1, <1>4, <1>8, <1>9, <1>14, HappensWakes DEF x
  <1> QED
    BY <1>5, <1>10, <1>11, <1>12, <1>13, <1>14
-----------------------------------------------------------------------------
LEMMA OpenWakes ==
    ASSUME MuxInv, Woken, NEW s \in Streams, OpenTcp(s) \/ OpenPacket(s)
    PROVE  Woken'
  <1>1. StreamsOK /\ pc = "idle" /\ pc' = "idle" /\ UNCHANGED queues /\ sock[s] \in Socket /\ str[s] \in Stream
        /\ str[s].state = "free"
    BY StreamFacts DEF MuxInv, OpenTcp, OpenPacket, event, Idle
  <1>2. CASE OpenTcp(s)
    <2>1. PICK n \in 0 .. 1 : str' = [str EXCEPT ![s].state = "connecting", ![s].timer = TRUE,
                                                 ![s].pend = n, ![s].sentIn = n]
      BY <1>2 DEF OpenTcp
    <2> DEFINE k == [sock[s] EXCEPT !.net = "syn", !.ract = TRUE, !.wact = TRUE, !.et = TRUE]
               f == [str[s] EXCEPT !.state = "connecting", !.timer = TRUE, !.pend = n, !.sentIn = n]
    <2>2. sock' = [sock EXCEPT ![s] = k] /\ str' = [str EXCEPT ![s] = f]
      BY <1>1, <1>2, <2>1 DEF StreamsOK, OpenTcp
    <2>3. k.wact /\ k.net = "syn" /\ k.in = sock[s].in /\ k.eof = sock[s].eof /\ f.state = "connecting"
      BY <1>1 DEF Socket, Stream
    <2>4. ~Readable(sock[s])
      BY <1>1 DEF Woken, WakesUp, Wakes
    <2> HIDE DEF k, f
    <2>5. ~Readable(k) /\ ~HungUp(k)
      BY <2>3, <2>4 DEF Readable, HungUp
    <2>6. Wakes(k, f, s \in Range(blocked), FALSE, FALSE, s \in Range(writeReady), s \in Range(readReady))
      BY <2>3, <2>5 DEF Wakes
    <2> QED  BY <1>1, <2>2, <2>6, HandlerWakes
  <1>3. CASE OpenPacket(s)
    <2> DEFINE k == [sock[s] EXCEPT !.net = "up", !.ract = TRUE]
               f == [str[s] EXCEPT !.state = "connected", !.kind = "packet"]
    <2>1. sock' = [sock EXCEPT ![s] = k] /\ str' = [str EXCEPT ![s] = f]
      BY <1>1, <1>3 DEF StreamsOK, OpenPacket
    <2>2. f.kind = "packet" /\ f.state = "connected"
      BY <1>1 DEF Stream
    <2> HIDE DEF k, f
    <2>3. Wakes(k, f, s \in Range(blocked), FALSE, FALSE, s \in Range(writeReady), s \in Range(readReady))
      BY <2>2 DEF Wakes
    <2> QED  BY <1>1, <2>1, <2>3, HandlerWakes
  <1> QED
    BY <1>2, <1>3

LEMMA SessionEndsWakes ==
    ASSUME StreamsOK, SessionEnds
    PROVE  Woken'
  <1>1. ASSUME NEW s \in Streams PROVE WakesUp(s)'
    <2> DEFINE y == str[s]
               g == [y EXCEPT !.state = "closed", !.timer = FALSE, !.posted = FALSE, !.pend = 0,
                              !.rready = FALSE]
    <2>1. y \in Stream /\ str'[s] = g
      BY StreamFacts DEF SessionEnds
    <2> HIDE DEF y
    <2>2. g.state = "closed"
      BY <2>1 DEF Stream
    <2> HIDE DEF g
    <2> QED  BY <2>1, <2>2 DEF WakesUp, Wakes
  <1> QED
    BY <1>1 DEF Woken

LEMMA ClientPayloadWakes ==
    ASSUME MuxInv, Woken, NEW s \in Streams, ClientPayload(s)
    PROVE  Woken'
  <1> DEFINE x == sock[s]
             y == str[s]
             b == s \in Range(blocked)
             w == s \in Range(writeReady)
             r == s \in Range(readReady)
             p == str[s].pend + 1
             c == str[s].sentIn + 1
  <1>1. /\ StreamsOK /\ pc = "idle" /\ pc' = "idle" /\ x \in Socket /\ y \in Stream
        /\ y.state \in {"connecting", "connected"}
    BY StreamFacts DEF MuxInv, ClientPayload, event, Idle
  <1>2. Wakes(x, y, b, FALSE, FALSE, w, r) /\ (x.ract \/ b)
    BY <1>1, IdleWakes, Registered
  <1>3. p \in Nat /\ c \in Nat /\ y.pend \in Nat /\ p - 1 = y.pend
    BY <1>1 DEF Stream
  <1>4. CASE PayloadWaits(s)
    <2> DEFINE f == [y EXCEPT !.sentIn = c, !.pend = p, !.posted = TRUE]
    <2>1. str' = [str EXCEPT ![s] = f] /\ sock' = [sock EXCEPT ![s] = x] /\ UNCHANGED queues
      BY <1>4, StreamFacts DEF MuxInv, StreamsOK, PayloadWaits
    <2> HIDE DEF x, y, p, c, b, w, r
    <2>2. f.state = y.state /\ f.kind = y.kind /\ f.rready = y.rready /\ f.hup = y.hup
      BY <1>1 DEF Stream
    <2> HIDE DEF f
    <2>3. Wakes(x, f, b, FALSE, FALSE, w, r)
      BY <1>2, <2>2, LikeWakes
    <2> QED  BY <1>1, <2>1, <2>3, HandlerWakes DEF b, w, r
  <1>5. CASE PayloadSent(s)
    <2> DEFINE f == [y EXCEPT !.sentIn = c, !.pend = p]
    <2>1. PICK n \in 0 .. y.pend + 1 :
            LET flushed == IF n >= str[s].pend /\ str[s].pend > 0 THEN DisarmWrite(sock[s]) ELSE sock[s]
            IN  /\ Takes(sock[s], f.pend, n)
                /\ str' = [str EXCEPT ![s] = [SendPending(f, n) EXCEPT !.posted = @ \/ n < f.pend]]
                /\ sock' = [sock EXCEPT ![s] = PendingSent(flushed, f, n)]
      BY <1>5 DEF PayloadSent
    <2> DEFINE j == IF n >= str[s].pend /\ str[s].pend > 0 THEN DisarmWrite(sock[s]) ELSE sock[s]
               k == PendingSent(j, f, n)
               h == SendPending(f, n)
               o == h.posted \/ n < f.pend
               g == [h EXCEPT !.posted = o]
    <2>2. str' = [str EXCEPT ![s] = g] /\ sock' = [sock EXCEPT ![s] = k] /\ UNCHANGED queues
      BY <1>5, <2>1 DEF PayloadSent
    <2>3. j = DisarmWrite(x) \/ j = x
      OBVIOUS
    <2>4. y.state = "connected"
      BY <1>5 DEF PayloadSent
    <2> HIDE DEF j, x
    <2>5. n \in 0 .. p
      OBVIOUS
    <2> HIDE DEF y, p, c, b, w, r
    <2>6. j \in Socket /\ (j.ract \/ b) /\ Wakes(j, y, b, FALSE, FALSE, w, r)
      <3>1. DisarmWrite(x) \in Socket /\ DisarmWrite(x).ract = x.ract
        BY <1>1, SocketOps
      <3>2. Wakes(DisarmWrite(x), y, b, FALSE, FALSE, w, r)
        BY <1>1, <1>2, <2>4, DisarmWakes
      <3> QED  BY <1>1, <1>2, <2>3, <3>1, <3>2
    <2>7. f \in Stream /\ f.state = y.state /\ f.kind = y.kind /\ f.pend = p /\ f.hup = y.hup
          /\ f.rready = y.rready
      BY <1>1, <1>3 DEF Stream
    <2> HIDE DEF f
    <2>8. Wakes(j, f, b, FALSE, FALSE, w, r)
      BY <2>6, <2>7, LikeWakes
    <2>9. Wakes(k, f, b, FALSE, FALSE, w, r)
      BY <2>4, <2>5, <2>6, <2>7, <2>8, SentWakes
    <2>10. h \in Stream /\ h.state = f.state /\ h.kind = f.kind /\ h.hup = f.hup /\ h.rready = f.rready
      <3>1. h \in Stream /\ h.state = f.state /\ h.kind = f.kind
        BY <2>5, <2>7, SendPendingOp
      <3>2. h.hup = f.hup /\ h.rready = f.rready
        BY <2>7 DEF SendPending, Stream
      <3> QED  BY <3>1, <3>2
    <2> HIDE DEF h, k
    <2>11. g.state = f.state /\ g.kind = f.kind /\ g.hup = f.hup /\ g.rready = f.rready
      BY <2>10 DEF Stream
    <2> HIDE DEF g
    <2>12. Wakes(k, g, b, FALSE, FALSE, w, r)
      BY <2>9, <2>11, LikeWakes
    <2> QED
      BY <1>1, <2>2, <2>12, HandlerWakes DEF b, w, r
  <1>6. CASE SessionEnds
    BY <1>1, <1>6, SessionEndsWakes
  <1> QED
    BY <1>4, <1>5, <1>6 DEF ClientPayload

LEMMA ClientFinWakes ==
    ASSUME MuxInv, Woken, NEW s \in Streams, ClientFin(s)
    PROVE  Woken'
  <1> DEFINE x == sock[s]
             y == str[s]
             b == s \in Range(blocked)
             w == s \in Range(writeReady)
             r == s \in Range(readReady)
             f == [str[s] EXCEPT !.fin = TRUE]
  <1>1. /\ StreamsOK /\ pc = "idle" /\ pc' = "idle" /\ x \in Socket /\ y \in Stream
        /\ y.state \in {"connecting", "connected"}
    BY StreamFacts DEF MuxInv, ClientFin, event, Idle
  <1>2. Wakes(x, y, b, FALSE, FALSE, w, r) /\ (x.ract \/ b)
    BY <1>1, IdleWakes, Registered
  <1>3. f \in Stream /\ f.state = y.state /\ f.kind = y.kind /\ f.pend = y.pend /\ f.hup = y.hup
        /\ f.rready = y.rready
    BY <1>1 DEF Stream
  <1>4. CASE IsPacket(s) \/ f.state = "connecting" \/ (sock[s].net = "err" /\ f.pend > 0)
    <2>1. CloseStream(s, f)
      BY <1>4 DEF ClientFin
    <2> HIDE DEF f
    <2> QED  BY <1>1, <1>3, <2>1, CarriedIdle, CloseWakes
  <1>5. CASE ~(IsPacket(s) \/ f.state = "connecting" \/ (sock[s].net = "err" /\ f.pend > 0))
    <2>1. PICK n \in 0 .. f.pend :
            /\ str' = [str EXCEPT ![s] = [f EXCEPT !.state = "half_closed", !.pend = @ - n,
                                            !.shut = IF n = f.pend THEN "done" ELSE "pending"]]
            /\ sock' = [sock EXCEPT ![s] = PendingSent(@, f, n)]
            /\ UNCHANGED queues
      BY <1>5 DEF ClientFin
    <2> DEFINE v == IF n = f.pend THEN "done" ELSE "pending"
               p == f.pend - n
               g == [f EXCEPT !.state = "half_closed", !.pend = p, !.shut = v]
               k == PendingSent(x, f, n)
    <2>2. str' = [str EXCEPT ![s] = g] /\ sock' = [sock EXCEPT ![s] = k] /\ UNCHANGED queues
      BY <2>1 DEF MuxInv, StreamsOK
    <2>3. y.kind # "packet" /\ y.state = "connected"
      BY <1>1, <1>3, <1>5 DEF IsPacket
    <2> HIDE DEF f, x, y, p, v, b, w, r
    <2>4. g.state = "half_closed" /\ g.kind = f.kind /\ g.rready = f.rready /\ g.hup = f.hup
      BY <1>3 DEF Stream
    <2> HIDE DEF g
    <2>5. Wakes(x, f, b, FALSE, FALSE, w, r)
      BY <1>2, <1>3, LikeWakes
    <2>6. Wakes(k, f, b, FALSE, FALSE, w, r)
      BY <1>1, <1>2, <1>3, <2>3, <2>5, SentWakes
    <2> HIDE DEF k
    <2>7. f.state = "connected"
      BY <1>3, <2>3
    <2>8. Wakes(k, g, b, FALSE, FALSE, w, r)
      BY <2>4, <2>6, <2>7 DEF Wakes
    <2> QED
      BY <1>1, <2>2, <2>8, HandlerWakes DEF b, w, r
  <1> QED
    BY <1>4, <1>5

LEMMA ConnectTimeoutWakes ==
    ASSUME MuxInv, Woken, NEW s \in Streams, ConnectTimeout(s)
    PROVE  Woken'
  <1>1. StreamsOK /\ pc = "idle" /\ pc' = "idle" /\ str[s] \in Stream /\ CloseStream(s, str[s])
    BY StreamFacts DEF MuxInv, ConnectTimeout, event, Idle
  <1> QED
    BY <1>1, CarriedIdle, CloseWakes

LEMMA PostedWriteWakes ==
    ASSUME MuxInv, Woken, NEW s \in Streams, PostedWrite(s)
    PROVE  Woken'
  <1> DEFINE x == sock[s]
             y == str[s]
             f == [y EXCEPT !.posted = FALSE]
  <1>1. StreamsOK /\ pc = "idle" /\ pc' = "event" /\ x \in Socket /\ y \in Stream /\ UNCHANGED queues
        /\ str' = [str EXCEPT ![s] = f] /\ sock' = [sock EXCEPT ![s] = x]
    BY StreamFacts DEF MuxInv, PostedWrite, Idle
  <1>2. Wakes(x, y, s \in Range(blocked), FALSE, FALSE, s \in Range(writeReady), s \in Range(readReady))
    BY <1>1, IdleWakes
  <1> HIDE DEF x, y
  <1>3. f.state = y.state /\ f.kind = y.kind /\ f.rready = y.rready /\ f.hup = y.hup
    BY <1>1 DEF Stream
  <1> HIDE DEF f
  <1>4. Wakes(x, f, s \in Range(blocked), FALSE, FALSE, s \in Range(writeReady), s \in Range(readReady))
    BY <1>2, <1>3, LikeWakes
  <1> QED
    BY <1>1, <1>4, HandlerWakes

(* The report of an edge uses the edge up and tells the read handler, with *)
(* the end of file when there is one.                                      *)
LEMMA EpollReportWakes ==
    ASSUME MuxInv, Woken, NEW s \in Streams, EpollReport(s)
    PROVE  Woken'
  <1> DEFINE x == sock[s]
             y == str[s]
             b == s \in Range(blocked)
             k == [x EXCEPT !.edge = FALSE]
             t == Told(s, {"in"})'
             e == Told(s, {"in", "hup"})'
             w == InWrites(s)'
             r == InReads(s)'
  <1>1. /\ StreamsOK /\ pc = "idle" /\ x \in Socket /\ y \in Stream /\ UNCHANGED queues
        /\ str' = [str EXCEPT ![s] = y] /\ sock' = [sock EXCEPT ![s] = k]
        /\ pc' = "event" /\ ev' = s /\ mask' = Reports(x) \cup (IF HungUp(x) THEN {"hup"} ELSE {})
    BY StreamFacts DEF MuxInv, EpollReport, Idle
  <1>2. Wakes(x, y, b, FALSE, FALSE, s \in Range(writeReady), s \in Range(readReady))
    BY <1>1, IdleWakes
  <1>3. y.state \in {"connecting", "connected", "half_closed"} => x.ract \/ b
    BY <1>1, Registered
  <1>4. /\ x.ract /\ Readable(x) => t
        /\ x.ract /\ HungUp(x) => e
    <2>1. x.ract /\ Readable(x) => "in" \in mask'
      BY <1>1 DEF Reports
    <2>2. HungUp(x) => "hup" \in mask' /\ Readable(x)
      BY <1>1 DEF Readable
    <2> QED  BY <1>1, <2>1, <2>2 DEF Told
  <1> HIDE DEF x, y, b, t, e, w, r
  <1>5. k.wact = x.wact /\ k.in = x.in /\ k.eof = x.eof /\ k.net = x.net
    BY <1>1 DEF Socket
  <1> HIDE DEF k
  <1>6. (Readable(k) <=> Readable(x)) /\ (HungUp(k) <=> HungUp(x))
    BY <1>5, SameFields DEF SameData
  <1>7. Wakes(k, y, b, t, e, w, r)
    BY <1>2, <1>3, <1>4, <1>5, <1>6 DEF Wakes, Due
  <1>8. Wakes(k, y, s \in Range(blocked'), t, e, w, r)
    <2>1. b => s \in Range(blocked')
      BY <1>1 DEF b, queues
    <2> QED  BY <1>7, <2>1, Zenon DEF Wakes, Due
  <1>9. \A u \in Streams \ {s} : Carried(u)
    BY <1>1, SameQueues, CarriedIdle
  <1> QED
    BY <1>1, <1>8, <1>9, OneWakes DEF t, e, w, r
-----------------------------------------------------------------------------
(* A loop or an event ends: what is left is in a queue, or due.            *)
LEMMA EndsWakes ==
    ASSUME Woken, UNCHANGED <<sock, str>>, pc # "read", pc' # "reads",
           \A t \in Streams : Kept(t),
           \A t \in Streams : str[t].state \in {"connecting", "connected", "half_closed"} =>
                                  (Told(t, {"in"}) => t \in Range(blocked))
    PROVE  Woken'
  <1> SUFFICES ASSUME NEW s \in Streams PROVE WakesUp(s)'
    BY DEF Woken
  <1> DEFINE k == sock[s]
             f == str[s]
             b == s \in Range(blocked)
             t == Told(s, {"in"})
             e == Told(s, {"in", "hup"})
             w == InWrites(s)
             r == InReads(s)
  <1>1. Wakes(k, f, b, t, e, w, r)
    BY DEF Woken, WakesUp
  <1>2. f.state \in {"connecting", "connected", "half_closed"} => (t => b)
    OBVIOUS
  <1>3. e => t
    BY DEF Told
  <1>4. sock'[s] = k /\ str'[s] = f
    OBVIOUS
  <1>5. (b => s \in Range(blocked')) /\ (w => InWrites(s)') /\ (r => InReads(s)')
    BY DEF Kept, InWrites, InReads, Visited
  <1> HIDE DEF k, f, b, t, e, w, r
  <1>6. Wakes(k, f, b, FALSE, FALSE, w, r)
    BY <1>1, <1>2, <1>3 DEF Wakes, Due
  <1>7. Wakes(k, f, s \in Range(blocked'), Told(s, {"in"})', Told(s, {"in", "hup"})', InWrites(s)', InReads(s)')
    BY <1>5, <1>6, Zenon DEF Wakes, Due
  <1> QED
    BY <1>4, <1>7 DEF WakesUp

(* The read handler that is not called any more was told about a stream    *)
(* that has been blocked since.                                            *)
LEMMA NotTold ==
    ASSUME MuxInv, pc # "event" \/ ~ReadTurn
    PROVE  \A t \in Streams : str[t].state \in {"connecting", "connected", "half_closed"} =>
                                  (Told(t, {"in"}) => t \in Range(blocked))
  <1> SUFFICES ASSUME NEW t \in Streams, str[t].state \in {"connecting", "connected", "half_closed"},
                      Told(t, {"in"})
               PROVE  t \in Range(blocked)
    OBVIOUS
  <1>1. sock[t].ract \/ t \in Range(blocked)
    BY Registered DEF MuxInv
  <1>2. ~sock[t].ract
    BY DEF Told, ReadTurn
  <1> QED
    BY <1>1, <1>2

LEMMA EventDoneWakes ==
    ASSUME MuxInv, Woken, EventDone
    PROVE  Woken'
  <1>1. pc = "event" /\ pc' = "idle" /\ ~ReadTurn /\ UNCHANGED <<sock, str>> /\ UNCHANGED queues
    BY DEF EventDone
  <1> QED
    BY <1>1, NotTold, SameQueues, EndsWakes

(* The write handler runs after the read handler, or as a posted event.    *)
LEMMA WriteTurnAlone ==
    ASSUME MuxInv, WriteTurn
    PROVE  pc = "event" /\ ~ReadTurn
  BY DEF MuxInv, LoopOK, WriteTurn, ReadTurn

(* The stream of the event joins write_ready.                              *)
LEMMA WriteReadyKeeps ==
    ASSUME StreamsOK, ev \in Streams, WriteReady
    PROVE  (\A t \in Streams : Kept(t)) /\ ev \in Range(writeReady')
  <1>1. writeReady \in Seq(Streams) /\ readReady' = readReady /\ blocked' = blocked
    BY DEF StreamsOK, WriteReady
  <1>2. Range(writeReady) \subseteq Range(writeReady') /\ ev \in Range(writeReady')
    <2>1. CASE ev \in Range(writeReady)
      BY <2>1 DEF WriteReady
    <2>2. CASE ev \notin Range(writeReady)
      <3>1. writeReady' = Append(writeReady, ev)
        BY <2>2 DEF WriteReady
      <3>2. Range(Append(writeReady, ev)) = Range(writeReady) \cup {ev}
        BY <1>1, <2>2, QueueAppend DEF StreamsOK
      <3> QED  BY <3>1, <3>2
    <2> QED  BY <2>1, <2>2
  <1> QED
    BY <1>1, <1>2 DEF Kept

LEMMA WriteHandlerWakes ==
    ASSUME MuxInv, Woken, WriteHandler
    PROVE  Woken'
  <1>1. StreamsOK /\ WriteTurn /\ WriteReady /\ pc' = "writes" /\ UNCHANGED <<sock, str>>
    BY DEF MuxInv, WriteHandler, WriteReady
  <1>2. pc = "event" /\ ~ReadTurn /\ ev \in Streams
    BY <1>1, WriteTurnAlone, WriteTurnFacts
  <1>3. \A t \in Streams : Kept(t)
    BY <1>1, <1>2, WriteReadyKeeps
  <1> QED
    BY <1>1, <1>2, <1>3, NotTold, EndsWakes

(* A connected stream still has its write event, and is in write_ready.    *)
LEMMA ConnectReadyWakes ==
    ASSUME MuxInv, Woken, ConnectReady
    PROVE  Woken'
  <1>1. PICK s \in Streams : s = ev
    BY WriteTurnFacts DEF ConnectReady
  <1> DEFINE x == sock[s]
             y == str[s]
             f == [y EXCEPT !.state = "connected", !.timer = FALSE]
             t == Told(s, {"in"})
             e == Told(s, {"in", "hup"})
             w == InWrites(s)
             r == InReads(s)
             b == s \in Range(blocked)
  <1>2. /\ StreamsOK /\ WriteTurn /\ WriteReady /\ pc' = "writes" /\ sock' = sock /\ y.state = "connecting"
        /\ str' = [str EXCEPT ![s] = f]
    BY <1>1, WriteTurnFacts DEF MuxInv, StreamsOK, ConnectReady, WriteReady
  <1>3. y \in Stream /\ sock' = [sock EXCEPT ![s] = x]
    BY <1>2, StreamFacts
  <1>4. pc = "event" /\ ~ReadTurn
    BY <1>2, WriteTurnAlone
  <1>5. Wakes(x, y, b, t, e, w, r)
    BY DEF Woken, WakesUp
  <1>6. (t => b) /\ (e => t) /\ (r => s \in Range(readReady))
    BY <1>2, <1>4, NotTold DEF Told, InReads
  <1>7. (\A u \in Streams : Kept(u)) /\ s \in Range(writeReady')
    BY <1>1, <1>2, WriteReadyKeeps
  <1>8. InWrites(s)' /\ (r => InReads(s)') /\ (b => s \in Range(blocked'))
    BY <1>2, <1>6, <1>7 DEF InWrites, InReads, Visited, Kept
  <1> HIDE DEF x, y, b, t, e, w, r
  <1>9. f.state = "connected" /\ f.kind = y.kind /\ f.rready = y.rready /\ f.hup = y.hup
    BY <1>3 DEF Stream
  <1> HIDE DEF f
  <1>10. Wakes(x, f, b, FALSE, FALSE, TRUE, r)
    BY <1>2, <1>5, <1>6, <1>9 DEF Wakes, Due
  <1>11. Wakes(x, f, s \in Range(blocked'), Told(s, {"in"})', Told(s, {"in", "hup"})',
              InWrites(s)', InReads(s)')
    BY <1>8, <1>10, Zenon DEF Wakes, Due
  <1>12. \A u \in Streams \ {s} : Carried(u)
    BY <1>1, <1>2, <1>4, <1>7 DEF Carried, Kept, Told, InWrites, InReads, Visited
  <1>13. StreamsOK /\ s \in Streams /\ sock' = [sock EXCEPT ![s] = x] /\ str' = [str EXCEPT ![s] = f]
    BY <1>2, <1>3 DEF x
  <1> QED
    BY ONLY Woken, <1>11, <1>12, <1>13, OneWakes

LEMMA ConnectErrorWakes ==
    ASSUME MuxInv, Woken, ConnectError
    PROVE  Woken'
  <1>1. /\ StreamsOK /\ ev \in Streams /\ str[ev] \in Stream /\ CloseStream(ev, str[ev])
        /\ pc = "event" /\ pc' = "event"
    BY WriteTurnFacts DEF MuxInv, ConnectError, WriteTurn
  <1>2. \A t \in Streams \ {ev} : Kept(t) => Carried(t)
    BY <1>1 DEF Carried, Kept, Told, InWrites, InReads, Visited
  <1> QED
    BY <1>1, <1>2, CloseWakes

(* A send leaves the stream level triggered, or in write_ready with its    *)
(* write event on.                                                         *)
LEMMA WritePayloadsWakes ==
    ASSUME MuxInv, Woken, WritePayloads
    PROVE  Woken'
  <1>1. PICK s \in Streams : s = Head(writeReady)
    BY WriteHead DEF MuxInv, WritePayloads, MoreWrites
  <1> DEFINE y == str[s]
             x == sock[s]
             b == s \in Range(blocked)
             r == InReads(s)
             queue == Tail(writeReady)
  <1>2. StreamsOK /\ writeReady # <<>> /\ pc = "writes" /\ pc' = "writes"
        /\ blocked' = blocked /\ readReady' = readReady
    BY DEF MuxInv, WritePayloads, MoreWrites, event
  <1>3. s \in Streams /\ x \in Socket /\ y \in Stream /\ y.state \in {"connected", "half_closed"}
        /\ (x.ract \/ b)
    BY <1>2, <1>1, WriteHead, StreamFacts, Registered
  <1>4. PICK n \in 0 .. y.pend :
          /\ str' = [str EXCEPT ![s] = SendPending(@, n)]
          /\ sock' = [sock EXCEPT ![s] = PendingSent(@, y, n)]
          /\ writeReady' = IF n < y.pend THEN Append(queue, s) ELSE queue
    BY <1>1 DEF WritePayloads
  <1> DEFINE f == SendPending(y, n)
             k == PendingSent(x, y, n)
             v == s \in Range(writeReady')
  <1>5. str' = [str EXCEPT ![s] = f] /\ sock' = [sock EXCEPT ![s] = k]
    BY <1>4
  <1>6. /\ queue \in Seq(Streams) /\ IsInjective(queue) /\ Range(queue) = Range(writeReady) \ {s}
    BY <1>1, <1>2, WriteHead
  <1>7. Range(queue) \subseteq Range(writeReady') /\ (n # y.pend => v)
    <2>1. Range(Append(queue, s)) = Range(queue) \cup {s}
      <3> HIDE DEF queue
      <3> QED  BY <1>6, QueueAppend
    <2>2. y.pend \in Nat
      BY <1>3 DEF Stream
    <2> QED  BY <1>4, <2>1, <2>2
  <1>8. Wakes(x, y, b, Told(s, {"in"}), Told(s, {"in", "hup"}), InWrites(s), r)
    BY <1>3 DEF Woken, WakesUp
  <1>9. ~Told(s, {"in"}) /\ ~Told(s, {"in", "hup"})
    BY <1>2 DEF Told
  <1>10. \A t \in Streams \ {s} : Carried(t)
    BY <1>2, <1>6, <1>7 DEF Carried, Told, InWrites, InReads, Visited
  <1>11. (r => InReads(s)') /\ (v => InWrites(s)')
    BY <1>2 DEF InReads, InWrites, Visited
  <1> HIDE DEF x, y, b, r, v, queue
  <1>12. Wakes(x, y, b, FALSE, FALSE, TRUE, r)
    BY <1>8, <1>9, Zenon DEF Wakes, Due
  <1>13. Wakes(k, y, b, FALSE, FALSE, v, r)
    BY <1>3, <1>7, <1>12, SentWakes
  <1> HIDE DEF k
  <1>14. f.state = y.state /\ f.kind = y.kind /\ f.rready = y.rready /\ f.hup = y.hup
    <2>1. f.state = y.state /\ f.kind = y.kind
      BY <1>3, SendPendingOp
    <2> QED  BY <1>3, <2>1 DEF SendPending, Stream
  <1> HIDE DEF f
  <1>15. Wakes(k, f, b, FALSE, FALSE, v, r)
    BY <1>13, <1>14, LikeWakes
  <1>16. b => s \in Range(blocked')
    BY <1>2 DEF b
  <1>17. Wakes(k, f, s \in Range(blocked'), Told(s, {"in"})', Told(s, {"in", "hup"})',
               InWrites(s)', InReads(s)')
    BY <1>11, <1>15, <1>16, Zenon DEF Wakes, Due
  <1> QED
    BY ONLY Woken, <1>2, <1>3, <1>5, <1>10, <1>17, OneWakes

LEMMA WriteErrorWakes ==
    ASSUME MuxInv, Woken, WriteError
    PROVE  Woken'
  <1> DEFINE s == Head(writeReady)
  <1>1. StreamsOK /\ writeReady # <<>> /\ CloseStream(s, str[s]) /\ pc = "writes" /\ pc' = "writes"
    BY DEF MuxInv, WriteError, MoreWrites, event
  <1>2. s \in Streams /\ str[s] \in Stream
    BY <1>1, WriteHead, StreamFacts
  <1> HIDE DEF s
  <1>3. \A t \in Streams \ {s} : Kept(t) => Carried(t)
    BY <1>1 DEF Carried, Kept, Told, InWrites, InReads, Visited
  <1> QED
    BY <1>1, <1>2, <1>3, CloseWakes

(* Whatever is left in the queues of a loop that ends waits there.         *)
LEMMA LoopDoneWakes ==
    ASSUME MuxInv, Woken, WritesDone \/ ReadsDone
    PROVE  Woken'
  <1>1. pc \in {"writes", "reads"} /\ pc' = "event" /\ UNCHANGED <<sock, str>> /\ UNCHANGED queues
    BY DEF WritesDone, ReadsDone, Return
  <1> QED
    BY <1>1, NotTold, SameQueues, EndsWakes
-----------------------------------------------------------------------------
(* The stream of the event joins read_ready.                               *)
LEMMA ReadHandlerWakes ==
    ASSUME MuxInv, AtNone, Woken, ReadHandler
    PROVE  Woken'
  <1>1. PICK s \in Streams : s = ev
    BY ReadTurnFacts DEF ReadHandler
  <1> DEFINE x == sock[s]
             y == str[s]
             h == y.hup \/ "hup" \in mask
             f == [y EXCEPT !.rready = TRUE, !.hup = h]
             b == s \in Range(blocked)
             e == Told(s, {"in", "hup"})
             r == InReads(s)'
  <1>2. /\ StreamsOK /\ ReadTurn /\ pc = "event" /\ x \in Socket /\ y \in Stream /\ x.ract
        /\ sock' = [sock EXCEPT ![s] = x] /\ str' = [str EXCEPT ![s] = f] /\ blocked' = blocked
        /\ writeReady' = writeReady /\ pc' \in {"event", "reads"} /\ cur' = cur
    BY <1>1, ReadTurnFacts, StreamFacts DEF MuxInv, StreamsOK, ReadHandler, ReadTurn
  <1>3. cur = None /\ None \notin Streams
    BY <1>2, UpstreamAssumption DEF AtNone
  <1>4. Wakes(x, y, b, Told(s, {"in"}), e, InWrites(s), InReads(s))
    BY DEF Woken, WakesUp
  <1>5. e => h
    BY DEF Told
  <1>6. Range(readReady) \subseteq Range(readReady') /\ (IsOpen(s) => s \in Range(readReady'))
    <2>1. readReady \in Seq(Streams) /\ IsInjective(readReady)
      BY <1>2 DEF StreamsOK
    <2>2. IsOpen(s) => s \notin Range(blocked)
      <3>1. Agree(x, y, s \in Range(readReady), s \in Range(writeReady), s \in Range(blocked))
        BY <1>2, StreamFacts
      <3> QED  BY <1>2, <3>1 DEF Agree, IsOpen
    <2>3. CASE readReady' = readReady
      BY <1>1, <2>2, <2>3 DEF ReadHandler
    <2>4. CASE readReady' # readReady
      <3>1. s \notin Range(readReady) /\ readReady' = Append(readReady, s)
        BY <1>1, <2>4 DEF ReadHandler
      <3>2. Range(Append(readReady, s)) = Range(readReady) \cup {s}
        BY <2>1, <3>1, QueueAppend
      <3> QED  BY <3>1, <3>2
    <2> QED  BY <2>3, <2>4
  <1>7. \A t \in Streams : ~Visited(t)'
    BY <1>2, <1>3 DEF Visited
  <1>8. y.state \in {"connected", "half_closed"} => r
    BY <1>6, <1>7 DEF InReads, IsOpen
  <1>9. h \in BOOLEAN /\ (y.hup => h)
    BY <1>2 DEF Stream
  <1>10. \A t \in Streams \ {s} : Carried(t)
    BY <1>1, <1>2, <1>6, <1>7 DEF Carried, Told, InWrites, InReads
  <1>11. b => s \in Range(blocked')
    BY <1>2
  <1> HIDE DEF x, y, b, h, e, r
  <1>12. f.state = y.state /\ f.kind = y.kind /\ f.rready /\ f.hup = h
    BY <1>2, <1>9 DEF Stream
  <1> HIDE DEF f
  <1>13. Wakes(x, f, b, FALSE, FALSE, FALSE, r)
    <2>1. HungUp(x) /\ y.state \in {"connecting", "connected", "half_closed"} /\ y.kind # "packet"
             => Due(x, b) \/ h
      BY <1>4, <1>5, <1>9 DEF Wakes
    <2>2. /\ y.state = "connecting" => x.wact
          /\ y.state = "free" => x.net = "none" /\ ~Readable(x)
      BY <1>4 DEF Wakes
    <2> QED  BY <1>8, <1>12, <2>1, <2>2 DEF Wakes
  <1>14. Wakes(x, f, s \in Range(blocked'), Told(s, {"in"})', Told(s, {"in", "hup"})',
               InWrites(s)', InReads(s)')
    BY <1>11, <1>13, Zenon DEF Wakes, Due, r
  <1> QED
    BY ONLY Woken, <1>2, <1>10, <1>14, s \in Streams, OneWakes

(* drain_reads takes the head out of the queue and is at it.               *)
LEMMA NextStreamWakes ==
    ASSUME MuxInv, Woken, NextStream
    PROVE  Woken'
  <1>1. StreamsOK /\ readReady # <<>> /\ pc = "reads" /\ pc' = "read"
        /\ cur' = Head(readReady) /\ readReady' = Tail(readReady)
        /\ UNCHANGED <<sock, str, blocked, writeReady>>
    BY DEF MuxInv, NextStream, MoreReads
  <1>2. Range(Tail(readReady)) = Range(readReady) \ {Head(readReady)}
    BY <1>1, QueueTail DEF StreamsOK
  <1>3. ASSUME NEW t \in Streams PROVE WakesUp(t)'
    <2>1. Carried(t)
      BY <1>1, <1>2 DEF Carried, Told, InWrites, InReads, Visited
    <2> QED  BY <1>1, <2>1, SameWakes DEF Woken
  <1> QED
    BY <1>3 DEF Woken
-----------------------------------------------------------------------------
(* What drain_reads does to the stream it is at, cur, leaves the others in *)
(* the queues.  When it is done with it, the stream must be due.           *)
LEMMA ReadStepWakes ==
    ASSUME MuxInv, Woken, pc = "read", pc' \in {"read", "reads"}, NEW s \in Streams, s = cur,
           NEW k, NEW f, sock' = [sock EXCEPT ![s] = k], str' = [str EXCEPT ![s] = f],
           cur' = cur, \A t \in Streams \ {s} : Kept(t),
           Wakes(k, f, s \in Range(blocked'), FALSE, FALSE, FALSE, pc' = "read")
    PROVE  Woken'
  <1>1. StreamsOK
    BY DEF MuxInv
  <1>2. \A t \in Streams \ {s} : Carried(t)
    BY DEF Carried, Kept, Told, InWrites, InReads, Visited
  <1>3. pc' = "read" => InReads(s)'
    BY DEF InReads
  <1>4. Wakes(k, f, s \in Range(blocked'), Told(s, {"in"})', Told(s, {"in", "hup"})',
              InWrites(s)', InReads(s)')
    BY <1>3, Zenon DEF Wakes, Due
  <1> QED
    BY ONLY Woken, <1>1, <1>2, <1>4, s \in Streams, sock' = [sock EXCEPT ![s] = k],
            str' = [str EXCEPT ![s] = f], OneWakes

(* What is known of the stream drain_reads is at.                          *)
LEMMA ReadDue ==
    ASSUME MuxInv, Woken, pc = "read", NEW s \in Streams, s = cur
    PROVE  LET k == sock[s]
               f == str[s]
           IN  /\ k \in Socket /\ f \in Stream /\ k.ract /\ s \notin Range(blocked) /\ s \notin Range(readReady)
               /\ f.state \in {"connected", "half_closed"} /\ f.kind # "packet"
               /\ Readable(k) => Due(k, FALSE) \/ f.rready
               /\ HungUp(k) => Due(k, FALSE) \/ f.hup
  <1> DEFINE k == sock[s]
             f == str[s]
             b == s \in Range(blocked)
             t == Told(s, {"in"})
             e == Told(s, {"in", "hup"})
             w == InWrites(s)
             r == InReads(s)
  <1>1. /\ k \in Socket /\ f \in Stream /\ k.ract /\ ~b /\ s \notin Range(readReady)
        /\ f.state \in {"connected", "half_closed"} /\ f.kind # "packet"
    BY ReadFacts
  <1>2. Wakes(k, f, b, t, e, w, r)
    BY DEF Woken, WakesUp
  <1>3. ~t /\ ~e
    BY DEF Told
  <1> HIDE DEF k, f, b, t, e, w, r
  <1>4. /\ Readable(k) => Due(k, FALSE) \/ f.rready
        /\ HungUp(k) => Due(k, FALSE) \/ f.hup
    BY <1>1, <1>2, <1>3 DEF Wakes, Due
  <1> QED
    BY <1>1, <1>4 DEF k, f, b

(* A stream that was left at the budget with something to read is level    *)
(* triggered from then on.                                                 *)
LEMMA BudgetSpentWakes ==
    ASSUME MuxInv, Woken, BudgetSpent
    PROVE  Woken'
  <1>1. pc = "read" /\ cur \in Streams
    BY ReadFacts DEF BudgetSpent
  <1>2. PICK s \in Streams : s = cur
    BY <1>1
  <1> DEFINE x == sock[s]
             y == str[s]
  <1>3. /\ x \in Socket /\ y \in Stream /\ x.ract /\ s \notin Range(readReady)
        /\ y.state \in {"connected", "half_closed"} /\ y.kind # "packet"
        /\ Readable(x) => Due(x, FALSE) \/ y.rready
        /\ HungUp(x) => Due(x, FALSE) \/ y.hup
    BY <1>1, <1>2, ReadDue
  <1>4. /\ pc' = "reads" /\ cur' = cur /\ blocked' = blocked /\ writeReady' = writeReady
        /\ readReady' = Append(readReady, s) /\ RequeueRead(s)
    BY <1>2 DEF BudgetSpent
  <1>5. \A t \in Streams \ {s} : Kept(t)
    <2>1. Range(Append(readReady, s)) = Range(readReady) \cup {s}
      BY <1>3, QueueAppend DEF MuxInv, StreamsOK
    <2> QED  BY <1>4, <2>1 DEF Kept
  <1>6. CASE y.rready
    <2> DEFINE k == LevelTriggered(x)
               f == [y EXCEPT !.rready = FALSE]
    <2>1. sock' = [sock EXCEPT ![s] = k] /\ str' = [str EXCEPT ![s] = f]
      BY <1>3, <1>4, <1>6 DEF RequeueRead
    <2>2. ~k.et
      BY <1>3, TriggerOps
    <2>3. f.state = y.state
      BY <1>3 DEF Stream
    <2> HIDE DEF k, f
    <2>4. Wakes(k, f, s \in Range(blocked'), FALSE, FALSE, FALSE, pc' = "read")
      BY <1>3, <2>2, <2>3 DEF Wakes, Due
    <2> QED  BY <1>1, <1>2, <1>4, <1>5, <2>1, <2>4, ReadStepWakes
  <1>7. CASE ~y.rready
    <2>1. sock' = [sock EXCEPT ![s] = x] /\ str' = [str EXCEPT ![s] = y]
      BY <1>4, <1>7, StreamFacts DEF MuxInv, RequeueRead
    <2> HIDE DEF x, y
    <2>2. Wakes(x, y, s \in Range(blocked'), FALSE, FALSE, FALSE, pc' = "read")
      BY <1>3, <1>7 DEF Wakes, Due
    <2> QED  BY <1>1, <1>2, <1>4, <1>5, <2>1, <2>2, ReadStepWakes
  <1> QED
    BY <1>6, <1>7

LEMMA NoRoomWakes ==
    ASSUME MuxInv, Woken, NoRoom
    PROVE  Woken'
  <1>1. pc = "read" /\ cur \in Streams
    BY ReadFacts DEF NoRoom
  <1>2. PICK s \in Streams : s = cur
    BY <1>1
  <1> DEFINE k == DisarmRead(sock[s])
             f == [str[s] EXCEPT !.rready = FALSE]
  <1>3. /\ sock' = [sock EXCEPT ![s] = k] /\ str' = [str EXCEPT ![s] = f]
        /\ blocked' = Append(blocked, s) /\ readReady' = readReady /\ writeReady' = writeReady
        /\ pc' = "reads" /\ cur' = cur
    BY <1>2 DEF NoRoom, BlockRead
  <1>4. str[s] \in Stream /\ str[s].state \in {"connected", "half_closed"}
    BY <1>1, <1>2, ReadDue
  <1>5. f.state \in {"connected", "half_closed"}
    BY <1>4 DEF Stream
  <1> HIDE DEF k, f
  <1>6. Range(blocked') = Range(blocked) \cup {s}
    <2>1. blocked \in Seq(Streams) /\ IsInjective(blocked) /\ s \notin Range(blocked)
      BY <1>1, <1>2, ReadFacts DEF StreamsOK
    <2> QED  BY <1>3, <2>1, QueueAppend
  <1>7. Wakes(k, f, s \in Range(blocked'), FALSE, FALSE, FALSE, pc' = "read")
    BY <1>5, <1>6 DEF Wakes, Due
  <1>8. \A t \in Streams \ {s} : Kept(t)
    BY <1>3, <1>6 DEF Kept
  <1> QED
    BY <1>1, <1>2, <1>3, <1>7, <1>8, ReadStepWakes

(* A read that does not fill the buffer clears read->ready when nothing is *)
(* left, and the end of file was reported before it.                       *)
LEMMA ReadDataWakes ==
    ASSUME MuxInv, Woken, ReadData
    PROVE  Woken'
  <1>1. pc = "read" /\ cur \in Streams
    BY ReadFacts DEF ReadData, Reading
  <1>2. PICK s \in Streams : s = cur
    BY <1>1
  <1>3. PICK r : r \in {TRUE, sock[s].in > 1 \/ str[s].hup} /\ str' = [str EXCEPT ![s].rready = @ /\ r]
    BY <1>2 DEF ReadData
  <1> DEFINE x == sock[s]
             y == str[s]
             i == x.in - 1
             q == y.rready /\ r
             k == [x EXCEPT !.in = i]
             f == [y EXCEPT !.rready = q]
  <1>4. /\ x \in Socket /\ y \in Stream
        /\ y.state \in {"connected", "half_closed"} /\ y.kind # "packet"
        /\ Readable(x) => Due(x, FALSE) \/ y.rready
        /\ HungUp(x) => Due(x, FALSE) \/ y.hup
    BY <1>1, <1>2, ReadDue
  <1>5. /\ sock' = [sock EXCEPT ![s] = k] /\ str' = [str EXCEPT ![s] = f] /\ x.in > 0
        /\ pc' = "read" /\ UNCHANGED queues /\ cur' = cur
    BY <1>1, <1>2, <1>3 DEF ReadData
  <1>6. x.in \in Nat /\ i \in Nat /\ (i > 0 <=> x.in > 1)
    BY <1>4, <1>5 DEF Socket
  <1>7. q \in BOOLEAN /\ (y.rready /\ (x.in > 1 \/ y.hup) => q)
    BY <1>3
  <1> HIDE DEF x, y, q, i
  <1>8. k.in = i /\ k.eof = x.eof /\ k.net = x.net /\ k.et = x.et /\ k.edge = x.edge
    BY <1>4 DEF Socket
  <1>9. f.state = y.state /\ f.kind = y.kind /\ f.hup = y.hup /\ f.rready = q
    BY <1>4, <1>7 DEF Stream
  <1> HIDE DEF k, f
  <1>10. /\ HungUp(k) <=> HungUp(x)
         /\ Readable(k) => Readable(x) /\ (x.in > 1 \/ HungUp(x))
    BY <1>6, <1>8 DEF HungUp, Readable
  <1>11. Due(x, FALSE) => Due(k, FALSE)
    BY <1>8 DEF Due
  <1>12. Readable(k) => Due(k, FALSE) \/ f.rready
    BY <1>4, <1>7, <1>9, <1>10, <1>11
  <1>13. Wakes(k, f, s \in Range(blocked'), FALSE, FALSE, FALSE, pc' = "read")
    BY <1>4, <1>5, <1>9, <1>10, <1>11, <1>12 DEF Wakes, Due
  <1> QED
    BY <1>1, <1>2, <1>5, <1>13, SameQueues, ReadStepWakes

(* recv has nothing: a stream that is not ready is due.                    *)
LEMMA ReadAgainWakes ==
    ASSUME MuxInv, Woken, ReadAgain
    PROVE  Woken'
  <1>1. pc = "read" /\ cur \in Streams
    BY ReadFacts DEF ReadAgain, Reading
  <1>2. PICK s \in Streams : s = cur
    BY <1>1
  <1> DEFINE x == sock[s]
             y == str[s]
             f == [y EXCEPT !.rready = FALSE]
  <1>3. /\ x \in Socket /\ y \in Stream
        /\ y.state \in {"connected", "half_closed"} /\ y.kind # "packet"
        /\ Readable(x) => Due(x, FALSE) \/ y.rready
    BY <1>1, <1>2, ReadDue
  <1>4. /\ sock' = [sock EXCEPT ![s] = x] /\ str' = [str EXCEPT ![s] = f]
        /\ (~Readable(x) \/ ~(y.rready \/ y.hup))
        /\ pc' = "reads" /\ UNCHANGED queues /\ cur' = cur
    BY <1>1, <1>2, StreamFacts DEF MuxInv, ReadAgain
  <1> HIDE DEF x, y
  <1>5. f.state = y.state
    BY <1>3 DEF Stream
  <1> HIDE DEF f
  <1>6. Readable(x) => Due(x, FALSE)
    BY <1>3, <1>4
  <1>7. HungUp(x) => Readable(x)
    BY DEF Readable
  <1>8. Wakes(x, f, s \in Range(blocked'), FALSE, FALSE, FALSE, pc' = "read")
    BY <1>3, <1>5, <1>6, <1>7 DEF Wakes, Due
  <1> QED
    BY <1>1, <1>2, <1>4, <1>8, SameQueues, ReadStepWakes

LEMMA ReadEndsWakes ==
    ASSUME MuxInv, Woken, ReadEof \/ ReadError
    PROVE  Woken'
  <1>1. /\ pc = "read" /\ cur \in Streams /\ str[cur] \in Stream /\ StreamsOK
        /\ CloseStream(cur, str[cur]) /\ cur' = cur
    BY ReadFacts DEF ReadEof, ReadError, Reading
  <1>2. \A t \in Streams \ {cur} : Kept(t) => Carried(t)
    BY <1>1 DEF Carried, Kept, Told, InWrites, InReads, Visited
  <1> QED
    BY <1>1, <1>2, CloseWakes
-----------------------------------------------------------------------------
LEMMA PacketHandlerWakes ==
    ASSUME MuxInv, Woken, PacketHandler
    PROVE  Woken'
  <1>1. StreamsOK /\ ReadTurn /\ pc = "event" /\ pc' \in {"event", "dgram"}
        /\ readReady' = readReady /\ writeReady' = writeReady
    BY DEF MuxInv, PacketHandler, ReadTurn
  <1>2. PICK s \in Streams : s = ev
    BY <1>1, ReadTurnFacts
  <1> DEFINE x == sock[s]
             y == str[s]
             fa == [y EXCEPT !.rready = FALSE]
             fb == [y EXCEPT !.rready = TRUE]
             ka == DisarmRead(x)
  <1>3. /\ x \in Socket /\ y \in Stream /\ y.state \notin {"connecting", "free"} /\ y.kind = "packet"
    <2>1. x \in Socket /\ y \in Stream /\ y.kind = "packet"
          /\ Agree(x, y, s \in Range(readReady), s \in Range(writeReady), s \in Range(blocked))
      BY <1>1, <1>2, StreamFacts DEF PacketHandler, IsPacket
    <2> HIDE DEF x, y
    <2> QED  BY <2>1 DEF Agree
  <1>4. \/ sock' = [sock EXCEPT ![s] = ka] /\ str' = [str EXCEPT ![s] = fa] /\ blocked' = Append(blocked, s)
        \/ sock' = [sock EXCEPT ![s] = x] /\ str' = [str EXCEPT ![s] = fb] /\ blocked' = blocked
    BY <1>1, <1>2, StreamFacts DEF PacketHandler, BlockRead
  <1>5. /\ fa.kind = "packet" /\ fa.state \notin {"connecting", "free"}
        /\ fb.kind = "packet" /\ fb.state \notin {"connecting", "free"}
    BY <1>3 DEF Stream
  <1> HIDE DEF x, y, fa, fb, ka
  <1>6. \A t \in Streams \ {s} : Carried(t)
    <2>1. Range(blocked) \subseteq Range(blocked')
      <3>1. CASE blocked' = blocked
        BY <3>1
      <3>2. CASE blocked' = Append(blocked, s)
        <4>1. blocked' \in Seq(Streams) /\ blocked \in Seq(Streams)
          BY PacketHandlerStep DEF MuxInv, StreamsOK
        <4>2. Len(blocked') = Len(blocked) + 1 /\ \A j \in 1 .. Len(blocked) : blocked'[j] = blocked[j]
          BY <3>2, <4>1
        <4>3. \A j \in 1 .. Len(blocked) : j \in 1 .. Len(blocked')
          BY <4>1, <4>2
        <4> QED  BY <4>1, <4>2, <4>3, MembersOfSeq
      <3> QED  BY <1>4, <3>1, <3>2
    <2> QED  BY <1>1, <1>2, <2>1 DEF Carried, Told, InWrites, InReads, Visited
  <1>7. /\ Wakes(ka, fa, s \in Range(blocked'), Told(s, {"in"})', Told(s, {"in", "hup"})',
                 InWrites(s)', InReads(s)')
        /\ Wakes(x, fb, s \in Range(blocked'), Told(s, {"in"})', Told(s, {"in", "hup"})',
                 InWrites(s)', InReads(s)')
    BY <1>5 DEF Wakes
  <1>8. CASE sock' = [sock EXCEPT ![s] = ka] /\ str' = [str EXCEPT ![s] = fa]
    BY ONLY Woken, <1>1, <1>6, <1>7, <1>8, s \in Streams, OneWakes
  <1>9. CASE sock' = [sock EXCEPT ![s] = x] /\ str' = [str EXCEPT ![s] = fb]
    BY ONLY Woken, <1>1, <1>6, <1>7, <1>9, s \in Streams, OneWakes
  <1> QED
    BY <1>4, <1>8, <1>9

LEMMA DgramWakes ==
    ASSUME MuxInv, Woken, ReadDgram \/ LastDgram
    PROVE  Woken'
  <1>1. StreamsOK /\ pc = "dgram" /\ pc' # "reads" /\ cur \in Streams
    BY DEF MuxInv, ReadDgram, LastDgram, LoopOK, Return, event
  <1>2. PICK s \in Streams : s = cur
    BY <1>1
  <1> DEFINE x == sock[s]
             y == str[s]
             b == s \in Range(blocked)
             w == s \in Range(writeReady)
             r == s \in Range(readReady)
             i == IF x.in = 0 THEN 0 ELSE x.in - 1
             k == [x EXCEPT !.in = i]
  <1>3. x \in Socket /\ y \in Stream
    BY <1>1, StreamFacts
  <1>4. Wakes(x, y, b, FALSE, FALSE, w, r)
    BY <1>1, IdleWakes
  <1>5. sock' = [sock EXCEPT ![s] = k] /\ str' = [str EXCEPT ![s] = y] /\ UNCHANGED queues
    BY <1>1, <1>2, StreamFacts DEF ReadDgram, LastDgram
  <1>6. x.in \in Nat /\ i \in Nat /\ (i > 0 => x.in > 0)
    BY <1>3 DEF Socket
  <1> HIDE DEF x, y, i, b, w, r
  <1>7. k.in = i /\ k.eof = x.eof /\ k.net = x.net /\ k.et = x.et /\ k.edge = x.edge /\ k.wact = x.wact
    BY <1>3 DEF Socket
  <1> HIDE DEF k
  <1>8. (HungUp(k) <=> HungUp(x)) /\ (Readable(k) => Readable(x)) /\ (Due(x, b) <=> Due(k, b))
    BY <1>6, <1>7 DEF HungUp, Readable, Due
  <1>9. Wakes(k, y, b, FALSE, FALSE, w, r)
    BY <1>4, <1>7, <1>8 DEF Wakes
  <1> QED
    BY <1>1, <1>5, <1>9, HandlerWakes DEF b, w, r
-----------------------------------------------------------------------------
(* A read that is armed again reports what is there.                       *)
LEMMA ResumedWakes ==
    ASSUME StreamsOK, NEW s \in Streams, s \in Range(blocked), NEW b, NEW t, NEW e, NEW w, NEW r
    PROVE  Wakes(ArmRead(sock[s]), str[s], b, t, e, w, r)
  <1> DEFINE x == sock[s]
             y == str[s]
             k == ArmRead(x)
  <1>1. x \in Socket /\ y \in Stream
        /\ Agree(x, y, s \in Range(readReady), s \in Range(writeReady), s \in Range(blocked))
    BY StreamFacts
  <1> HIDE DEF x, y
  <1>2. ~x.ract /\ y.state \notin {"connecting", "free"}
    BY <1>1 DEF Agree
  <1>3. SameData(k, x) /\ (~x.ract /\ Readable(x) => k.edge)
    BY <1>1, TriggerOps
  <1>4. HungUp(k) => Readable(k)
    BY DEF Readable
  <1> HIDE DEF k
  <1>5. Wakes(k, y, b, t, e, w, r)
    BY <1>2, <1>3, <1>4 DEF SameData, Due, Wakes
  <1> QED
    BY <1>5 DEF k, x, y

LEMMA DrainOkWakes ==
    ASSUME MuxInv, Woken, NEW m \in 1 .. output, DrainOk(m)
    PROVE  Woken'
  <1>1. StreamsOK /\ pc = "idle" /\ pc' = "idle" /\ output \in Nat /\ blocked \in Seq(Streams)
        /\ readReady' = readReady /\ writeReady' = writeReady
    BY DEF MuxInv, StreamsOK, ScalarsOK, DrainOk, Idle, event
  <1> DEFINE out == output - m
             n == Resumable(out)
             q == SubSeq(blocked, n + 1, Len(blocked))
  <1>2. out \in Nat
    BY <1>1
  <1>3. /\ str' = str /\ blocked' = q
        /\ sock' = [s \in Streams |-> IF s \in Resumed(n) THEN ArmRead(sock[s]) ELSE sock[s]]
    BY DEF DrainOk
  <1> HIDE DEF out
  <1>4. n \in 0 .. Len(blocked)
    BY <1>1, <1>2, ResumablePrefix
  <1> HIDE DEF n
  <1>5. Range(q) = Range(blocked) \ Resumed(n) /\ Resumed(n) \subseteq Range(blocked)
    BY <1>1, <1>4, Resume
  <1> HIDE DEF q
  <1>6. ASSUME NEW s \in Streams PROVE WakesUp(s)'
    <2>1. CASE s \in Resumed(n)
      <3>1. sock'[s] = ArmRead(sock[s]) /\ str'[s] = str[s]
        BY <1>3, <2>1
      <3> QED  BY <1>1, <1>5, <2>1, <3>1, ResumedWakes DEF WakesUp
    <2>2. CASE s \notin Resumed(n)
      <3>1. Carried(s)
        BY <1>1, <1>3, <1>5, <2>2, CarriedIdle DEF Kept
      <3>2. sock'[s] = sock[s] /\ str'[s] = str[s]
        BY <1>3, <2>2
      <3> QED  BY <3>1, <3>2, SameWakes DEF Woken
    <2> QED  BY <2>1, <2>2
  <1> QED
    BY <1>6 DEF Woken

(* suspend_reads moves what waited for a budget to the blocked reads.      *)
LEMMA DrainAgainWakes ==
    ASSUME MuxInv, Woken, NEW m \in 0 .. output - 1, DrainAgain(m)
    PROVE  Woken'
  <1>1. StreamsOK /\ pc = "idle" /\ pc' = "idle" /\ output \in Nat /\ blocked \in Seq(Streams)
        /\ writeReady' = writeReady
    BY DEF MuxInv, StreamsOK, ScalarsOK, DrainAgain, Idle, event
  <1> DEFINE out == output - m
             n == Resumable(out)
             q == SubSeq(blocked, n + 1, Len(blocked))
             R == Range(readReady)
  <1>2. out \in Nat
    BY <1>1
  <1>3. CASE pressure
    <2>1. UNCHANGED <<sock, str, blocked, readReady>>
      BY <1>3 DEF DrainAgain
    <2>2. \A t \in Streams : Kept(t)
      BY <1>1, <2>1 DEF Kept
    <2> QED  BY <1>1, <2>1, <2>2, CarriedIdle, SameWakes DEF Woken
  <1>4. CASE ~pressure
    <2>1. /\ blocked' = q \o readReady
          /\ sock' = [s \in Streams |-> IF s \in Resumed(n) THEN ArmRead(sock[s])
                                        ELSE IF s \in R THEN DisarmRead(sock[s]) ELSE sock[s]]
          /\ str' = [s \in Streams |-> IF s \in R THEN [str[s] EXCEPT !.rready = FALSE] ELSE str[s]]
      BY <1>4 DEF DrainAgain
    <2> HIDE DEF out
    <2>2. n \in 0 .. Len(blocked)
      BY <1>1, <1>2, ResumablePrefix
    <2> HIDE DEF n
    <2>3. /\ q \in Seq(Streams) /\ IsInjective(q)
          /\ Range(q) = Range(blocked) \ Resumed(n) /\ Resumed(n) \subseteq Range(blocked)
      BY <1>1, <2>2, Resume
    <2> HIDE DEF q
    <2>4. \A s \in Streams : s \in R => s \notin Range(blocked) /\ str[s].state \notin {"connecting", "free"}
      <3> SUFFICES ASSUME NEW s \in Streams, s \in R
                   PROVE  s \notin Range(blocked) /\ str[s].state \notin {"connecting", "free"}
        OBVIOUS
      <3>1. Agree(sock[s], str[s], s \in Range(readReady), s \in Range(writeReady), s \in Range(blocked))
        BY <1>1, StreamFacts
      <3> QED  BY <3>1 DEF Agree
    <2>5. readReady \in Seq(Streams) /\ IsInjective(readReady) /\ R \subseteq Streams
      BY <1>1, MembersOfSeq DEF StreamsOK
    <2>6. Range(blocked') = Range(q) \cup R
      <3>1. Range(q) \cap Range(readReady) = {}
        BY <2>3, <2>4, <2>5
      <3>2. Range(q \o readReady) = Range(q) \cup Range(readReady)
        BY ONLY <2>3, <2>5, <3>1, QueueConcat
      <3> QED  BY <2>1, <3>2
    <2>7. ASSUME NEW s \in Streams PROVE WakesUp(s)'
      <3>1. CASE s \in Resumed(n)
        <4>1. sock'[s] = ArmRead(sock[s]) /\ str'[s] = str[s]
          BY <2>1, <2>3, <2>4, <3>1
        <4> QED  BY <1>1, <2>3, <3>1, <4>1, ResumedWakes DEF WakesUp
      <3>2. CASE s \notin Resumed(n) /\ s \in R
        <4> DEFINE y == str[s]
                   f == [y EXCEPT !.rready = FALSE]
        <4>1. s \in Range(blocked') /\ str'[s] = f
          BY <2>1, <2>6, <3>2
        <4>2. y \in Stream /\ y.state \notin {"connecting", "free"}
          BY <1>1, <2>4, <3>2, StreamFacts
        <4> HIDE DEF y
        <4>3. f.state \notin {"connecting", "free"}
          BY <4>2 DEF Stream
        <4> HIDE DEF f, R
        <4> QED  BY <4>1, <4>3 DEF WakesUp, Wakes, Due
      <3>3. CASE s \notin Resumed(n) /\ s \notin R
        <4>1. Carried(s)
          BY <1>1, <2>3, <2>6, <3>3, CarriedIdle DEF Kept
        <4>2. sock'[s] = sock[s] /\ str'[s] = str[s]
          BY <2>1, <3>3
        <4> QED  BY <4>1, <4>2, SameWakes DEF Woken
      <3> QED  BY <3>1, <3>2, <3>3
    <2> QED  BY <2>7 DEF Woken
  <1> QED
    BY <1>3, <1>4
-----------------------------------------------------------------------------
LEMMA InitWakes == Init => Woken /\ AtNone
  <1> SUFFICES ASSUME Init PROVE Woken /\ AtNone
    OBVIOUS
  <1>1. ASSUME NEW s \in Streams PROVE WakesUp(s)
    <2>1. str[s].state = "free" /\ sock[s].net = "none" /\ sock[s].in = 0 /\ ~sock[s].eof
      BY DEF Init
    <2> QED  BY <2>1 DEF WakesUp, Wakes, Readable, HungUp
  <1> QED
    BY <1>1 DEF Woken, AtNone, Init

LEMMA NextWakes == MuxInv /\ AtNone /\ Woken /\ [Next]_vars => Woken'
  <1> SUFFICES ASSUME MuxInv, AtNone, Woken, [Next]_vars PROVE Woken'
    OBVIOUS
  <1>1. CASE UNCHANGED vars
    <2>1. \A t \in Streams : Carried(t)
      BY <1>1 DEF vars, queues, event, loop, Carried, Told, InWrites, InReads, Visited
    <2>2. sock' = sock /\ str' = str
      BY <1>1 DEF vars
    <2> QED  BY <2>1, <2>2, SameWakes DEF Woken
  <1>2. ASSUME NEW s \in Streams, Environment(s) PROVE Woken'
    BY <1>2, EnvironmentWakes
  <1>3. ASSUME NEW s \in Streams, Handler(s) PROVE Woken'
    BY <1>3, OpenWakes, ClientPayloadWakes, ClientFinWakes, ConnectTimeoutWakes,
       EpollReportWakes, PostedWriteWakes DEF Handler
  <1>4. CASE EventStep
    BY <1>4, EventDoneWakes, ConnectReadyWakes, ConnectErrorWakes, WriteHandlerWakes, ReadHandlerWakes,
       PacketHandlerWakes, WritePayloadsWakes, WriteErrorWakes, LoopDoneWakes, NextStreamWakes,
       BudgetSpentWakes, NoRoomWakes, ReadDataWakes, ReadAgainWakes, ReadEndsWakes,
       DgramWakes DEF EventStep
  <1>5. CASE DrainSome
    BY <1>5, DrainOkWakes DEF DrainSome
  <1>6. CASE DrainPart
    BY <1>6, DrainAgainWakes DEF DrainPart
  <1> QED
    BY <1>1, <1>2, <1>3, <1>4, <1>5, <1>6 DEF Next

(* Whatever the budgets and however many streams: the stream drain_reads   *)
(* has just left with something to read has its read event registered and  *)
(* level triggered or with an edge to come, or it is in                    *)
(* blocked_upstream_reads, which the drain of the client resumes; and      *)
(* between handlers this holds of every open TCP stream with something to  *)
(* read, save those that a spent budget left in read_ready or write_ready  *)
(* for the next loop of the session, ready for the recv of that loop.      *)
THEOREM ReadsNotLost == Spec => []NoLostRead
  <1>1. MuxInv /\ Woken => NoLostRead
    <2> SUFFICES ASSUME MuxInv, Woken, NEW s \in Streams,
                        IsOpen(s), ~IsPacket(s), Readable(sock[s])
                 PROVE  /\ pc = "reads" /\ cur = s => Scheduled(s)
                        /\ Idle => Scheduled(s) \/ LeftOver(s)
      BY DEF NoLostRead
    <2> DEFINE k == sock[s]
               f == str[s]
               b == s \in Range(blocked)
               t == Told(s, {"in"})
               e == Told(s, {"in", "hup"})
               w == InWrites(s)
               r == InReads(s)
    <2>1. Wakes(k, f, b, t, e, w, r)
      BY DEF Woken, WakesUp
    <2>2. f.state \in {"connected", "half_closed"} /\ f.kind # "packet" /\ Readable(k)
      BY DEF IsOpen, IsPacket
    <2>3. k.ract \/ b
      BY <2>2, Registered DEF MuxInv
    <2>4. Due(k, b) => Scheduled(s)
      BY <2>3 DEF Due, Scheduled
    <2>5. pc = "reads" /\ cur = s => ~t /\ ~w /\ ~r
      BY DEF Told, InWrites, InReads, Visited
    <2>6. Idle => ~t /\ (w => s \in Range(writeReady)) /\ (r => s \in Range(readReady))
      BY DEF Idle, Told, InWrites, InReads
    <2> HIDE DEF t, e, w, r
    <2>7. Due(k, b) \/ t \/ (f.rready /\ (r \/ (k.wact /\ w)))
      <3> HIDE DEF k, f, b
      <3> QED  BY <2>1, <2>2 DEF Wakes
    <2> QED  BY <2>4, <2>5, <2>6, <2>7 DEF LeftOver
  <1>2. Init => Woken /\ AtNone
    BY InitWakes
  <1>3. MuxInv /\ AtNone /\ Woken /\ [Next]_vars => Woken'
    BY NextWakes
  <1>4. MuxInv /\ AtNone /\ [Next]_vars => AtNone'
    BY AtNoneStep
  <1>5. MuxInv /\ [Next]_vars => MuxInv'
    BY NextOK
  <1>6. Init => MuxInv
    BY InitOK
  <1> QED
    BY <1>1, <1>2, <1>3, <1>4, <1>5, <1>6, PTL DEF Spec
=============================================================================
