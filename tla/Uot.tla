-------------------------------- MODULE Uot --------------------------------
(***************************************************************************)
(* UDP over TCP from the client to the peers (ngx_anytls_uot.c) and the    *)
(* resolver it waits for (ngx_anytls_resolver.c).  The payload of a stream *)
(* is collected in a buffer and cut into a request and datagrams; packets  *)
(* for a domain wait in a queue while the name of the first is resolved.   *)
(* The resolver may answer later, or at once from inside the call that     *)
(* asks it, and its handler then parses the same buffer and works on the   *)
(* same queue as its caller.                                               *)
(*                                                                         *)
(* The parse loop and the loop of process_pending are sequences of steps;  *)
(* no other handler starts while pc is not "idle".  What the peers send    *)
(* back is part of UpstreamMux.                                            *)
(***************************************************************************)
EXTENDS Integers, Sequences, FiniteSets, Selection

CONSTANTS
  Streams,        (* streams that open as UoT                               *)
  Domains,        (* peers that are known by name                           *)
  Ips,            (* peers that are known by address                        *)
  None,           (* no peer, no stream                                     *)
  MaxUotStreams,  (* anytls_max_uot_streams                                 *)
  MaxPackets,     (* anytls_uot_pending_packets                             *)
  RecvMax,        (* uot_recv_size, in requests and datagrams               *)
  MaxPieces,      (* bound: requests and datagrams of one stream            *)
  MaxBad          (* bound: malformed ones among them                       *)

ASSUME UotAssumption ==
    /\ Domains \cap Ips = {} /\ None \notin Domains \cup Ips \cup Streams
    /\ IsFiniteSet(Streams)
    /\ MaxUotStreams \in Nat /\ MaxPackets \in Nat /\ RecvMax \in Nat
    /\ MaxPieces \in Nat /\ MaxBad \in Nat

VARIABLES
  u,         (* the UoT fields of the streams                               *)
  slots,     (* ac->uot_streams                                             *)
  open,      (* ~ac->closing                                                *)
  resolver,  (* the configuration names a resolver; else names are looked   *)
             (* up by the call itself                                       *)
  pc,        (* "idle", "parse" or "pending"                                *)
  cur,       (* the stream a loop works on                                  *)
  ret        (* the caller of process_pending: "parse" or "idle"            *)

vars == <<u, slots, open, resolver, pc, cur, ret>>

Peers == Domains \cup Ips

\* A piece of the payload: a request for connect or packet mode, a datagram
\* with or without data, or something malformed.
Piece == [kind : {"connect", "packet", "dgram", "bad"}, to : Peers \cup {None},
          len : 0 .. 1, n : Nat]

Stream == [state   : {"free", "connected", "left", "closed"},
           mode    : {"connect", "packet"},       (* uot_mode                *)
           parsed  : BOOLEAN,                     (* uot_request_parsed      *)
           target  : Peers \cup {None},
           has     : BOOLEAN,                     (* target.has_sockaddr     *)
           buf     : Seq(Piece),                  (* uot_recv_buf ...        *)
           half    : BOOLEAN,                     (* ... its last is partial *)
           queue   : Seq(Piece),                  (* uot_pending             *)
           asked   : Domains \cup {None},         (* resolver_domain         *)
           why     : {"none", "connect", "packet"}, (* resolver_target       *)
           counted : BOOLEAN,                     (* uot_counted             *)
           udp     : BOOLEAN,                     (* st->udp # NULL          *)
           timer   : BOOLEAN,                     (* uot_timer is set        *)
           pieces  : Nat,                         (* sent by the client      *)
           got     : Nat,                         (* datagrams among them    *)
           bad     : Nat,                         (* malformed ones          *)
           sent    : Seq([to : Peers \cup {None}, n : Nat]),  (* history     *)
           lost    : SUBSET Nat,                  (* history: dropped        *)
           empty   : SUBSET Nat]                  (* history: those that     *)
                                                  (* came without data       *)

\* the pieces of the buffer that are there to the last byte
Whole(x) == IF x.half THEN Len(x.buf) - 1 ELSE Len(x.buf)

Pop(x) == [x EXCEPT !.buf = Tail(@)]

Numbers(q) == {q[k].n : k \in {j \in DOMAIN q : q[j].kind = "dgram"}}
Empties(q) == {q[k].n : k \in {j \in DOMAIN q : q[j].kind = "dgram" /\ q[j].len = 0}}

(***************************************************************************)
(* Sending and the queue of packets                                        *)
(***************************************************************************)

\* ngx_anytls_uot_send_resolved with a socket for the family of the peer
Sent(x, d) ==
    [x EXCEPT !.udp = TRUE, !.timer = TRUE,
              !.sent = Append(@, [to |-> IF x.mode = "connect" THEN x.target ELSE d.to,
                                  n |-> d.n])]

\* no socket for it: the one of the other family is closed already
NoSocket(x) == [x EXCEPT !.udp = FALSE]

Lost(x, d) == [x EXCEPT !.lost = @ \cup {d.n}]

\* ngx_anytls_uot_enqueue_pending: an empty packet, and one for which there is
\* no room, is dropped
Enqueue(x, d) ==
    IF d.len = 0 \/ Len(x.queue) >= MaxPackets THEN Lost(x, d)
    ELSE [x EXCEPT !.queue = Append(@, d)]

OfDomain(x, d) == Picked(x.queue, {k \in DOMAIN x.queue : x.queue[k].to = d})
Others(x, d) == Picked(x.queue, {k \in DOMAIN x.queue : x.queue[k].to # d})

\* mutant of FlushDomain: the queue is sent up to the first packet of another
\* domain, and the whole of the domain is taken from it
FlushPrefix(x, d) ==
    LET k == CHOOSE j \in 0 .. Len(x.queue) :
                 /\ \A i \in 1 .. j : x.queue[i].to = d
                 /\ j < Len(x.queue) => x.queue[j + 1].to # d
    IN  [x EXCEPT !.queue = Others(x, d), !.udp = TRUE, !.timer = TRUE,
                  !.sent = @ \o [i \in 1 .. k |-> [to |-> d, n |-> x.queue[i].n]]]

\* ngx_anytls_uot_flush_pending_domain
FlushDomain(x, d) ==
    LET ps == OfDomain(x, d)
    IN  [x EXCEPT !.queue = Others(x, d),
                  !.udp = @ \/ ps # <<>>, !.timer = @ \/ ps # <<>>,
                  !.sent = @ \o [i \in DOMAIN ps |-> [to |-> d, n |-> ps[i].n]]]

\* ngx_anytls_uot_drop_pending_domain
DropDomain(x, d) ==
    [x EXCEPT !.queue = Others(x, d), !.lost = @ \cup Numbers(OfDomain(x, d))]

\* the name is known: the packets go out, or there is no socket for them
Flushed(x, d) == {FlushDomain(x, d), DropDomain(NoSocket(x), d)}

\* the start of ngx_anytls_resolve_addr that leaves a query behind
Ask(x, d, why) == [x EXCEPT !.asked = d, !.why = why]

\* mutant of Answered: the query is still marked as pending
AnsweredPending(x) == [x EXCEPT !.asked = None]

\* ngx_anytls_resolve_handler up to the event it raises
Answered(x) == [x EXCEPT !.asked = None, !.why = "none"]

(***************************************************************************)
(* Closing                                                                 *)
(***************************************************************************)

\* ngx_anytls_uot_close
UotClose(x) ==
    [x EXCEPT !.counted = FALSE, !.asked = None, !.why = "none", !.queue = <<>>,
              !.timer = FALSE, !.udp = FALSE]

\* mutant of SlotsWithout: the slot of the stream is not given back
SlotsKept(x) == slots

\* uot_streams after uot_close of x
SlotsWithout(x) == IF x.counted /\ slots > 0 THEN slots - 1 ELSE slots

\* a stream that is over, in the table ("left") or not ("closed"): its pool
\* goes with the buffer, and the history with it
Over(x, state) ==
    [UotClose(x) EXCEPT !.state = state, !.mode = "packet", !.parsed = FALSE,
              !.target = None, !.has = FALSE, !.buf = <<>>, !.half = FALSE, !.pieces = 0,
              !.got = 0, !.bad = 0, !.sent = <<>>, !.lost = {}, !.empty = {}]

\* ngx_anytls_stream_close
CloseStream(s) == u' = [u EXCEPT ![s] = Over(@, "closed")] /\ slots' = SlotsWithout(u[s])

\* ngx_anytls_finalize, after an error of the client's payload
SessionEnds ==
    /\ u' = [s \in Streams |-> Over(u[s], "closed")]
    /\ slots' = 0 /\ open' = FALSE /\ pc' = "idle" /\ cur' = None /\ ret' = "idle"
    /\ UNCHANGED resolver
-----------------------------------------------------------------------------
Init ==
    /\ u = [s \in Streams |->
              [state |-> "free", mode |-> "packet", parsed |-> FALSE, target |-> None,
               has |-> FALSE, buf |-> <<>>, half |-> FALSE, queue |-> <<>>, asked |-> None,
               why |-> "none", counted |-> FALSE, udp |-> FALSE, timer |-> FALSE,
               pieces |-> 0, got |-> 0, bad |-> 0, sent |-> <<>>, lost |-> {},
               empty |-> {}]]
    /\ slots = 0 /\ open = TRUE /\ resolver \in BOOLEAN
    /\ pc = "idle" /\ cur = None /\ ret = "idle"

Idle == pc = "idle" /\ open

Keeps == UNCHANGED <<open, resolver, pc, cur, ret>>

\* mutant of CapReached: one stream over the limit
CapReachedByOne == slots > MaxUotStreams

CapReached == slots >= MaxUotStreams

\* ngx_anytls_uot_open for the marker of version 1 or of version 2; over the
\* limit the stream is refused and closed
Open(s) ==
    /\ Idle /\ u[s].state = "free"
    /\ IF CapReached
       THEN u' = [u EXCEPT ![s].state = "closed"] /\ UNCHANGED slots
       ELSE /\ \E mode \in {"packet", "connect"} :
                  u' = [u EXCEPT ![s].state = "connected", ![s].mode = mode,
                                 ![s].parsed = (mode = "packet"), ![s].counted = TRUE]
            /\ slots' = slots + 1
    /\ Keeps

\* What the client may send next on x.
Requests == [kind : {"connect", "packet"}, to : Peers, len : {0}, n : {0}]

Datagrams(addressed, n) ==
    [kind : {"dgram"}, to : IF addressed THEN Peers ELSE {None}, len : 0 .. 1, n : {n}]

\* datagrams carry an address unless the request says connect
Addressed(x) == x.mode = "packet" \/ (~x.parsed /\ x.buf # <<>> /\ Head(x.buf).kind = "packet")

Bad(x) == {p \in [kind : {"bad"}, to : {None}, len : {0}, n : {0}] : x.bad < MaxBad}

\* the first piece of a version 2 stream is its request
NeedsRequest(x) == x.mode = "connect" /\ x.pieces = 0

Firsts(x) == IF NeedsRequest(x) THEN Requests ELSE Datagrams(Addressed(x), x.got + 1)

Count(ps, kind) == Cardinality({k \in DOMAIN ps : ps[k].kind = kind})

\* A payload brings the rest of a piece, new pieces, or both.
Payloads(x) ==
    (IF x.half THEN {<<>>} ELSE {})
    \cup {<<p>> : p \in Firsts(x) \cup Bad(x)}
    \cup UNION {{<<p, q>> : q \in Datagrams(IF NeedsRequest(x) THEN p.kind = "packet"
                                             ELSE Addressed(x),
                                             x.got + 1 + Count(<<p>>, "dgram"))} : p \in Firsts(x)}

\* ngx_anytls_uot_buffer_append
Buffered(x, ps, half) ==
    [x EXCEPT !.buf = @ \o ps, !.half = half, !.pieces = @ + Len(ps),
              !.got = @ + Count(ps, "dgram"), !.bad = @ + Count(ps, "bad"),
              !.empty = @ \cup Empties(ps)]

\* ngx_anytls_uot_client_payload: only buffered while the peer of connect mode
\* is looked up
ClientPayload(s) ==
    /\ Idle /\ u[s].state = "connected"
    /\ \E ps \in Payloads(u[s]), half \in BOOLEAN :
          /\ u[s].pieces + Len(ps) <= MaxPieces
          /\ half => ps # <<>>
          /\ IF Len(u[s].buf) + Len(ps) > RecvMax THEN SessionEnds
             ELSE /\ u' = [u EXCEPT ![s] = Buffered(@, ps, half)]
                  /\ IF u[s].why = "connect" THEN UNCHANGED <<pc, cur>>
                     ELSE pc' = "parse" /\ cur' = s
                  /\ UNCHANGED <<slots, open, resolver, ret>>

(***************************************************************************)
(* The parse loop                                                          *)
(***************************************************************************)

Becomes(x) == u' = [u EXCEPT ![cur] = x] /\ UNCHANGED slots

Stop == pc' = "idle" /\ cur' = None /\ UNCHANGED <<open, resolver, ret>>

x0 == u[cur]
First == Head(x0.buf)
Parsing(kinds) == pc = "parse" /\ Whole(x0) > 0 /\ First.kind \in kinds

\* A request for packet mode; its address is not used.
PacketRequest ==
    /\ Parsing({"packet"})
    /\ Becomes([Pop(x0) EXCEPT !.mode = "packet", !.parsed = TRUE])
    /\ Keeps

Asking == [Pop(x0) EXCEPT !.parsed = TRUE, !.target = First.to]

\* A request for connect mode whose peer is known at once: the loop goes on.
ConnectRequest ==
    /\ Parsing({"connect"}) /\ (First.to \in Ips \/ ~resolver)
    /\ Becomes([Asking EXCEPT !.has = TRUE])
    /\ Keeps

ConnectAsks ==
    /\ Parsing({"connect"}) /\ First.to \in Domains /\ resolver
    /\ Becomes(Ask(Asking, First.to, "connect"))
    /\ Stop

\* The resolver answers inside the call.  Its handler parses the buffer, whose
\* start is still the request: bytes of it may go out as a datagram.  The
\* caller is told to wait and leaves what follows the request in the buffer.
ConnectAnswered ==
    /\ Parsing({"connect"}) /\ First.to \in Domains /\ resolver
    /\ LET x == [Asking EXCEPT !.has = TRUE]
       IN  Becomes(x) \/ (Len(x.buf) > 0 /\ Becomes(Sent(x, [to |-> None, n |-> 0])))
    /\ Stop

\* it answers that there is no such name, and its handler closes the stream
ConnectRefused ==
    /\ Parsing({"connect"}) /\ First.to \in Domains /\ resolver
    /\ CloseStream(cur)
    /\ Stop

\* the name cannot be looked up, or a piece is malformed
PayloadError ==
    /\ \/ Parsing({"bad"})
       \/ Parsing({"connect"}) /\ First.to \in Domains
    /\ SessionEnds

\* a datagram whose peer has an address
Direct == Parsing({"dgram"}) /\ x0.parsed /\ (x0.mode = "connect" \/ First.to \in Ips)

SendDirect ==
    /\ Direct
    /\ Becomes(IF First.len = 0 THEN Lost(Pop(x0), First) ELSE Sent(Pop(x0), First))
    /\ Keeps

NoSocketDirect == Direct /\ First.len > 0 /\ SessionEnds

\* ngx_anytls_uot_send_domain_packet
SendDomain ==
    /\ Parsing({"dgram"}) /\ x0.mode = "packet" /\ First.to \in Domains
    /\ Becomes(Enqueue(Pop(x0), First))
    /\ IF x0.why = "none" THEN pc' = "pending" /\ ret' = "parse" ELSE UNCHANGED <<pc, ret>>
    /\ UNCHANGED <<open, resolver, cur>>

ParseDone == pc = "parse" /\ Whole(x0) <= 0 /\ Stop /\ UNCHANGED <<u, slots>>

(***************************************************************************)
(* ngx_anytls_uot_process_pending                                          *)
(***************************************************************************)

Resolving == pc = "pending" /\ x0.queue # <<>>

Return == /\ pc' = ret /\ ret' = "idle"
          /\ cur' = IF ret = "parse" THEN cur ELSE None
          /\ UNCHANGED <<open, resolver>>

\* the query is under way; the rest of the queue waits for it
PendingAsks ==
    /\ Resolving /\ resolver
    /\ Becomes(Ask(x0, Head(x0.queue).to, "packet"))
    /\ Return

\* the answer is there at once: looked up, or from the cache of the resolver
\* by its handler, which goes on with the queue
PendingAnswered ==
    /\ Resolving
    /\ \E x \in Flushed(x0, Head(x0.queue).to) : Becomes(x)
    /\ Keeps

PendingRefused ==
    /\ Resolving
    /\ Becomes(DropDomain(x0, Head(x0.queue).to))
    /\ Keeps

PendingDone == pc = "pending" /\ x0.queue = <<>> /\ Return /\ UNCHANGED <<u, slots>>

(***************************************************************************)
(* Events                                                                  *)
(***************************************************************************)

Handles(s, x, at) ==
    /\ u' = [u EXCEPT ![s] = x] /\ pc' = at /\ cur' = s /\ ret' = "idle"
    /\ UNCHANGED <<slots, open, resolver>>

\* ngx_anytls_resolve_handler from the event loop, with an address
ResolveOk(s) ==
    /\ Idle /\ u[s].asked # None
    /\ LET x == Answered(u[s])
       IN  \/ u[s].why = "connect" /\ Handles(s, [x EXCEPT !.has = TRUE], "parse")
           \/ /\ u[s].why = "packet"
              /\ \E y \in Flushed(x, u[s].asked) : Handles(s, y, "pending")

\* and without one: an error, or resolver_timeout
ResolveError(s) ==
    /\ Idle /\ u[s].asked # None
    /\ \/ u[s].why = "connect" /\ CloseStream(s) /\ Keeps
       \/ u[s].why = "packet" /\ Handles(s, DropDomain(Answered(u[s]), u[s].asked), "pending")

\* ngx_anytls_uot_idle_timeout_handler; a FIN that cannot be queued leaves the
\* stream in the table
IdleTimeout(s) ==
    /\ Idle /\ u[s].timer
    /\ \E state \in {"closed", "left"} : u' = [u EXCEPT ![s] = Over(@, state)]
    /\ slots' = SlotsWithout(u[s])
    /\ Keeps

\* FIN of the client, or a socket whose read fails
ClientFin(s) == Idle /\ u[s].state = "connected" /\ CloseStream(s) /\ Keeps
UdpError(s) == Idle /\ u[s].udp /\ CloseStream(s) /\ Keeps
-----------------------------------------------------------------------------
Step ==
    \/ PacketRequest \/ ConnectRequest \/ ConnectAsks \/ ConnectAnswered \/ ConnectRefused
    \/ PayloadError \/ SendDirect \/ NoSocketDirect \/ SendDomain \/ ParseDone
    \/ PendingAsks \/ PendingAnswered \/ PendingRefused \/ PendingDone

Answer(s) == ResolveOk(s) \/ ResolveError(s)

Next ==
    \/ Step
    \/ \E s \in Streams : \/ Open(s) \/ ClientPayload(s) \/ Answer(s)
                          \/ IdleTimeout(s) \/ ClientFin(s) \/ UdpError(s)

Spec == Init /\ [][Next]_vars

\* The worker finishes every handler, and the resolver answers every query or
\* times it out (resolver_timeout): strong fairness, as other handlers run in
\* between.
FairSpec == Spec /\ WF_vars(Step) /\ \A s \in Streams : SF_vars(Answer(s))
-----------------------------------------------------------------------------
\* The types; no more UoT streams than the limit, and no queue over its limit.
TypeOK ==
    /\ u \in [Streams -> Stream] /\ slots \in 0 .. MaxUotStreams
    /\ open \in BOOLEAN /\ resolver \in BOOLEAN
    /\ pc \in {"idle", "parse", "pending"} /\ cur \in Streams \cup {None}
    /\ ret \in {"idle", "parse"}
    /\ \A s \in Streams : Len(u[s].queue) <= MaxPackets

\* Whatever ends a stream, its slot, socket, timer, query and packets go with
\* it, and a socket of a stream that goes on is watched by the idle timer.
ResourcesReleased ==
    /\ slots = Cardinality({s \in Streams : u[s].counted})
    /\ \A s \in Streams :
          /\ (u[s].counted <=> u[s].state = "connected")
          /\ (~u[s].counted => ~u[s].udp /\ ~u[s].timer /\ u[s].asked = None /\ u[s].queue = <<>>)
          /\ (u[s].udp => u[s].timer)

\* As long as a stream is open, every datagram of the client is sent, dropped,
\* or in exactly one of the buffer and the queue, and the datagrams for one
\* peer are sent once and in order, whichever way each of them went.  In connect
\* mode none is dropped but an empty one.  An empty one is always dropped:
\* ngx_anytls_uot.c:647 says that it "must reach the peer", but send_resolved
\* (line 390) and enqueue_pending (line 155) return before they send or queue it.
\* Number 0, which the client never sent as a datagram (ConnectAnswered), goes out
\* before all others and in connect mode only.
DatagramsAccounted ==
    \A s \in Streams :
        LET x == u[s]
            out == {x.sent[k].n : k \in DOMAIN x.sent} \ {0}
            parts == <<out, x.lost, Numbers(x.queue), Numbers(x.buf)>>
        IN  x.state = "connected" =>
              /\ out \cup x.lost \cup Numbers(x.queue) \cup Numbers(x.buf) = 1 .. x.got
              /\ \A j, k \in 1 .. 4 : j # k => parts[j] \cap parts[k] = {}
              /\ \A j, k \in DOMAIN x.sent :
                    j < k /\ x.sent[j].to = x.sent[k].to => x.sent[j].n < x.sent[k].n
              /\ x.empty \subseteq x.lost \cup Numbers(x.buf)
              /\ x.mode = "connect" => x.lost \subseteq x.empty
              /\ \A k \in DOMAIN x.sent : x.sent[k].n = 0 => k = 1 /\ x.mode = "connect"

\* Packets do not wait for ever, whatever the resolver answers.
PendingEnds == \A s \in Streams : u[s].queue # <<>> ~> u[s].queue = <<>>

\* docs/protocol.md:997, the server "sends each datagram to the resolved peer":
\* no whole datagram is left in the buffer of a stream that knows its peer.
ResolvedIsSent ==
    Idle => \A s \in Streams :
        u[s].state = "connected" /\ u[s].parsed /\ u[s].has => Whole(u[s]) <= 0
=============================================================================
