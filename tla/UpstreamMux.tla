---------------------------- MODULE UpstreamMux ----------------------------
(***************************************************************************)
(* The upstream half of a session (ngx_anytls_upstream_mux.c, with the TCP *)
(* writes of ngx_anytls_upstream.c and the packet mode reads of            *)
(* ngx_anytls_uot.c).  Every stream has a socket of its own.  Reads stop   *)
(* under output pressure and at a budget, and must start again: the read   *)
(* event is edge triggered, level triggered or not registered, and the     *)
(* registration of the write event of the same socket changes the trigger. *)
(*                                                                         *)
(* Handlers without loops are single actions.  drain_reads, drain_writes   *)
(* and the packet mode read loop are sequences of steps; no other handler  *)
(* runs while pc is not "idle", but data may arrive in the sockets.        *)
(***************************************************************************)
EXTENDS Integers, Sequences, FiniteSets, Functions, SequencesExt

CONSTANTS
  Streams,       (* stream ids                                              *)
  Kinds,         (* "tcp", and "packet" for UoT packet mode                 *)
  None,          (* no stream                                               *)
  ReadSize,      (* read_size of TCP, in frames of client output            *)
  PacketSize,    (* read_size of UoT                                        *)
  MaxOutput,     (* max_pending_output, in frames                           *)
  FrameBudget,   (* NGX_ANYTLS_SCHEDULE_FRAME_BUDGET                        *)
  StreamBudget,  (* NGX_ANYTLS_SCHEDULE_STREAM_BUDGET                       *)
  MaxArrivals,   (* bound: reads each upstream has to offer                 *)
  MaxPayloads    (* bound: payloads of the client, for all streams          *)

ASSUME UpstreamAssumption ==
    /\ Kinds \subseteq {"tcp", "packet"} /\ None \notin Streams
    /\ ReadSize \in 1 .. MaxOutput /\ PacketSize \in 1 .. MaxOutput
    /\ MaxOutput \in Nat /\ FrameBudget \in Nat \ {0} /\ StreamBudget \in Nat \ {0}
    /\ MaxArrivals \in Nat /\ MaxPayloads \in Nat

VARIABLES
  sock,        (* the sockets and their epoll entries                       *)
  str,         (* the fields of the streams                                 *)
  readReady,   (* upstream_mux.read_ready                                   *)
  writeReady,  (* upstream_mux.write_ready                                  *)
  blocked,     (* blocked_upstream_reads                                    *)
  output,      (* pending_output, in frames                                 *)
  pressure,    (* output_pressure                                           *)
  pc,          (* "idle", or where the handlers of an event are             *)
  ev,          (* the stream of the event                                   *)
  mask,        (* what is left of what epoll reported: "in", "out"          *)
  cur,         (* the stream a loop is at                                   *)
  frames,      (* processed_frames                                          *)
  visited,     (* visited_streams                                           *)
  last         (* the next pointer saved by the loop is the sentinel        *)

queues == <<readReady, writeReady, blocked>>
loop == <<cur, frames, visited, last>>
event == <<pc, ev, mask>>
vars == <<sock, str, queues, output, pressure, event, loop>>

Socket == [net     : {"none", "syn", "up", "err"},  (* the TCP connection   *)
           in      : Nat,        (* reads waiting in the receive buffer     *)
           arrived : Nat,        (* reads that arrived so far               *)
           eof     : BOOLEAN,    (* the upstream closed its side            *)
           full    : BOOLEAN,    (* the send buffer is full                 *)
           ract    : BOOLEAN,    (* read->active                            *)
           wact    : BOOLEAN,    (* write->active                           *)
           et      : BOOLEAN,    (* the epoll entry is edge triggered ...   *)
           edge    : BOOLEAN]    (* ... and has an edge to report           *)

Stream == [state  : {"free", "connecting", "connected", "half_closed", "closed"},
           kind   : {"tcp", "packet"},
           rready : BOOLEAN,     (* read->ready                             *)
           hup    : BOOLEAN,     (* read->pending_eof                       *)
           timer  : BOOLEAN,     (* the connect timer is set                *)
           posted : BOOLEAN,     (* the write event is posted               *)
           pend   : Nat,         (* pending_in                              *)
           sentIn : Nat,         (* payloads the client sent                *)
           fin    : BOOLEAN,     (* the client sent FIN                     *)
           shut   : {"no", "pending", "done"}]

IsPacket(s) == str[s].kind = "packet"

Size(s) == IF IsPacket(s) THEN PacketSize ELSE ReadSize

\* ngx_anytls_client_mux_has_room
HasRoom(n) == output + n <= MaxOutput

HungUp(k) == k.eof \/ k.net = "err"
Readable(k) == k.in > 0 \/ HungUp(k)
Writable(k) == k.net = "err" \/ (k.net = "up" /\ ~k.full)

\* ngx_queue_remove of a stream that is linked, or not
Without(q, s) == RemoveFirst(q, s)

\* ngx_anytls_upstream_mux_stream_readable; the socket is there until the close
IsOpen(s) == str[s].state \in {"connected", "half_closed"}

(***************************************************************************)
(* epoll, as nginx drives it: the two events of a socket share an entry.   *)
(* Adding one of them makes the entry edge triggered, deleting one makes   *)
(* it level triggered, and either way the kernel looks at it again.        *)
(***************************************************************************)

Reports(k) == (IF k.ract /\ Readable(k) THEN {"in"} ELSE {})
              \cup (IF k.wact /\ Writable(k) THEN {"out"} ELSE {})

EdgeTriggered(k) == [k EXCEPT !.et = TRUE, !.edge = Reports(k) # {}]
LevelTriggered(k) == [k EXCEPT !.et = FALSE, !.edge = FALSE]

\* ngx_anytls_transport_arm_read, with read->ready clear
ArmRead(k) == IF k.ract THEN k ELSE EdgeTriggered([k EXCEPT !.ract = TRUE])
DisarmRead(k) == LevelTriggered([k EXCEPT !.ract = FALSE])

\* ngx_anytls_transport_arm_write, with write->ready clear
ArmWrite(k) == IF k.wact THEN k ELSE EdgeTriggered([k EXCEPT !.wact = TRUE])

\* mutant of DisarmWrite: the read event keeps its trigger
DisarmWriteOnly(k) == [k EXCEPT !.wact = FALSE]

\* ngx_anytls_transport_disarm_write
DisarmWrite(k) == IF k.wact THEN LevelTriggered([k EXCEPT !.wact = FALSE]) ELSE k

Closed(k) == [k EXCEPT !.net = "none", !.in = 0, !.eof = FALSE, !.full = FALSE,
                       !.ract = FALSE, !.wact = FALSE, !.et = FALSE, !.edge = FALSE]
-----------------------------------------------------------------------------
Init ==
    /\ sock = [s \in Streams |-> [net |-> "none", in |-> 0, arrived |-> 0, eof |-> FALSE,
                                  full |-> FALSE, ract |-> FALSE, wact |-> FALSE,
                                  et |-> FALSE, edge |-> FALSE]]
    /\ str = [s \in Streams |-> [state |-> "free", kind |-> "tcp", rready |-> FALSE, hup |-> FALSE,
                                 timer |-> FALSE, posted |-> FALSE, pend |-> 0, sentIn |-> 0, fin |-> FALSE,
                                 shut |-> "no"]]
    /\ readReady = <<>> /\ writeReady = <<>> /\ blocked = <<>>
    /\ output = 0 /\ pressure = FALSE
    /\ pc = "idle" /\ ev = None /\ mask = {}
    /\ cur = None /\ frames = 0 /\ visited = 0 /\ last = FALSE

Idle == pc = "idle"

\* mutant of CloseStream: the stream stays in the queue of blocked reads
CloseStreamStillBlocked(s, f) ==
    /\ str' = [str EXCEPT ![s] = [f EXCEPT !.state = "closed", !.timer = FALSE, !.posted = FALSE,
                                           !.pend = 0, !.rready = FALSE]]
    /\ sock' = [sock EXCEPT ![s] = Closed(@)]
    /\ readReady' = Without(readReady, s) /\ writeReady' = Without(writeReady, s)
    /\ UNCHANGED blocked

\* ngx_anytls_stream_close, which starts with upstream_mux_stream_closing; f
\* is the stream as the handler left it.
CloseStream(s, f) ==
    /\ str' = [str EXCEPT ![s] = [f EXCEPT !.state = "closed", !.timer = FALSE, !.posted = FALSE,
                                           !.pend = 0, !.rready = FALSE]]
    /\ sock' = [sock EXCEPT ![s] = Closed(@)]
    /\ readReady' = Without(readReady, s) /\ writeReady' = Without(writeReady, s)
    /\ blocked' = Without(blocked, s)

(***************************************************************************)
(* The upstream and the kernel, at any time                                *)
(***************************************************************************)

Happens(s, k) ==
    /\ sock' = [sock EXCEPT ![s] = k]
    /\ UNCHANGED <<str, queues, output, pressure, event, loop>>

Established(s) ==
    /\ sock[s].net = "syn"
    /\ Happens(s, [sock[s] EXCEPT !.net = "up", !.full = FALSE, !.edge = sock[s].et])

\* refused or unreachable while connecting, reset later
NetError(s) ==
    /\ sock[s].net \in {"syn", "up"} /\ ~IsPacket(s)
    /\ Happens(s, [sock[s] EXCEPT !.net = "err", !.edge = sock[s].et])

ConnectEnds(s) == sock[s].net = "syn" /\ (Established(s) \/ NetError(s))

Arrive(s) ==
    /\ sock[s].net = "up" /\ ~sock[s].eof /\ sock[s].arrived < MaxArrivals
    /\ Happens(s, [sock[s] EXCEPT !.in = @ + 1, !.arrived = @ + 1,
                                  !.edge = @ \/ (sock[s].et /\ sock[s].ract)])

ArriveEof(s) ==
    /\ sock[s].net = "up" /\ ~sock[s].eof /\ ~IsPacket(s)
    /\ Happens(s, [sock[s] EXCEPT !.eof = TRUE, !.edge = @ \/ (sock[s].et /\ sock[s].ract)])

\* the upstream has read what filled the send buffer
SpaceFreed(s) ==
    /\ sock[s].net = "up" /\ sock[s].full
    /\ Happens(s, [sock[s] EXCEPT !.full = FALSE, !.edge = @ \/ (sock[s].et /\ sock[s].wact)])

(***************************************************************************)
(* Opening and writing                                                     *)
(***************************************************************************)

\* what the client has sent so far
Payloads == SumFunction([s \in Streams |-> str[s].sentIn])

\* upstream_open_resolved with the connect in progress; a payload of the first
\* PSH waits in pending_in.  ngx_event_connect_peer adds both events.
OpenTcp(s) ==
    /\ Idle /\ "tcp" \in Kinds /\ str[s].state = "free"
    /\ \E n \in 0 .. 1 :
          /\ Payloads + n <= MaxPayloads
          /\ str' = [str EXCEPT ![s].state = "connecting", ![s].timer = TRUE,
                                ![s].pend = n, ![s].sentIn = n]
    /\ sock' = [sock EXCEPT ![s].net = "syn", ![s].ract = TRUE, ![s].wact = TRUE, ![s].et = TRUE]
    /\ UNCHANGED <<queues, output, pressure, event, loop>>

\* ngx_anytls_udp_socket and open_udp: registered without the clear flag
OpenPacket(s) ==
    /\ Idle /\ "packet" \in Kinds /\ str[s].state = "free"
    /\ str' = [str EXCEPT ![s].state = "connected", ![s].kind = "packet"]
    /\ sock' = [sock EXCEPT ![s].net = "up", ![s].ract = TRUE]
    /\ output' = output + 1
    /\ UNCHANGED <<queues, pressure, event, loop>>

\* What a send of several payloads on socket k may take: some of them when
\* there is room, all of them unless the buffer is full then.
Takes(k, pend, n) ==
    /\ n \in 0 .. pend
    /\ IF k.net = "up" /\ ~k.full THEN pend > 0 => n > 0 ELSE n = 0

\* mutant of SendPending: the shutdown that waited for the backlog is forgotten
SendPendingOnly(f, n) == [f EXCEPT !.pend = @ - n]

\* mutant of SendPending: what was taken is accounted twice
SendPendingTwice(f, n) ==
    [f EXCEPT !.pend = @ - 2 * n,
              !.shut = IF f.pend = n /\ @ = "pending" THEN "done" ELSE @]

\* ngx_anytls_upstream_send_pending of stream f, when n payloads are taken
SendPending(f, n) ==
    [f EXCEPT !.pend = @ - n,
              !.shut = IF f.pend = n /\ @ = "pending" THEN "done" ELSE @]

\* mutant of PendingSent: a full send buffer does not arm the write event
PendingSentUnarmed(k, f, n) == IF f.pend = n THEN DisarmWrite(k) ELSE [k EXCEPT !.full = TRUE]

\* the same for its socket: the write event is armed while payloads wait
PendingSent(k, f, n) ==
    IF f.pend = n THEN DisarmWrite(k) ELSE ArmWrite([k EXCEPT !.full = TRUE])

\* an error of a payload ends the session: ngx_anytls_finalize
SessionEnds ==
    /\ str' = [s \in Streams |-> [str[s] EXCEPT !.state = "closed", !.timer = FALSE,
                                    !.posted = FALSE, !.pend = 0, !.rready = FALSE]]
    /\ sock' = [s \in Streams |-> Closed(sock[s])]
    /\ readReady' = <<>> /\ writeReady' = <<>> /\ blocked' = <<>> /\ output' = 0

\* ngx_anytls_upstream_queue.  Not connected, or a backlog and no room in the
\* socket: the payload waits and the write event is posted.
PayloadWaits(s) ==
    /\ str[s].state = "connecting" \/ str[s].pend > 0
    /\ str' = [str EXCEPT ![s].sentIn = @ + 1, ![s].pend = @ + 1, ![s].posted = TRUE]
    /\ UNCHANGED <<sock, queues, output>>

\* Otherwise the backlog is flushed and then the payload is sent: the socket
\* takes n of them; what it does not take waits.
PayloadSent(s) ==
    /\ str[s].state = "connected" /\ sock[s].net # "err"
    /\ \E n \in 0 .. str[s].pend + 1 :
          LET f == [str[s] EXCEPT !.sentIn = @ + 1, !.pend = @ + 1]
              flushed == IF n >= str[s].pend /\ str[s].pend > 0
                         THEN DisarmWrite(sock[s]) ELSE sock[s]
          IN  /\ Takes(sock[s], f.pend, n)
              /\ str' = [str EXCEPT ![s] = [SendPending(f, n) EXCEPT !.posted = @ \/ n < f.pend]]
              /\ sock' = [sock EXCEPT ![s] = PendingSent(flushed, f, n)]
    /\ UNCHANGED <<queues, output>>

ClientPayload(s) ==
    /\ Idle /\ ~IsPacket(s) /\ str[s].state \in {"connecting", "connected"}
    /\ ~str[s].fin /\ Payloads < MaxPayloads
    /\ \/ PayloadWaits(s)
       \/ PayloadSent(s)
       \/ str[s].state = "connected" /\ sock[s].net = "err" /\ SessionEnds
    /\ UNCHANGED <<pressure, event, loop>>

\* ngx_anytls_upstream_mux_handle_client_fin
ClientFin(s) ==
    /\ Idle /\ str[s].state \in {"connecting", "connected"} /\ ~str[s].fin
    /\ LET f == [str[s] EXCEPT !.fin = TRUE]
       IN  IF IsPacket(s) \/ f.state = "connecting" \/ (sock[s].net = "err" /\ f.pend > 0)
           THEN CloseStream(s, f)
           ELSE \E n \in 0 .. f.pend :
                   /\ Takes(sock[s], f.pend, n)
                   /\ str' = [str EXCEPT ![s] = [f EXCEPT
                                !.state = "half_closed", !.pend = @ - n,
                                !.shut = IF n = f.pend THEN "done" ELSE "pending"]]
                   /\ sock' = [sock EXCEPT ![s] = PendingSent(@, f, n)]
                   /\ UNCHANGED queues
    /\ UNCHANGED <<output, pressure, event, loop>>

\* epoll_wait reports what is ready in a socket, and an edge only once.
EpollReport(s) ==
    /\ Idle /\ Reports(sock[s]) # {} /\ (sock[s].et => sock[s].edge)
    /\ pc' = "event" /\ ev' = s /\ mask' = Reports(sock[s]) \cup (IF HungUp(sock[s]) THEN {"hup"} ELSE {})
    /\ sock' = [sock EXCEPT ![s].edge = FALSE]
    /\ UNCHANGED <<str, queues, output, pressure, loop>>

\* the write event that upstream_queue posted
PostedWrite(s) ==
    /\ Idle /\ str[s].posted
    /\ pc' = "event" /\ ev' = s /\ mask' = {"posted"}
    /\ str' = [str EXCEPT ![s].posted = FALSE]
    /\ UNCHANGED <<sock, queues, output, pressure, loop>>

\* nginx runs the read handler first, then the write handler, each only if its
\* event is still active; a posted event is run as it is.
ReadTurn == pc = "event" /\ "in" \in mask /\ sock[ev].ract
WriteTurn == pc = "event" /\ (("out" \in mask /\ sock[ev].wact /\ ~ReadTurn) \/ "posted" \in mask)

EventDone ==
    /\ pc = "event" /\ ~ReadTurn /\ ~WriteTurn
    /\ pc' = "idle" /\ ev' = None /\ mask' = {}
    /\ UNCHANGED <<sock, str, queues, output, pressure, loop>>

\* ngx_anytls_upstream_mux_on_write_ready: the stream joins the queue, which is
\* drained
WriteReady ==
    /\ writeReady' = IF ev \in Range(writeReady) THEN writeReady ELSE Append(writeReady, ev)
    /\ pc' = "writes" /\ mask' = {} /\ frames' = 0 /\ visited' = 0 /\ last' = FALSE
    /\ UNCHANGED <<readReady, blocked, pressure, ev, cur>>

\* ngx_anytls_upstream_write_handler: the connect has succeeded when SO_ERROR
\* is clear, which it is while the handshake is under way too
ConnectReady ==
    /\ WriteTurn /\ str[ev].state = "connecting" /\ sock[ev].net # "err"
    /\ str' = [str EXCEPT ![ev].state = "connected", ![ev].timer = FALSE]
    /\ output' = output + 1
    /\ WriteReady
    /\ UNCHANGED sock

ConnectError ==
    /\ WriteTurn /\ str[ev].state = "connecting" /\ sock[ev].net = "err"
    /\ CloseStream(ev, str[ev])
    /\ output' = output + 1 /\ mask' = {}
    /\ UNCHANGED <<pressure, pc, ev, loop>>

ConnectTimeout(s) ==
    /\ Idle /\ str[s].timer
    /\ CloseStream(s, str[s])
    /\ output' = output + 1
    /\ UNCHANGED <<pressure, event, loop>>

WriteHandler ==
    /\ WriteTurn /\ str[ev].state # "connecting"
    /\ WriteReady
    /\ UNCHANGED <<sock, str, output>>

\* ngx_anytls_upstream_mux_drain_writes takes the next stream of the queue
MoreWrites == ~last /\ writeReady # <<>> /\ visited < StreamBudget /\ frames < FrameBudget

\* send_pending on the head of the queue, of which the socket takes n payloads;
\* a stream with a rest goes to the tail
WritePayloads ==
    /\ pc = "writes" /\ MoreWrites
    /\ LET s == Head(writeReady)
       IN  \E n \in 0 .. str[s].pend :
              /\ Takes(sock[s], str[s].pend, n) /\ (sock[s].net = "err" => str[s].pend = 0)
              /\ str' = [str EXCEPT ![s] = SendPending(@, n)]
              /\ sock' = [sock EXCEPT ![s] = PendingSent(@, str[s], n)]
              /\ writeReady' = IF n < str[s].pend THEN Append(Tail(writeReady), s)
                               ELSE Tail(writeReady)
    /\ last' = (Len(writeReady) = 1)
    /\ visited' = visited + 1 /\ frames' = frames + 1
    /\ UNCHANGED <<readReady, blocked, output, pressure, event, cur>>

WriteError ==
    /\ pc = "writes" /\ MoreWrites
    /\ LET s == Head(writeReady)
       IN  sock[s].net = "err" /\ str[s].pend > 0 /\ CloseStream(s, str[s])
    /\ last' = (Len(writeReady) = 1)
    /\ UNCHANGED <<output, pressure, event, cur, visited, frames>>

\* back from a loop to what is left of the event
Return == pc' = "event" /\ cur' = None /\ frames' = 0 /\ visited' = 0 /\ last' = FALSE

WritesDone ==
    /\ pc = "writes" /\ ~MoreWrites
    /\ Return
    /\ UNCHANGED <<sock, str, queues, output, pressure, ev, mask>>

(***************************************************************************)
(* Reading                                                                 *)
(***************************************************************************)

\* ngx_anytls_upstream_mux_on_read_ready; before the connection is ready the
\* handler returns and the edge is gone.
ReadHandler ==
    /\ ReadTurn /\ ~IsPacket(ev)
    /\ mask' = mask \ {"in"}
    /\ str' = [str EXCEPT ![ev].rready = TRUE, ![ev].hup = @ \/ "hup" \in mask]
    /\ IF IsOpen(ev)
       THEN /\ readReady' = IF ev \in Range(readReady) \cup Range(blocked) THEN readReady
                            ELSE Append(readReady, ev)
            /\ pc' = "reads" /\ frames' = 0 /\ visited' = 0 /\ last' = FALSE
       ELSE UNCHANGED <<readReady, pc, frames, visited, last>>
    /\ UNCHANGED <<sock, writeReady, blocked, output, pressure, ev, cur>>

\* ngx_anytls_upstream_mux_drain_reads takes the next stream of the queue
MoreReads == ~last /\ readReady # <<>> /\ visited < StreamBudget

NextStream ==
    /\ pc = "reads" /\ MoreReads
    /\ cur' = Head(readReady) /\ readReady' = Tail(readReady)
    /\ last' = (Len(readReady) = 1)
    /\ visited' = visited + 1
    /\ pc' = "read"
    /\ UNCHANGED <<sock, str, writeReady, blocked, output, pressure, frames, ev, mask>>

ReadsDone ==
    /\ pc = "reads" /\ ~MoreReads
    /\ Return
    /\ UNCHANGED <<sock, str, queues, output, pressure, ev, mask>>

\* mutant of RequeueRead: the event is left edge triggered
RequeueReadEdge(s) == UNCHANGED <<sock, str>>

\* ngx_anytls_upstream_mux_requeue_read
RequeueRead(s) ==
    IF str[s].rready /\ sock[s].ract
    THEN /\ sock' = [sock EXCEPT ![s] = LevelTriggered(@)]
         /\ str' = [str EXCEPT ![s].rready = FALSE]
    ELSE UNCHANGED <<sock, str>>

BudgetSpent ==
    /\ pc = "read" /\ frames >= FrameBudget
    /\ readReady' = Append(readReady, cur)
    /\ RequeueRead(cur)
    /\ pc' = "reads"
    /\ UNCHANGED <<writeReady, blocked, output, pressure, cur, frames, visited, last, ev, mask>>

\* ngx_anytls_upstream_block_read
BlockRead(s) ==
    /\ blocked' = Append(blocked, s)
    /\ str' = [str EXCEPT ![s].rready = FALSE]
    /\ sock' = [sock EXCEPT ![s] = DisarmRead(@)]

MayRead(s) == ~pressure /\ HasRoom(Size(s))

NoRoom ==
    /\ pc = "read" /\ frames < FrameBudget /\ ~MayRead(cur)
    /\ BlockRead(cur)
    /\ pc' = "reads"
    /\ UNCHANGED <<readReady, writeReady, output, pressure, cur, frames, visited, last, ev, mask>>

Reading == pc = "read" /\ frames < FrameBudget /\ MayRead(cur)

\* A read that does not fill the buffer clears read->ready, unless epoll has
\* reported the end of file with it.
ReadData ==
    /\ Reading /\ sock[cur].in > 0
    /\ sock' = [sock EXCEPT ![cur].in = @ - 1]
    /\ \E r \in {TRUE, sock[cur].in > 1 \/ str[cur].hup} :
          str' = [str EXCEPT ![cur].rready = @ /\ r]
    /\ output' = output + 1 /\ frames' = frames + 1
    /\ UNCHANGED <<queues, pressure, pc, cur, visited, last, ev, mask>>

\* recv returns NGX_AGAIN: nothing there, or ready is clear and the count of
\* available bytes is not renewed before the next event.
ReadAgain ==
    /\ Reading /\ (~Readable(sock[cur]) \/ ~(str[cur].rready \/ str[cur].hup))
    /\ str' = [str EXCEPT ![cur].rready = FALSE]
    /\ pc' = "reads"
    /\ UNCHANGED <<sock, queues, output, pressure, cur, frames, visited, last, ev, mask>>

\* end of file: FIN for the client, and the close
ReadEof ==
    /\ Reading /\ sock[cur].in = 0 /\ sock[cur].eof /\ sock[cur].net # "err"
    /\ CloseStream(cur, str[cur])
    /\ output' = output + 1
    /\ pc' = "reads"
    /\ UNCHANGED <<pressure, cur, frames, visited, last, ev, mask>>

ReadError ==
    /\ Reading /\ sock[cur].in = 0 /\ sock[cur].net = "err"
    /\ CloseStream(cur, str[cur])
    /\ pc' = "reads"
    /\ UNCHANGED <<output, pressure, cur, frames, visited, last, ev, mask>>

\* ngx_anytls_udp_read_handler in packet mode
PacketHandler ==
    /\ ReadTurn /\ IsPacket(ev)
    /\ mask' = mask \ {"in"}
    /\ IF pressure \/ ~HasRoom(0)
       THEN BlockRead(ev) /\ UNCHANGED <<pc, cur>>
       ELSE /\ pc' = "dgram" /\ cur' = ev
            /\ str' = [str EXCEPT ![ev].rready = TRUE]
            /\ UNCHANGED <<sock, blocked>>
    /\ UNCHANGED <<readReady, writeReady, output, pressure, ev, frames, visited, last>>

\* ngx_anytls_uot_read_dgram: a datagram is queued while there is room
ReadDgram ==
    /\ pc = "dgram" /\ sock[cur].in > 0 /\ HasRoom(1)
    /\ sock' = [sock EXCEPT ![cur].in = @ - 1]
    /\ output' = output + 1
    /\ UNCHANGED <<str, queues, pressure, event, loop>>

\* nothing left, or no room: the datagram is dropped and the loop ends
LastDgram ==
    /\ pc = "dgram" /\ (sock[cur].in = 0 \/ ~HasRoom(1))
    /\ sock' = [sock EXCEPT ![cur].in = IF @ = 0 THEN 0 ELSE @ - 1]
    /\ Return
    /\ UNCHANGED <<str, queues, output, pressure, ev, mask>>

(***************************************************************************)
(* The client side drains its output: what flush and drain do to reads     *)
(***************************************************************************)

\* mutant of Resumable: a read that was blocked by the output limit alone, not
\* by pressure, is not resumed
ResumableUnderPressure(out) ==
    CHOOSE n \in 0 .. Len(blocked) :
        IF ~pressure THEN n = 0
        ELSE /\ \A i \in 1 .. n : out + Size(blocked[i]) <= MaxOutput
             /\ n < Len(blocked) => out + Size(blocked[n + 1]) > MaxOutput

\* ngx_anytls_upstream_mux_process_blocked stops at the first stream without
\* room; this is how many streams it takes from the queue.
Resumable(out) ==
    CHOOSE n \in 0 .. Len(blocked) :
        /\ \A i \in 1 .. n : out + Size(blocked[i]) <= MaxOutput
        /\ n < Len(blocked) => out + Size(blocked[n + 1]) > MaxOutput

Resumed(n) == {blocked[i] : i \in 1 .. n}

\* drain when flush sent k frames and there is no more to send now: pressure is
\* dropped and reads that have room start again
DrainOk(k) ==
    /\ Idle /\ k \in 1 .. output
    /\ output' = output - k /\ pressure' = FALSE
    /\ LET n == Resumable(output - k)
       IN  /\ blocked' = SubSeq(blocked, n + 1, Len(blocked))
           /\ sock' = [s \in Streams |-> IF s \in Resumed(n) THEN ArmRead(sock[s]) ELSE sock[s]]
    /\ UNCHANGED <<str, readReady, writeReady, event, loop>>

\* drain when the client socket is full: reads are resumed if pressure was not
\* on yet, then pressure is on and suspend_reads blocks the streams that wait
\* for the next budget
DrainAgain(k) ==
    /\ Idle /\ k \in 0 .. output - 1
    /\ output' = output - k /\ pressure' = TRUE
    /\ IF pressure THEN UNCHANGED <<blocked, sock, str, readReady>>
       ELSE LET n == Resumable(output - k)
                suspended == Range(readReady)
            IN  /\ blocked' = SubSeq(blocked, n + 1, Len(blocked)) \o readReady
                /\ readReady' = <<>>
                /\ sock' = [s \in Streams |-> IF s \in Resumed(n) THEN ArmRead(sock[s])
                                              ELSE IF s \in suspended THEN DisarmRead(sock[s])
                                              ELSE sock[s]]
                /\ str' = [s \in Streams |-> IF s \in suspended
                                             THEN [str[s] EXCEPT !.rready = FALSE] ELSE str[s]]
    /\ UNCHANGED <<writeReady, event, loop>>

DrainSome == \E k \in 1 .. output : DrainOk(k)
DrainPart == \E k \in 0 .. output - 1 : DrainAgain(k)
DrainAll == DrainOk(output)
-----------------------------------------------------------------------------
Environment(s) ==
    Established(s) \/ NetError(s) \/ Arrive(s) \/ ArriveEof(s) \/ SpaceFreed(s)

Handler(s) ==
    \/ OpenTcp(s) \/ OpenPacket(s) \/ ClientPayload(s) \/ ClientFin(s) \/ ConnectTimeout(s)
    \/ EpollReport(s) \/ PostedWrite(s)

EventStep ==
    \/ EventDone \/ ConnectReady \/ ConnectError \/ WriteHandler \/ ReadHandler \/ PacketHandler
    \/ WritePayloads \/ WriteError \/ WritesDone
    \/ NextStream \/ BudgetSpent \/ NoRoom \/ ReadData \/ ReadAgain \/ ReadEof \/ ReadError
    \/ ReadsDone \/ ReadDgram \/ LastDgram

Next ==
    \/ \E s \in Streams : Environment(s) \/ Handler(s)
    \/ EventStep \/ DrainSome \/ DrainPart

Spec == Init /\ [][Next]_vars

\* The worker finishes every handler, and the turns of its event loop report
\* every event that is due; the client goes on reading its output; the kernel
\* does not try to connect for ever.
WorkerFair ==
    /\ WF_vars(EventStep) /\ SF_vars(DrainAll)
    /\ \A s \in Streams : /\ SF_vars(EpollReport(s)) /\ SF_vars(PostedWrite(s))
                          /\ WF_vars(ConnectEnds(s))

\* Upstreams read what they are sent.
UpstreamFair == \A s \in Streams : WF_vars(SpaceFreed(s))

FairSpec == Spec /\ WorkerFair /\ UpstreamFair
-----------------------------------------------------------------------------
\* The types; the loops of drain_reads and drain_writes stay within their
\* budgets, and no more payload is accounted than waits.
TypeOK ==
    /\ sock \in [Streams -> Socket] /\ str \in [Streams -> Stream]
    /\ readReady \in Seq(Streams) /\ writeReady \in Seq(Streams) /\ blocked \in Seq(Streams)
    /\ output \in Nat /\ pressure \in BOOLEAN
    /\ pc \in {"idle", "event", "writes", "reads", "read", "dgram"}
    /\ ev \in Streams \cup {None} /\ mask \subseteq {"in", "out", "hup", "posted"}
    /\ cur \in Streams \cup {None}
    /\ frames \in 0 .. FrameBudget /\ visited \in 0 .. StreamBudget /\ last \in BOOLEAN

\* The queues of the mux link the stream itself, so a stream is in a queue once,
\* leaves all of them when it is closed, and never waits for the next budget
\* and for output at the same time.  The read event of an open stream is off
\* exactly while it waits for output: no event for a blocked stream, no silence
\* for the others.
QueuesAgree ==
    /\ IsInjective(readReady) /\ IsInjective(writeReady) /\ IsInjective(blocked)
    /\ Range(readReady) \cap Range(blocked) = {}
    /\ \A s \in Range(readReady) \cup Range(writeReady) \cup Range(blocked) : IsOpen(s)
    /\ \A s \in Streams : IsOpen(s) => (s \in Range(blocked) <=> ~sock[s].ract)

\* The stream is called for again, by its own event or by the client's output.
Scheduled(s) == (sock[s].ract /\ (sock[s].et => sock[s].edge)) \/ s \in Range(blocked)

\* A loop that stopped at a budget left the stream in read_ready for the next
\* one, or in write_ready, out of which the stream comes level triggered.
LeftOver(s) == str[s].rready /\ (s \in Range(readReady) \/ (s \in Range(writeReady) /\ sock[s].wact))

\* Whatever the budgets, no upstream with something to read is forgotten
\* (upstream_mux.c:425-436): when drain_reads leaves a stream, the stream has an
\* event to come or waits for output; between handlers, so has every stream, or
\* it is where the next loop of the session finds it.
NoLostRead ==
    \A s \in Streams :
        IsOpen(s) /\ ~IsPacket(s) /\ Readable(sock[s])
          => /\ pc = "reads" /\ cur = s => Scheduled(s)
             /\ Idle => Scheduled(s) \/ LeftOver(s)

\* The client's end of data reaches the upstream after all of its data, once,
\* and is not forgotten when the data had to wait.
ShutdownAfterPayload ==
    \A s \in Streams : str[s].state = "half_closed" => (str[s].shut = "done" <=> str[s].pend = 0)

\* What an upstream sends is read in the end, its end of file included.
UpstreamIsRead ==
    \A s \in Streams : IsOpen(s) /\ ~IsPacket(s) /\ Readable(sock[s]) ~> ~Readable(sock[s])

\* A blocked stream reads again or is closed.
BlockedEnds == \A s \in Streams : s \in Range(blocked) ~> s \notin Range(blocked)

\* What the client sends reaches the upstream in the end.
PayloadEnds == \A s \in Streams : IsOpen(s) /\ str[s].pend > 0 ~> str[s].pend = 0

\* docs/protocol.md:475, SYNACK is sent "After outbound TCP connection succeeds
\* or fails": a success is only reported of a connection that is up.
SynackAfterConnect ==
    \A s \in Streams : str[s].state = "connected" => sock[s].net # "syn"
=============================================================================
