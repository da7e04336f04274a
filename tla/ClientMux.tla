----------------------------- MODULE ClientMux -----------------------------
(***************************************************************************)
(* The output half of a session (ngx_anytls_client_mux.c) and the stream   *)
(* states it depends on (ngx_anytls_stream.c, ngx_anytls_connection.c):    *)
(* frames wait in the control queue, in the data queue or in the queue of  *)
(* their stream, are linked into the chain being sent, and are released    *)
(* when the socket has taken them.  A stream may only be torn down when    *)
(* none of its frames is left.                                             *)
(*                                                                         *)
(* The worker is single threaded: a handler runs to its end before another *)
(* event is looked at.  Handlers without loops are single actions built    *)
(* from functions on the mux record; the write handler, which loops, is a  *)
(* sequence of steps during which pc is not "idle" and no event is taken.  *)
(***************************************************************************)
EXTENDS Integers, Sequences, FiniteSets, Functions, Selection

CONSTANTS
  Streams,           (* stream ids                                          *)
  Uot,               (* the ones in packet mode                             *)
  NoStream,          (* the stream of a frame that belongs to none          *)
  PeerVersion,       (* 1 or 2: only version 2 is sent SYNACK               *)
  HasWriteTimeout,   (* anytls_write_timeout is not 0                       *)
  HeaderLen,         (* NGX_ANYTLS_FRAME_HEADER_LEN                         *)
  ReadSize,          (* largest payload of one upstream read                *)
  MaxPendingOutput,  (* anytls_max_pending_output                           *)
  MaxOutFrames,      (* NGX_ANYTLS_MAX_OUT_FRAMES                           *)
  MaxStreamFrames,   (* NGX_ANYTLS_MAX_STREAM_FRAMES                        *)
  MaxDirect,         (* NGX_ANYTLS_MAX_DIRECT_FRAMES                        *)
  DrainFrames,       (* NGX_ANYTLS_CLIENT_DRAIN_FRAMES                      *)
  ByteBudget,        (* max_pending_output / 4, the bytes of one flush      *)
  MaxOpens,          (* bound: openings of streams in the session           *)
  MaxData,           (* bound: frames of one opening before its FIN         *)
  MaxControl         (* bound: frames without a stream                      *)

ASSUME MuxAssumption ==
    /\ IsFiniteSet(Streams) /\ Uot \subseteq Streams /\ NoStream \notin Streams
    /\ PeerVersion \in {1, 2} /\ HasWriteTimeout \in BOOLEAN
    /\ HeaderLen \in Nat \ {0} /\ ReadSize \in Nat \ {0}
    /\ MaxPendingOutput \in Nat /\ MaxOutFrames \in Nat /\ MaxStreamFrames \in Nat
    /\ MaxDirect \in Nat /\ DrainFrames \in Nat \ {0} /\ ByteBudget \in Nat \ {0}
    /\ MaxOpens \in Nat /\ MaxData \in Nat /\ MaxControl \in Nat

VARIABLES
  m,        (* the mux: the fields of ac and st that output uses            *)
  pc,       (* where the write handler is; "idle" outside it                *)
  budget,   (* frames it may still schedule                                 *)
  bytes,    (* bytes it has scheduled                                       *)
  taken,    (* frames the socket has taken and that are not released yet    *)
  ending,   (* the handler finalizes the session after draining             *)
  wire      (* history: the frames of each opening that left, in order      *)

vars == <<m, pc, budget, bytes, taken, ending, wire>>

States == {"free", "connecting", "connected", "half_closed", "closing", "closed"}
Cmds == {"SYNACK", "PSH", "FIN", "CONTROL"}

Frame == [cmd : Cmds, st : Streams \cup {NoStream}, gen : Nat, n : Nat, len : Nat]

Mux ==
  [open     : BOOLEAN,                   (* ~ac->closing                    *)
   state    : [Streams -> States],
   up       : [Streams -> BOOLEAN],      (* st->upstream # NULL             *)
   finGot   : [Streams -> BOOLEAN],      (* the client sent FIN             *)
   gen      : [Streams -> Nat],          (* which opening of the id         *)
   seq      : [Streams -> Nat],          (* frames queued in this opening   *)
   queued   : [Streams -> Nat],          (* st->queued_frames               *)
   out      : [Streams -> Seq(Frame)],   (* st->out                         *)
   direct   : [Streams -> Nat],          (* st->direct_count                *)
   finq     : [Streams -> BOOLEAN],      (* st->fin_queued                  *)
   synack   : [Streams -> BOOLEAN],      (* st->synack_sent                 *)
   control  : Seq(Frame),                (* ac->control_out                 *)
   data     : Seq(Frame),                (* ac->data_out                    *)
   sending  : Seq(Frame),                (* ac->sending, ac->unsent         *)
   ready    : Seq(Streams),              (* ac->ready_streams               *)
   pending  : Nat,                       (* ac->pending_output              *)
   frames   : Nat,                       (* ac->frames                      *)
   controls : Nat,                       (* frames without stream, so far   *)
   pressure : BOOLEAN,                   (* ac->output_pressure             *)
   posted   : BOOLEAN,                   (* ac->write_pending               *)
   armed    : BOOLEAN,                   (* write event registered          *)
   timer    : BOOLEAN]                   (* ac->write_timer is set          *)

Minus(a, b) == IF a >= b THEN a - b ELSE 0

\* The bytes of a queue of frames.
Bytes(q) == SumFunction([i \in DOMAIN q |-> q[i].len])

(***************************************************************************)
(* Queueing                                                                *)
(***************************************************************************)

\* ngx_anytls_client_mux_has_room
HasRoom(x, len) == x.pending + HeaderLen + len <= MaxPendingOutput

\* ngx_anytls_client_mux_post_write
PostWrite(x) ==
    IF x.posted THEN x
    ELSE [x EXCEPT !.posted = TRUE, !.timer = @ \/ HasWriteTimeout]

\* ngx_anytls_client_mux_mark_ready: packet mode goes to the head.
MarkReady(x, s) ==
    IF s \in Range(x.ready) THEN x
    ELSE [x EXCEPT !.ready = IF s \in Uot THEN <<s>> \o @ ELSE Append(@, s)]

\* The two guards at the top of queue_prepared_frame.
Accepts(x, s, cmd) ==
    /\ x.frames < MaxOutFrames
    /\ cmd = "PSH" => x.queued[s] < MaxStreamFrames

\* mutant of GoesDirect: frames waiting in the stream's own queue are forgotten
GoesDirectPastQueue(x, s, cmd) ==
    /\ cmd = "PSH"
    /\ x.pending <= MaxPendingOutput \div 2
    /\ x.direct[s] < MaxDirect

\* A PSH may skip its stream's queue only when nothing at all is waiting there.
GoesDirect(x, s, cmd) ==
    /\ cmd = "PSH"
    /\ x.out[s] = <<>>
    /\ x.ready = <<>>
    /\ x.pending <= MaxPendingOutput \div 2
    /\ x.direct[s] < MaxDirect

\* ngx_anytls_queue_prepared_frame for a frame of stream s that passed the guards
Enqueue(x, s, cmd, len) ==
    LET f == [cmd |-> cmd, st |-> s, gen |-> x.gen[s], n |-> x.seq[s] + 1, len |-> len + HeaderLen]
        counted == [x EXCEPT !.seq[s] = @ + 1, !.queued[s] = @ + 1,
                             !.finq[s] = @ \/ cmd = "FIN",
                             !.pending = @ + f.len, !.frames = @ + 1]
        placed == IF cmd = "SYNACK" THEN [counted EXCEPT !.control = Append(@, f)]
                  ELSE IF GoesDirect(x, s, cmd)
                  THEN [counted EXCEPT !.data = Append(@, f), !.direct[s] = @ + 1]
                  ELSE MarkReady([counted EXCEPT !.out[s] = Append(@, f), !.direct[s] = 0], s)
    IN  PostWrite(placed)

\* the same for a frame without a stream: heartbeat answer, settings, alert
EnqueueControl(x) ==
    LET f == [cmd |-> "CONTROL", st |-> NoStream, gen |-> 0, n |-> x.controls + 1, len |-> HeaderLen]
    IN  PostWrite([x EXCEPT !.control = Append(@, f), !.controls = @ + 1,
                            !.pending = @ + f.len, !.frames = @ + 1])

\* ngx_anytls_client_mux_send_synack; its result is ignored by every caller
SendSynack(x, s, len) ==
    LET marked == [x EXCEPT !.synack[s] = TRUE]
    IN  IF x.synack[s] THEN x
        ELSE IF PeerVersion < 2 \/ ~Accepts(x, s, "SYNACK") THEN marked
        ELSE Enqueue(marked, s, "SYNACK", len)

(***************************************************************************)
(* Closing                                                                 *)
(***************************************************************************)

\* ready_streams without the streams that leave the session
Unlinked(q, done) == Picked(q, {k \in DOMAIN q : q[k] \notin done})

\* The second half of ngx_anytls_stream_close: the stream leaves the session.
CloseNow(x, s) ==
    [x EXCEPT !.state[s] = "closed", !.up[s] = FALSE,
              !.ready = Unlinked(@, {s}),
              !.pending = Minus(@, Bytes(x.out[s])),
              !.frames = Minus(@, Len(x.out[s])),
              !.queued[s] = Minus(@, Len(x.out[s])),
              !.out[s] = <<>>]

\* mutant of CloseStream: closing does not wait for queued frames
CloseAtOnce(x, s) == IF x.state[s] = "closed" THEN x ELSE CloseNow(x, s)

\* ngx_anytls_stream_close: delayed while frames refer to the stream
CloseStream(x, s) ==
    IF x.state[s] = "closed" THEN x
    ELSE IF x.open /\ x.queued[s] # 0
    THEN [x EXCEPT !.state[s] = "closing", !.up[s] = FALSE]
    ELSE CloseNow(x, s)

\* ngx_anytls_stream_send_fin_and_close: a FIN that cannot be queued ends it
SendFinAndClose(x, s) ==
    IF x.finq[s] THEN CloseStream(x, s)
    ELSE IF Accepts(x, s, "FIN") THEN CloseStream(Enqueue(x, s, "FIN", 0), s)
    ELSE x

\* ngx_anytls_mux_drain_closing_streams; with no frame queued st->out is empty
DrainClosing(x) ==
    LET done == {s \in Streams : x.state[s] = "closing" /\ x.queued[s] = 0}
    IN  [x EXCEPT !.state = [s \in Streams |-> IF s \in done THEN "closed" ELSE @[s]],
                  !.ready = Unlinked(@, done)]

\* ngx_anytls_finalize_rc
Finalize(x) ==
    [x EXCEPT !.open = FALSE, !.timer = FALSE, !.armed = FALSE, !.posted = FALSE,
              !.state = [s \in Streams |-> IF @[s] = "free" THEN "free" ELSE "closed"],
              !.up = [s \in Streams |-> FALSE]]

\* mutant of FrameSent: the stream's frame count is not taken back
FrameSentUncounted(x) ==
    LET f == Head(x.sending)
    IN  [x EXCEPT !.sending = Tail(@), !.pending = Minus(@, f.len), !.frames = Minus(@, 1)]

\* ngx_anytls_default_frame_handler on the head of the sending chain
FrameSent(x) ==
    LET f == Head(x.sending)
        off == [x EXCEPT !.sending = Tail(@), !.pending = Minus(@, f.len), !.frames = Minus(@, 1)]
        uncounted == [off EXCEPT !.queued[f.st] = Minus(@, 1)]
    IN  IF f.st = NoStream THEN off
        ELSE IF uncounted.state[f.st] = "closing" /\ uncounted.queued[f.st] = 0
        THEN CloseStream(uncounted, f.st)
        ELSE uncounted
-----------------------------------------------------------------------------
Init ==
    /\ m = [open     |-> TRUE,
            state    |-> [s \in Streams |-> "free"],
            up       |-> [s \in Streams |-> FALSE],
            finGot   |-> [s \in Streams |-> FALSE],
            gen      |-> [s \in Streams |-> 0],
            seq      |-> [s \in Streams |-> 0],
            queued   |-> [s \in Streams |-> 0],
            out      |-> [s \in Streams |-> <<>>],
            direct   |-> [s \in Streams |-> 0],
            finq     |-> [s \in Streams |-> FALSE],
            synack   |-> [s \in Streams |-> FALSE],
            control  |-> <<>>, data |-> <<>>, sending |-> <<>>, ready |-> <<>>,
            pending  |-> 0, frames |-> 0, controls |-> 0,
            pressure |-> FALSE, posted |-> FALSE, armed |-> FALSE, timer |-> FALSE]
    /\ pc = "idle" /\ budget = 0 /\ bytes = 0 /\ taken = 0 /\ ending = FALSE
    /\ wire = [s \in Streams |-> <<>>]

(***************************************************************************)
(* Events that queue frames.  Each is a whole handler.                     *)
(***************************************************************************)

Idle == pc = "idle" /\ m.open

Handled == UNCHANGED <<pc, budget, bytes, taken, ending>>

\* The event loop ran a handler that left the mux as x.
Becomes(x) == m' = x /\ Handled /\ UNCHANGED wire

\* SYN for an id without an entry: a zeroed stream
OpenStream(s) ==
    /\ Idle /\ m.state[s] \in {"free", "closed"}
    /\ SumFunction(m.gen) < MaxOpens
    /\ m' = [m EXCEPT !.state[s] = "connecting", !.up[s] = TRUE, !.finGot[s] = FALSE,
                      !.gen[s] = @ + 1, !.seq[s] = 0, !.queued[s] = 0, !.out[s] = <<>>,
                      !.direct[s] = 0, !.finq[s] = FALSE, !.synack[s] = FALSE]
    /\ wire' = [wire EXCEPT ![s] = <<>>]
    /\ Handled

\* ngx_anytls_upstream_mux_on_connect_ready
ConnectOk(s) ==
    /\ Idle /\ m.state[s] = "connecting"
    /\ Becomes(SendSynack([m EXCEPT !.state[s] = "connected"], s, 0))

\* SYNACK with a reason, abstracted to one byte: refused, timed out, not
\* resolved, too many UoT streams
ConnectFailed(s) ==
    /\ Idle /\ m.state[s] = "connecting"
    /\ Becomes(CloseStream(SendSynack(m, s, 1), s))

\* ngx_anytls_upstream_mux_drain_reads lets a stream read while there is room
MayRead(s) ==
    /\ Idle /\ m.state[s] \in {"connected", "half_closed"} /\ m.up[s]
    /\ ~m.pressure /\ HasRoom(m, ReadSize)

UpstreamData(s, len) ==
    /\ MayRead(s) /\ m.seq[s] < MaxData
    /\ Becomes(IF Accepts(m, s, "PSH") THEN Enqueue(m, s, "PSH", len) ELSE CloseStream(m, s))

UpstreamEof(s) ==
    /\ MayRead(s) /\ s \notin Uot
    /\ Becomes(SendFinAndClose([m EXCEPT !.up[s] = FALSE], s))

\* ngx_anytls_uot_idle_timeout_handler
UotIdle(s) ==
    /\ Idle /\ s \in Uot /\ m.state[s] = "connected" /\ m.up[s]
    /\ Becomes(SendFinAndClose([m EXCEPT !.up[s] = FALSE], s))

\* a failed upstream read or write
UpstreamError(s) ==
    /\ Idle /\ m.state[s] \in {"connected", "half_closed"} /\ m.up[s]
    /\ Becomes(CloseStream(m, s))

\* FIN: ngx_anytls_upstream_mux_handle_client_fin if stream_find returns the stream
ClientFin(s) ==
    /\ Idle /\ ~m.finGot[s]
    /\ LET x == [m EXCEPT !.finGot[s] = TRUE]
       IN  \/ /\ m.state[s] = "connected" /\ m.up[s] /\ s \notin Uot
              /\ Becomes([x EXCEPT !.state[s] = "half_closed"])
           \/ /\ m.state[s] = "connecting" \/ (m.state[s] = "connected" /\ m.up[s] /\ s \in Uot)
              /\ Becomes(CloseStream(x, s))
           \* stream_find does not return a stream that is closed by the protocol
           \/ /\ m.state[s] = "closing" \/ (m.state[s] = "connected" /\ ~m.up[s])
              /\ Becomes(x)

\* HEART_REQUEST or SETTINGS: an answer without a stream, or the session ends
ClientControl ==
    /\ Idle /\ m.controls < MaxControl
    /\ Becomes(IF m.frames < MaxOutFrames THEN EnqueueControl(m) ELSE Finalize(m))

\* client EOF, read error or malformed input
ClientGone == Idle /\ Becomes(Finalize(m))

\* ngx_anytls_write_timeout_handler
WriteTimeout == Idle /\ m.timer /\ Becomes(Finalize(m))

(***************************************************************************)
(* ngx_anytls_client_write_handler and the drain it runs                   *)
(***************************************************************************)

StartDrain(x, end) ==
    /\ m' = DrainClosing(x)
    /\ pc' = "schedule" /\ budget' = DrainFrames /\ bytes' = 0 /\ ending' = end
    /\ UNCHANGED <<taken, wire>>

\* the posted event, or the kernel reporting the client socket writable
WriteEvent == Idle /\ (m.posted \/ m.armed) /\ StartDrain([m EXCEPT !.posted = FALSE], FALSE)

\* a client alert, and a protocol error, which queues an alert of its own
AlertReceived == Idle /\ StartDrain(m, TRUE)

ProtocolError ==
    /\ Idle /\ m.controls < MaxControl
    /\ StartDrain(IF m.frames < MaxOutFrames THEN EnqueueControl(m) ELSE m, TRUE)

\* mutant of CanSchedule: one frame over the budget
CanScheduleOneMore == m.ready # <<>> /\ budget >= 0 /\ bytes < ByteBudget

\* ngx_anytls_schedule_stream_frames moves one frame of the first ready stream
CanSchedule == m.ready # <<>> /\ budget > 0 /\ bytes < ByteBudget

ScheduleFrame ==
    /\ pc = "schedule" /\ CanSchedule
    /\ LET s == Head(m.ready)
           x == [m EXCEPT !.ready = Tail(@)]
           f == Head(m.out[s])
           y == [x EXCEPT !.out[s] = Tail(@), !.data = Append(@, f)]
       IN  IF m.out[s] = <<>>
           THEN m' = x /\ UNCHANGED <<budget, bytes>>
           ELSE /\ m' = IF y.out[s] = <<>> THEN y ELSE MarkReady(y, s)
                /\ budget' = budget - 1 /\ bytes' = bytes + f.len
    /\ UNCHANGED <<pc, taken, ending, wire>>

\* A new chain is linked only when the previous one is gone: control frames
\* first, then data frames.
Linked(x) ==
    IF x.sending # <<>> THEN x
    ELSE [x EXCEPT !.sending = x.control \o x.data, !.control = <<>>, !.data = <<>>]

\* ngx_anytls_client_mux_drain after flush: AGAIN raises pressure, OK drops it
EndDrain(x, pressure) ==
    /\ m' = IF ending THEN Finalize(x) ELSE [x EXCEPT !.pressure = pressure]
    /\ pc' = "idle" /\ budget' = 0 /\ bytes' = 0 /\ taken' = 0 /\ ending' = FALSE
    /\ UNCHANGED wire

NothingToSend ==
    /\ pc = "schedule" /\ ~CanSchedule /\ Linked(m).sending = <<>>
    /\ EndDrain([Linked(m) EXCEPT !.timer = FALSE], FALSE)

\* send_chain takes the first k frames whole
SendChain(k) ==
    /\ pc = "schedule" /\ ~CanSchedule /\ Linked(m).sending # <<>>
    /\ m' = Linked(m)
    /\ pc' = "release" /\ taken' = k
    /\ UNCHANGED <<budget, bytes, ending, wire>>

SendPart == \E k \in 0 .. Len(Linked(m).sending) - 1 : SendChain(k)
SendAll == SendChain(Len(Linked(m).sending))

\* send_chain fails: flush returns NGX_ERROR and the session ends
SendError ==
    /\ pc = "schedule" /\ ~CanSchedule /\ Linked(m).sending # <<>>
    /\ m' = Finalize(m)
    /\ pc' = "idle" /\ budget' = 0 /\ bytes' = 0 /\ ending' = FALSE
    /\ UNCHANGED <<taken, wire>>

\* ngx_anytls_recycle_sent_frames
ReleaseFrame ==
    /\ pc = "release" /\ taken > 0
    /\ LET f == Head(m.sending)
       IN  wire' = IF f.st = NoStream THEN wire
                   ELSE [wire EXCEPT ![f.st] = Append(@, [cmd |-> f.cmd, gen |-> f.gen, n |-> f.n])]
    /\ m' = FrameSent(m)
    /\ taken' = taken - 1
    /\ UNCHANGED <<pc, budget, bytes, ending>>

\* The tail of flush when the socket did not take everything ...
SocketFull ==
    /\ pc = "release" /\ taken = 0 /\ m.sending # <<>>
    /\ EndDrain([m EXCEPT !.armed = TRUE, !.timer = @ \/ HasWriteTimeout], TRUE)

\* mutant of Leftover: streams that are still ready are forgotten
LeftoverQueues(x) == x.control # <<>> \/ x.data # <<>>

\* what is left for the next turn of the event loop
Leftover(x) == x.control # <<>> \/ x.data # <<>> \/ x.ready # <<>>

\* ... and when it did.
ChainSent ==
    /\ pc = "release" /\ taken = 0 /\ m.sending = <<>>
    /\ LET x == DrainClosing([m EXCEPT !.armed = FALSE])
       IN  EndDrain(IF Leftover(x) THEN PostWrite(x) ELSE [x EXCEPT !.timer = FALSE], FALSE)

-----------------------------------------------------------------------------
Event(s) ==
    \/ OpenStream(s) \/ ConnectOk(s) \/ ConnectFailed(s)
    \/ \E len \in 1 .. ReadSize : UpstreamData(s, len)
    \/ UpstreamEof(s) \/ UotIdle(s) \/ UpstreamError(s) \/ ClientFin(s)

DrainStep ==
    \/ ScheduleFrame \/ NothingToSend \/ SendPart \/ SendAll \/ SendError
    \/ ReleaseFrame \/ SocketFull \/ ChainSent

Next ==
    \/ \E s \in Streams : Event(s)
    \/ ClientControl \/ ClientGone \/ WriteTimeout
    \/ WriteEvent \/ AlertReceived \/ ProtocolError
    \/ DrainStep

Spec == Init /\ [][Next]_vars

\* The worker keeps running its event loop and finishes every handler.  Nothing
\* is assumed of the client: a write timer that stays set is found expired on
\* some turn of the event loop (strong fairness, as no timer is looked at inside
\* a handler).
TimedSpec == Spec /\ WF_vars(WriteEvent \/ DrainStep) /\ SF_vars(WriteTimeout)
-----------------------------------------------------------------------------
\* The types; the drain schedules no more frames than its budget.
TypeOK ==
    /\ m \in Mux
    /\ pc \in {"idle", "schedule", "release"}
    /\ budget \in Nat /\ bytes \in Nat /\ taken \in Nat /\ ending \in BOOLEAN
    /\ wire \in [Streams -> Seq([cmd : Cmds, gen : Nat, n : Nat])]

Alive(s) == m.state[s] \notin {"free", "closed"}

Queues(s) == m.sending \o m.control \o m.data \o m.out[s]

\* No queued frame outlives its stream: the frame handler dereferences
\* f->stream, so stream_close must have waited for every one of them, and an
\* id that is opened again must not inherit a frame of its predecessor.
NoStaleFrame ==
    m.open => \A s \in Streams : \A f \in Range(Queues(s)) :
        f.st \in Streams => Alive(f.st) /\ f.gen = m.gen[f.st]

Waiting == m.sending \o m.control \o m.data

\* queued_frames, frames and pending_output are exactly what the queues hold:
\* a leak here blocks reads or closes for good.
CountersExact ==
    m.open =>
      /\ \A s \in Streams : m.queued[s] = Cardinality({i \in DOMAIN Queues(s) : Queues(s)[i].st = s})
      /\ m.frames = Len(Waiting) + SumFunction([s \in Streams |-> Len(m.out[s])])
      /\ m.pending = Bytes(Waiting) + SumFunction([s \in Streams |-> Bytes(m.out[s])])

\* The frames of a stream leave in the order they were queued, none missing
\* and none twice: SYNACK before the first PSH, FIN last.
WireInOrder ==
    \A s \in Streams :
        /\ \A i \in DOMAIN wire[s] :
              /\ wire[s][i].n = i
              /\ wire[s][i].gen = m.gen[s]
              /\ (wire[s][i].cmd = "SYNACK" => i = 1)
              /\ (wire[s][i].cmd = "FIN" => i = m.seq[s])
        /\ (m.open /\ m.state[s] = "closed" => Len(wire[s]) = m.seq[s])

\* Between handlers, output that is not sent has a write event to come, and
\* the write timer runs; pressure is only on while the socket owes one.
NoLostWakeup ==
    Idle => /\ (Waiting # <<>> \/ m.ready # <<>> => m.posted \/ m.armed)
            /\ (m.sending # <<>> => m.armed)
            /\ (m.frames > 0 /\ HasWriteTimeout => m.timer)
            /\ (m.pressure => m.armed)

\* frames that are not sent, or a close that waits for frames
Owes == m.frames > 0 \/ \E s \in Streams : m.state[s] = "closing"

\* Neither output nor a delayed close waits for ever, whatever the client reads:
\* the frames leave and the streams close, or the write timer ends the session.
OutputEnds == Owes ~> ~Owes \/ ~m.open
=============================================================================
