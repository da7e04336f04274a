---------------------------- MODULE ClientInput ----------------------------
(***************************************************************************)
(* The input half of a session: client bytes are read and cut into frames  *)
(* (ngx_anytls_client_handler.c), payload is sent to its upstream or waits *)
(* in the stream's pending_in (ngx_anytls_upstream.c), and reading pauses  *)
(* while too much waits.  Frames that were read and not handled when the   *)
(* pause came are the remnant; whatever lowers the backlog may resume the  *)
(* input, and handles the remnant on the stack of its own caller.          *)
(*                                                                         *)
(* A payload is one buffer of one unit, numbered per stream.  The read     *)
(* handler, the frame loop and the accounting loop of send_pending are     *)
(* sequences of steps; no other handler starts while pc is not "idle".     *)
(***************************************************************************)
EXTENDS Integers, Sequences, FiniteSets, Functions

CONSTANTS
  Streams,       (* TCP streams, connected from the start                   *)
  None,          (* no stream                                               *)
  Tls,           (* the cases: whether the client connection is TLS         *)
  MaxPending,    (* max_pending_input, in payloads                          *)
  ReadMax,       (* frames that fit in one read                             *)
  ReadLoops,     (* NGX_ANYTLS_CLIENT_READ_BUDGET_LOOPS                     *)
  WriteBatch,    (* NGX_ANYTLS_PENDING_WRITE_CHAIN_LIMIT                    *)
  MaxFrames,     (* bound: frames the client sends                          *)
  MaxBad         (* bound: frames among them whose handling fails           *)

ASSUME InputAssumption ==
    /\ IsFiniteSet(Streams) /\ None \notin Streams /\ Tls \subseteq BOOLEAN
    /\ MaxPending \in Nat \ {0} /\ ReadMax \in Nat \ {0} /\ ReadLoops \in Nat \ {0}
    /\ WriteBatch \in Nat \ {0}
    /\ MaxFrames \in Nat /\ MaxBad \in Nat

VARIABLES
  i,       (* the fields of ac, its client connection and its streams       *)
  sent,    (* history: payloads the client sent, per stream                 *)
  bad,     (* frames sent whose handling fails                              *)
  pc,      (* "idle", "reading", "process" or "flush"                       *)
  buf,     (* frames process_client_bytes has still to handle               *)
  ctx,     (* its caller: "read", "resume", "close", "flush", "flushed"     *)
  fs,      (* the stream of the send_pending that runs, or None             *)
  left,    (* payloads send_pending has written and not accounted yet       *)
  loops    (* read_loops                                                    *)

vars == <<i, sent, bad, pc, buf, ctx, fs, left, loops>>

Frame == [kind : {"psh", "fin", "bad"}, st : Streams \cup {None}, n : Nat]

Input ==
  [open    : BOOLEAN,                   (* ~ac->closing                     *)
   rx      : Seq(Frame),                (* sent by the client, not read     *)
   tls     : BOOLEAN,                   (* the connection is TLS            *)
   inTls   : Nat,                       (* how many of them TLS has decoded *)
   frames  : Nat,                       (* frames the client sent so far    *)
   handled : Nat,                       (* frames handled so far            *)
   ract    : BOOLEAN,                   (* client read->active              *)
   posted  : BOOLEAN,                   (* the client read event is posted  *)
   paused  : BOOLEAN,                   (* input_paused                     *)
   rblocked : BOOLEAN,                  (* client_read_blocked              *)
   remnant : Seq(Frame),                (* read_buf: whole frames ...       *)
   partial : BOOLEAN,                   (* ... and the start of another     *)
   total   : Nat,                       (* pending_input                    *)
   pend    : [Streams -> Seq(Nat)],     (* pending_in                       *)
   blk     : [Streams -> BOOLEAN],      (* input_blocked                    *)
   state   : [Streams -> {"connected", "half_closed", "closed"}],
   wready  : [Streams -> BOOLEAN],      (* upstream write->ready            *)
   up      : [Streams -> Seq(Nat)]]     (* history: what was sent upstream  *)

Lowat == MaxPending \div 2

(***************************************************************************)
(* Pause and resume                                                        *)
(***************************************************************************)

\* ngx_anytls_client_input_pause
Pause(x) == [x EXCEPT !.paused = TRUE, !.rblocked = TRUE, !.ract = @ /\ x.rblocked]

\* mutant of EnableClientRead: the read event is not registered again
EnableClientReadUnarmed(x) ==
    [x EXCEPT !.rblocked = FALSE, !.posted = @ \/ x.partial \/ x.remnant # <<>>]

\* ngx_anytls_enable_client_read: the start of a frame is worth a read event
EnableClientRead(x) ==
    [x EXCEPT !.rblocked = FALSE, !.ract = TRUE,
              !.posted = @ \/ x.partial \/ x.remnant # <<>>]

\* The guards of ngx_anytls_client_input_resume.
MayResume(x) == x.open /\ x.total <= Lowat /\ \A s \in Streams : ~x.blk[s]

\* ngx_anytls_client_input_resume with no frame in the remnant
ResumeEmpty(x) == IF MayResume(x) THEN EnableClientRead([x EXCEPT !.paused = FALSE]) ELSE x

\* ngx_anytls_upstream_update_input_state, without the resume
Unblock(x, s) == [x EXCEPT !.blk[s] = @ /\ Len(x.pend[s]) > Lowat]

(***************************************************************************)
(* Payload                                                                 *)
(***************************************************************************)

\* writev took the first k of the n payloads of stream s it was given; they
\* stay in pending_in
Written(x, s, k, n) ==
    [x EXCEPT !.up[s] = @ \o SubSeq(x.pend[s], 1, k), !.wready[s] = k = n]

Accounted(x, s, k) ==
    [x EXCEPT !.pend[s] = SubSeq(@, k + 1, Len(@)), !.total = @ - k]

\* ngx_anytls_upstream_send_pending from inside the frame loop, where the
\* remnant is empty: k payloads are written, in one batch or more, and accounted.
\* While frames are handled no stream blocks the input, so only the payload that
\* empties the backlog resumes, whichever batch it is in.
FlushInFrame(x, s, k) ==
    LET y == Unblock(Accounted(Written(x, s, k, Len(x.pend[s])), s, k), s)
    IN  IF y.pend[s] = <<>> \/ y.blk[s] # x.blk[s] THEN ResumeEmpty(y) ELSE y

Flushes(x, s) ==
    IF x.pend[s] = <<>> \/ ~x.wready[s] THEN {x}
    ELSE {FlushInFrame(x, s, k) : k \in 1 .. Len(x.pend[s])}

\* mutant of QueuePending: only the backlog of the stream is looked at
QueuePendingOwn(x, s, n) ==
    LET y == [x EXCEPT !.pend[s] = Append(@, n), !.total = @ + 1]
    IN  IF Len(y.pend[s]) > MaxPending THEN Pause([y EXCEPT !.blk[s] = TRUE]) ELSE y

\* the tail of ngx_anytls_upstream_queue: the payload waits
QueuePending(x, s, n) ==
    LET y == [x EXCEPT !.pend[s] = Append(@, n), !.total = @ + 1]
    IN  IF Len(y.pend[s]) > MaxPending THEN Pause([y EXCEPT !.blk[s] = TRUE])
        ELSE IF y.total > MaxPending THEN Pause(y)
        ELSE y

\* ngx_anytls_upstream_queue: the backlog goes first, then the payload is sent
\* unless something still waits; a socket without room makes it wait.
UpstreamQueue(x, s, n) ==
    UNION {IF y.pend[s] # <<>> THEN {QueuePending(y, s, n)}
           ELSE {[y EXCEPT !.up[s] = Append(@, n)],
                 QueuePending([y EXCEPT !.wready[s] = FALSE], s, n)} : y \in Flushes(x, s)}

\* mutant of Discard: the total keeps what is thrown away
DiscardUncounted(x, s) ==
    [x EXCEPT !.pend[s] = <<>>, !.blk[s] = FALSE, !.state[s] = "closed"]

\* mutant of Discard: the stream stays marked as blocking the input
DiscardStillBlocked(x, s) ==
    [x EXCEPT !.total = @ - Len(x.pend[s]), !.pend[s] = <<>>, !.state[s] = "closed"]

\* ngx_anytls_upstream_discard_pending, without the resume
Discard(x, s) ==
    [x EXCEPT !.total = @ - Len(x.pend[s]), !.pend[s] = <<>>, !.blk[s] = FALSE,
              !.state[s] = "closed"]

\* What handling frame f makes of the session; a frame of a stream that does
\* not accept input is dropped.
Handle(x, f) ==
    IF f.st = None \/ x.state[f.st] # "connected" THEN {x}
    ELSE IF f.kind = "psh" THEN UpstreamQueue(x, f.st, f.n)
    ELSE {IF y.pend[f.st] = <<>> THEN ResumeEmpty([y EXCEPT !.state[f.st] = "half_closed"])
          ELSE [y EXCEPT !.state[f.st] = "half_closed"] : y \in Flushes(x, f.st)}
-----------------------------------------------------------------------------
Init ==
    /\ \E t \in Tls :
       i = [open |-> TRUE, rx |-> <<>>, tls |-> t, inTls |-> 0, frames |-> 0, handled |-> 0,
            ract |-> TRUE, posted |-> FALSE, paused |-> FALSE, rblocked |-> FALSE,
            remnant |-> <<>>, partial |-> FALSE, total |-> 0,
            pend   |-> [s \in Streams |-> <<>>],
            blk    |-> [s \in Streams |-> FALSE],
            state  |-> [s \in Streams |-> "connected"],
            wready |-> [s \in Streams |-> TRUE],
            up     |-> [s \in Streams |-> <<>>]]
    /\ sent = [s \in Streams |-> 0] /\ bad = 0
    /\ pc = "idle" /\ buf = <<>> /\ ctx = "read" /\ fs = None /\ left = 0 /\ loops = 0

Idle == pc = "idle" /\ i.open

Sends(f) == i' = [i EXCEPT !.rx = Append(@, f), !.frames = @ + 1]

\* The client sends a frame; it may arrive while a handler runs.
ClientSends ==
    /\ i.open /\ i.frames < MaxFrames
    /\ \/ \E s \in Streams : /\ Sends([kind |-> "psh", st |-> s, n |-> sent[s] + 1])
                             /\ sent' = [sent EXCEPT ![s] = @ + 1]
                             /\ UNCHANGED bad
       \/ \E s \in Streams : /\ Sends([kind |-> "fin", st |-> s, n |-> 0])
                             /\ UNCHANGED <<sent, bad>>
       \* a stream over max_streams, a target that cannot be opened
       \/ /\ bad < MaxBad
          /\ Sends([kind |-> "bad", st |-> None, n |-> 0])
          /\ bad' = bad + 1 /\ UNCHANGED sent
    /\ UNCHANGED <<pc, buf, ctx, fs, left, loops>>

\* ngx_anytls_client_input_resume called by c: the frames of the remnant are
\* handled, or there are none.
ResumeInput(x, c, back) ==
    IF MayResume(x) /\ x.remnant # <<>>
    THEN /\ i' = [x EXCEPT !.paused = FALSE, !.remnant = <<>>]
         /\ buf' = x.remnant /\ ctx' = c /\ pc' = "process"
    ELSE /\ i' = ResumeEmpty(x)
         /\ pc' = back /\ UNCHANGED <<buf, ctx>>

(***************************************************************************)
(* ngx_anytls_client_read_handler                                          *)
(***************************************************************************)

\* epoll sees what TLS has not decoded yet; a posted event is run as it is.
ReadDue == i.posted \/ (i.ract /\ Len(i.rx) > i.inTls)

ReadEvent ==
    /\ Idle /\ ReadDue
    /\ LET x == [i EXCEPT !.posted = FALSE]
       IN  IF i.paused THEN ResumeInput(x, "resume", "idle")
           ELSE /\ i' = x
                /\ pc' = IF i.rblocked THEN "idle" ELSE "reading"
                /\ UNCHANGED <<buf, ctx>>
    /\ loops' = 0
    /\ UNCHANGED <<sent, bad, fs, left>>

\* mutant of MoreLoops: one loop over the budget
MoreLoopsByOne == loops <= ReadLoops

MoreLoops == loops < ReadLoops

\* The buffer takes ReadMax frames; what is left may be decoded already.  The
\* start of the next frame may be in the buffer too.
ReadFrames ==
    /\ pc = "reading" /\ i.rx # <<>> /\ MoreLoops
    /\ LET k == IF Len(i.rx) < ReadMax THEN Len(i.rx) ELSE ReadMax
           rest == SubSeq(i.rx, k + 1, Len(i.rx))
       IN  /\ buf' = SubSeq(i.rx, 1, k)
           /\ \E d \in 0 .. (IF i.tls THEN Len(rest) ELSE 0), p \in BOOLEAN :
                 i' = [i EXCEPT !.rx = rest, !.inTls = d, !.partial = p]
    /\ ctx' = "read" /\ pc' = "process" /\ loops' = loops + 1
    /\ UNCHANGED <<sent, bad, fs, left>>

\* NGX_AGAIN, or the budget of the loop and an event for the rest
ReadDone ==
    /\ pc = "reading" /\ (i.rx = <<>> \/ ~MoreLoops)
    /\ i' = [i EXCEPT !.posted = @ \/ ~MoreLoops]
    /\ pc' = "idle" /\ loops' = 0
    /\ UNCHANGED <<sent, bad, buf, ctx, fs, left>>

(***************************************************************************)
(* ngx_anytls_process_client_bytes                                         *)
(***************************************************************************)

\* mutant of KeepRemnant: what was not handled is forgotten
DropRemnant(x) == x

\* The frames not handled when the input paused go back to read_buf.
KeepRemnant(x) == [x EXCEPT !.remnant = Tail(buf)]

Ends(x) == x.paused \/ Len(buf) = 1

\* the caller goes on: the read loop, send_pending, or the event loop
Returns == pc' = CASE ctx = "read" -> "reading" [] ctx = "flush" -> "flush" [] OTHER -> "idle"

HandleFrame ==
    /\ pc = "process" /\ Head(buf).kind # "bad"
    /\ \E x \in Handle([i EXCEPT !.handled = @ + 1], Head(buf)) :
          IF ~Ends(x)
          THEN i' = x /\ buf' = Tail(buf) /\ UNCHANGED pc
          ELSE /\ buf' = <<>>
               /\ i' = IF x.paused THEN KeepRemnant(x)
                       ELSE IF ctx = "read" THEN x ELSE EnableClientRead(x)
               /\ IF ctx = "read" /\ x.rblocked THEN pc' = "idle" ELSE Returns
    /\ UNCHANGED <<sent, bad, ctx, fs, left, loops>>

\* ngx_anytls_finalize
Finalize(x) == [x EXCEPT !.open = FALSE, !.ract = FALSE, !.posted = FALSE]

\* Handling fails: the rest of the buffer is dropped and the error goes to the
\* caller.  The read handler ends the session, a flush closes the stream it was
\* flushing, discard_pending ignores it.
FrameError ==
    /\ pc = "process" /\ Head(buf).kind = "bad"
    /\ LET x == [i EXCEPT !.partial = FALSE]
       IN  i' = CASE ctx \in {"read", "resume"} -> Finalize(x)
                  [] ctx \in {"flush", "flushed"} -> ResumeEmpty(Discard(x, fs))
                  [] ctx = "close" -> x
    /\ buf' = <<>> /\ pc' = "idle" /\ fs' = None /\ left' = 0
    /\ UNCHANGED <<sent, bad, ctx, loops>>

(***************************************************************************)
(* ngx_anytls_upstream_send_pending from a write event                     *)
(***************************************************************************)

\* what one writev is given of the payloads of s
Batch(s) == IF Len(i.pend[s]) < WriteBatch THEN Len(i.pend[s]) ELSE WriteBatch

\* writev takes k of them, all unless the socket is full
WritePending(s, k) ==
    /\ i' = Written(i, s, k, Batch(s)) /\ left' = k
    /\ UNCHANGED <<sent, bad, buf, ctx, loops>>

WriteEvent(s) ==
    /\ Idle /\ i.pend[s] # <<>>
    /\ \E k \in 1 .. Batch(s) : WritePending(s, k)
    /\ pc' = "flush" /\ fs' = s

\* One written payload leaves pending_in; a stream below the low mark resumes
\* the input at once.
AccountOne ==
    /\ pc = "flush" /\ left > 0 /\ i.pend[fs] # <<>>
    /\ LET x == Accounted(i, fs, 1)
           y == Unblock(x, fs)
       IN  IF y.blk # x.blk THEN ResumeInput(y, "flush", "flush")
           ELSE i' = y /\ UNCHANGED <<pc, buf, ctx>>
    /\ left' = left - 1
    /\ UNCHANGED <<sent, bad, fs, loops>>

\* everything written is accounted and more waits: the next writev
WriteMore ==
    /\ pc = "flush" /\ left = 0 /\ i.pend[fs] # <<>> /\ i.wready[fs]
    /\ \E k \in 0 .. Batch(fs) : WritePending(fs, k)
    /\ UNCHANGED <<pc, fs>>

FlushDone ==
    /\ pc = "flush"
    /\ \/ /\ i.pend[fs] = <<>>
          /\ ResumeInput(i, "flushed", "idle")
          /\ fs' = IF pc' = "process" THEN fs ELSE None
       \/ /\ left = 0 /\ i.pend[fs] # <<>> /\ ~i.wready[fs]
          /\ pc' = "idle" /\ fs' = None /\ UNCHANGED <<i, buf, ctx>>
    /\ left' = 0
    /\ UNCHANGED <<sent, bad, loops>>

\* ngx_anytls_stream_close after an error or the end of the upstream: what
\* waited is discarded, and the input may go on
UpstreamCloses(s) ==
    /\ Idle /\ i.state[s] # "closed"
    /\ ResumeInput(Discard(i, s), "close", "idle")
    /\ UNCHANGED <<sent, bad, fs, left, loops>>
-----------------------------------------------------------------------------
Step ==
    \/ ReadFrames \/ ReadDone \/ HandleFrame \/ FrameError
    \/ AccountOne \/ WriteMore \/ FlushDone

Next ==
    \/ ClientSends \/ ReadEvent \/ Step
    \/ \E s \in Streams : WriteEvent(s) \/ UpstreamCloses(s)

Spec == Init /\ [][Next]_vars

\* The worker finishes every handler and takes every event that is due; the
\* upstreams read what they are sent.
FairSpec ==
    /\ Spec /\ WF_vars(Step) /\ SF_vars(ReadEvent)
    /\ \A s \in Streams : SF_vars(WriteEvent(s))
-----------------------------------------------------------------------------
\* The types; the read handler stays within its budget of loops.
TypeOK ==
    /\ i \in Input /\ sent \in [Streams -> Nat] /\ bad \in 0 .. MaxBad
    /\ pc \in {"idle", "reading", "process", "flush"} /\ buf \in Seq(Frame)
    /\ ctx \in {"read", "resume", "close", "flush", "flushed"}
    /\ fs \in Streams \cup {None} /\ left \in Nat /\ loops \in 0 .. ReadLoops

\* pending_input is the sum of the backlogs whoever touches it, and a stream is
\* marked blocked only while it holds more than the low mark.
BacklogExact ==
    /\ i.total = SumFunction([s \in Streams |-> Len(i.pend[s])])
    /\ \A s \in Streams : i.blk[s] => Len(i.pend[s]) > Lowat

\* The backlog passes max_pending_input by no more than the payload that made
\* the input pause, however many frames one read brought.
InputBounded == i.total <= MaxPending + 1

\* No frame is lost or handled twice on its way through pause and resume, as
\* long as the client sends none whose handling fails.
EveryFrameHandled ==
    i.open /\ bad = 0 => i.handled + Len(i.rx) + Len(i.remnant) + Len(buf) = i.frames

\* A paused input is resumed in the end.
PauseEnds == i.paused ~> ~i.paused \/ ~i.open

\* Every frame of the client is read and handled in the end, on a connection
\* without TLS; what TLS has decoded waits for the next bytes of the client.
InputIsRead == ~i.tls /\ i.rx # <<>> ~> i.rx = <<>> \/ ~i.open

\* What upstream s got is what the client sent, in order: 1, 2, 3, ...
InOrder(s) == \A k \in DOMAIN i.up[s] : i.up[s][k] = k

\* ngx_anytls_upstream.c:420, the backlog is flushed first "so the new payload
\* follows in order": every payload reaches the upstream once and in order, as
\* long as the client sends no frame whose handling fails.
PayloadInOrder == bad = 0 => \A s \in Streams : InOrder(s)
=============================================================================
