------------------------------ MODULE Session -------------------------------
(***************************************************************************)
(* An authenticated session (ngx_anytls_session_core.c and                 *)
(* ngx_anytls_session_actions.c): the frames of the client open streams,   *)
(* the first PSH frames of a stream carry the address of its upstream, in  *)
(* as many pieces as the client likes, and the stream is resolved,         *)
(* connected, answered and closed (ngx_anytls_resolver.c, the opening in   *)
(* ngx_anytls_upstream.c, ngx_anytls_stream.c).  Every upstream connection *)
(* leaves a record for the log (ngx_anytls_upstream_state.c).              *)
(*                                                                         *)
(* Frames are handled one after another; how they are read, and what waits *)
(* for what in the queues, are the matter of ClientInput, ClientMux and    *)
(* UpstreamMux.  The bytes of the PSH frames of a stream are numbered.     *)
(***************************************************************************)
EXTENDS Integers, Sequences, FiniteSets, Functions

CONSTANTS
  Ids,          (* stream ids                                               *)
  Versions,     (* protocol versions of the client: 1, 2                    *)
  Limits,       (* settings of anytls_max_streams                           *)
  AddrLen,      (* the length of the address, for each kind of target       *)
  MaxAddr,      (* NGX_ANYTLS_MAX_SOCKS_ADDR_LEN                            *)
  MaxBytes,     (* bound: bytes of the PSH frames of a stream               *)
  MaxOpens,     (* bound: SYN frames that create a stream                   *)
  MaxReplies    (* bound: frames of an upstream                             *)

\* an address with a socket address in it, a name, and one of unknown type
Targets == {"ip", "name", "bad"}

ASSUME SessionAssumption ==
    /\ Versions \subseteq {1, 2} /\ Limits \subseteq Nat \ {0} /\ MaxAddr \in Nat \ {0}
    /\ AddrLen \in [Targets -> 1 .. MaxAddr]
    /\ MaxBytes \in Nat /\ MaxOpens \in Nat /\ MaxReplies \in Nat

VARIABLES
  open,       (* ~ac->closing                                               *)
  settings,   (* settings_received                                          *)
  version,    (* peer_version                                               *)
  st,         (* the streams                                                *)
  log,        (* upstream_states                                            *)
  opens,      (* streams created so far                                     *)
  maxStreams  (* anytls_max_streams                                         *)

vars == <<open, settings, version, st, log, opens, maxStreams>>

Stream == [state   : {"none", "init", "connecting", "connected", "half_closed", "closing"},
           closed  : BOOLEAN,     (* closed_by_protocol and in_closed       *)
           delayed : BOOLEAN,     (* delayed_close, in closing_streams      *)
           target  : Targets,     (* what the client's address says         *)
           got     : Nat,         (* bytes of its PSH frames so far         *)
           acc     : Nat,         (* first_psh_acc_len                      *)
           seen    : BOOLEAN,     (* first_psh_seen                         *)
           query   : BOOLEAN,     (* resolver_pending                       *)
           net     : {"none", "syn", "up", "err"},    (* upstream           *)
           timer   : BOOLEAN,     (* the connect timer                      *)
           posted  : BOOLEAN,     (* the upstream write event is posted     *)
           pend    : Seq(Nat),    (* pending_in                             *)
           up      : Seq(Nat),    (* history: what the upstream was sent    *)
           replies : Nat,         (* frames of the upstream                 *)
           synack  : {"no", "ok", "error"},           (* synack_sent        *)
           queued  : Nat,         (* queued_frames                          *)
           rec     : Nat,         (* upstream_state: opened, index + 1 ...  *)
           counted : Nat]         (* ... and bytes_sent                     *)

NoStream == [state |-> "none", closed |-> FALSE, delayed |-> FALSE, target |-> "ip", got |-> 0,
             acc |-> 0, seen |-> FALSE, query |-> FALSE, net |-> "none", timer |-> FALSE,
             posted |-> FALSE, pend |-> <<>>, up |-> <<>>, replies |-> 0, synack |-> "no",
             queued |-> 0, rec |-> 0, counted |-> 0]

\* a record, with the bytes that really went to its upstream
Record == [sent : Nat, final : BOOLEAN, wrote : Nat]

Init ==
    /\ open = TRUE /\ settings = FALSE /\ version = 1
    /\ st = [id \in Ids |-> NoStream] /\ log = <<>> /\ opens = 0
    /\ maxStreams \in Limits

(***************************************************************************)
(* The operations on a stream map x, a stream f with the log, to what they *)
(* may leave behind and their result.                                      *)
(***************************************************************************)

Returns(f, l, rc) == [f |-> f, log |-> l, rc |-> rc]

\* ngx_anytls_upstream_state_open
StateOpen(x) ==
    IF x.f.rec > 0 THEN x
    ELSE [x EXCEPT !.log = Append(@, [sent |-> 0, final |-> FALSE, wrote |-> 0]),
                   !.f.rec = Len(x.log) + 1]

\* ngx_anytls_upstream_state_finalize
StateFinalize(x) ==
    IF x.f.rec = 0 \/ x.log[x.f.rec].final THEN x
    ELSE [x EXCEPT !.log[x.f.rec].sent = x.f.counted, !.log[x.f.rec].final = TRUE]

\* mutant of SendSynack: every answer is sent
SendSynackAgain(f, answer) ==
    [f EXCEPT !.synack = answer, !.queued = @ + (IF version < 2 THEN 0 ELSE 1)]

\* ngx_anytls_client_mux_send_synack
SendSynack(f, answer) ==
    IF f.synack # "no" THEN f
    ELSE [f EXCEPT !.synack = answer, !.queued = @ + (IF version < 2 THEN 0 ELSE 1)]

\* everything a closed stream gives back: resolver_cancel, transport_close,
\* discard_pending
Release(f) ==
    [f EXCEPT !.closed = TRUE, !.query = FALSE, !.net = "none", !.timer = FALSE,
              !.posted = FALSE, !.pend = <<>>]

\* mutant of StreamClose: a close that is delayed leaves the record open
StreamCloseUnrecorded(x) ==
    IF x.f.queued > 0
    THEN [x EXCEPT !.f = [Release(x.f) EXCEPT !.state = "closing", !.delayed = TRUE]]
    ELSE [StateFinalize(x) EXCEPT !.f = NoStream]

\* ngx_anytls_stream_close: frames that are queued delay the end of it
StreamClose(x) ==
    LET y == StateFinalize(x)
    IN  IF x.f.queued > 0
        THEN [y EXCEPT !.f = [Release(x.f) EXCEPT !.state = "closing", !.delayed = TRUE]]
        ELSE [y EXCEPT !.f = NoStream]

\* the upstream takes n bytes of what waits
Take(x, n) ==
    [x EXCEPT !.f.up = @ \o SubSeq(x.f.pend, 1, n),
              !.f.pend = SubSeq(x.f.pend, n + 1, Len(x.f.pend)),
              !.f.counted = @ + n, !.log[x.f.rec].wrote = @ + n]

\* ngx_anytls_upstream_send_pending: a socket that is not connected yet takes
\* nothing, one that has failed returns an error
SendPending(x) ==
    IF x.f.net = "err" /\ x.f.pend # <<>> THEN {[x EXCEPT !.rc = "error"]}
    ELSE {Take(x, n) : n \in {m \in 0 .. Len(x.f.pend) : x.f.net = "up" \/ m = 0}}

\* ngx_anytls_upstream_mux_on_connect_ready
ConnectReady(x) ==
    [x EXCEPT !.f = [SendSynack(x.f, "ok") EXCEPT !.state = "connected", !.timer = FALSE,
                                                  !.posted = FALSE]]

\* mutant of Connecting: no connect timer
ConnectingUntimed(f) == [f EXCEPT !.net = "syn", !.state = "connecting"]

\* on_connect_pending, and the timer
Connecting(f) == [f EXCEPT !.net = "syn", !.state = "connecting", !.timer = TRUE]

\* ngx_anytls_upstream_open_resolved: the connect fails, is there at once, or is
\* under way
OpenResolved(x) ==
    LET y == StateOpen(x)
    IN  {[y EXCEPT !.rc = "error"], [y EXCEPT !.f = Connecting(y.f)]}
        \cup SendPending(ConnectReady([y EXCEPT !.f.net = "up"]))

\* mutant of Resolved: resolver_pending is left set
ResolvedStillPending(x) ==
    {IF y.rc = "error" THEN [StreamClose(y) EXCEPT !.rc = "ok"] ELSE y : y \in OpenResolved(x)}

\* ngx_anytls_resolve_handler and the events it raises
Resolved(x) ==
    {IF y.rc = "error" THEN [StreamClose(y) EXCEPT !.rc = "ok"] ELSE y :
        y \in OpenResolved([x EXCEPT !.f.query = FALSE])}
ResolveFailed(x) ==
    {StreamClose([x EXCEPT !.f = SendSynack([x.f EXCEPT !.query = FALSE], "error")])}

\* upstream_open after NGX_AGAIN: the state is set whatever the handler did, if
\* the resolver called it at once
SetConnecting(x) == IF x.f.state = "none" THEN x ELSE [x EXCEPT !.f.state = "connecting"]

\* ngx_anytls_upstream_open, ngx_anytls_resolve_addr
UpstreamOpen(x) ==
    IF x.f.target = "ip" THEN OpenResolved(x)
    ELSE {[x EXCEPT !.rc = "error"], SetConnecting([x EXCEPT !.f.query = TRUE])}
         \cup {SetConnecting(y) : y \in Resolved(x) \cup ResolveFailed(x)}
         \cup OpenResolved(x)
-----------------------------------------------------------------------------
\* Stream id and the log become x.
Becomes(id, x) ==
    /\ st' = [st EXCEPT ![id] = x.f] /\ log' = x.log
    /\ UNCHANGED <<open, settings, version, opens, maxStreams>>

\* ngx_anytls_finalize: every stream is closed, whatever it has queued
CloseAll(s, l) ==
    [r \in 1 .. Len(l) |->
        IF l[r].final THEN l[r]
        ELSE LET id == CHOOSE i \in Ids : s[i].rec = r
             IN  [l[r] EXCEPT !.final = TRUE, !.sent = s[id].counted]]

SessionEnds(s, l) ==
    /\ open' = FALSE /\ st' = [id \in Ids |-> NoStream] /\ log' = CloseAll(s, l)
    /\ UNCHANGED <<settings, version, opens, maxStreams>>

\* the result of an action on a frame: an error ends the session
ActionResult(id, x) ==
    IF x.rc = "ok" THEN Becomes(id, x) ELSE SessionEnds([st EXCEPT ![id] = x.f], x.log)

This(id) == Returns(st[id], log, "ok")

\* ngx_anytls_stream_find
Found(id) == st[id].state # "none" /\ ~st[id].closed

(***************************************************************************)
(* Frames of the client                                                    *)
(***************************************************************************)

Settings(v) ==
    /\ open /\ (~settings \/ version # v)
    /\ settings' = TRUE /\ version' = v
    /\ UNCHANGED <<open, st, log, opens, maxStreams>>

\* active_streams: the streams in the table, the ones with a delayed close too
Active == Cardinality({id \in Ids : st[id].state # "none"})

\* mutant of HasRoom: one stream too many
HasRoomForOneMore == Active <= maxStreams

HasRoom == Active < maxStreams

\* ngx_anytls_stream_create_if_absent: a SYN for an id that is in the table, even
\* if its stream is closed, changes nothing; one too many ends the session
Syn(id) ==
    /\ open /\ settings /\ st[id].state = "none"
    /\ \/ ~HasRoom /\ SessionEnds(st, log)
       \/ /\ HasRoom /\ opens < MaxOpens
          /\ st' = [st EXCEPT ![id] = [NoStream EXCEPT !.state = "init"]]
          /\ opens' = opens + 1 /\ UNCHANGED <<open, settings, version, log, maxStreams>>

\* mutant of FirstPayload: the address is skipped in the frame as a whole
FirstPayloadConsumed(f, n) ==
    [k \in 1 .. n - AddrLen[f.target] |-> f.got + AddrLen[f.target] + k]

\* the bytes behind the address in a frame of n bytes that completes it
FirstPayload(f, n) ==
    LET from == IF AddrLen[f.target] > f.acc THEN AddrLen[f.target] - f.acc ELSE 0
    IN  [k \in 1 .. n - from |-> f.got + from + k]

\* the bytes the parser gets: the frame itself, or what was collected and as much
\* of the frame as the buffer takes
Collected(f, n) ==
    IF f.acc = 0 THEN n ELSE f.acc + (IF n < MaxAddr - f.acc THEN n ELSE MaxAddr - f.acc)

\* FORWARD_CLIENT_PAYLOAD until the address is there.  (A buffer that is full of a
\* part of an address is an error; no address is that long.)
FirstPsh(id, n) ==
    /\ open /\ Found(id) /\ ~st[id].seen /\ st[id].got + n <= MaxBytes
    /\ \E t \in IF st[id].acc = 0 THEN Targets ELSE {st[id].target} :
         LET f == [st[id] EXCEPT !.target = t]
             len == Collected(f, n)
         IN  \/ t = "bad" /\ SessionEnds(st, log)
             \/ /\ t # "bad" /\ len < AddrLen[t]
                /\ Becomes(id, Returns([f EXCEPT !.acc = len, !.got = @ + n], log, "ok"))
             \/ /\ t # "bad" /\ len >= AddrLen[t]
                /\ \E x \in UpstreamOpen(Returns([f EXCEPT !.seen = TRUE, !.acc = 0, !.got = @ + n,
                                                           !.pend = FirstPayload(f, n)], log, "ok")) :
                     ActionResult(id, x)

\* ngx_anytls_upstream_queue: queued, and the write event posted, or sent at once
\* behind what waits; nothing is tried on a socket known not to be writable
Queue(x) ==
    IF x.f.state # "connected" \/ x.f.net = "none"
    THEN {[x EXCEPT !.f.posted = x.f.net # "none"]}
    ELSE {x} \cup SendPending(x)

Psh(id, n) ==
    /\ open /\ Found(id) /\ st[id].seen /\ st[id].got + n <= MaxBytes
    /\ \E x \in Queue(Returns([st[id] EXCEPT !.got = @ + n,
                                             !.pend = @ \o [k \in 1 .. n |-> st[id].got + k]],
                              log, "ok")) :
         ActionResult(id, x)

\* ngx_anytls_upstream_mux_handle_client_fin
Fin(id) ==
    /\ open /\ Found(id)
    /\ LET x == [This(id) EXCEPT !.f.closed = TRUE]
       IN  IF x.f.net # "none" /\ x.f.state = "connected"
           THEN \E y \in SendPending(x) :
                  Becomes(id, IF y.rc = "error" THEN StreamClose(y)
                              ELSE [y EXCEPT !.f.state = "half_closed"])
           ELSE Becomes(id, StreamClose(x))

(***************************************************************************)
(* Events of the resolver, the upstreams and the timers                    *)
(***************************************************************************)

Answer(id) ==
    /\ open /\ st[id].query
    /\ \E x \in Resolved(This(id)) \cup ResolveFailed(This(id)) : Becomes(id, x)

Net(id, n) ==
    /\ open /\ st' = [st EXCEPT ![id].net = n]
    /\ UNCHANGED <<open, settings, version, log, opens, maxStreams>>

Established(id) == st[id].net = "syn" /\ Net(id, "up")
NetError(id) == st[id].net \in {"syn", "up"} /\ Net(id, "err")

\* ngx_anytls_upstream_write_handler while connecting: SO_ERROR is looked at, not
\* whether the connect has ended
ConnectEvent(id) ==
    /\ open /\ st[id].state = "connecting" /\ (st[id].net \in {"up", "err"} \/ st[id].posted)
    /\ IF st[id].net = "err"
       THEN Becomes(id, StreamClose([This(id) EXCEPT !.f = SendSynack(@, "error")]))
       ELSE \E x \in SendPending(ConnectReady(This(id))) :
              Becomes(id, IF x.rc = "error" THEN StreamClose(x) ELSE x)

ConnectTimeout(id) ==
    /\ open /\ st[id].timer /\ st[id].state = "connecting"
    /\ Becomes(id, StreamClose([This(id) EXCEPT !.f = SendSynack(@, "error")]))

IsOpen(id) == open /\ st[id].state \in {"connected", "half_closed"} /\ st[id].net # "none"

\* drain_writes
WriteEvent(id) ==
    /\ IsOpen(id) /\ st[id].pend # <<>>
    /\ \E x \in SendPending(This(id)) : Becomes(id, IF x.rc = "error" THEN StreamClose(x) ELSE x)

\* drain_reads: data, end of file, an error
UpstreamData(id) ==
    /\ IsOpen(id) /\ st[id].net = "up" /\ st[id].replies < MaxReplies
    /\ Becomes(id, [This(id) EXCEPT !.f.replies = @ + 1, !.f.queued = @ + 1])

\* ngx_anytls_stream_send_fin_and_close
UpstreamEof(id) ==
    /\ IsOpen(id) /\ st[id].net = "up"
    /\ Becomes(id, StreamClose([This(id) EXCEPT !.f.queued = @ + 1]))

UpstreamError(id) ==
    /\ IsOpen(id) /\ st[id].net = "err"
    /\ Becomes(id, StreamClose(This(id)))

\* A frame of the stream has left: the last one ends a delayed close.
FrameSent(id) ==
    /\ open /\ st[id].queued > 0
    /\ LET x == [This(id) EXCEPT !.f.queued = @ - 1]
       IN  Becomes(id, IF x.f.delayed /\ x.f.queued = 0 THEN StreamClose(x) ELSE x)

\* What ends a session at any time: an alert of the client or its end, SYN before
\* SETTINGS or with id 0, a write error.
ClientGone == open /\ SessionEnds(st, log)

StreamStep(id) ==
    \/ Syn(id) \/ Fin(id)
    \/ \E n \in 1 .. MaxBytes : FirstPsh(id, n) \/ Psh(id, n)
    \/ Answer(id) \/ Established(id) \/ NetError(id) \/ ConnectEvent(id) \/ ConnectTimeout(id)
    \/ WriteEvent(id) \/ UpstreamData(id) \/ UpstreamEof(id) \/ UpstreamError(id)
    \/ FrameSent(id)

Next == (\E v \in Versions : Settings(v)) \/ (\E id \in Ids : StreamStep(id)) \/ ClientGone

Spec == Init /\ [][Next]_vars

\* The resolver answers, with an error when its own timeout is over, and a timer
\* that is set fires; nothing is assumed of the upstream and of the client.
FairSpec == Spec /\ \A id \in Ids : WF_vars(Answer(id)) /\ WF_vars(ConnectTimeout(id))
-----------------------------------------------------------------------------

\* The variables have their types, no more of an address is kept than a part of
\* it, and the table has no more streams than max_streams.
TypeOK ==
    /\ open \in BOOLEAN /\ settings \in BOOLEAN /\ version \in {1} \cup Versions
    /\ st \in [Ids -> Stream] /\ log \in Seq(Record) /\ opens \in 0 .. MaxOpens
    /\ \A id \in Ids : st[id].acc < MaxAddr
    /\ maxStreams \in Limits /\ Active <= maxStreams

\* What the upstream of a stream gets, and what waits for it, is all the client
\* has sent behind the address and nothing else, in order: however the address
\* and the payload were cut into PSH frames (the first PSH of
\* ngx_anytls_session_actions_run), and whether the payload came before, during
\* or after the resolution and the connect.
PayloadAfterAddress ==
    \A id \in Ids :
        LET f == st[id]
            from == AddrLen[f.target]
        IN  f.seen /\ ~f.delayed =>
              f.up \o f.pend = [k \in 1 .. f.got - from |-> from + k]

\* The log is right (ngx_anytls_upstream_state_finalize): a record that is final
\* says how many bytes its upstream was really sent, one that is not is that of
\* exactly one stream that is still in use, and a stream that is closed, or a
\* session that has ended, leaves none behind that is not.
RecordsExact ==
    \A r \in 1 .. Len(log) :
        IF log[r].final THEN log[r].sent = log[r].wrote
        ELSE open /\ Cardinality({id \in Ids : st[id].rec = r /\ ~st[id].delayed}) = 1

\* A stream that was not answered yet waits for the resolver or for a connect
\* with a timer, never for both or for nothing; a stream whose close waits for
\* its frames holds no query, socket, timer or payload, and a timer is set only
\* while connecting.  (The answer of the resolver may come inside
\* ngx_anytls_upstream_open, which then sets the state again.)
OpeningHeld ==
    \A id \in Ids :
        LET f == st[id]
        IN  /\ f.state = "connecting" /\ f.synack = "no" => (f.query # (f.net # "none" /\ f.timer))
            /\ f.query => f.net = "none"
            /\ f.timer => f.state = "connecting" /\ f.net # "none"
            /\ f.delayed => ~f.query /\ ~f.timer /\ f.net = "none" /\ f.pend = <<>>

\* A stream is answered once: no step changes the answer it was given, though a
\* connect can be found ready twice (ngx_anytls_client_mux_send_synack).
AnsweredOnce ==
    [][\A id \in Ids : st[id].synack # "no" =>
          st'[id].state = "none" \/
          (st'[id].synack = st[id].synack /\ st'[id].queued <= st[id].queued + 1
           /\ (st'[id].queued > st[id].queued =>
                  st'[id].replies > st[id].replies \/ st'[id].state = "closing"))]_vars

\* A stream whose address is complete is answered, or it or the session ends,
\* whatever the resolver, the upstream and the client do.
OpeningEnds ==
    \A id \in Ids :
        (st[id].seen /\ st[id].synack = "no")
          ~> (~open \/ st[id].state = "none" \/ st[id].synack # "no")
=============================================================================
