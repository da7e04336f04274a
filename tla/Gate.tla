-------------------------------- MODULE Gate --------------------------------
(***************************************************************************)
(* A client connection from accept until it is a session, a relay to the   *)
(* fallback, or closed.  Plaintext on a TLS port is answered before the    *)
(* handshake (RejectHttp), the first bytes inside TLS authenticate the     *)
(* client (Auth), and a client that does not authenticate is relayed to    *)
(* the fallback, starting with the bytes that were read (Relay).           *)
(*                                                                         *)
(* The read loops are sequences of steps; no other handler runs while pc   *)
(* is not "idle", but bytes may arrive.                                    *)
(***************************************************************************)
EXTENDS Auth, RejectHttp, Relay

CONSTANTS
  Listeners,     (* configurations: see Listener                            *)
  Requests,      (* plaintext requests a client may send to a TLS port      *)
  ReadSize,      (* read_buf_size                                           *)
  ReadLoops,     (* the read budgets, in loops                              *)
  MaxSent        (* bounds: bytes the client and the fallback send          *)

Listener == [ssl      : BOOLEAN,    (* listen ... ssl                       *)
             reject   : BOOLEAN,    (* anytls_reject_plain_http             *)
             fallback : BOOLEAN,    (* anytls_fallback is configured        *)
             proxy    : BOOLEAN]    (* anytls_fallback_proxy_protocol       *)

\* A read that completes the prefix fits behind what was collected before: true
\* of the code for an anytls_buffer_size of up to 65536, the default included.
ASSUME GateAssumption ==
    /\ Listeners \subseteq Listener /\ Requests \subseteq Request
    /\ ReadSize \in 1 .. MaxPadding + 1 /\ ReadLoops \in Nat \ {0}
    /\ MaxSent \in [Sides -> Nat]

VARIABLES
  conf,       (* the configuration of the server                            *)
  who,        (* the client: a user with some padding, a stranger, or http  *)
  phase,      (* "peek", "tls", "auth", "session", "fallback", "closed"     *)
  sk,         (* the sockets                                                *)
  authLen,    (* auth_len                                                   *)
  frames,     (* number of the byte the frame parser starts with, or 0      *)
  answer,     (* the page that was sent                                     *)
  connected,  (* fallback_connected                                         *)
  replay,     (* fallback_replay                                            *)
  buf,        (* fallback_client_buf and fallback_upstream_buf              *)
  ended,      (* the side whose end of file closed the relay, or "none"     *)
  pc,         (* "idle", or the read loop that runs                         *)
  loops       (* read_loops                                                 *)

gate == <<conf, who>>
relay == <<connected, replay, buf>>
vars == <<gate, phase, sk, authLen, frames, answer, relay, ended, pc, loops>>

Client == [kind : {"user", "stranger", "http"}, padding : 0 .. MaxPadding, req : Requests]

FirstPhase(c) == IF ~c.ssl THEN "auth" ELSE IF c.reject THEN "peek" ELSE "tls"

\* The session handler runs when the connection is accepted; connection_init sets
\* the handshake timer and calls the read handler.
Init ==
    /\ conf \in Listeners /\ who \in Client
    /\ IF who.kind = "http" THEN conf.ssl ELSE who.req = CHOOSE r \in Requests : TRUE
    /\ who.kind # "user" => who.padding = 0
    /\ phase = FirstPhase(conf)
    /\ sk = [client   |-> [NoSocket EXCEPT !.net = "up", !.wready = TRUE, !.rposted = TRUE,
                                           !.timer = phase = "auth"],
             fallback |-> NoSocket]
    /\ authLen = 0 /\ frames = 0 /\ answer = "none" /\ ended = "none"
    /\ connected = FALSE /\ replay = <<>> /\ buf = [x \in Sides |-> <<>>]
    /\ pc = "idle" /\ loops = 0

Idle == pc = "idle" /\ phase # "closed"

\* ngx_anytls_finalize, ngx_stream_finalize_session: every event goes away
Quiet(k) == [k EXCEPT !.edge = FALSE, !.ract = FALSE, !.rready = FALSE, !.rposted = FALSE,
                      !.wact = FALSE, !.wready = FALSE, !.wposted = FALSE, !.timer = FALSE]

Finalize(s) ==
    /\ phase' = "closed" /\ pc' = "idle" /\ loops' = 0
    /\ sk' = [x \in Sides |-> Quiet(s[x])]

\* mutant of MoreLoops: one read too many
MoreLoopsOne == loops <= ReadLoops

\* the budget of a read loop is not spent
MoreLoops == loops < ReadLoops

(***************************************************************************)
(* The peers and the kernel                                                *)
(***************************************************************************)

\* How much side x has to say.  A client that peeks are made at sends its request
\* in stages or its ClientHello.
MaySend(x) ==
    LET k == sk[x]
    IN  CASE x = "client" /\ phase \in {"peek", "tls"} ->
                  k.sent < IF who.kind = "http" THEN Whole ELSE 1
          [] x = "client" /\ phase \notin {"peek", "tls"} -> k.sent < MaxSent[x] /\ who.kind # "http"
          [] x = "fallback" -> k.sent < MaxSent[x]

PeerSends(x) ==
    /\ phase \notin {"closed", "session"} /\ sk[x].net = "up" /\ ~sk[x].eof /\ MaySend(x)
    /\ sk' = [sk EXCEPT ![x].sent = @ + 1, ![x].edge = @ \/ sk[x].ract]
    /\ UNCHANGED <<gate, phase, authLen, frames, answer, relay, ended, pc, loops>>

PeerEnds(x) ==
    /\ phase \notin {"closed", "session"} /\ sk[x].net = "up" /\ ~sk[x].eof
    /\ sk' = [sk EXCEPT ![x].eof = TRUE, ![x].edge = @ \/ sk[x].ract]
    /\ UNCHANGED <<gate, phase, authLen, frames, answer, relay, ended, pc, loops>>

\* The peer takes what it was sent: there is room again.
PeerReads(x) ==
    /\ phase = "fallback" /\ sk[x].full
    /\ sk' = [sk EXCEPT ![x].full = FALSE, ![x].edge = @ \/ sk[x].wact]
    /\ UNCHANGED <<gate, phase, authLen, frames, answer, relay, ended, pc, loops>>

\* The connect to the fallback ends.
ConnectEnds ==
    /\ phase = "fallback" /\ sk["fallback"].net = "syn"
    /\ \E n \in {"up", "err"} : sk' = [sk EXCEPT !["fallback"].net = n, !["fallback"].edge = TRUE]
    /\ UNCHANGED <<gate, phase, authLen, frames, answer, relay, ended, pc, loops>>

EpollReport(x) ==
    /\ Idle /\ phase # "session" /\ sk[x].edge /\ Reports(sk[x])
    /\ ~sk[x].rposted /\ ~sk[x].wposted
    /\ sk' = [sk EXCEPT ![x] = Report(@)]
    /\ UNCHANGED <<gate, phase, authLen, frames, answer, relay, ended, pc, loops>>

(***************************************************************************)
(* ngx_anytls_reject_plain_http_handler, in the SSL phase                  *)
(***************************************************************************)

\* mutant of Wait: the timer is set on the first call only
WaitUntimed(k) == ArmRead([k EXCEPT !.rposted = FALSE, !.rready = FALSE])

\* Not enough to decide: wait for more, but not for ever.
Wait(k) == ArmRead([k EXCEPT !.rposted = FALSE, !.rready = FALSE, !.timer = TRUE])

PeekHandler ==
    /\ Idle /\ phase = "peek" /\ sk["client"].rposted
    /\ LET k == sk["client"]
           verdict == IF k.sent = 0 THEN "again"
                      ELSE IF who.kind # "http" THEN "tls"
                      ELSE IsHttp(who.req, Seen(who.req, k.sent))
       IN  \/ /\ verdict = "again" /\ ~(k.sent = 0 /\ k.eof)
              /\ sk' = [sk EXCEPT !["client"] = Wait(@)]
              /\ UNCHANGED <<phase, pc, loops, answer>>
           \/ /\ k.sent = 0 /\ k.eof
              /\ Finalize(sk) /\ UNCHANGED answer
           \/ /\ verdict = "tls"
              /\ phase' = "tls"
              /\ sk' = [sk EXCEPT !["client"].timer = FALSE, !["client"].rposted = FALSE]
              /\ UNCHANGED <<pc, loops, answer>>
           \/ /\ verdict \notin {"again", "tls"}
              /\ answer' = verdict /\ Finalize(sk)
    /\ UNCHANGED <<gate, authLen, frames, relay, ended>>

PeekTimeout ==
    /\ Idle /\ phase = "peek" /\ sk["client"].timer
    /\ Finalize(sk)
    /\ UNCHANGED <<gate, authLen, frames, answer, relay, ended>>

\* The handshake, external: it needs a ClientHello, is bounded by a timer of its
\* own, and leaves the read event registered.
TlsEnds ==
    /\ Idle /\ phase = "tls"
    /\ \/ /\ who.kind # "http" /\ sk["client"].sent = 1 /\ ~sk["client"].eof
          /\ phase' = "auth"
          /\ sk' = [sk EXCEPT !["client"] = [@ EXCEPT !.sent = 0, !.ract = TRUE, !.rready = TRUE,
                                                      !.edge = FALSE, !.rposted = TRUE,
                                                      !.timer = TRUE]]
          /\ UNCHANGED <<pc, loops>>
       \/ Finalize(sk)
    /\ UNCHANGED <<gate, authLen, frames, answer, relay, ended>>

(***************************************************************************)
(* ngx_anytls_client_read_handler while the client is not authenticated    *)
(***************************************************************************)

AuthEvent ==
    /\ Idle /\ phase = "auth" /\ sk["client"].rposted
    /\ sk' = [sk EXCEPT !["client"].rposted = FALSE]
    /\ pc' = "auth" /\ loops' = 0
    /\ UNCHANGED <<gate, phase, authLen, frames, answer, relay, ended>>

\* the handler is called with read->timedout
AuthTimeout ==
    /\ Idle /\ phase = "auth" /\ sk["client"].timer
    /\ Finalize(sk)
    /\ UNCHANGED <<gate, authLen, frames, answer, relay, ended>>

\* What is replayed: the bytes collected by Auth, behind a header if it is
\* configured and can be built.
Collected(n) == [m \in 1 .. n |-> m]
Replays(n) == {Collected(n)} \cup (IF conf.proxy THEN {<<0>> \o Collected(n)} ELSE {})

\* ngx_event_connect_peer: both events are registered; the connection is under
\* way, or there at once.
Connecting == [NoSocket EXCEPT !.net = "syn", !.ract = TRUE, !.wact = TRUE, !.timer = TRUE]
ConnectedAtOnce == [NoSocket EXCEPT !.net = "up", !.ract = TRUE, !.wact = TRUE,
                                    !.wready = TRUE, !.edge = TRUE]

\* ngx_anytls_fallback_start: an address that cannot be used or a connect that
\* fails at once ends the connection; otherwise the write handler is posted.
FallbackStart(s, n) ==
    \/ /\ \E k \in {Connecting, ConnectedAtOnce} :
             /\ sk' = [s EXCEPT !["fallback"] = [k EXCEPT !.wposted = TRUE]]
             /\ connected' = (k.net = "up")
       /\ replay' \in Replays(n)
       /\ phase' = "fallback" /\ pc' = "idle" /\ loops' = 0 /\ UNCHANGED buf
    \/ Finalize(s) /\ UNCHANGED relay

\* the auth phase is over: drop the handshake timer
AuthOver(s) == [s EXCEPT !["client"].timer = FALSE]

\* One read and what auth_process makes of it.
AuthBytes ==
    /\ pc = "auth" /\ Avail(sk["client"]) > 0 /\ MoreLoops
    /\ LET k == Recv(sk["client"], ReadSize)
           s == [sk EXCEPT !["client"] = k]
           r == AuthProcess(authLen, k.read - sk["client"].read, who.kind = "user", who.padding)
       IN  /\ authLen' = r.len
           /\ \/ /\ r.result = "more"
                 /\ sk' = s /\ loops' = loops + 1
                 /\ UNCHANGED <<phase, frames, answer, relay, pc>>
              \/ /\ r.result = "ok"
                 /\ phase' = "session" /\ frames' = sk["client"].read + r.consumed + 1
                 /\ sk' = AuthOver(s) /\ pc' = "idle" /\ loops' = 0
                 /\ UNCHANGED <<answer, relay>>
              \/ /\ r.result = "fallback" /\ conf.fallback
                 /\ FallbackStart(AuthOver(s), r.len)
                 /\ UNCHANGED <<frames, answer>>
              \/ /\ r.result = "fallback" /\ ~conf.fallback
                 /\ answer' = "400" /\ Finalize(s)
                 /\ UNCHANGED <<frames, relay>>
    /\ UNCHANGED <<gate, ended>>

\* Nothing more to read, or the budget of the loop.
AuthDone ==
    /\ pc = "auth"
    /\ LET k == sk["client"]
       IN  \/ /\ Avail(k) = 0 /\ MoreLoops /\ k.eof /\ Finalize(sk)
           \/ /\ Avail(k) = 0 /\ MoreLoops /\ ~k.eof
              /\ sk' = [sk EXCEPT !["client"] = ArmRead([@ EXCEPT !.rready = FALSE])]
              /\ pc' = "idle" /\ loops' = 0 /\ UNCHANGED phase
           \/ /\ ~MoreLoops
              /\ sk' = [sk EXCEPT !["client"] = [ArmRead(@) EXCEPT !.rposted = TRUE]]
              /\ pc' = "idle" /\ loops' = 0 /\ UNCHANGED phase
    /\ UNCHANGED <<gate, authLen, frames, answer, relay, ended>>

(***************************************************************************)
(* ngx_anytls_fallback_read: from side x to the other                      *)
(***************************************************************************)

\* Flush what was read from x to socket k of the other side.
Flushed(x, s, b, r) ==
    /\ buf' = [buf EXCEPT ![x] = r.left]
    /\ sk' = [s EXCEPT ![Other(x)] = r.sk]

\* The client waits for the replay, and either side for what it sent before.
ReadBegins(x) ==
    LET s == [sk EXCEPT ![x].rposted = FALSE]
    IN  \/ /\ x = "client" /\ replay # <<>>
           /\ sk' = [s EXCEPT !["fallback"] = ArmWrite(@)]
           /\ UNCHANGED <<phase, buf, pc, loops>>
        \/ /\ (x = "client" => replay = <<>>) /\ buf[x] # <<>>
           /\ \E r \in FlushBuf(s[Other(x)], buf[x]) :
                IF r.rc = "error" THEN Finalize(s) /\ UNCHANGED buf
                ELSE Flushed(x, s, buf[x], r) /\ UNCHANGED <<phase, pc, loops>>
        \/ /\ (x = "client" => replay = <<>>) /\ buf[x] = <<>>
           /\ sk' = s /\ pc' = x /\ loops' = 0 /\ UNCHANGED <<phase, buf>>

FallbackReadEvent(x) ==
    /\ Idle /\ phase = "fallback" /\ sk[x].rposted
    /\ ReadBegins(x)
    /\ UNCHANGED <<gate, authLen, frames, answer, connected, replay, ended>>

\* One read and its flush; a flush that is not complete ends the loop.
FallbackBytes(x) ==
    /\ pc = x /\ Avail(sk[x]) > 0 /\ MoreLoops
    /\ LET k == Recv(sk[x], BufferSize)
           s == [sk EXCEPT ![x] = k]
           b == Between(sk[x], k)
       IN  \E r \in FlushBuf(s[Other(x)], b) :
             \/ r.rc = "error" /\ Finalize(s) /\ UNCHANGED buf
             \/ /\ r.rc # "error" /\ Flushed(x, s, b, r)
                /\ IF r.rc = "ok" THEN loops' = loops + 1 /\ UNCHANGED pc
                   ELSE loops' = 0 /\ pc' = "idle"
                /\ UNCHANGED phase
    /\ UNCHANGED <<gate, authLen, frames, answer, connected, replay, ended>>

FallbackReadDone(x) ==
    /\ pc = x
    /\ LET k == sk[x]
       IN  \/ /\ Avail(k) = 0 /\ MoreLoops /\ (k.eof \/ k.net = "err")
              /\ Finalize(sk) /\ ended' = x
           \/ /\ Avail(k) = 0 /\ MoreLoops /\ ~(k.eof \/ k.net = "err")
              /\ sk' = [sk EXCEPT ![x] = ArmRead([@ EXCEPT !.rready = FALSE])]
              /\ pc' = "idle" /\ loops' = 0 /\ UNCHANGED <<phase, ended>>
           \/ /\ ~MoreLoops
              /\ sk' = [sk EXCEPT ![x] = [ArmRead(@) EXCEPT !.rposted = TRUE]]
              /\ pc' = "idle" /\ loops' = 0 /\ UNCHANGED <<phase, ended>>
    /\ UNCHANGED <<gate, authLen, frames, answer, relay>>

(***************************************************************************)
(* ngx_anytls_fallback_write                                               *)
(***************************************************************************)

WriteDue(x) == Idle /\ phase = "fallback" /\ sk[x].wposted /\ ~sk[x].rposted

\* The socket is not ready, which a connect under way looks like too.
FallbackNotWritable(x) ==
    /\ WriteDue(x) /\ ~sk[x].wready
    /\ sk' = [sk EXCEPT ![x] = ArmWrite([@ EXCEPT !.wposted = FALSE])]
    /\ UNCHANGED <<gate, phase, authLen, frames, answer, relay, ended, pc, loops>>

ConnectDone(k) == [k EXCEPT !.wposted = FALSE, !.timer = FALSE]

\* The replay goes first, then what was read from the client; then both sides
\* are read.
Replayed(k) ==
    \E r \in FlushBuf(k, replay) :
      \/ /\ r.rc = "error" /\ Finalize(sk) /\ UNCHANGED <<replay, buf>>
      \/ /\ r.rc = "again"
         /\ replay' = r.left /\ sk' = [sk EXCEPT !["fallback"] = r.sk]
         /\ UNCHANGED <<phase, buf, pc, loops>>
      \/ /\ r.rc = "ok"
         /\ replay' = <<>>
         /\ \E q \in FlushBuf(r.sk, buf["client"]) :
              \/ q.rc = "error" /\ Finalize(sk) /\ UNCHANGED buf
              \/ /\ q.rc # "error"
                 /\ buf' = [buf EXCEPT !["client"] = q.left]
                 /\ sk' = IF q.rc = "again" THEN [sk EXCEPT !["fallback"] = q.sk]
                          ELSE [client |-> ArmRead(sk["client"]), fallback |-> ArmRead(q.sk)]
                 /\ UNCHANGED <<phase, pc, loops>>

\* A connect that failed is tested for here too, but epoll reports it to both
\* events and the read handler, which runs first, has closed the connection.
FallbackWrites ==
    /\ WriteDue("fallback") /\ sk["fallback"].wready
    /\ IF ~connected /\ sk["fallback"].net = "err"
       THEN Finalize(sk) /\ UNCHANGED relay
       ELSE connected' = TRUE /\ Replayed(ConnectDone(sk["fallback"]))
    /\ UNCHANGED <<gate, authLen, frames, answer, ended>>

ClientWrites ==
    /\ WriteDue("client") /\ sk["client"].wready
    /\ \E r \in FlushBuf([sk["client"] EXCEPT !.wposted = FALSE], buf["fallback"]) :
         \/ r.rc = "error" /\ Finalize(sk) /\ UNCHANGED buf
         \/ /\ r.rc # "error"
            /\ buf' = [buf EXCEPT !["fallback"] = r.left]
            /\ sk' = [client |-> r.sk,
                      fallback |-> IF r.rc = "ok" THEN ArmRead(sk["fallback"]) ELSE sk["fallback"]]
            /\ UNCHANGED <<phase, pc, loops>>
    /\ UNCHANGED <<gate, authLen, frames, answer, connected, replay, ended>>

\* anytls_fallback_connect_timeout; the write event is posted with timedout set
ConnectTimeout ==
    /\ Idle /\ phase = "fallback" /\ sk["fallback"].timer
    /\ Finalize(sk)
    /\ UNCHANGED <<gate, authLen, frames, answer, relay, ended>>
-----------------------------------------------------------------------------
Handler ==
    \/ PeekHandler \/ AuthEvent \/ FallbackWrites \/ ClientWrites
    \/ \E x \in Sides : FallbackReadEvent(x) \/ FallbackNotWritable(x)

Step == AuthBytes \/ AuthDone \/ \E x \in Sides : FallbackBytes(x) \/ FallbackReadDone(x)

Timeout == PeekTimeout \/ AuthTimeout \/ ConnectTimeout

Next ==
    \/ Handler \/ Step \/ Timeout \/ TlsEnds \/ ConnectEnds
    \/ \E x \in Sides : PeerSends(x) \/ PeerEnds(x) \/ PeerReads(x) \/ EpollReport(x)

Spec == Init /\ [][Next]_vars

\* The worker finishes its handlers and looks at its events and timers again and
\* again; the handshake ends, and the peers of a relay read.
FairSpec ==
    /\ Spec /\ WF_vars(Handler \/ Step \/ TlsEnds) /\ SF_vars(Timeout)
    /\ SF_vars(\E x \in Sides : EpollReport(x)) /\ WF_vars(\E x \in Sides : PeerReads(x))
-----------------------------------------------------------------------------
\* The types; a read loop stays within its budget.
TypeOK ==
    /\ conf \in Listeners /\ who \in Client
    /\ phase \in {"peek", "tls", "auth", "session", "fallback", "closed"}
    /\ sk \in [Sides -> Socket] /\ authLen \in 0 .. AuthMax /\ frames \in Nat
    /\ answer \in {"none", "400", "405", "497"} /\ connected \in BOOLEAN
    /\ replay \in Seq(Nat) /\ buf \in [Sides -> Seq(Nat)] /\ ended \in Sides \cup {"none"}
    /\ pc \in {"idle", "auth"} \cup Sides /\ loops \in 0 .. ReadLoops

\* the same request with nothing wrong in its line
Forgiven(r) == [r EXCEPT !.line = "sound"]

\* ngx_anytls_reject_plain_http.c: however its bytes arrive, a plaintext request
\* with a sound request line gets the answer the http module would give to the
\* whole of it.  For a bad line the answer depends on how the bytes arrive: lines
\* 125-161 find the fault in a part of the line and answer 400, lines 169-197 do not
\* look for it in a complete line, which may get the page of a sound one; no other
\* page.  A client that speaks TLS gets none before it is authenticated.
AnswerAsWhole ==
    answer # "none" =>
        \/ /\ who.kind = "http" /\ phase = "closed"
           /\ \/ answer = HttpsPortAnswer(who.req)
              \/ who.req.line = "bad" /\ answer = HttpsPortAnswer(Forgiven(who.req))
        \/ who.kind = "stranger" /\ ~conf.fallback /\ answer = "400"

\* ngx_anytls_process_client_bytes: a session starts with the byte behind the
\* padding, whatever the pieces the handshake came in; and no timer of the
\* phases before survives into a session or a relay.
HandsOverClean ==
    /\ phase = "session" => /\ who.kind = "user" /\ frames = PrefixLen + who.padding + 1
                            /\ frames <= sk["client"].read + 1
    /\ phase \in {"session", "fallback"} => ~sk["client"].timer
    /\ phase = "fallback" => sk["fallback"].timer = ~connected

\* the bytes numbered 1 to n, behind the header if there was one
InOrder(b, n) == b = Collected(n) \/ (conf.proxy /\ b = <<0>> \o Collected(n))

\* ngx_anytls_fallback.c: what was read of the client is with the fallback or
\* waits for it, in order and once, starting with the bytes authentication had
\* collected; what was read of the fallback likewise.  A relay that ends with the
\* fallback's end of file has delivered all the fallback sent.
RelayExact ==
    /\ phase = "fallback" =>
         /\ InOrder(sk["fallback"].got \o replay \o buf["client"], sk["client"].read)
         /\ sk["client"].got \o buf["fallback"] = Collected(sk["fallback"].read)
    /\ ended = "fallback" /\ sk["fallback"].net = "up" =>
         sk["client"].got = Collected(sk["fallback"].sent)

\* anytls_handshake_timeout and its neighbours: every connection becomes a
\* session or a relay or is closed, whatever the client does or leaves undone.
GateEnds == phase \in {"peek", "tls", "auth"} ~> phase \in {"session", "fallback", "closed"}

\* what was read of x and not sent
Waiting(x) == IF x = "client" THEN replay \o buf[x] ELSE buf[x]

\* ngx_anytls_fallback_flush_buf arms the write event or posts it: what waits in a
\* buffer is sent as long as the peers read, the replay included, whose connect
\* ends by itself or by its timer.
BufferedIsSent ==
    \A x \in Sides :
      (phase = "fallback" /\ Waiting(x) # <<>>) ~> (phase = "closed" \/ Waiting(x) = <<>>)

\* tests/nginx/fallback_large_relay.t:61, "auth failure fallback relays a large
\* payload without truncation": what either side sends reaches the other, unless
\* the relay ends.
RelayComplete ==
    \A x \in Sides : (phase = "fallback" /\ Avail(sk[x]) > 0) ~> (phase = "closed" \/ Avail(sk[x]) = 0)
=============================================================================
