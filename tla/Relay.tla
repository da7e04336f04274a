------------------------------- MODULE Relay --------------------------------
(***************************************************************************)
(* The two sockets of a connection that falls back, the client's and the   *)
(* fallback's, their epoll entries as nginx drives them, and the buffered  *)
(* writes of ngx_anytls_fallback.c.  Every registration is edge triggered: *)
(* an entry is reported when something happens, and then with all that is  *)
(* true of it.                                                             *)
(*                                                                         *)
(* Bytes are numbered per direction, from 1; 0 stands for the header of    *)
(* the PROXY protocol.                                                     *)
(***************************************************************************)
EXTENDS Integers, Sequences, Functions

CONSTANTS BufferSize,    (* anytls_buffer_size                              *)
          WriteBudget    (* NGX_ANYTLS_FALLBACK_WRITE_BUDGET_BYTES          *)

ASSUME RelayAssumption == BufferSize \in Nat \ {0} /\ WriteBudget \in Nat \ {0}

Sides == {"client", "fallback"}
Other(x) == IF x = "client" THEN "fallback" ELSE "client"

Socket == [net     : {"none", "syn", "up", "err"},
           sent    : Nat,        (* bytes the peer sent so far              *)
           read    : Nat,        (* bytes of them that were read            *)
           eof     : BOOLEAN,    (* the peer closed its side                *)
           full    : BOOLEAN,    (* the send buffer is full                 *)
           edge    : BOOLEAN,    (* the epoll entry has something to report *)
           ract    : BOOLEAN,    (* read->active                            *)
           rready  : BOOLEAN,    (* read->ready                             *)
           rposted : BOOLEAN,    (* the read handler is due                 *)
           wact    : BOOLEAN,    (* write->active                           *)
           wready  : BOOLEAN,    (* write->ready                            *)
           wposted : BOOLEAN,    (* the write handler is due                *)
           timer   : BOOLEAN,    (* client: read timer, fallback: connect   *)
           got     : Seq(Nat)]   (* history: bytes the peer was sent        *)

NoSocket == [net |-> "none", sent |-> 0, read |-> 0, eof |-> FALSE, full |-> FALSE,
             edge |-> FALSE, ract |-> FALSE, rready |-> FALSE, rposted |-> FALSE,
             wact |-> FALSE, wready |-> FALSE, wposted |-> FALSE, timer |-> FALSE,
             got |-> <<>>]

Avail(k) == k.sent - k.read
Readable(k) == Avail(k) > 0 \/ k.eof \/ k.net = "err"
Writable(k) == k.net = "err" \/ (k.net = "up" /\ ~k.full)
Reports(k) == (k.ract /\ Readable(k)) \/ (k.wact /\ Writable(k))

\* ngx_anytls_transport_arm_read: ngx_handle_read_event does nothing when the
\* event is active, and nothing when it is ready
ArmRead(k) ==
    IF k.ract \/ k.rready THEN k
    ELSE LET a == [k EXCEPT !.ract = TRUE] IN [a EXCEPT !.edge = Reports(a)]

\* mutant of ArmWrite: the event is taken to be active already
ArmWriteNever(k) == k

\* ngx_anytls_transport_arm_write
ArmWrite(k) ==
    IF k.wact \/ k.wready THEN k
    ELSE LET a == [k EXCEPT !.wact = TRUE] IN [a EXCEPT !.edge = @ \/ Reports(a)]

\* What epoll_wait finds in the entry of k; the handlers run next, reading first.
Report(k) ==
    [k EXCEPT !.edge = FALSE,
              !.rready = @ \/ (k.ract /\ Readable(k)), !.rposted = @ \/ (k.ract /\ Readable(k)),
              !.wready = @ \/ (k.wact /\ Writable(k)), !.wposted = @ \/ (k.wact /\ Writable(k))]

\* recv into a buffer of size bytes: a short read clears read->ready
Recv(k, size) ==
    LET n == IF Avail(k) < size THEN Avail(k) ELSE size
    IN  [k EXCEPT !.read = @ + n, !.rready = @ /\ n = size]

\* the bytes read between two states of a socket
Between(old, new) == [n \in 1 .. new.read - old.read |-> old.read + n]

(***************************************************************************)
(* ngx_anytls_fallback_flush_buf: what is left of b, the socket, and the   *)
(* result.  The socket takes n bytes; it is full after less than it was    *)
(* given, and a peer that has gone may make the write fail.                *)
(***************************************************************************)

Took(k, b, n) == [k EXCEPT !.got = @ \o SubSeq(b, 1, n)]
Rest(b, n) == SubSeq(b, n + 1, Len(b))

SocketFull(k, b) ==
    {[sk |-> ArmWrite([Took(k, b, n) EXCEPT !.full = TRUE, !.wready = FALSE]),
      left |-> Rest(b, n), rc |-> "again"] :
        n \in IF k.full THEN {0} ELSE {m \in 1 .. WriteBudget : m < Len(b)}}

BudgetSpent(k, b) ==
    IF k.full \/ Len(b) <= WriteBudget THEN {}
    ELSE {[sk |-> ArmWrite([Took(k, b, WriteBudget) EXCEPT !.wposted = TRUE]),
           left |-> Rest(b, WriteBudget), rc |-> "again"]}

AllSent(k, b) ==
    IF k.full \/ Len(b) > WriteBudget THEN {}
    ELSE {[sk |-> Took(k, b, Len(b)), left |-> <<>>, rc |-> "ok"]}

WriteFails(k, b) ==
    IF k.eof THEN {[sk |-> k, left |-> b, rc |-> "error"]} ELSE {}

\* mutant of FlushBuf: what a full socket did not take is dropped
FlushBufOnce(k, b) ==
    IF b = <<>> THEN {[sk |-> k, left |-> b, rc |-> "ok"]}
    ELSE {[r EXCEPT !.left = <<>>] : r \in SocketFull(k, b)}
         \cup AllSent(k, b) \cup BudgetSpent(k, b) \cup WriteFails(k, b)

FlushBuf(k, b) ==
    IF b = <<>> THEN {[sk |-> k, left |-> b, rc |-> "ok"]}
    ELSE SocketFull(k, b) \cup BudgetSpent(k, b) \cup AllSent(k, b) \cup WriteFails(k, b)
=============================================================================
