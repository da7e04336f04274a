# TLA+ verification of ngx_anytls

`ngx_anytls` is an nginx stream module that serves AnyTLS v2: one TLS connection
of a client (a *session*) carries many *streams*, each of which is relayed to an
upstream over TCP or over UDP (UDP over TCP, "UoT").  This directory holds TLA+
models of the run-time core of that module, the TLC configurations that check
them, and TLAPS proofs.  `PROJECT.json` maps every definition to the lines of
source it models.  All paths below are relative to the root of the repository,
which is `src/` here; `c` file names leave out the prefix `src/ngx_anytls_`.

Contents: 1 inventory, 2 plan, 3 the modules and the code, 4 the runs,
5 bounds, 6 fairness, 7 the proofs, 8 disagreements found, 9 exceptions met and
not stated as properties, 10 what is left out.

## 1. Inventory

An nginx worker is single threaded.  Nothing preempts a handler, so the
concurrency of this program is the interleaving of *handlers* (client readable,
client writable, upstream readable or writable, timers, resolver answers, posted
events) and, inside a handler, calls that come back to the data the caller is
working on.  Both are modelled; data races and memory ordering do not occur.
Nothing is persisted, so there is no recovery after a crash.

| component | state | operations | talks to |
|---|---|---|---|
| stream table (`stream.c`, `connection.c`) | slots of `stream_ht`, `active_streams`, `closed_by_protocol` | find, create_if_absent, insert, remove, close | session core |
| stream lifecycle (`stream.c`, `connection.c`) | `state`, `queued_frames`, closing list | send_fin_and_close, close, delayed close, finalize | every part |
| client mux (`client_mux.c`) | control, data and per-stream queues, the chain being sent, `frames`, `pending_output`, pressure, write timer | queue frames, direct PSH, schedule, flush, drain, release, write event, write timeout | stream lifecycle, upstream mux |
| upstream mux (`upstream_mux.c`) | read_ready, write_ready, blocked queues; event registration of each socket | connect, read and write handlers, drain_reads, drain_writes, block, resume, suspend, FIN | client mux, upstream TCP, UoT |
| upstream TCP (`upstream.c`) | `pending_in`, `pending_input`, `input_blocked`, buffer pools | open, queue, send_pending, discard_pending, connect timeout | client input, upstream mux |
| client input (`client_handler.c`) | `read_buf` (remnant), `input_paused`, `client_read_blocked` | read handler, process_client_bytes, pause, resume | session core, upstream TCP |
| session core, actions (`session_core.c`, `session_actions.c`) | `peer_version`, `settings_received`, `first_psh_acc` of a stream | a case per frame command, the first PSH of a stream | all of the above |
| UoT (`uot.c`) | receive buffer, mode, target, `uot_pending`, socket, idle timer, `uot_streams` | payload parser, send, queue, process_pending, read, close | resolver, upstream mux |
| resolver glue (`resolver.c`) | `resolver_ctx`, `resolver_target`, `resolver_domain` | resolve, handler, cancel | UoT, upstream TCP |
| authentication (`auth.c`) | `auth_buf`, `auth_len`, handshake timer | collect, accept, reject | client handler, fallback relay |
| fallback relay (`fallback.c`) | `fallback_replay`, a buffer per direction, events of two sockets, connect timer | start, replay, read, flush, connect timeout | client handler |
| upstream state tracker (`upstream_state.c`) | records of `s->upstream_states`, a tracker per stream | open, connected, bytes, finalize | upstream TCP, UoT, fallback |
| plain HTTP rejection (`reject_plain_http.c`) | peeked bytes, timer | peek, decide, answer, hand over to TLS | nginx stream phases |
| codec, addresses, padding (`protocol.c`, `socksaddr.c`, `padding.c`) | none at run time | parse, encode, validate | all |
| configuration, variables, transport (`ngx_stream_anytls_module.c`, `variables.c`, `transport_ngx.c`) | limits | merge, accessors, event and socket wrappers | all |

What is hard, and what has to hold, per component:

* **stream table**: removal leaves tombstones and insertion reuses them.  Every
  stream that exists is found, once; the limit is exact; a session below its
  limit always gets a slot, however long it has lived.
* **client mux and lifecycle**: a frame points to its stream and may sit in four
  places when the stream is closed.  No frame outlives its stream, the counters
  are exact (they gate reads and closes), each stream's frames leave once and in
  order, output left behind has a wakeup and a timer, a delayed close happens.
* **upstream mux**: the read event is edge triggered, level triggered or off, and
  the write event of the same socket changes the trigger.  Queues, marks and
  registrations agree, no readable upstream is left without a wakeup, blocked
  reads resume, FIN follows the payload.
* **client input**: whatever lowers a backlog may resume the input on its own
  stack, which handles frames that change the backlog.  Accounting is exact, the
  input is bounded, no frame is lost, a pause ends.
* **UoT**: the resolver may answer inside the call that asks it.  Datagrams are
  sent once and in order or dropped, packets wait only behind a query, and every
  end of a stream releases its slot, socket, timer, query and packets.
* **session core**: the address of a stream comes in any number of PSH frames, the
  resolver may answer inside the call that asks, a connect may end at once, and
  SETTINGS may come again.  The payload behind the address arrives whole; a stream
  is answered once and within the timers; a record of the log is closed once, with
  the bytes that were sent, whichever way the stream or the session ends.
* **authentication, fallback, HTTP rejection**: they work on one byte stream that
  is cut into pieces by the network, over an edge triggered event whose timer they
  share.  The session starts at the right byte, the relay starts with the first one,
  a piece of a request gets the answer of the whole, no connection stays undecided,
  no timer survives its phase.

The individual hazards, each at its line, are in `PROJECT.json` under `hazards`.

## 2. Plan

1. `StreamTable` with its abstract specification `StreamMap`, and the proofs
   (`StreamTableProofs`).  **Done.**
2. `ClientMux`: output and stream states.  **Done.**
3. `UpstreamMux`: sockets, epoll triggers, reads and writes.  **Done.**
4. `ClientInput`: pause, remnant, resume.  **Done.**
5. `Uot`: parser, resolver, pending packets.  **Done.**
6. `Session`: SETTINGS, SYN, the split first PSH, the opening of a TCP stream
   through the resolver, the answers, the records of the log.  **Done.**
7. `Auth`, `RejectHttp` and `Relay`, composed in `Gate`: a connection from accept to
   session, relay or close.  **Done.**
8. Proofs: `SessionProofs`, `GateProofs`, `ClientInputProofs`, `UpstreamMuxProofs`,
   `UotProofs`, `ClientMuxProofs`, with what they share in `CollectionLemmas`.
   **Done.**

`Gate` composes the three parts that share the client's socket before a session
exists, because their hazard is the hand-over.  The modules of a session
(`ClientMux`, `UpstreamMux`, `ClientInput`, `Uot`, `Session`) are composed by
abstraction, not by one product module: each keeps the fields of the stream it depends on and takes the others'
behaviour as actions of its environment.  `UpstreamMux` sees the client mux as a
number of frames of `output` and the flag `pressure`, and takes `DrainOk` and
`DrainAgain` from what `drain` does to reads; `ClientMux` sees the upstream as
data, end of file and errors that may come whenever there is room; `ClientInput`
sees the upstream socket as `wready`; `Session` sees the client mux as a number of
queued frames that leave one at a time, and takes frames one after another, as
`ClientInput` hands them out.  No module declares a RECURSIVE operator,
so each of them can be proved about.

## 3. Modules and code

**StreamMap** says what the table promises: a map of at most `MaxStreams` ids, in
which a stream closed by the protocol keeps its id taken and is not found.

**StreamTable** is `stream.c`'s open addressing.  `table` is `stream_ht`, `active`
is `active_streams`, `closed` the ids whose stream has `closed_by_protocol`.
`Create*` is `ngx_anytls_stream_create_if_absent` with `ht_find`, `alloc` and
`ht_insert`; `Close` is the part of `stream_close` that frees the entry; `MapSpec`
is `StreamMap!Spec` under `live = the ids in the table`.  The probe sequence uses
`id % Size`, which is `id & mask` for the power of two the code computes.

**ClientMux** keeps one record `m` (queues, counters, timer, registration, stream
states) because most helpers of `client_mux.c` change several fields and are
called from many handlers; a helper is an operator from record to record and a
handler composes them, as in the code.  `drain` is a sequence of steps:
`ScheduleFrame`, then `SendPart`, `SendAll` or `SendError` for `send_chain`, then
`ReleaseFrame` per sent frame, then `SocketFull` or `ChainSent` for the tail.
Streams are opened, connected, refused, ended by either side, and failed.  A stream
in `Uot` has its own limits of queued frames.  A stream that closes is unlinked from
`ready_streams` (`Unlinked`, with `Picked` of **Selection**).  `gen` and `n` number the
incarnations of an id and the frames of each; `wire` is what was sent.

**UpstreamMux** models each socket's epoll entry: `ract`, `wact` are
`read->active`, `write->active`; adding an event makes the entry edge triggered,
deleting one leaves the other level triggered, because nginx passes
`NGX_CLEAR_EVENT` when it adds and none when it deletes.  `EpollReport` is the
epoll turn, `PostedWrite` a posted write event; the steps of `drain_writes`
(`WritePayloads`, `WriteError`, `WritesDone`) and `drain_reads` (`NextStream` to
`ReadsDone`) and of packet mode (`ReadDgram`, `LastDgram`) follow.  `DrainOk` and
`DrainAgain` are the effect of a client drain on reads: resume, and suspend under
pressure.  A connect takes a while, may fail, and may time out.

**ClientInput** has one record `i` of the fields of the session, and the stack of
the handlers that may nest: `ReadEvent` → `ReadFrames` → `HandleFrame`, and
`WriteEvent` → `AccountOne` → `ResumeInput` → `HandleFrame`, where `ctx` is the
caller to return to.  A PSH goes to `upstream_queue` with its direct write, its
flush of the backlog first, its copy to `pending_in`, and its pause.

**Uot** has one record per stream.  The parser's loop (`PacketRequest`,
`ConnectRequest`, `SendDirect`, `SendDomain`, ...) and the loop of
`process_pending` are sequences of steps; `Asks`, `Answered` and `Refused` are the
three results of `resolve`: an answer later, an answer from inside the call, an
error.  Every way a stream ends is `CloseStream` or `IdleTimeout`.  The packets of a name
are taken out of the queue by `Picked`, too: what the loops over a queue
that save the next element take or leave, by its place.

**Session** keeps a record per stream, `log` for `s->upstream_states`, and the
version.  The operations map a stream and the log to the pairs they may leave
behind, with their result, because an operation of the code may fail half way and
its caller then closes the stream or the session: `UpstreamOpen`, inside which the
resolver may answer (`Resolved`, `ResolveFailed`) and the connect may be refused, be
under way or be up at once (`OpenResolved`, `Connecting`, `ConnectReady`),
`SendSynack`, `StreamClose` with its delayed form, `StateOpen` and `StateFinalize`
of the log; `SessionEnds` is `ngx_anytls_finalize`.  The actions are the frames (`Settings`, `Syn`, `FirstPsh`,
`Psh`, `Fin`), the events of the resolver, of the upstream and of the timer, and
`FrameSent`, which lets a delayed close happen.  The bytes of a stream's PSH frames
are numbered, so that `up` shows what its upstream was sent.

**Auth** (the accumulator of `auth.c`), **RejectHttp** (what `reject_plain_http.c`
decides about a request of which some stages have arrived; among the stages are a
part of the request line that shows a fault of the line, `line = "bad"`, or of its
version, which the code looks for in a line that is not complete and in no other) and **Relay** (a socket
of the relay: what is read, written, registered and posted) are operators;
**Gate** has the state and the actions.  `Listeners` are configurations (TLS or not,
rejection, fallback, PROXY header); the client is a user with some padding, a
stranger, or one that speaks HTTP to a TLS port.  `PeekHandler`, `TlsEnds`,
`AuthEvent` with `AuthBytes` and `AuthDone`, and the handlers of the relay follow the
code; `EpollReport` reports an edge once, so that an event that is active and was
reported is not reported again without new bytes.

The `MC*` modules define the sets of streams and peers, nothing else.

## 4. Runs

| run | checks | shows |
|---|---|---|
| StreamTable | `TypeOK`, `EveryStreamFound`, `ActiveIsCount`, `NeverOutOfSlots`, `MapSpec` | the table is a map, through every mix of collisions, tombstones and reuse |
| ClientMux | `TypeOK`, `NoStaleFrame`, `CountersExact`, `WireInOrder`, `NoLostWakeup`, `OutputEnds` | a TCP and a UoT stream, a v2 client, closes, errors and partial writes at every point; with a client that may stop reading for good, the write timer ends every wait |
| UpstreamMux | `TypeOK`, `QueuesAgree`, `NoLostRead`, `ShutdownAfterPayload` | two upstreams that compete for output, each a TCP connection with payload of the client or a UoT socket |
| UpstreamMuxFair | `UpstreamIsRead`, `BlockedEnds`, `PayloadEnds` | what is sent in either direction arrives |
| ClientInput | `TypeOK`, `BacklogExact`, `InputBounded`, `EveryFrameHandled`, `PauseEnds`, `InputIsRead` | two streams, with TLS and without, pauses nested in flushes and closes, a frame whose handling fails; the client is read as long as the upstreams read |
| Uot | `TypeOK`, `ResourcesReleased`, `DatagramsAccounted`, `PendingEnds` | two streams, one slot, two names and an address, every answer of the resolver at every time |
| Session | `TypeOK`, `PayloadAfterAddress`, `RecordsExact`, `OpeningHeld`, `AnsweredOnce`, `OpeningEnds` | two stream ids opened, resolved, connected, answered and closed with frames, failures and timeouts in between |
| Gate | `TypeOK`, `AnswerAsWhole`, `HandsOverClean`, `RelayExact`, `GateEnds`, `BufferedIsSent` | every client against every configuration, its bytes cut into pieces in every way |
| ClientInputOrder | `PayloadInOrder`, violated | section 8 |
| UpstreamMuxSynack | `SynackAfterConnect`, violated | section 8 |
| UotCached | `ResolvedIsSent`, violated | section 8 |
| GateStall | `RelayComplete`, violated | section 8 |

`CHECK_DEADLOCK FALSE` stands in the configurations of sessions, which end: a
closed session, or one whose bounded client has nothing more to send, takes no
step; so does a connection that has left `Gate`.  The table never ends and is checked for deadlock.

Each property is paired with a mutant in `PROJECT.json`: a mapped operator with a
plausible mistake (marked "mutant of" in the modules), under which TLC finds the
property violated.

`NoLostRead` holds for every budget, and says two things of a stream with something
to read.  When `drain_reads` is done with it, having read, met its frame budget or
found no room, the stream is `Scheduled`: its event is due or it is blocked for
output.  Between handlers every stream is, unless it is `LeftOver`: a loop stopped at
a budget with the stream still queued in `read_ready`, or in `write_ready` with its
write event on.  The second queue matters after a connect: the read event may have been
reported, and ignored, while the stream was connecting; if payload of the client then
waits for the socket, the entry is edge triggered without an edge, and the upstream is
read again only because the end of the backlog deletes the write event, which makes the
entry level triggered.  A stream that is left over is kept, and is not called for:
section 8 says what that means.

`DatagramsAccounted` keeps apart the datagrams without data (`empty`): they are
dropped, each of them, and in connect mode nothing else is.  Number 0 is a datagram
the client never sent; it is in the history only where the cached answer of `UotCached`
makes it, in connect mode and before all others.  Section 8 reports both.

`AnswerAsWhole` asks of a request with a sound line that it gets the answer of the
whole however it is cut, and of one with a bad line that it gets that answer or the
page of a sound line, and no third.

## 5. Bounds

All bounds are CONSTANTS and named in the modules.

* *StreamTable*: four slots, three streams, and ids that collide, so that a probe
  passes tombstones and wraps.  The proofs make the bound irrelevant.
* *ClientMux*: `MaxPendingOutput` 5 with frames of 1 to 2, `DrainFrames` 2 and
  `ByteBudget` 4 so that both budgets end a drain; `MaxOpens` 2 lets an id
  be reused once; three data frames fill the
  limit of a stream, and with the control frames the one of the session.
  In the code the limits are thousands of times larger; all guards compare a sum
  with a limit, so what matters is that each limit is met by a queue of more than
  one stream, and it is.
* *UpstreamMux*: both budgets are 1 with two streams, so that every loop may end at
  the stream budget with a stream queued behind it, or at the frame budget with data
  left in the socket: one arrival and the end of file are two things to read.  With
  `MaxOutput` 1 one read takes all the room, so a stream blocks as soon as another one
  has read.  `FrameBudget` 1 in the fair run, which has one stream, ends a read after
  one buffer while data is left.  `MaxPayloads` counts the payloads of all streams: one
  in the run of two streams, which waits for its connect, two in the fair run, where a socket takes one and leaves the other.
* *ClientInput*: `MaxPending` 2 (low mark 1) with reads of up to 3 frames: one
  read passes the limit and leaves a remnant; `WriteBatch` 2, so that a backlog needs
  two writes.  `MaxFrames` 4 leaves frames in the
  remnant and in the socket when the input pauses; the order run has 5.
* *Uot*: `MaxPackets` 3 and `RecvMax` 3 with four pieces per stream fill the queue
  and the buffer; one slot for two streams meets the limit.
* *Session*: addresses of one and of two units in frames of one to three, so that
  an address is cut, ends with a frame, or is followed by payload; limits of one and
  two streams with two ids; `MaxOpens` 2 lets an id be reused; versions 1 and 2 in any order of SETTINGS.
* *Gate*: a prefix of two and a padding of up to one, with reads of up to two and
  three bytes in all, so that prefix, padding and first frame meet in one read or in
  three; relay buffers and budgets of two, so that each is filled and spent; two
  read loops.  `GateAssumption` says which sizes of a read the code covers (section
  9).

`SYMMETRY` is used only in the `UpstreamMux` run, which checks invariants alone and
whose streams are interchangeable.

## 6. Fairness

* *ClientMux* `TimedSpec`: weak fairness of the write event and of the drain's
  steps (the worker keeps turning and finishes its handlers), strong fairness of
  the write timer: timers are looked at between handlers, so a timer that stays set
  is enabled again and again and not always.  Nothing is assumed of the client.
* *UpstreamMux* `FairSpec`: weak fairness of a handler's steps; strong fairness of
  epoll's reports and of posted events, which wait for the running handler; the
  client reads (`DrainAll`), a connect ends, and upstreams read (`UpstreamFair`).
  The last three are assumptions on the peers; without them a property of delivery
  cannot hold, and the code's answer to a client that stops is `TimedSpec`.
* *ClientInput* `FairSpec`: the same, with upstream sockets that become writable.
* *Uot* `FairSpec`: a query is answered or runs into `resolver_timeout`.
* *Session* `FairSpec`: the same, and a connect timer that is set fires.  Nothing
  is assumed of the upstream or of the client.
* *Gate* `FairSpec`: weak fairness of the handlers and their steps, strong fairness
  of timers and of epoll's reports, which wait for the running handler; the TLS
  handshake ends (nginx has its own timer for it) and the two peers of a relay read
  what they are sent.  A client that sends nothing is one of the behaviours.

## 7. Proofs

The theorems hold for every value of the constants that satisfies the named
assumptions of the modules; sets of streams may have any size.  In each module
`Invariant` (`TableConsistent` for the table) is `Spec => []Inv` for an inductive
invariant, one lemma per action shows that a step keeps it, and the properties
follow from it.

| module | theorems | property of the run |
|---|---|---|
| StreamTableProofs | `TableConsistent`, `TableTypes`, `StreamsFound`, `LimitIsExact`, `SlotsSuffice`, `TableImplementsMap` | all of StreamTable |
| SessionProofs | `Invariant`, `TypeCorrect`, `PayloadTheorem`, `RecordsTheorem`, `OpeningTheorem`, `AnsweredTheorem` | all of Session but `OpeningEnds` |
| GateProofs | `Invariant`, `TypeCorrect`, `AnswerTheorem`, `HandOverTheorem`, `RelayTheorem` | all of Gate but `GateEnds`, `BufferedIsSent` |
| ClientInputProofs | `Invariant`, `TypeCorrect`, `BacklogTheorem`, `BoundTheorem`, `FramesTheorem` | all of ClientInput but `PauseEnds`, `InputIsRead` |
| ClientMuxProofs | `Invariant`, `TypeCorrect`, `NoFrameOutlives`, `CountersAreExact`, `FramesInOrder`, `NoWakeupLost` | all of ClientMux but `OutputEnds` |
| UpstreamMuxProofs | `Invariant`, `TypeCorrect`, `QueuesTheorem`, `ShutdownTheorem`, `ReadsNotLost` | all of UpstreamMux |
| UotProofs | `Invariant`, `TypeCorrect`, `ReleasedTheorem`, `AccountedTheorem` | all of Uot but `PendingEnds` |

**The table.**  `TableAssumption`: ids are naturals, the marks are not ids, and
`MaxStreams < Size`; the code makes the table at least twice `max_streams`.
`EveryStreamFound` is not inductive: an insertion
keeps every probe path only if it does not overwrite a stream, and it may store
a second copy of an id if the first is not found.  `TableInv` adds that each id has
one slot (`OneSlotEach`), that `active` is the number of the ids in the table
(`ActiveIsCount`, with the table's finiteness, which gives cardinalities their
meaning) and the type invariant.  From `active <= MaxStreams < Size` a counting
argument (`SlotForEveryStream`) gives a slot that is free; probing is onto
(`ProbeOnto`) and has a least free step (`LeastSlot`), so an insertion never fails.
`InsertStep` and `RemoveStep` say what the two operations do to the set of ids and
to the probe paths: an insertion fills a free slot, which shortens no path; a
removal writes a tombstone, which paths cross.  `FindIsMembership` turns the search
into membership, from which each action of the table is an action of the map.

**The session.**  `SessionAssumption`: versions are 1 and 2, limits and the address
buffer are positive, every address fits the buffer.  `SessionInv` says of each stream
that its fields fit its state (`StreamOk`) and that somebody will answer it (`Held`),
and of the log that every record is final and right or belongs to exactly one stream
in use (`LogOk`).  `RecordsExact` alone is not inductive: the record of a stream that
ends is closed with the bytes it counted, so the invariant has to know, before, that
a stream's counter is what was written under its record and that no two streams share
one.  The operations are relations between a stream and a log before and after; a
lemma per operation states what it does to the stream it works on and that it leaves
the records of the others alone (`Own`), and the lemmas compose as the calls do.
`AnsweredTheorem` is an action property, and follows from the same invariant.

**The gate.**  `GateAssumption` bounds a read by what the authentication
buffer covers (section 9).  `AnswerTheorem` is about every request, those with a fault
in their line included, at whatever stage the peek buffer is full.  `GateInv` says, for each phase, what was read and where
it is: nothing while peeking, `authLen` bytes while authenticating and fewer than the
client has to show, and in a relay that what one side got, the replay and the buffer
are, in this order, the bytes read from the other.  The last one is why `RelayExact`
holds at the end of file of the fallback.

**The client's input.**  `InputAssumption`: a finite number of streams, positive limits
and budgets.  `InputInv` adds to the three invariants what makes them last: frames are
read and handled only while the input is not paused, and then the backlog is within
the limit, so one payload may pass it and pauses at once; only a pause leaves a
remnant; the handler that a resume returns to has a stream.  That `pending_input` is
the sum of the backlogs needs sums over the streams (below).

**The client mux.**  `MuxAssumption`: a finite number of streams, and positive sizes
and budgets.  None of the four invariants is inductive.  `MuxInv` numbers the frames of
an opening, as the model does, and says where they are: for some `a <= b <= c`, those
that left, then those up to `a` in the chain being sent, up to `b` in the control
queue, up to `c` in the data queue, and the rest in the stream's own queue, each
once and ascending (`Carries`, `Spread`).  A frame may thus take the short way into
the data queue only when its stream's own queue is empty, and control frames may
overtake data only because a SYNACK is the first frame of its stream (`FrameOk`,
`StateOk`).  `queued_frames` is the number of those that did not leave, which makes
`stream_close` wait for the last of them, and `frames` and `pending_output` are sums
over all queues (`Counted`), through `CarriesCount` and the lemmas on sums.  For the
wakeups the invariant follows the drain (`Loop`): a frame that was scheduled is in the
data queue, so a drain that finds nothing to send has its whole budget left, hence
no stream is ready, hence nothing is counted and the timer may go.  What the helpers
do to the record is stated once each (`EnqueueSound`, `CloseSound`,
`DrainClosingSound`, `LinkedSound`, `ScheduledSound`, `FrameSentSound`), and the
handlers compose these lemmas as they compose the calls.

**The upstream mux.**  `UpstreamAssumption` has the sizes and budgets.  `QueuesAgree`
is not inductive.  `MuxInv` ties together, for each stream, its fields, the
registration of its events, and whether it is linked in each of the three queues
(`Agree`): a connecting stream is registered for reading from the start, a stream that
is not there has no event left, a packet mode stream never enters `read_ready`, and
the stream a loop is at has left its queue and is still open.  Most actions change
one stream; `OneStream` reduces them to what they do to that one.

`ReadsNotLost` holds for any number of streams and any budgets.
`NoLostRead` speaks of the time between handlers and of the moment a loop leaves a
stream; `Woken`, which strengthens it, follows a stream with something to read through
the handlers.  Such a stream is due, as its entry is level triggered, has an edge to
report, or is blocked (`Due`); or the running event has not told its handler yet
(`Told`); or its socket is ready for nginx and it stands in `read_ready`, is being read,
or stands in `write_ready` with its write event on (`InReads`, `InWrites`).  A stream
leaves `read_ready` to be blocked or to be read, and every way that ends, `NGX_AGAIN`, the
frame budget, no room, makes it due (`ReadAgainWakes`, `BudgetSpentWakes`,
`NoRoomWakes`); it leaves `write_ready` with its write event deleted, and so
level triggered, or still armed (`SentDue`).  A `connecting` stream keeps its write
event, which is why an edge that came with its connect is not lost.

**UDP over TCP.**  `UotAssumption`: a finite number of streams, names and addresses are
different peers, limits are natural numbers.  `ResourcesReleased` is inductive with
`TypeOK` once the loops' stream is known to be open; `DatagramsAccounted` is far from
it.  `UotInv` says of each stream (`StreamInv`) that for some `c` its buffer holds the
datagrams `c + 1 .. got` in order (`Waiting`), and each of the first `c` was sent, or
lost, or is queued (`Gone`); that the queue holds datagrams for names, in order
(`Queue`); and that what was sent to a peer is in order and older than what is queued
for it (`InOrder`).  A datagram that overtakes the queue goes to an address, and the
queue is only for names: that is why `SendDirect` keeps the order.  In connect mode
every datagram has one target and goes out under it, so the invariant also says that
nothing is queued there, and that a request stands first in the buffer, before
anything is sent (`Requested`): the request that the cached answer sends again, as
number 0, is then the first of its history (`ZeroFirst`).  What is dropped is tied to
what came without data (`Dropped`): an empty datagram is in the buffer or lost, never
queued and never sent, because `send_resolved` and `enqueue_pending` both drop it, and
in connect mode those are the only ones lost.  A flush sends the datagrams of one name
and leaves the others; `OfDomain` and `Others` are `Picked` by their places
(`Selection`), as what the recursive `SelectSeq` returns is out of the provers' reach.

**CollectionLemmas** holds what several proofs need: the sum of a function over a
finite set when one value changes, and over a sequence put together of two, queues
without repetitions under append, removal of the head or of any element, and
concatenation, and the places that are picked out of a queue: they can be counted in
ascending order (`AscendingExists`), and `PickedQueue` says what stands there and in
which order.
The induction that sums need is written as a proof about the least
counterexample, since the induction theorems of the library take an operator as
parameter, which the installed provers cannot instantiate.

Only model-checked, on the instances of section 5, is liveness under fairness, which
is out of the prover's reach: `OutputEnds`, `UpstreamIsRead`, `BlockedEnds`,
`PayloadEnds`, `PauseEnds`, `InputIsRead`, `PendingEnds`, `OpeningEnds`, `GateEnds` and
`BufferedIsSent`.

## 8. Disagreements found

* **A resume inside `send_pending` writes payload twice** (`upstream.c:653`, run
  `ClientInputOrder`).  `send_pending` writes several buffers with one call and
  accounts them one at a time; the accounting may resume the client input; the
  remnant may hold a PSH for the same stream, and `upstream_queue` then flushes the
  backlog "first so the new payload follows in order" (`upstream.c:420`), with
  the buffers that are written and not accounted yet still in it.
* **SYNACK before the connection is up** (`upstream.c:717`, run
  `UpstreamMuxSynack`).  `docs/protocol.md:475` sends it "After outbound TCP
  connection succeeds or fails".  A payload that arrives during the handshake posts
  the write event, whose handler takes `SO_ERROR` = 0 for success.
* **Datagrams that follow the request wait in the buffer** (`uot.c:628`, run
  `UotCached`), when the resolver answers from its cache; `docs/protocol.md:997`
  sends "each datagram to the resolved peer".
* **A relay stops reading for good** (`fallback.c:230`, run `GateStall`).
  `tests/nginx/fallback_large_relay.t:61` expects that the fallback "relays a large
  payload without truncation".  A read of the fallback fills the buffer, the client's
  socket takes a part of it, and the handler returns with more to read; when
  the client has taken the rest, `fallback_write` calls `arm_read`, which does
  nothing for an event that is active and ready, and posts nothing.  The edge was
  reported already, so the rest, and the end of file, are read only if the fallback
  sends more.  The same happens to what the client sends while the replay waits for
  the connect.  The test passes as long as the client reads fast enough.

Four more have no run of their own; the models take these paths, and the properties
that hold say exactly how far the claim is met.

* **A stream left in a queue at a budget is not called for** (`upstream_mux.c:391`,
  `:585`).  The comments at `upstream_mux.c:283-293` and `:425-431` are about data that
  "can sit unread forever" when a budget ends a loop, and arm the event of the
  stream at which the frame budget ends it.  The streams behind it in the queue
  keep the event they have.  `drain_reads`, and `drain_writes` for a stream whose data
  came with its connect, may so leave a stream whose edge is consumed: nothing calls
  for it, and it is read with the next event of any stream of the session, if one
  comes.  It takes more queued streams than the 16 a loop visits; a session has up to
  1024 by default.  `NoLostRead` therefore says that such a
  stream is still queued, and not that it has an event; without `LeftOver` it is
  violated in the `UpstreamMux` run.
* **A faulty request line gets two answers** (`reject_plain_http.c:125-161` against
  `:169-197`).  The README (`README.md:34`) and `docs/protocol.md:1271` give "malformed
  input" a 400.  A line that is not complete is searched for control characters and for
  anything but `HTTP/` behind the first space; a complete one is only searched for a
  version.  `GET /a b HTTP/1.1` gets 400 if it arrives in pieces that end in the right
  place, and 497 if it arrives whole.  `AnswerAsWhole` allows these two pages for it
  and no other.
* **An empty datagram does not reach the peer.**  The comment at `uot.c:647-648` says
  it "is legal and must reach the peer", and `client_payload` passes it on;
  `send_resolved` (`uot.c:390`) and `enqueue_pending` (`uot.c:155`) return before they
  send or queue it.  `DatagramsAccounted` counts each of them as dropped.
* **A datagram nobody sent.**  When the resolver answers the request of connect mode
  from its cache, the buffer still starts with the request, whose bytes
  are then parsed and sent as a datagram (`uot.c:628`, as in `UotCached`); it is
  number 0 in `DatagramsAccounted`.

## 9. Exceptions met while modelling

The models take these paths as the code does.  No property is stated about them,
because the properties that hold are the ones above.

* After a premature SYNACK the connect timer is gone, so
  `anytls_upstream_connect_timeout` does not bound that connect.
* In packet mode, a socket whose read event was blocked and armed again is edge
  triggered; a datagram without room is dropped and ends the loop, and the rest is
  read with the next datagram.
* `discard_pending` ignores the result of the resume (`upstream.c:126`): a frame
  that fails there takes the rest of the remnant with it and may leave the client's
  read event off.  A frame that fails inside a flush closes the flushed stream.
* A stream whose FIN cannot be queued stays in the table (`stream.c:238`); in `Uot`
  it is the state "left", which has released everything but its id.
* With TLS, bytes that OpenSSL has decoded and the server has not read when the input
  pauses are invisible to epoll; after the resume they wait for the next bytes of the
  client.  `InputIsRead` is stated for clients without TLS.
* A first PSH whose opening fails at once (`upstream_open` or the queueing of its
  payload) ends the whole session, since `session_actions_run` returns the error;
  `docs/protocol.md:1319-1330` closes the stream and goes on.  A connect that fails
  later, or a name that is not found, ends only its stream.
* A stream whose connect fails at once inside the handler of the resolver is closed
  without a SYNACK; `OpeningEnds` allows the end of the stream as an answer.
* When the resolver answers inside `upstream_open` and the connect is up at once,
  `upstream_open` sets a connected stream back to "connecting"; its first write event
  finds the connect ready again.  `AnsweredOnce` shows that the client is not told
  twice.
* 259 bytes hold every address, so the guard for a full accumulator that still does
  not parse is never met.
* The relay ends with the client's end of file and drops what the fallback
  has not delivered yet; `RelayExact` states delivery for the fallback's end of file
  only.  A relay has no idle timeout.
* A connect to the fallback that fails is reported to both events; the read
  handler runs first and ends the connection with `ngx_anytls_finalize`, so the test
  of the connect in `fallback_write`, with its status 502, is not reached.
* `anytls_handshake_timeout` must not be zero for `GateEnds`; the models have the timer.
* An `anytls_buffer_size` above 65536 lets one read bring more than the auth buffer
  holds, and the replay of a client that falls back is cut (`auth.c:81`).  The default
  is far below; `GateAssumption` excludes it.

## 10. What is left out

* Codec and padding scheme: pure functions of fixed layouts with unit tests and
  fuzzers; the models take parsed frames, and of the address parser its three
  results: too short, bad, and an address of some length.
* Configuration and variables: no run-time state of their own.
* Memory: pools of frames and buffers, allocation failure (except where it closes
  a stream or a session like any other error), the pools of read and pending
  buffers, and the intrusive lists at pointer
  level.  A list that is walked with a saved `next` is a sequence or a set.
* Sizes: a frame, payload or datagram counts in units; `uot_pending_bytes` is not
  kept beside the packet count; `processed_bytes` has no limit in the code; the
  records of the log have no times and no `bytes_received`.
* In `FlushInFrame` of `ClientInput` the payloads of a flush are accounted together, and
  the question whether to resume comes once.  Frames are handled only while no stream
  blocks the input, so inside a frame only the last payload of a backlog can ask it.
* `ClientInput` starts with connected streams, as opening them changes nothing it
  keeps; `Uot` assumes an idle timeout other than zero; frames that are handled inside
  another frame's handler are `ClientInput`'s matter and not `Session`'s.
* nginx and the kernel: epoll, sockets, timers, TLS and the resolver are modelled
  as the code uses them.
