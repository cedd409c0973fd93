# The dspmain service: specification, model checking and proofs

This directory specifies the DSP service of the repository: `dsplink/dspmain`,
a server that runs on the ARM side (GPP) of an OMAP3530, the task it talks to
on the DSP, and what the two promise their clients. The repository's test
programs and its second program, `gles2gears`, are specified beside it. The
specification is written in TLA+, checked on small instances with TLC, and its
main safety properties are proved for every instance with TLAPS.

## 1. The system

    client ──┐  local stream socket                 DSP/BIOS LINK
    client ──┼──────────────► gpp/dspmain.c ───── DSPMSGQ0 ─────► dsp/dspmain.c
    client ──┘   PDUs         gpp/dspmain_peer.c ◄─ GPPMSGQ<pid> ─  (one task)
    (libdspmain.c)            (one thread)         one buffer pool    EDMA, CRC

| component | state | operations | interacts through |
|---|---|---|---|
| server, `gpp/dspmain.c` | `dspmain_t`: queue handles, `reply_msgq`, `processing_count`, `term`, `unique_id`, the list of peers; the signal pipe | ask for the reply queue, poll, accept, take messages, sleep in `MSGQ_get` or `select`, shut down | messages to and from the DSP; sockets; signals |
| peers, `gpp/dspmain_peer.c` | per connection: `sck`, `id`, the PDU being read, the list of replies | add, remove, read and check a PDU, forward it, queue a reply, send | called by the server; calls back `send_*_msg` |
| DSP task, `dsp/dspmain.c` | `g_dsp_msgq`, `g_shutdown` | look up the server's queue asynchronously, compute, put back, leave | its queue; the server's queue |
| image transfers, `dsp/dspmain_edma.c` | a ping-pong pair of buffers, channels, links | read an image in stripes | the EDMA engine, the CRC callback |
| CRC, `dsp/dspmain_crc32.c` | the table | CRC-32 of an image in four pixel sizes | the transfers |
| client library, `gpp/libdspmain.c` | socket, two buffers, sequence number | send requests, collect results in order | the socket |
| test programs, `gpp/dsptest.c`, `gpp/dsptestsck.c` | a handle, cookies | the first talks to the DSP task itself, the second through the library | message queues; the library |
| `gles2gears` | three meshes, the time, the angle, the view | make a gear, draw a frame, move on | OpenGL ES; the clock |
| memory map, transport and pool tables, makefiles | constants | | |

What makes it hard:

* **two processors and any number of clients**, of which only the server's
  thread ever sees the whole: it must know without looking whether the DSP
  still owes it something, because it sleeps in one of two calls and neither
  wakes for the other's events;
* **identity after reuse**: descriptors are reused at once, replies come back
  long after a client has gone;
* **one pool** of message buffers that five parties pass around and that any
  early return can leak from;
* **everything that can fail**: `malloc`, `MSGQ_alloc`, `MSGQ_put`, `MSGQ_get`,
  `accept`, `send`, `recv`, the lookup, each with a path of its own;
* **a list changed while it is walked**, under descriptor sets that were right
  before the walk began, in memory that is given out again;
* **streams that break anywhere**: a PDU arrives and a reply leaves in as many
  pieces as the sockets like, one `select` apart;
* **schedules**: which of two buffers a transfer goes to follows from how many
  went before it, and work on one buffer is hidden under a transfer of the other;
* **one processor for all**: servers share processor 0, its task and its queue,
  and nothing keeps a second one from starting;
* **the end**: a signal at any point, requests still queued, a DSP that is
  stopped half a second later whatever it is doing.

What makes each component correct: section 4 lists the properties, and
`PROJECT.json` the hazards each is aimed at, at the line where it bites.

## 2. The modules

| module | models | notes |
|---|---|---|
| `Msgq` | the pool and the two queues | external: from the calls the code makes |
| `DspTask` | `dsp/dspmain.c` | EXTENDS `Msgq` |
| `Sockets` | descriptors, backlog, streams, the clients | external, except what a reply carries |
| `DspmainPeer` | `gpp/dspmain_peer.c`, `send_*_msg` | EXTENDS `Sockets` |
| `DspmainServer` | `gpp/dspmain.c` | EXTENDS `DspmainPeer` |
| `Dspmain` | the composition, its properties and fairness | EXTENDS `DspmainServer`, `DspTask` |
| `DspmainRpc` | what clients are promised | abstract; `Dspmain` implements it |
| `Edma3` | one EDMA channel, its link sets, completion callback, semaphore | the engine is external, `callback1` and the calls are `dsp/dspmain_edma.c` |
| `EdmaIn` | `process_CRC32MSGSUBID`, `process_dma_in` | EXTENDS `Edma3` |
| `LibDspmain` | `gpp/libdspmain.c` | over an instance of `DspmainRpc` |
| `PeerStream` | `dspmain_peer_check_fds` for one peer, by the byte | implements `PduStream` |
| `PduStream` | a stream of PDUs handled and answered in order, or cut | abstract |
| `PeerList` | the lists of `gpp/dspmain_peer.c`, by the memory cell | implements `PeerSeq` |
| `PeerSeq` | peers and replies as sequences, what `DspmainPeer` takes them for | abstract |
| `Startup` | `main` and the nested functions around the service, of any number of servers | the service is one step, `Serve` |
| `CrcWords`, `BitCrc` | words as sets of bits; the CRC a bit at a time | definition and abstract specification |
| `Crc32` | `dsp/dspmain_crc32.c` | EXTENDS `CrcWords`, implements `BitCrc` |
| `TestCrc` | the CRC of `gpp/dsptestsck.c` | |
| `CrcReplies` | the CRC-32 as a division of polynomials, and what the replies are to be | EXTENDS `Crc32`, `TestCrc` |
| `DspTest` | `gpp/dsptest.c`, with the DSP task as it answers it | |
| `DspTestSck` | `main` of `gpp/dsptestsck.c` | EXTENDS `LibDspmain` |
| `GearMesh`, `GearsClock`, `GearsDraw` | `create_gear`; `now`, `gears_idle`; the matrices, `draw_gear`, `gears_draw` | `gles2gears.c` |
| `MCPrograms` | an instance of each of `DspTest`, `DspTestSck`, `GearMesh`, `GearsClock` and `GearsDraw`; a behaviour is one of them | |
| `MCBytes` | the instances of `PeerStream` and of `CrcReplies`, a behaviour being of one of them | two runs in one: they share nothing |
| other `MC...` | instances for TLC | |
| `DspmainProofs`, `PeerStreamProofs`, `EdmaInProofs`, `Crc32Proofs`, `StartupProofs`, `PeerListProofs` | lemmas and theorems | TLAPS |
| `LibDspmainProofs`, `ProgramsProofs` | theorems of `LibDspmain` and `DspTestSck`, and of `MCPrograms`, which cites the former | TLAPS |

Compositions, joined by what each promises the next. `Dspmain` puts the server, the peers, the
sockets, the message queues and the DSP task together and is shown to implement `DspmainRpc`;
`LibDspmain` takes `DspmainRpc` for the other end of its socket. `EdmaIn` is what the DSP task
does inside one `crc32` request: `Dspmain` takes the value of that request as given, which is
right for an image that is not refused when channels can be had and no event is missed, as long
as no height below zero was asked for (`RepliesWhole`). `Crc32` is what `EdmaIn` calls the CRC
of its rows. `PeerStream` and `PeerList` are the two layers under `DspmainPeer`: the first takes
the bytes of one connection to the PDUs it works with, the second the linked cells to its
sequences. `DspTestSck` runs over `LibDspmain`, and so over the service. `Startup` is what
surrounds `Dspmain` in time.

### State and actions against the code

`peers` is the linked list, head first; a peer's `in` is `NULL` (`"none"`), at
a header or at a payload, `out` its list of replies. `cursor` is the position
of the walk in `dspmain_peer_check_fds`, `rfds` and `wfds` the sets the last
`select()` left, `ready` the two descriptors of the server itself. `cnt` is
`processing_count`. `free`, `dspq` and `gppq` are the pool and the queues,
`hold` and `parked` the message the DSP task works on and the one it gave to
`MSGQ_locateAsync`; `errs` counts the transport's error messages in the task's
queue, which it frees without looking at them. `owner` tells whose connection a descriptor is the
server's end of. `sent`, `replies` and `lost` are histories.

`pc` names the points of the server's thread between which other parties can
act: every `select`, `accept`, `recv`, `send`, `MSGQ_get`, `MSGQ_put` is a
step of its own together with what follows it up to the next one. A whole
iteration of the walk over the peers is two steps, a read and a write.
The action of each handler contains every call that handler makes: taking a
message decrements the count, routes the reply and frees the buffer in one
step because nothing else can observe the points in between.

Abstractions, and why they are sound for the properties stated:

* In `Dspmain` a PDU or reply is one unit of its stream. `recv` first asks for
  eight bytes and the payload waits for another `select`: that order is kept
  (`ReadHeader`); the splitting of either part is the subject of `PeerStream`.
* In `PeerStream` a byte is the PDU it is of and its place in it, so that any
  mix-up shows; the header has four bytes instead of eight. The messages to the DSP
  and back are a queue of requests in order.
* In `PeerList` a cell of memory is a peer, a reply or free, and `malloc` may
  give any free one. A walk may break off at any peer, for want of an input
  buffer (`WalkBreaksOff`). Symmetry over the addresses is sound: nothing orders them.
* In `Startup` a call obtains something, or fails, or lets something go; the
  service is its four waits. What may fail is said for each server by itself. There is
  one DSP for all servers: a SHUTDOWN message ends its task whoever sent it, and what the
  driver makes of a second `PROC_start` or an early `PROC_stop` is not in the repository,
  so that it may restart or stop the processor under another server or leave it as it is
  (`robbed` says from whom a task was taken). `DspLoses` stands for a DSP that stops answering.
  Daemons fork: the parent's end is not a process of the model.
* In `LibDspmain` a `recv` that fails leaves the stream where it is; one that brings
  part of a unit, or a `send` that fails, leaves it torn (`Torn`), and what is then
  read may pass for anything (`RecvTorn`), a result included (`Garbled`).
* 32-bit words are the sets of their bits (`CrcWords`), so that the proofs need
  no arithmetic. Rows and stripes do not matter to a CRC that goes on from one
  to the next: an image is its pixels.
* In `DspTest` the two lookups of a tester's queue are messages with their own
  identity; a product is its operands.
* The clock of `GearsClock` is in seconds and an int of `2 * Half` values; frame
  times are whole; the lines it prints are kept as the sums of their frames and
  seconds. The angle is exact: a float's rounding is left out, which
  `AngleBounded` keeps small. `GearsDraw` takes what `sincos` gives from two tables of whole
  numbers, `Sin` and `Cos`, one entry for each of `FullTurn` steps of a turn: the run
  has quarter turns, where they are exact; the theorem is for any tables, so that the two
  are as good as unknowns. It takes any matrix for the projection; positions are in tenths.
  `GearMesh` names a point by its radius, its angle in quarters of a tooth and
  its side, and uses coordinates for the normals only.
* A PDU's kind says what the checks see in it: `"mult"`, `"crc32"`, `"short"`
  (known code, too little payload), `"badlen"`, `"unknown"`, `"empty"` (header
  only, unknown code).
* The value of a request is `Answer(subid, arg)`, opaque, and every request's
  operands are its own, so a result computed for another request is never
  mistaken for the right one.
* The `sequence` of messages to the DSP is written and never read: left out.
* The backlog is not limited to two: a client that would have to wait in
  `connect()` is one that connects later.
* `select` and `recv` are not interrupted (`EINTR`): `select`'s failing would
  be one more turn of the loop.
* A message that is not the program's own never reaches the server's queue
  (`MSGQ_getMsgId` in `dspmain_process_one_msgq`); the transport sends its error
  reports and the answers to lookups to the DSP's queue. An error report's place in
  that queue makes no difference to anyone: they are counted.
* An int of `EdmaIn` has `Word` values and a count of the engine `CountMod` (2^32 and
  2^16 in the code, 64 and 16 in the run); the height is converted as the code does, from
  the message's int to an unsigned and back. A transfer of more than a buffer holds writes
  over what is behind it, the other buffer or the table: from there on (`spoiled`) the
  CRC may be anything.
* A CRC is identified by the rows it is of (`EdmaIn`): `k` stands for that of
  rows 0 to k-1 in order, `Wrong` for that of anything else. A buffer's content
  is the run of rows last moved to it, and nothing while a transfer is under
  way, so that reading too early or too late is `Wrong` in some interleaving.
  Addresses and strides are left out: a source is a row. The table at
  `L1DADDR` and the two buffers are exactly adjacent
  (`dspmain_crc32.c:8-10`), which `TransfersFit` relies on.
* A library's stream is read in units of eight bytes (`LibDspmain`), as `recv`
  is called; the server writes both units of a reply with one `send`.
* `cursor`, `rfds` and `wfds` are reset when a pass ends; they are dead there.

## 3. The runs

The first four runs use `MCDspmain`. Two clients are the least that can disturb each other; each
of the three places a reply can be (DSP, queue, peer's list) can then hold one of each. `Fds` is
smaller or equal to the number of clients so that descriptors are reused; `NumBufs` is smaller
than the demand where an empty pool matters (`core`, `rpc`, `cutoff`); in `live` two buffers are
as many as there are requests. `SockCap` is the number of replies a socket
holds before `select` stops reporting it writable: one already makes a peer's list grow. `core`
says what holds although anything fails, `MaxErrs` error reports of the transport included;
`rpc` says more, of the same system when only the pool can be empty. `cutoff` has one descriptor
and two PDUs for each client: two connected clients with two PDUs each are 2.9 million states,
too many for a liveness run, so that what two connections do to each other's progress is checked
for one PDU each (`live`).

| run | instance | checks |
|---|---|---|
| `core` | 2 clients, 2 descriptors, 2 requests each, 2 buffers, every failing call failing at any time | what must survive failures |
| `rpc` | the same without failures, 2 PDUs each, good or of a bad length | bad PDUs hurt only their sender; `ImplementsRpc`; a clean end of the DSP |
| `live` | 2 clients, 2 descriptors, 2 buffers, 1 PDU each of any of the six kinds, fairness | progress |
| `cutoff` | 2 clients, 1 descriptor, 2 buffers, 2 PDUs each, good or too short, in any order, fairness | who is not answered, and why; progress, and release of descriptors, when `accept` fails |
| `edma` | images of -18 to 20 rows, of which a buffer holds 1, 2, 4 or 8, or that are refused as too wide or empty; channels and links refused, events missed; fairness | every row once, in order, from a buffer at rest; nothing left behind; requests come back |
| `edma_short` | the same | violated: see section 6 |
| `lib` | 5 requests of both kinds collected in order, those of `dspmain_mult` or not at all; a buffer of 13 words, a connection that may close, `recv` and `send` that fail or come short, fairness | nothing lost, right results, calls return |
| `lib_crc` | 4 requests of both kinds, any of them left uncollected | violated: see section 6 |
| `bytes` | 2 PDUs of three codes and lengths below, at and above what is allowed, a wire of 5 bytes, replies of 3, fairness; or formats 0 to 4, images of 1 to 3 pixels of four values, two requests and more in a row | the bytes of one connection; the CRC |
| `peer_list` | 5 cells, 4 peers in all, 3 replies, symmetry | the lists and their memory |
| `startup` | 2 servers, one after the other or at once, three ways to call them; for the first every call failing, signals, a crash, a DSP that loses messages; for the second `open`, `bind` and `PROC_attach` failing; fairness | set-up and teardown, the files they share |
| `programs` | `dsptest`: 2 testers, 4 buffers, 4 requests, calls that fail on both sides, a DSP that may be stopped. `dsptestsck`: two rounds over the library, a sequence number that wraps after 5, a connection that may close or break. Gears: 3, 4, 6 and 12 teeth; a clock of 256 values that has wrapped at the start or does so on the way, frames of 1, 3 and 51 seconds, up to the largest uptime; the view moved by no or a quarter turn about each axis | the programs beside the service |

Twenty rows over buffers of 1, 2, 4 and 8 take `process_dma_in` through every
block after any number of turns of its loop from none to nine; the proofs of
section 5 are for any number. Successive requests follow each other in the same
run, so that what one leaves behind meets the next.

Three pixels of up to four bytes go through every place of the table's argument
and every state of the loops; that the answer is right for all bytes is the theorem
of section 5. A byte of a reply or a PDU may be the last of a piece in
`bytes`: two PDUs are the least for a stale place or count to meet the next.
Three replies and four peers in five cells make memory be given out again for
another kind of thing. Twelve teeth are the most whose quarter angles stay distinct
directions on the grid used for normals; the seam needs only one turn.

Deadlock is checked in the runs of `Dspmain`, `EdmaIn` and `LibDspmain`. The others stop: a peer whose client has closed, a list
whose server has ended, servers that have ended, testers that have given up, a
finished gear, and, at a bound, the rounds of `dsptestsck` and the clock. The
bounds in guards are `MaxReqs` (PDUs per client), `MaxErrs` (error reports), `MaxRequests` (of the library's
application), `MaxPdus` and `WireCap` (`PeerStream`), `MaxIds` and `MaxReplies`
(`PeerList`), `MaxSent` (`DspTest`) and `MaxUptime` (`GearsClock`).

## 4. Properties

Safety (all of them invariants unless said):

* `BuffersConserved`: free buffers plus those in a queue, held by the DSP task,
  parked with a lookup or taken by an error report are all there are: no leak, no double free.
* `CountMatches`: `processing_count` is what the DSP owes the server plus what
  the DSP has dropped, until the shutdown message.
* `NeverWaitsForNothing`: the endless `MSGQ_get` is entered only while a message
  is on its way and the DSP's task is there to carry it, unless the task dropped one
  or its own `MSGQ_get` failed: then the code does sleep for ever.
* `NeverBlocksInRecv`: `recv` is never called on a socket with nothing to say,
  although the sets are older than the accepts and closes of the same pass.
* `PeersDistinct`: ids and descriptors belong to one peer, descriptors are open
  exactly while a peer has them.
* `RepliesAreAnswers`: what a client reads is the right answer to its own
  requests, in order, each at most once (the form that also holds when `malloc`
  fails and replies go missing).
* `DspLeavesNothing`: when the shutdown message makes the DSP task leave its loop
  no message is left. (When its `MSGQ_get` fails what is queued stays there, and a
  DSP that `PROC_stop` halts holds what it holds: the server closes the pool next.)
* `KeepsGoodClients` (action property): a connected client whose PDUs were
  well formed is cut off only because a call failed or the pool was empty. The
  last exception is a property of the code worth knowing: the pool is shared
  and a peer whose request finds it empty is removed.
* `ImplementsRpc` (refinement): the system implements `DspmainRpc`.

Liveness, under weak fairness of the server, the DSP task and the lookup's
answer, which are threads of their own and never wait for each other except in
the calls modelled. Clients and signals have no fairness: nothing makes a
client read, send or close.

* `RequestsAnswered`: every request of an accepted connection is answered,
  unless its own client closes or stops reading, or the signal arrives, or the
  server cuts the client off first (`CutOff`). It does so for a malformed PDU,
  which takes the requests before it along, and for a request that finds the pool
  empty. `cutoff` has both, and a client whose socket is full.
* `SignalStops`: the signal stops the server from everywhere, also while it
  sleeps in `MSGQ_get`, where the signal is not looked at: only because the DSP
  answers. With a DSP that drops messages this is false, and so `SignalStops`
  is checked without faults.
* `ClosedIsReleased`: the descriptor of a client that has gone is released.

Of the transfers (`EdmaIn`): `RepliesWhole`, `TransfersFit`, `BuffersApart`, `LeavesClean`, and
`Returns` under weak fairness of the engine and the task. When the engine misses an event the
code clears the error bit and goes on: the reply is then the CRC of something else, and nothing
says so. `RepliesWhole` and `BuffersApart` except such a request (`erred`), and no request after
it; the others hold for it too. A height below zero is not refused (section 6): what is said of
rows is of other heights, `TransfersFit` adds that nothing else makes a transfer overrun, and
where one has (`spoiled`) nothing is said of what was in the buffers. `NeverWrong`, which says
of every row the CRC takes what `RepliesWhole` says of the reply, is proved only (section 5).

Of the library (`LibDspmain`): `NothingLost` (buffer and stream together are
the requests made, while `send` takes what it is given), `FailsOnlyWhenCut` (a call fails
only on a connection that was closed, or after a `recv` or `send` failed or came short),
`ResultsRight` (as long as the stream is not torn) and `CallsReturn`, the last
under weak fairness of the service, which is what `RequestsAnswered` says of
the server, and of a `recv` that has something to return (nothing makes one fail). They are about an application that collects each result at most
once, with the function of its request: the stream has no way to find its place
again once a call has returned between the two halves of a reply.

Under the peers:

* `ReadsWithin` (`PeerStream`): no `recv` goes past the buffer (`NoOverrun`) or asks
  for nothing (`AsksSomething`), whatever lengths a client writes. `Framed`: the PDU being read
  starts where the last one ended and lies whole in the buffer. `Served`: a whole
  PDU that was written is handled or the peer removed (`Handled`), and replies go out whole
  to a client that reads (`Answered`), under weak fairness of the server's reads and writes and
  of the client's reading. `Implements`: `PduStream`, handled and answered in order.
* `ListsRight` (`PeerList`): head, tail and links agree (`ListsSound`), the walk and its
  previous link are never in freed memory (`WalksOnLivePeers`), it passes over nobody
  (`VisitsAll`) and cleanup leaks nothing (`FreesAll`). `ImplementsPeerSeq`.

Around the service (`Startup`):

* `LeavesNothing`: a server that has ended holds nothing (`NothingHeldAtEnd`); a signal before
  the handlers leaves nothing on the DSP (`KilledEarly`); a server that runs alone is
  the one at the socket's path (`Reachable`; "alone" because a second server takes
  the path from the first without asking); and a DSP is ended under a server only by one
  that ran at the same time, or that had crashed (`KeepsItsDsp`).
* `StepsInTurn` (action property): what was obtained last goes first (`LetsLastGo`), a socket
  file left by a crash does not keep the next server from binding (`StartsAgain`), and the
  log of a server becomes the last log only when it had one (`KeepsLastLog`).
* `Exits`: a signalled server ends, if the DSP's task has its queue and answers and
  no other server has ended it (weak fairness of server and DSP).

The rest of the DSP:

* `RepliesRight` (`Crc32`): the CRC is the remainder of the polynomial division
  (`RepliesDefined`) and the test program's (`TestMatches`). `ImplementsBitCrc`: it
  implements the bit-serial register.

The test programs:

* `TestersServed` (`DspTest`): no buffer is lost (`BuffersConserved`), a lookup's answer brings
  its own message back (`OwnMessages`), products come in order (`PrintedInOrder`), and of the
  products the task computes only those are not answered that were asked for before the handle
  was known, whose process has closed its queue, or for which `MSGQ_put` failed
  (`OnlyEarlyOnesSilent`). What is in the task's queue when it ends stays unanswered.
* `ResultsMatch` (`DspTestSck`): no result is asked for with the cookie of another
  request (`EachHasItsCookie`), nor one that the library has thrown away (`NeverSkips`).

The gears: `MeshSound` (`FitsAllocation`, `StripsTile`, `Watertight`: each edge of a triangle is
run along once each way, `NormalsFaceOut`); `TimeKept` (`TurnsAtRate`, `AngleBounded`,
`LinesAddUp`: the lines printed count every frame and second once); `GearsInPlace` (`PointsMove`
and `NormalsTurn`, the matrices against turning and moving a point directly).

A property that is a conjunction has its parts in the module under their own
names, each with a mutant of its own where one bug would not show all.

Each property of each run has at least one mutant, a change to one definition that a
plausible bug would make, under which TLC finds the property violated. The
mutated forms stand next to the definitions and are marked as such.

## 5. Proofs

`DspmainProofs` proves, for every number of clients, descriptors, requests and
buffers and for every combination of faults, `Spec => []P` for `TypeOK`,
`BuffersConserved`, `CountMatches`, `NeverWaitsForNothing`, `PeersDistinct`,
`DspLeavesNothing`, `NeverBlocksInRecv` and `RepliesAreAnswers`, that
`KeepsGoodClients` holds of every step, and that the system implements `DspmainRpc`
(`RefinesRpc`). The assumptions are those on the constants (`NumBufsAssumption`,
`SocketsAssumption`, `DspFaultsAssumption`, `MaxErrsAssumption`, `GppFaultsAssumption`).

The inductive invariant `IInv` is the conjunction of

* `TypeOK` and `PeersInv`: ids are below `unique_id` and pairwise different, so
  are descriptors; each descriptor of a peer has an owner and each owned one a
  peer; a write is only ever about to happen at a peer. Types need it (a step
  takes from the stream of the client that owns the descriptor of the peer the
  walk is at), and it needs types.
* `StageInv`: the life of the one message that fetches the reply queue, in six
  stages. Without it nothing says that there is at most one lookup, that a
  message is parked when the lookup answers, or that only requests are around
  while the loop runs.
* `Counts`: `BuffersConserved` and `CountMatches`. The count is positive
  whenever a message is taken, which is what keeps it a natural number.
* `ListenInv`: a reported listening socket still has a connection to accept.
* `WaitInv`: in the endless `MSGQ_get` the count is positive.

There is one lemma per action and invariant; `NextIInv` puts them together.

Three more invariants rest on `IInv`, each with what makes it inductive:

* `OffInv`: the shutdown message is the last of the DSP's queue, and once it is in the task's
  hands the queue stays empty, so that nothing is left when it has ended the task (`LastOut`).
* `OwnersInv`, `ReadyInv`: a connection has one descriptor or waits in the backlog, and what
  the last `select` reported still holds when the pass begins: nothing but the server takes
  PDUs off a stream, and a client that has closed stays closed. With it `NeverBlocksInRecv`,
  which says the same of the descriptors the walk has still to come to, is inductive
  (`RecvReturns`).
* `LineInv`: the requests of one client form one line of sequence numbers. The replies it has
  read, those on its stream, those queued at its peer, the messages at the DSP in the order they
  will come back and the PDUs not read yet are, in this order, of rising numbers, each with the
  answer to a request the client sent. The id in a message leads to the connection it came from
  or to none (`Fits`), however often descriptors are given out again (`OwnAnswers`,
  `GoodClientsKept`).

`RefinesRpc` is stated for `~GppFaults /\ ~DspFaults`: when `malloc` or `MSGQ_alloc` fails, or
the DSP drops a message, the code forgets that one request and answers the next, so that
order is kept (`LineInv`) but no longer "the next reply answers the next request"; the run
`rpc` checks it with the same values. Without such failures `RpcInv` adds to the line that
it has no gap: a request read and not yet answered is in flight or queued, as long
as its peer lives (`PlacesInv`), `asked` is what was sent without the PDUs that are no request
(`AskedInv`), and the replies are one by one those to `asked` (`MatchInv`). What a
client has asked is a recursive function over what it sent (`RequestsIn`); the
lemmas about it are proved by `NatInduct`, which is induction for a
set of numbers instead of an operator, after the existence of the function
(`CollectsExists`). No hypothesis is made about clients: they may send anything and
leave at any time.

`PeerStreamProofs` proves the safety of `PeerStream` for headers, payloads, replies
and buffers of every size and connections of any length (`PeerStreamAssumption`):
`ReadsInBuffer`, `InStep`, and that a connection implements `PduStream`
(`RefinesPduStream`). `IInv` follows a byte from the client to the buffer:

* `Chained`: from any byte on its way, the d-th after it is the one the client
  wrote d bytes later, up to the byte the client writes next; and the first is the byte
  `p` of the PDU after those handled. Without it one `recv` of several bytes could
  cross into the next PDU.
* `ReadInv`: `end` is the header's or, past the header, the length of that very PDU,
  so that a read that is done is the end of a PDU.
* `HandledInv`: what is handled are PDUs written whole.
* `ReplyInv`: the replies the client has, those queued and the requests at the DSP are
  in the order of the PDUs, each behind the other.
* `PartInv`: only the first reply is begun, and the client has its beginning.

`EdmaInProofs` proves all safety properties of `EdmaIn`, for images and
buffers of every size (`ImagesAssumption`, `BufBytesAssumption`). `IInv` holds
whatever fails: the engine is busy or has completed exactly between a start and
its wait, the rows to go and the block agree, the transfer under way is the one
last asked for and fits (`Fits` for both halves when there are two). It gives
`TypeCorrect`, `NoOverrun` and `NothingLeftBehind`. `DataInv` adds what the
buffers hold (`Full`, `Coming`) and where the link sets point (`Toward`). It holds
unless an event of this request was missed (`erred`), which the next image resets
together with the buffers, or the data is not `Sound`: the height in hand is below
zero, or such an image has been taken before and left a buffer that is not of its
image (`spoiled`). From it follow `RowsInOrder`, `ReadersApart` and `WholeReplies`.
Nothing is assumed of what may fail.

`Crc32Proofs` proves that the table-driven CRC implements the bit-serial one
(`Refines`) for all images and formats. The argument is linearity: eight steps of the
register on a sum are the sum of eight steps on each summand (`LookTakesByte`), so
that looking up the low byte and shifting the rest is the same as taking the byte
bit by bit. The invariant ties the register to the pixels taken and says that the
table is that of the code from `Setup` on.

It goes on to the definition (`RepliesAreRight`): after any number of bits of the message the
register is the remainder of the division so far, its 32 terms from the highest down and read
backwards, and the division takes one term at each bit (`Remainders`, a recursive function over
the bits, unrolled by `NatInduct`). A pixel's bits are those the bit-serial register takes of
it, for any depth, and so an image's are the whole message. The test program's loops are set
against the same register (`CpuRegister`): its table is the DSP's, since eight divisions of a
byte are eight steps of the register, and taking the low byte before or after the sum gives the
same.

`LibDspmainProofs` proves `NothingLost`, `FailsOnlyWhenCut` and `ResultsRight` of the
library, for buffers of every size. `AskInv` and `AnswerInv` tie what is issued, asked
and answered together. `InStep` says where in the stream a call reads while the
connection is there and no `recv()` or `send()` has failed or come short. `OutOfStep` is what
keeps `ResultsRight` when one has, as long as no unit was torn: after a
failure the stream may be read half a reply out of step, and then a payload is taken
for a header only if its number is that of the kind looked for, which only the
second and third can be; the payload after it is refused. Two theorems need something of
the application, because the library does not provide for it:

* `FailsWhenCut` supposes `PassesOverMult`: every result is collected, or results of `mult`
  alone are passed over and the numbers do not wrap. The finding below is what happens when
  a result of `crc32` is passed over.
* `RightResults` supposes `NoWrap`, at most as many requests as there are numbers
  (2^31 for the code): after that an old reply has the cookie of a new one.

`StartupProofs` proves `LeavesNothing` and `StepsInTurn` for any number of servers, which share
one DSP. What a server can hold has a `Rank`, the order of the nest of functions, and each call
a `Level`, how deep it is in that nest; the invariant `Holding` says that a server holds, in
order of rank, what has the level of its call or less (a daemon's log and the peers may be there
or not). That calls are where their level says is one lemma over the table of calls
(`CallTable`). `AloneInv` adds whose the socket's file and the log are while a server runs
alone, and `TaskInv` that the DSP runs only while a server that started it has not stopped it,
and that a server loses its task to another one only if both run or one has crashed.

`PeerListProofs` proves `ListsRight` (`ListsAreRight`) and that the pointers implement `PeerSeq`
(`RefinesPeerSeq`), for any number of addresses, connections and replies. `IsList` says that the
cells of a sequence, each once, lead each to the next; `Chain`, a recursive function, finds
exactly that sequence (`ChainIs`: by existence and `NatInduct`, the length being at most
`Cardinality(Addrs)` because no cell comes twice). What one assignment of the code does to a
list is a lemma: `ListAppend`, `ListRemove`, `ListBehead`, `ListKept`. The invariant `IInv` is

* `ShapeInv`: peers and replies in different cells, pointers of the right type;
* `PeersInv`: from the head (in cleanup, from where it has got to) the list is of all peers, and
  the tail is its last;
* `OutInv`: the same of each peer's replies; two peers share none, and there are no others;
* `IdsInv`: ids are of those given, and each is given once;
* `WalkInv`: the walk is between two neighbours of the list, `last_peer` and `peer`; the peers
  from `peer` on are the ones due and not yet visited (`Ahead`), whichever it removed before.

Each action is shown to append to the list, to remove the cell it stands on or to leave it alone
(`AddFdDoes` to `CleanupOneDoes`), from which follow the invariant and the step of `PeerSeq`.
Nothing is assumed but `PeerListAssumption`: the addresses are finitely many and `NULL` is none.

The programs beside the service are proved about as `MCPrograms` has them, in `ProgramsProofs`.
Each invariant is of one program (`TestersKept`, `ClockKept`, `DrawKept`: while
that is the one which runs) and each theorem is of `Spec`, for every value of the constants.

* `TestersAreServed`, for any number of processes, buffers and messages, whatever fails and
  whenever the task is stopped. The message the task works on and those that wait for it are one
  `Line`. A message in it is `Placed`: its number is one given out; a handle it carries is the
  process's own and known for good; a lookup is still asked for by a process that knows nothing
  and has printed nothing; an answer is of a lookup that is under way. Two of the line are
  `Apart`: those of one process stand in the order of their numbers, and no answer comes twice.
  `BehindInv` puts a product still in the line after all in its process's queue, and `QueueInv`
  those after all it has printed. Without the line's order nothing says that the queue is filled
  in order; without `Unknown` nothing says that the handle is the first thing in it. Buffers are
  counted through the pairs of a queue and a place in it (`InQueues`).
* `TimeIsKept` has two hypotheses, as the code does: the program runs for less time than an int
  holds (`MaxUptime < Half`, the limit of section 6), and no frame takes longer than 51 seconds,
  in which the gears turn by 3570 degrees, since `gears_idle` takes off a whole ten turns only
  once. From them the difference of two counts is the time between although both may have wrapped
  (`ElapsedIs`), and the angle is 70 degrees for each second but for whole tens of
  turns (`Turned`).
* `GearsAreInPlace`, for all turns of the view, all angles and any order of frames, and any
  whole numbers for their sines and cosines: nothing is used of the two, not that their squares
  add up to one. The equations are polynomials, so what is proved is the algebra of the code at
  every angle, and what is left out is rounding. A matrix is taken as what it does to a point
  with a fourth coordinate: 1 for a place, 0 for a direction. The product of two does what one
  does after the other, a turn or a move does to any point of whole coordinates what geometry
  says, and the transposed inverse of a move and turn is that turn for directions.
* `ResultsAreMatched` is `TestMatches` of `LibDspmainProofs`, which is about `DspTestSck` alone,
  carried over by an instance. What is known is where the program is: its step and round give
  how many requests were made (`IssuedInv`), which cookies its variables hold
  (`CookieInv`, the fourth overwriting the first), which result is due (`ResultInv`) and how far
  the stream is read (`TakenInv`); a header met there is that of the result due. It needs neither
  `PassesOverMult` nor `NoWrap`: where everything is collected in order, the number in the
  header is the one looked for, whether it has wrapped or not.

* `GearsFit` is the part of `MeshSound` that is about memory, for every number of teeth: neither
  array of `create_gear` is overrun (`FitsAllocation`) and the strips share no vertex
  (`StripsTile`). `MeshInv` gives the lengths of both arrays at each strip of each tooth.

Model-checked only: the liveness properties, which are out of reach of the proof system, and the
rest of `MeshSound`. `Watertight` counts the triangles along each edge of all strips of all
teeth at once, and its proof would be an induction over data (the strips as the loops add them)
besides the comparison of every two edges; `NormalsFaceOut` is about the sines of a table. The
run has four numbers of teeth; the loops of `create_gear` treat all teeth alike but for the
seam.

## 6. Findings

* `dspmain_crc32_result` (`gpp/libdspmain.c:244-247`) skips an older reply by
  calling `dspmain_mult_result`, so that the reply it looks for, if it is a
  CRC, is refused with half of it read; the comment at line 225 says that it
  takes `CRC32MSGSUBID` replies. Run `lib_crc`. The repository's own client
  (`gpp/dsptestsck.c`) collects every result in order and never gets there.

* `process_CRC32MSGSUBID` (`dsp/dspmain_crc32.c:175`) is to refuse an image of less than
  one row, but tests an unsigned copy of the message's int: a height below zero passes,
  `process_dma_in` takes it for an int again, `rows_per_dma` becomes the height and the
  count of the transfer its low 16 bits. Run `edma_short`.

Seen while reading; no run shows these:

* `process_dma_pro` (`dsp/dspmain_edma.c`), which nothing calls, starts transfers whose sources
  and counts `set_param_link` leaves to be "set later" and nothing sets, and gives its channel
  out the buffers for a destination; the comments at 410-422 start transfers that the code
  does not.
* With two servers at once each may take the DSP's task from the other: processor 0 and
  `DSPMSGQ0` are the same for both.
* `gears_idle` (`gles2gears.c:636`): times are ints of milliseconds since the start.
  After 2^31 of them, 24.8 days, the time jumps back by 2^32 and the angle with it,
  and since a negative time is taken for none the gears then stand still. `TimeKept` is
  checked up to that uptime, with a clock that wraps before; in C the
  overflow of the product in `now` is undefined where `long` has 32 bits, and the model
  takes the build's wrapping.
* `dspmain_deinit` does not free the two stream buffers that `dspmain_init`
  allocates; `dsptest` never closes the pool it opens; the memory of `create_gear` is
  freed by the program's end.

## 7. Not modelled, and the plan

Not modelled: the wording of logs and output; the vendor configuration tables, the memory map
and build files, which are constants and no operations; the set-up calls of the test programs
and of `gles2gears`, whose failures end the program; `process_dma_pro`, for the reason in
section 6; calls to EGL and OpenGL; `dspmain_peer_queue_copy` and the parser's macros that
nothing calls; `dma_init` and `dma_deinit`, calls of the driver in a row. That the test programs
get their answers in the end is not checked: their own progress is that of the service
(`RequestsAnswered`) and of the library (`CallsReturn`).

Three hazards are not covered: `unique_id` wraps after 2^31 connections, which no
instance can reach and whose effect needs a peer that has lived through all of
them; the product `width * bytes_per_pixel` may wrap, which is
outside the images `EdmaIn` considers; and the half second between the shutdown message
and `PROC_stop`, as there is no time in the model. Two more are covered but for their
end: a server whose DSP has dropped a message, or left its loop because `MSGQ_get`
failed, sleeps for ever in its own `MSGQ_get`; the properties say that this is the only cause.

Done: the service and its layers (`Dspmain`, `PeerStream`, `PeerList`, `Startup`), the
transfers and the CRC, the library, the test programs, the gears; the theorems of
section 5.

Of the safety properties the runs check, `MeshSound` alone has no theorem for the whole of it;
section 5 says why.
