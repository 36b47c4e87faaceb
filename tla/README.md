# A verification project for MultiMousergy (NetMux)

MultiMousergy lets several people, each with a machine and a mouse of their
own, work on one desktop. One node is the *server*; the others are *clients*
that connect to it. Every node shows all cursors; clicks are arbitrated, so
that at any time one peer owns the *interaction focus*, and a granted click is
injected into the operating system of the node that decides it.

This directory holds TLA+ modules of the parts of the program whose behaviour
depends on the order of events, TLC configurations that check them on small
instances, and proofs for TLAPS. Paths of the source are given from the root of
the repository with a leading `src/`, as in `PROJECT.json`
(`src/src/SyncModule.cpp` is `src/SyncModule.cpp` of a checkout).

Running: `tlc -config MCClickRace.cfg MCClickRace`, and likewise for the other
`MC*.cfg` (the table of runs below names the module of each);
`tlapm UserInput_proofs.tla`, and likewise for the other modules whose name ends
in `_proofs` (each takes a few minutes at most).


## 1. The system

### Threads and interactions

`main` creates a `NetMuxFramework` and starts one thread that executes
`NetMuxFramework::Run`; the main thread polls `InputEngine::Update`, serves the
tray icon and calls `Shutdown`. All of the logic runs in the loop of `Run`. One
turn of it (`src/src/NetMuxFramework.cpp:153-208`):

1. note a change of the TCP state; a client whose connection has just been made
   sends its one Handshake (164-173);
2. periodic work, each part with a timer of its own: latency probes and
   heartbeats, discovery, removal of silent peers, file chunks, clipboard;
3. `ProcessIncomingPackets`: take every packet that has arrived, filter
   replays, check trust, call the handler of its type;
4. `ProcessInteractionQueue`: decide every click queued by step 3;
5. send local input, interpolate the cursors, draw.

Packets are numbered by one 32-bit counter per process. Types of a fixed small
size (movement, heartbeat, ping, sync check) go by UDP, all others by one TCP
connection per client. The server passes what it receives on: some types to
everybody (`SendPacket`), some to the sender's group (`SendPacketToGroup`, by
UDP whatever the type, and to the sender as well).

### Components

| component | state | operations | hard part | what makes it correct |
|---|---|---|---|---|
| **Interaction ownership** (`SyncModule::ResolveInteraction`, `ProcessInteractionQueue`) | `m_activePeerId`, `m_lastActiveSwitch`, the queue of clicks | claim, preempt, refuse, time out, soft release, inject | clicks arrive in another order than they were made; owners vanish; clocks differ | the earliest click wins whatever the order; no dangling owner; a refused press is not injected; gestures are not interrupted; the time kept for an owner never runs back |
| **Peer map** (`SyncModule`) | one `PeerState` per id | create, refresh, prune, remove, positions, interpolation, selection, offset, trust | several handlers create or ignore unknown peers in different ways | trust and entries live and die together; only silent peers are pruned |
| **Authentication** (`AuthService`, `AuthModule`, `IsPeerTrusted`) | pending nonces, time of the last challenge | challenge, verify, clear, auto-challenge | a challenge goes to all clients, all answer, a nonce is used up by any answer | trust is not lost to stray answers; whoever stays gets trusted |
| **Replay filter** (head of `ProcessIncomingPackets`) | last number per id, cache of numbers per id | pass or drop, purge, rewind | wrap-around, reordering, duplicates, two counters under one id | newer datagrams pass, old ones do not; other packets pass exactly once |
| **File transfer** (`FileTransferEngine`) | map of transfers, header marks, next number | start, header, chunk, receive, verify, clean up | one number space shared by all machines; lossy relay; clean-up in between | what is complete is intact; a transfer alone arrives |
| **Clipboard** (`ClipboardModule`, `PerformClipboardSync`) | last text, last timestamp, reassembly buffers | poll, send in chunks, reassemble, relay | echo, older text arriving later, interleaved chunks, machines that do not give back the text they were given | no torn text; a text is sent for a change only; the clients agree, the server differs by its own texts only |
| **Transport** (`NetworkManager`) | sockets, per-client buffers, UDP address map, TCP state | connect, accept, send, receive, shut down | partial reads, lost connections, starvation of TCP by UDP | every TCP packet is delivered once, in order; a lost connection is noticed |
| **Serializer** (`PacketSerializer`) | none | serialize, deserialize | fields share slots; a buffer may hold part of a packet | a packet survives the round trip as far as its type needs |
| **Input capture** (`InputEngine`) | captured or not, virtual position, queue of packets | hooks, boundary crossing, release, polled and raw movement, hotkeys | two threads, two readers of one message queue, a queue without a lock | what the user holds is down on one machine; the mouse can be had back |
| **Cursors** (movement handlers, `PerformMasterStateSync`) | positions in every peer map, position last broadcast | absolute and relative movement, relay, broadcast | datagrams lost, late, repeated; deltas add up; a broadcast dropped as a replay | a view is off for named causes only, until the next position or broadcast |
| **Injection** (`DriverInterface`) | driver in use | move, click, key | fallback between drivers, a device that cannot be opened | what cannot be injected is not pretended to be down |
| **Overlay, D3D11Overlay, SpatialViewport** | cursors, buffers | draw | batch limits | nothing is written behind a buffer |
| **Desktop capture, media** | frames, stubs of WebRTC | acquire, release, encode | release exactly what was acquired | |
| **Shell** (`main`, tray, config, log, Electron UI) | settings | parse, start, pump messages, stop | its message loop takes messages meant for `InputEngine`; order of shutdown of two threads | no input is lost; no use after close |

`PROJECT.json` lists each with its status, and under `hazards` what in this
code is hard to test, at its line, with the property that watches it or the
reason why none does yet.


## 2. The modules

```
FocusArbiter          the decision of ResolveInteraction, pure operators
  |-- ClickRace ------ implements --> EarliestClaim (abstract)
  `-- InteractionOwnership            peer map + loop + OS button
        `-- InteractionOwnership_proofs
PeerSession           trust and pruning, server and clients
  `-- PeerSession_proofs
ReplayFilter          the packet filter under reordering and duplication
  `-- ReplayFilter_proofs
FileTransfer          transfers of all machines over TCP and the relay
  `-- FileTransfer_proofs
Transport ------------ implements --> PacketChannel (abstract)
PacketCodec           the fields of a packet through the serializer, pure operators
  `-- Transport_proofs                (of both)
ClipboardSync         the clipboards of a server and its clients
  `-- ClipboardSync_proofs
Coordinates           Normalize and Denormalize, pure operators
  `-- CursorTracking    one cursor, seen by the server and by other clients
        `-- CursorTracking_proofs     (of both)
InputCapture          hooks, capture, queues and injection: one user, two machines
  `-- UserInput_proofs                (of InputCapture and of ClickRace)
MC<module>            constants and bounds for TLC
```

**FocusArbiter** has no state: `MayClaim` is the list of the four ways a press
is granted, `Claim` and `SoftRelease` what a press or a release does to the
pair (`m_activePeerId`, `m_lastActiveSwitch`), `RaisesBlock` the last line of
the function. Doubles in milliseconds are integers in ticks; the literal 2000.0
is the constant `Timeout`.

**EarliestClaim** is what the code promises for a race of clicks (the
"timestamp-first interaction ownership" of `src/ROADMAP.md`): peers press once
each, and the focus always belongs to an earliest of the presses decided.
**ClickRace** is the same race decided by `FocusArbiter`, and implements it
with `winner <- focus.owner`.

**InteractionOwnership** is one node, server or client, in full detail as far
as clicks go. `pc` says whether `Run` is removing silent peers, taking packets
or deciding clicks; peers, network and clock move in between. `wire[p]` holds
what peer `p` has sent: a server reads it in order (TCP), a client in any order
and perhaps never (the relay is UDP). `Forget` is what `PruneInactivePeers` and
`RemovePeer` have in common; `Receive...` are the handlers that touch the peer
map; `ProcessInteraction` is one turn of the loop of `ProcessInteractionQueue`,
whole but for the FocusUpdate that a server broadcasts at its end: known-peer
test, arbitration, injection, block mark. The FocusUpdate leaves the node and
names nobody: the id is cut to an `int` in the field `button`
(`NetMuxFramework.cpp:379`), which the serializer does not carry for this type
(`PacketSerializer.cpp:80-83, 122`). What a client makes of one is
`ReceiveFocusUpdate`. `claim`, `removed` and the field `at` of packets are
history, read by properties only.

**PeerSession** is a server with a security key and its clients. `up` and
`down` are the TCP streams, `pending` and `quiet` the state of `AuthService`
and of the auto-challenge, `known`, `authenticated` and `age` the peer map.
A challenge needs a nonce that is not in use; the code draws 31 bits at random,
so that a finite set of nonces is a bound on the model, not a guard of the
program. The limit of the prune is at least one tick, since it is a multiple of
the interval of the Pings. Every guarded handler is the one action `ReceiveGuarded`, since for trust they
are all the same. A client may be cut off for a while without its TCP
connection breaking.

**ReplayFilter** is the filter for the packets that arrive under one sender id.
A packet carries its true number `n`, the filter sees `n % Modulus`; so the
properties can say what *should* pass. A packet of the network stays there when
it came by UDP (duplicates) and disappears when it came by TCP.

**FileTransfer** is the `FileTransferEngine` of every machine of a session at
once, so that the collisions of their numbers happen. A file is a sequence of
chunks, a chunk knows its file and its index, so that a buffer with chunks of
two files, or with holes, differs from the file.

**Transport** is the TCP side of `NetworkManager`: clients that connect (at
once or not), greet, send and leave, and the server's `ReceivePacket` as one
action, with its order: accept one connection, prefer a datagram, else walk
through `m_clients` until one of them yields a packet, closing those that have
ended. Streams are sequences of units, each of which knows the packet and the
place in it that it comes from, so that a shift by one unit shows. It
implements **PacketChannel**: per client, packets are taken whole, in order,
once. The modules above and below, which have queues of packets, build on that.

**PacketCodec** says what a packet's fields become: `Restored` and `Written` are
the two switches of `Deserialize` and `Serialize`, `SlotOf` the slot a field
shares with others, `Used` what the handlers read. Fields that every packet
carries are left out; flags become 0 or 1, a float is its bits.

**ClipboardSync** has the clipboard of every machine beside `m_lastText`,
`m_lastClipboardTimestamp` and the reassembly buffers of its node. What a
machine's clipboard gives back need not be what was put there (`ReadBack`):
Windows loses characters of four bytes (`Utf8ToUtf16`,
`ClipboardModule.cpp:202-221`), Linux keeps a text by `xclip`, or nothing where
`xclip` does not work. `SetText` remembers the text as it came (108, 146-147),
so that a text that comes back altered is a change for the next poll (94-98):
`altered` counts these. The X11 paths of `ClipboardModule` never run, since
`m_clipboard{m_xDisplay}` (`NetMuxFramework.hpp:82`) is made with the display
before the constructor's body opens one (`NetMuxFramework.cpp:27`). `Copy` is a
user, who copies what the machine does give back, `Poll` is `PerformClipboardSync`, `ServerReceives` and `ClientReceives`
are the handler, with the comparison of timestamps, the buffer, `SetText` and
the server's relay in one step. A packet knows the text it is a chunk of and its
place in it, which only the properties read. Clocks may have been started at different times
and offsets may have been measured; faults are a clipboard that does not open,
a prune in the middle of a text, and a chunk that the replay cache drops because
a MasterStateSync has used its number.

**CursorTracking** follows one coordinate of one machine's cursor.
`CursorMove`, `PointerMove`, `RawMove` and `EvdevMove` are the paths of
`InputEngine::Update`, with their counters of movements: one in ten is a
position, the others are deltas (`KeyInterval`). `ReceiveMove` is the replay
filter, the two handlers and the relay, `PerformMasterStateSync` with
`m_lastMasterSyncPos` the server's broadcast. A client takes a broadcast
(`ReceiveMaster`), or its replay cache drops it (`DropMaster`): the packet bears
a number of the server's under the id of the peer that moves, which may have
used that number itself (`NetMuxFramework.cpp:473-477, 696`), and the server,
which has noted the position as sent (698), does not repeat it. The X11 path
divides by 1919 whatever the screen and does not clamp
(`InputEngine.cpp:186-187`), so that `PointerEdge` may lie beyond `Edge`.
`excused`, `latest` and `bereft` are history.
**Coordinates** is the arithmetic from pixels to 0 .. 65535 and back, with the
division of C.

**InputCapture** is one user between two machines. `held` is what the fingers
do, `here` and `there` what is down for the programs of either machine. A hook
runs inside the call of the event that triggers it, as Windows does it; every
mouse event also posts a `WM_INPUT`, which the loop of `main` (`PeekMessage`) or
`InputEngine::Update` finds, depending on when it comes. `pending` is
`m_pendingPackets`: `Race` has the outcomes of a push that meets a pop. `echo`
is what a server sends back to the very client that captured it. `torn` names
inputs that met a change of capture, a fault or a lost message, and is read by
properties only.


## 3. The runs

| run | question | bounds |
|---|---|---|
| `click_race` | does the order of arrival of clicks matter? | 4 peers, 4 timestamps with ties within one timeout; every order of arrival. Three peers suffice for owner, preemptor and loser at once; the fourth makes chains of preemptions. |
| `ownership` | clicks, selections, movement, pruning, Disconnect, relayed FocusUpdates on one node, server or client | 2 peers, 2 presses, clock 0..2 with timeout and prune after more than one tick, so that both can fire and then something else happens; `FewInFlight` limits packets under way. Two peers are what the arbitration compares; a third would only wait. Peers are symmetric (no liveness in this run). |
| `unified_timeline` (violation) | is the kept time of a click on the local timeline? | a client, clocks equal or one tick apart, one press |
| `replay_filter` | does the filter pass what is due and nothing else? | numbers of 4 bits, window 4, 4 packets from a fresh counter or one about to wrap, overtaking by at most 3, datagrams and cache entries that live 2 ticks of 3 |
| `shared_numbers` (violation) | the same with the server's counter under the peer's id | both counters from 0 |
| `peer_session` | joins, mutual answers, departures, one outage | 2 clients, one of which may be cut off once; two are needed for one client to spoil the other's nonce; nonces enough that one is always unused, so that this bound never bites |
| `pruned_comes_back` (violation) | does a pruned peer that keeps sending return? | 1 client |
| `file_transfer` | transfers of three machines with collisions, relay, clean-up | server and 2 clients, files of 2 and 1 chunks; two transfers, or one and a clean-up (`TwoEvents`). Two transfers are needed for a collision, two chunks for a hole. |
| `transport` | streams cut anywhere, connections that are refused, break, close; greeting | 2 clients, each sends a greeting of 1 unit, a packet of 2 and a Disconnect of 1, in either order of the first two; reads of at most 3 units, so that a read may end inside a packet, at its end, or hold several; 1 datagram. Two clients are what the walk through `m_clients` needs for one to stand before the other. The `ASSUME`s of `MCTransport` try the codec on two packets of every type. |
| `clipboard_sync` | copies, echoes, relays and alterations of texts | server and 2 clients, 2 copies of a text with a character of four bytes, of what Windows leaves of it, or of something empty, 2 faults; every machine keeps texts, one alters or loses them, or all are Windows; clocks started together or one machine later, offsets measured or not. Two copies let a text meet an older one and a newer one, and an altered text is one more; two clients are needed to disagree. Clients are symmetric. |
| `cursor_tracking` | what the others see of a cursor | server and 1 client that joins when it likes, 2 places (3 on an X11 screen that is too wide), 4 movements of which every third is a position, 2 faults (a prune or a dropped broadcast each). Four movements put a delta, a position and two deltas in any order of arrival; two faults let a prune follow a drop; a second client would only repeat the first. The `ASSUME`s of `MCCursorTracking` try the conversions on usual sizes of screens. |
| `input_capture` | where do keys and buttons act? | 1 key, 1 button, 4 acts of the user besides moving back, a release after more than one move back, 1 message posted at a time, 1 fault (a race, or the peer's going or coming); server or client, each driver. Four acts are enough to press, cross, release and cross or press again; moves back are not bounded, as the liveness property is about them. |

Each passing run has for each of its properties a seeded fault: a definition of
the module (marked *Seeded fault* in a comment) that replaces the one of the
code, in the way a plausible bug would, and makes TLC report that property.

Deadlock is not checked: every model stops where its bounds do (no time, no
presses, no packets left), which says nothing about the program.

### What they show

* `EarliestWins`, `BlockedHasLost`, `ImplementsEarliestClaim`: for one press
  per peer within one timeout and nobody selecting, the order of arrival does
  not matter. It does once an owner presses or releases again: that moves
  `m_lastActiveSwitch` forward, and a press made between the two then counts as
  older. The properties say exactly the part that holds.
* `OwnerIsKnown`: no path of removal leaves the id of a removed peer as owner.
* `ReleasedAtRest`: on a server that never removed a peer, when all is quiet
  the OS button is up, in every order of press, refusal, preemption and release.
  The premise is needed: the release of a removed peer is dropped
  (`NetMuxFramework.cpp:368`) and the button stays down, and a client may lose
  the datagram that carries the release.
* `OnlyOwnerPressInjected`, `GestureHolds`, `OwnerTimeAdvances`: the button
  goes down only for the new owner; a selecting owner is displaced only after
  the timeout; and since a server reads a peer's clicks in their order, the time
  it keeps for an owner never runs back, although each of the owner's clicks
  overwrites it without a comparison (`SyncModule.cpp:319, 333`). Note that
  real nodes announce only the *end* of a selection (`InputEngine.cpp:297`); a
  beginning is sent by `tests/live_edit_sim.py` alone, so in a session of real
  nodes the gesture test guards nothing. Nothing is said of what a server
  announces: a FocusUpdate names nobody.
* `OnlyNewerDatagramsPass`, `CachedAtMostOnce`, `OnlyReplaysDropped`: with one
  counter per id the filter is exact, across the wrap-around and around a
  Handshake.
* `TrustIsKept`, `OnlySilentPruned`, `StayingClientsTrusted`: although every
  client answers every challenge under its own id, and an answer to another
  client's challenge uses up the pending nonce, nobody loses trust, nobody that
  keeps pinging is pruned, and while nobody is pruned whoever stays gets
  trusted.
* `OnlyCollisionsCorrupt`: a count of bytes is enough to know that all chunks
  are there, as long as two machines do not use the same number; then it is
  not, and the hash catches it. `LoneTransferArrives`: over TCP a transfer that
  is alone arrives.
* `ImplementsChannel`, `NothingLostAtClose`: however a stream is cut, packets
  come out whole, in order and once, and an orderly close loses none, although
  the end may be reported while several packets wait in the buffer.
* `GreetedOnce`, `ConnectionGreeted`: both `Initialize` and `Run` send a
  Handshake, on a state that `ReceivePacket` changes in between; each
  connection that holds gets exactly one. `EveryPacketTaken` holds because the
  clients and the datagrams pause: a datagram is always returned first
  (`NetworkManager.cpp:274-279`), and a stream of them faster than the loop
  would keep every TCP stream unread. A refused connection is marked
  Disconnected "so we can retry" (254), and nothing retries.

* `UsedArrives`, `RelayedAsReceived` (evaluated in `transport`, proved): each
  handler gets what it reads, also over a relay, but for the owner in a
  FocusUpdate, which no client ever learns (`PacketSerializer.cpp:83, 122`).
* `WholeTexts`, `SentOncePerChange`: chunks of several senders, too old or not,
  never mix, and texts are sent for copies and for alterations only; nothing
  else that arrives is taken for a change, and the echo of a node's own text ends where
  it began. `ClientsAgree`,
  `ServerLosesOnlyItsOwn`, `CalmCopySpreads`: with equal clocks all clients end
  with one text, since TCP and the server put all texts in one order and the
  echo of its own text repairs a client. The server has no echo: it does not
  move `m_lastClipboardTimestamp` for a copy of its own (`NetMuxFramework.cpp:783-805`),
  so that an older text of a client that arrives later replaces it there. All of
  this holds with machines that alter texts as well: what they have kept is sent
  as a text of theirs, with a newer time, and replaces the text everywhere.
  `CalmCopySpreads` therefore promises only the texts that every machine
  keeps. With clocks started at different times nothing of this holds, only
  whole texts and the end of the echo do.
* `OnlyFaultsDrift`: a view is off only after a movement missed, a mouse pushed
  against the edge (raw deltas are sent unclamped), or a broadcast that counts a
  relayed delta twice, and each position repairs it. `MasterAligns`: broadcasts
  leave a client where the server is. `MoverIsSeen`: who is connected when a
  position changes gets to know the peer, whatever becomes of the datagrams.
  Both except a client whose replay cache has dropped the newest broadcast:
  nothing repeats it, so that such a client stays with an older position, or
  with none, until the peer moves again. A
  client that joins later sees nothing of a peer at rest, for
  `m_lastMasterSyncPos` has the position already.
* `DownWhereCaptured`: when nothing is under way, a key is down on the machine
  the capture leads to, and a button always (also) at the peer's, since clicks
  are reported captured or not. It excuses only inputs that met a change of capture, a
  fault, or the `PeekMessage` of `main`, which throws away the `WM_INPUT` it finds
  (`main.cpp:109`). On a client it promises the peer's side only: see below.
  `StuckOnOneSide`: a key held across a change of capture sticks on one
  machine, never on both. `Regained`: moving back ends the capture, however far
  the user has gone forth and whether or not the peer is still there.

### Disagreements between the code and what it says of itself

* `unified_timeline`: the clock offset is measured as local minus remote time
  and then subtracted from the remote time (`SyncModule.cpp:193-203`, 208, 313).
* `shared_numbers`: MasterStateSync uses the peer's id with the server's number
  (`NetMuxFramework.cpp:696`), so the cache at 473-477 drops packets never seen.
* `pruned_comes_back`: with a security key, a peer pruned in an outage that TCP
  survives has no way back (`SyncModule.cpp:181-182`).

Observed while modelling, without a run of their own: a FocusUpdate is also sent
when a peer that is not the owner releases a button
(`NetMuxFramework.cpp:376-381`, "if owner changed"); the "conflict resolution"
of the clipboard (`TODO.md:16`) loses a server's newer text to an older one; a
text with a character of four bytes, copied in a session with one Windows node,
is on no clipboard in the end, since what that node has kept of it is sent to
all ("Unicode Clipboard", `ROADMAP.md:35`; `tests/test_clipboard.cpp:22-25` asserts a
round trip with such a character, but reads the copy that `SetText` keeps, not
the clipboard); a Linux node without a working `xclip` empties every clipboard
in the same way ("Native Linux X11 Integration", `ROADMAP.md:39`); and
a client injects on its own machine what it captured for the server, because
the server relays to the sender too and the local id counts as authenticated
(`NetMuxFramework.cpp:529, 663`, `SyncModule.cpp:266`), against the "local cursor
suppression" of `ROADMAP.md:6`.

### Fairness

`PeerSession`, `FileTransfer`, `Transport`, `CursorTracking` and `InputCapture`
claim liveness. In the first three, weak fairness is assumed
for: a client's answer, the server's taking of the packets of each stream, a
Ping and a guarded packet of every reachable client, the clock, the clean-up,
the end of an outage; and for the sending of headers and chunks and the receipt
from TCP streams; and, in `Transport`, for a client's watch over its state and
its poll of the socket, the server's `ReceivePacket`, the outcome of an attempt
to connect and the arrival of what was sent. The loop of `Run` performs each of these in every turn or at
fixed intervals, and TCP delivers while the connection lives. Nothing obliges a
client to join, leave or be cut off, anybody to start a transfer, or a datagram
to arrive.

In `CursorTracking`, the server's broadcast, which the loop looks for every
tenth of a second, and what becomes of it at each client (taken or dropped,
since TCP delivers it) are weakly fair; no movement and no datagram is. In `InputCapture`, the two halves of the main loop are weakly
fair, the loop leaves `PeekMessage` again and again (a mouse does not post
faster than the loop reads), and a user who wants the mouse back moves back
while `Update` reads, again and again (strong fairness, because the two take
turns without knowing of each other). Nothing else of `InputCapture` is fair:
`Regained` needs neither the framework's thread nor the peer.


## 4. The proofs

`UserInput_proofs` has two parts. Of `ClickRace`, whose definitions bear names of
their own so that both modules can be extended at once, it proves, for every set of peers, every set of integer
timestamps and every timeout, that `RaceInv` is inductive (types, presses
within one timeout, `EarliestWins`, `BlockedHasLost`, and that nobody owns the
focus before the first decision). The stated invariants alone are not
inductive: without the last conjunct the first decision could be a preemption of
nobody, and without the range of the presses the timeout branch would let a
later press win. From it follow `EarliestAlwaysWins`, `BlockedHasAlwaysLost`
and, with a lemma that reduces one decision to "first or strictly earlier takes
the focus, else nothing happens" (`DecisionOutcome`), the refinement
`RaceRefinesEarliestClaim`.

Of `InputCapture` it proves, for any keyboard, threshold, number of raw messages
and bounds: `CaptureTypeCorrect`, `HeldIsDownWhereCaptured` and
`KeySticksOnOneSide`. The two properties speak of moments when nothing is under
way and are not inductive, so that the invariant `CaptureInv` follows the strokes
through the queues. `DownAfter(queue, set)` is what is down at the end of a queue
if `set` is at its start: for each input its last stroke decides. `Arriving`, the
composition over `wire`, `pending` and `posted`, is what will be down at the
peer's; a step that moves a stroke from one queue to the next does not change it
(`UpdateArrives`, `OutgoingArrives`, `ReceiveArrives`), the race and the wrong
`PeekMessage` change it for a harmed input only (`RaceArrives`, `PeekArrives`), and
a new stroke decides its own input and no other (`KeyArrives`, although a key
overtakes the buttons that are posted, and `PostArrives`). Three lemmas about
queues carry these (`DownAfterAppend`, `DownAfterTail`, `DownAfterPrefix`). On top of
that: `Followed`, an unharmed input arrives at what the finger does, where the
capture leads; `KeptHere`, the same of this machine; `OneSided`, a key that is
not held is up here or arrives as up there, since its last release went to one of
the two; `NotInjected`, what the driver ignores stays up. A driver changes with the
peer only, which harms every input (`HarmStays`). For the type of `travelled`,
`TravelBound`: the distance and the moves forth that still wait do not exceed the
acts of the user.

`InteractionOwnership_proofs` proves, for every set of peers, any role, skews,
timeout and bounds, `OwnershipTypeCorrect` and `OwnerAlwaysKnown` from the
inductive `IInv == TypeOK /\ OwnerIsKnown`, with one lemma per group of
actions. The lemma `ForgetIsClean` carries the removal of peers, and
`ResolutionOutcome` says what one call of `ResolveInteraction` may do to the
focus; on them rest the action properties `RefusedIsNeverInjected` and
`GestureAlwaysHolds`. `OwnerTimeAlwaysAdvances` needs an invariant of its own,
`Ordered`: on a server a peer's clicks have ascending times, on the wire and
then in the queue, none of them before the time kept while that peer owns the
focus. `AlwaysReleasedAtRest` needs
more than its own statement, which says nothing of states that are not at rest:
`Followed` says that every press on its way to a server, on the wire or in the
queue, has a release of the same peer behind it or the peer's finger is still
down, and that the same holds of whoever holds the OS button, as long as no
holder has been removed (`HolderLetsGo`).

`ReplayFilter_proofs` proves, for numbers of any width, any window, any
overtaking the window allows and any retention that outlives a datagram:
`FilterTypeCorrect`, `OnlyNewerEverPass`, `NothingCachedTwice` and
`OnlyReplaysEverDropped`. The invariant says that a number is sent once and comes
within the window (`InFlight`), that `last` is the newest number passed, modulo
`Modulus` (`LastIsNewest`), that a packet of which another copy can still come
is in the cache, entered no earlier than that copy was sent (`CopiesAreCached`),
and that what is in the cache has been taken. Below it are lemmas on remainders:
within half the range of the numbers, the signed difference of two remainders
is the difference of the numbers (`DifferenceIsTrue`), and two numbers of one
remainder are one (`NumbersDiffer`). `OnlyReplaysEverDropped` assumes, in its
statement, that one counter is behind the id; with two it is false, and
`shared_numbers` is the counterexample.

`Transport_proofs` proves, for any clients, lengths of packets and size of a read:
`TransportTypeCorrect`, `NothingEverLostAtClose`, `NeverGreetedTwice`, and with
`TransportRefinesChannel` that the walk over cut streams implements
`PacketChannel`, step by step. The heart of the invariant is `FlowInv`: the
buffer, what has arrived and what is in flight, joined, are one stream that
begins with the packet after the last one taken, in which every packet is
followed by the next (`WellFormed`), and which ends at the end of the last
packet sent unless the connection was reset (`IsWhole`). `Served`: a connection
is listed, or waits to be accepted, until it has failed or been read to its end.
`Greets`: who has greeted is not connecting and will not be again. The walk
through `m_clients` stops at a least index, found by well-founded induction
(`Smallest`). In the same module, for packets of every type and any contents:
`UsedAlwaysArrives`, `FocusAlwaysNamesNobody` and `RelayLosesNothing` of
`PacketCodec`. The lemma `SlotsApart` says that two fields of one type have two
slots; from it a slot holds the one field that was put in.

`ClipboardSync_proofs` proves, for any finite set of clients, any texts, clocks,
copies and faults: `ClipboardTypeCorrect`, `NoTornTexts`, `ClientsAlwaysAgree`,
`ServerOnlyLosesItsOwn`, `CalmCopyAlwaysSpreads` and `SentForChangesOnly`, on
machines of any kind. `UpFlow` and
`DownFlow`: the chunk before a chunk, of the same sender, is the one ahead of it
on the stream or the last in the receiver's buffer, or the receiver will not
take it for its age; chunks of other senders may lie in between. `Untorn`: while
some node is unspoiled, every text that is on its way or waits to be polled is one that
users copy, whole (what a spoiled node alters and sends on may be torn, and
counts as a fault of all). `Counted`: every text sent or to be sent is paid for
by a copy or an alteration, the bound behind `SentOncePerChange`. `Concord`,
for clocks that agree: there are one function from times to texts and one time,
of the newest text the server has broadcast, such that each client has taken
that text or is going to, and shows the text it took last unless it has sent a
newer one itself. The properties speak of states at rest, where all of this
collapses into agreement; none of them is inductive. `Spreading` is the same for
the one text copied while all was quiet, if every machine keeps it
(`CalmKept`). To state the types for every state the
buffers had to be said to be beginnings of texts at nodes that met no fault
only: after a lost chunk a buffer may grow beyond any text.

`PeerSession_proofs` proves, for any clients, nonces and limits of time:
`SessionTypeCorrect`, `OnlySilentArePruned` and `TrustIsAlwaysKept`. `StreamInv`: a
client's stream begins with its Handshake and ends with its Disconnect, and a
client that has left is not in the map once its stream is empty, so that no
entry is left behind to grow old. `AgeInv`: who was heard in this tick has age
zero, and who was never cut off is at most one tick old, which is below any
limit the code could have.

`FileTransfer_proofs` proves, for any machines, files, starts and clean-ups:
`TransferTypeCorrect` and `OnlyCollisionsEverCorrupt`. `OwnInv` finds the machines
that have used a number: whoever holds an outgoing entry or has packets under
way has counted past it, so that two of them are a collision. For a number
without one there is one file (`OneFile`), and: what is in a buffer is in its
place and `bytesTransferred` counts the places that are filled (`EntryInv`);
chunks leave and arrive over TCP in the order of their indices, a chunk on its
way is ahead of all that its receiver has, and a relayed datagram is not in its
receiver's buffer yet (`InOrder`); and no chunk anywhere is ahead of the
sender's own count (`Behind`), which makes the next chunk new. That a count that
reaches the length means that all places are filled is a lemma on cardinalities
(`Counting`).

`CursorTracking_proofs` first proves by plain arithmetic, for every size of screen:
`ProductsFit` (the products of 32 bits do not overflow up to 32769 pixels),
`PixelKept` (a cursor is shown on its pixel or on the one before, on screens of
equal size of up to 65536 pixels) and `ShownOnScreen`. Its lemmas `Division`, `Product`
and `Cancelled` are what the prover lacks about products.

Of the protocol it proves, for any clients, size of screen and share of
movements sent as positions: `TrackingTypeCorrect`, `OnlyFaultsEverDrift` and
`MasterAlwaysAligns`, from an inductive invariant that adds four parts to the
properties. `Numbered`: the first movement is a position, and a position is
where the cursor was (else the first delta taken would have nothing to start
from). `Fresh`: a view that a Handshake has made has taken no movement (a prune
keeps the sequence number, so that a view made anew is never one). `LastWord`:
the last broadcast is the last on its way to a client, or where its view is
from, or was dropped (else what is on its way could be older than what was taken). `Aloof`:
nothing reaches a client before it joins. There is one lemma per action;
`LastOfTail` says of queues what `LastWord` needs.

Assumptions: those named in the modules, and no others but the one counter of
`OnlyReplaysEverDropped`. `TimeoutAssumption`: the timeout is a natural number;
`PeersAssumption`, `NodesAssumption`, `MachinesAssumption` (of file transfers), `ServerAssumption`: 0
is no peer's id, the server is no client, there are finitely many clipboards;
`StampsAssumption`, `SkewsAssumption`, `StartsAssumption`: times are integers;
`TextsAssumption`, `ChunksAssumption`: texts are sequences of chunks, a file has a
number of them; `MachinesAssumption` (of the clipboards) and `KeptAssumption`: a machine is
one of the three kinds, and what Windows leaves of a text is a text; `SizesAssumption`, `ReadAssumption`: packets and reads are not
empty; `NumbersAssumption`, `TimeAssumption` of the filter: the window is at most
half of the numbers, nothing overtakes by as much, no machine sends more than half
of the numbers in a behaviour (it may begin anywhere, so that they wrap around),
and a datagram does not outlive the cache; `EdgeAssumption`, `KeyAssumption`, `TimesAssumption`: a screen has pixels (an X11 screen of any width),
positions are sent, a peer is pruned after a tick or more;
`InputAssumption`: the button is no key, and neither is called like a move; the
threshold is a natural number;
`UnknownAssumption`, `NoncesAssumption`, `NoneAssumption`: the value for "nothing"
is no value; `BoundsAssumption`: bounds are naturals. TLC evaluates all of them in
the runs. Every part of an inductive invariant that TLC can evaluate was checked
with it on the run of its module before it was proved.

Every invariant and every action property of the runs is proved, and so are the
refinements. Model-checked only: all liveness (`StayingClientsTrusted`, `LoneTransferArrives`,
`ConnectionGreeted`, `EveryPacketTaken`, `MoverIsSeen`, `Regained`: fairness and
ENABLED are out of the prover's reach). `RoundTrip` and its like are proved for
every size of screen and evaluated for some.


## 5. Simplifications

* *InteractionOwnership*: one mouse button; no security key; the travel time of
  a heartbeat is estimated exactly; positions are left out; the action
  `ReceiveMovement` may come from any peer at any time, as late datagrams do.
* *PeerSession*: all clients have the right key and the server's group (clients
  of another group ignore all of the server's packets,
  `NetMuxFramework.cpp:434`); nonces do not repeat while in use; a tick passes
  when what was under way has arrived, unless its client is cut off; datagrams
  that arrive after a Disconnect are left out; the client's trust in the server
  is not modelled; ids are never reused, each process takes a new one
  (`NetMuxFramework.cpp:25`).
* *ReplayFilter*: a counter does not wrap around within the sixty seconds of
  the cache; TCP does not lag behind by a whole window.
* *FileTransfer*: files are whole numbers of chunks; the hash is injective; no
  disk error; no key, so every sender is trusted; `StartTransfer` is called at
  any time (in the repository only tests call it). An empty file is never
  completed by the code and is left out of the liveness property.
* *Transport*: a client's own stream is read by the same code as a client's
  stream on the server, and is modelled only as far as it closes the socket;
  the server does not shut down; `SafeSend` completes at once when the
  connection is there (a server waits in it as long as one client does not
  read); `recv` on a connecting socket would block, as on Linux; a packet whose
  announced payload exceeds 4096 bytes (`Serialize` writes such a length if
  names of that length are configured, `Deserialize` then never consumes the
  packet) does not occur.
* *ClipboardSync*: all nodes trust each other and are of one group; a client
  has measured all offsets or none before anything is copied; the replay cache
  drops a chunk only by a number of the server's own. A chunk is a letter:
  `Kept` says what Windows leaves of it, an altered text has as many chunks as
  before, and no chunk consists of lost characters only. A user of a machine
  that keeps nothing copies nothing that the program sees. On Windows such a
  character is read as two of three bytes, which then survive everywhere: it is
  one more text that all machines keep. What is no text is not noticed on
  Windows and reads as the empty text elsewhere. Left out: bytes that are no
  UTF-8; a first text that is empty and meets a copy not yet polled (`m_lastHash`
  is zero at first, and no text's hash); a node that dies of writing to an
  `xclip` that has gone. Once a spoiled node alters a text, all nodes count as
  spoiled, since what it sends may be torn.
* *CursorTracking*: one coordinate of one cursor; every peer trusted; sequence
  numbers do not wrap around (`ReplayFilter` has that); any broadcast may be
  dropped by the replay cache, whether or not the numbers of this peer and the
  server collide (`MaxFaults` bounds how often); drift is said of the
  receiver's view against the position at the time of sending, the speed of the
  picture (`Step`) left out.
* *InputCapture*: one machine that captures, Windows, with the peer on its
  right and trusted; injected strokes pass the hooks but the `WM_INPUT` they
  may cause is left out; `echo` is a set, a datagram of the relay is taken once
  or lost; a pointing device that reports positions never moves
  `m_accumulatedX`, hence is left out of `Regained` with the mouse relative;
  key codes are not translated (a Linux peer gets Windows codes). `travelled` is
  cut off below `Lowest`, where every value releases.

## 6. Plan

What is left: the client's trust in the server in `PeerSession`, and the map of
UDP addresses in `Transport`.


## 7. Not modelled

Rendering, geometry in floating point, interpolation and jitter buffer of
cursors, desktop capture, video and WebRTC (stubs over a mock), the tray,
configuration, logging and the Electron window: I/O around the core, with
hardly any state whose order matters. The batch of `D3D11Overlay::Render` counts
quads in a loop, one to three for each peer: 31 peers always fit its 64, more
need not (`D3D11Overlay.cpp:215`). The shutdown of the two threads is
undefined behaviour of libraries when it goes wrong, not a state of this program.
SHA-256 and HMAC are an injective function. Hotkeys, the wheel, macOS and
absolute pointing devices are left out of `InputCapture`.
