------------------------- MODULE InteractionOwnership -------------------------
(***************************************************************************)
(* One running node of the program, server or client, as far as it decides *)
(* who may click: SyncModule's peer map and interaction focus              *)
(* (src/src/SyncModule.cpp), the interaction queue and the loop of         *)
(* NetMuxFramework::Run around it (src/src/NetMuxFramework.cpp:153-206,    *)
(* 361-387, 429-667), and the mouse button it injects into the OS.         *)
(*                                                                         *)
(* The loop of Run is single-threaded: it prunes silent peers, takes every *)
(* packet that has arrived, then decides every queued click.  pc says      *)
(* which of the three it is doing; the peers, the network and the clock    *)
(* move between any two of its steps.                                      *)
(*                                                                         *)
(* No security key is set, so every peer is trusted (PeerSession has the   *)
(* key).  A click is any of the mouse buttons; one button is modelled.     *)
(* What the server relays to third parties leaves the node modelled here,  *)
(* and so does the FocusUpdate it broadcasts after some of the decisions:  *)
(* what a client gets of one is ReceiveFocusUpdate.                        *)
(***************************************************************************)
EXTENDS FocusArbiter, Sequences

CONSTANTS
  Peers,        \* ids of the remote peers
  Roles,        \* roles the node may have: {"server"}, {"client"} or both
  Skews,        \* remote clock minus local clock, the values peers may have
  PruneAfter,   \* 10000 ms of PerformPeerCleanup, in ticks
  MaxPresses,   \* bound: presses made by all peers together
  MaxTime       \* bound: the local clock stops here

ASSUME PeersAssumption == Nobody \notin Peers
ASSUME RolesAssumption == Roles \subseteq {"server", "client"}
ASSUME SkewsAssumption == Skews \subseteq Int
ASSUME BoundsAssumption ==
  PruneAfter \in Nat /\ MaxPresses \in Nat /\ MaxTime \in Nat

VARIABLES
  role,       \* m_settings.isServer; fixed
  skew,       \* skew[p]: clock of p minus local clock; fixed
  now,        \* local clock
  hand,       \* hand[p]: the button under p's own finger, or "gone"
  presses,    \* presses made so far (bounded by MaxPresses)
  wire,       \* wire[p]: packets p has sent and the node has not taken
  known,      \* ids in m_peers
  seenAt,     \* PeerState::lastSeen
  buttons,    \* peers whose PeerState::buttonState has the bit set
  selecting,  \* peers whose PeerState::isSelecting is true
  blocked,    \* peers whose PeerState::isConflictBlocked is true
  offset,     \* PeerState::clockOffset
  focus,      \* m_activePeerId and m_lastActiveSwitch
  pc,         \* where Run is: "prune", "incoming" or "decide"
  queue,      \* m_interactionQueue
  held,       \* the peer whose injected press holds the OS button down
  claim,      \* history: true time of the click behind focus.since, and
              \* whether the clicker's clockOffset was exact
  removed     \* history: has a peer ever been removed?

peerVars == <<skew, hand, presses, wire>>
stateVars == <<known, seenAt, buttons, selecting, blocked, offset>>
focusVars == <<focus, claim>>
vars == <<role, now, peerVars, stateVars, focusVars, pc, queue, held, removed>>

-----------------------------------------------------------------------------
Kinds == {"press", "release", "select", "unselect", "disconnect"}

(* A packet: its type, localTimestamp on the sender's clock, and the time  *)
(* on the local clock at which it was sent (history, unknown to the node). *)
Packet == [kind : Kinds, ts : Int, at : Int]

(* InteractionEvent.                                                       *)
Event == [peer : Peers, down : BOOLEAN, ts : Int, at : Int]

TypeOK ==
  /\ role \in Roles
  /\ skew \in [Peers -> Skews]
  /\ now \in Nat
  /\ hand \in [Peers -> {"up", "down", "gone"}]
  /\ presses \in Nat
  /\ wire \in [Peers -> Seq(Packet)]
  /\ known \subseteq Peers
  /\ seenAt \in [Peers -> Nat]
  /\ buttons \subseteq Peers
  /\ selecting \subseteq Peers
  /\ blocked \subseteq Peers
  /\ offset \in [Peers -> Int]
  /\ focus \in [owner : Peers \cup {Nobody}, since : Int]
  /\ pc \in {"prune", "incoming", "decide"}
  /\ queue \in Seq(Event)
  /\ held \in Peers \cup {Nobody}
  /\ claim \in [at : Int, exact : BOOLEAN]
  /\ removed \in BOOLEAN


Init ==
  /\ role \in Roles
  /\ skew \in [Peers -> Skews]
  /\ now = 0
  /\ hand = [p \in Peers |-> "up"]
  /\ presses = 0
  /\ wire = [p \in Peers |-> <<>>]
  /\ known = {}
  /\ seenAt = [p \in Peers |-> 0]
  /\ buttons = {}
  /\ selecting = {}
  /\ blocked = {}
  /\ offset = [p \in Peers |-> 0]
  /\ focus = [owner |-> Nobody, since |-> 0]
  /\ pc = "prune"
  /\ queue = <<>>
  /\ held = Nobody
  /\ claim = [at |-> 0, exact |-> TRUE]
  /\ removed = FALSE

-----------------------------------------------------------------------------
(* The peers.  InputEngine (src/src/InputEngine.cpp:288-300) turns a       *)
(* button into Click packets, and a release also into a SelectionUpdate    *)
(* that ends the selection; ProcessOutgoingPackets stamps them with the    *)
(* sender's clock.  A SelectionUpdate that begins one is sent by           *)
(* tests/live_edit_sim.py only.  Shutdown sends a Disconnect.              *)

Sent(p, kind) == [kind |-> kind, ts |-> now + skew[p], at |-> now]

(* A packet without localTimestamp.                                        *)
Unstamped(kind) == [kind |-> kind, ts |-> 0, at |-> 0]

PeerPress(p) ==
  /\ hand[p] = "up"
  /\ presses < MaxPresses
  /\ hand' = [hand EXCEPT ![p] = "down"]
  /\ presses' = presses + 1
  /\ wire' = [wire EXCEPT ![p] = Append(@, Sent(p, "press"))]
  /\ UNCHANGED <<role, now, skew, stateVars, focusVars, pc, queue, held,
                 removed>>

PeerSelect(p) ==
  /\ hand[p] = "down"
  /\ \A i \in 1 .. Len(wire[p]) : wire[p][i].kind # "select"
  /\ wire' = [wire EXCEPT ![p] = Append(@, Unstamped("select"))]
  /\ UNCHANGED <<role, now, skew, hand, presses, stateVars, focusVars, pc,
                 queue, held, removed>>

PeerRelease(p) ==
  /\ hand[p] = "down"
  /\ hand' = [hand EXCEPT ![p] = "up"]
  /\ wire' = [wire EXCEPT ![p] =
                Append(Append(@, Sent(p, "release")), Unstamped("unselect"))]
  /\ UNCHANGED <<role, now, skew, presses, stateVars, focusVars, pc, queue,
                 held, removed>>

PeerLeave(p) ==
  /\ hand[p] # "gone"
  /\ hand' = [hand EXCEPT ![p] = "gone"]
  /\ wire' = [wire EXCEPT ![p] = Append(@, Unstamped("disconnect"))]
  /\ UNCHANGED <<role, now, skew, presses, stateVars, focusVars, pc, queue,
                 held, removed>>

Tick ==
  /\ now < MaxTime
  /\ now' = now + 1
  /\ UNCHANGED <<role, peerVars, stateVars, focusVars, pc, queue, held,
                 removed>>

-----------------------------------------------------------------------------
(* SyncModule's map of peers.                                              *)

(* Seeded fault: lastSeen is set to an expired time instead of erased.     *)
ForgetAsExpired(ids) ==
  /\ known' = known \ ids
  /\ seenAt' = [p \in Peers |->
                 IF p \in ids THEN now - PruneAfter - 1 ELSE seenAt[p]]
  /\ UNCHANGED <<buttons, selecting, blocked, offset, removed, focusVars>>

(* Seeded fault: a removed peer may keep m_activePeerId.                   *)
ForgetPeersOnly(ids) ==
  /\ known' = known \ ids
  /\ seenAt' = [p \in Peers |-> IF p \in ids THEN 0 ELSE seenAt[p]]
  /\ buttons' = buttons \ ids
  /\ selecting' = selecting \ ids
  /\ blocked' = blocked \ ids
  /\ offset' = [p \in Peers |-> IF p \in ids THEN 0 ELSE offset[p]]
  /\ removed' = (removed \/ ids \cap known # {})
  /\ UNCHANGED focusVars

(* PruneInactivePeers and RemovePeer: the entry goes with all it holds,    *)
(* and m_activePeerId is reset when it was the peer's.                     *)
Forget(ids) ==
  /\ known' = known \ ids
  /\ seenAt' = [p \in Peers |-> IF p \in ids THEN 0 ELSE seenAt[p]]
  /\ buttons' = buttons \ ids
  /\ selecting' = selecting \ ids
  /\ blocked' = blocked \ ids
  /\ offset' = [p \in Peers |-> IF p \in ids THEN 0 ELSE offset[p]]
  /\ removed' = (removed \/ ids \cap known # {})
  /\ focus' = IF focus.owner \in ids
              THEN [focus EXCEPT !.owner = Nobody] ELSE focus
  /\ UNCHANGED claim

(* UpdateClockOffset: local time minus the remote time, both at arrival.   *)
MeasuredOffset(remoteTime, localTime) == localTime - remoteTime

Inactive == {p \in known : now - seenAt[p] > PruneAfter}

-----------------------------------------------------------------------------
(* The loop of Run.                                                        *)

(* PerformPeerCleanup runs in some turns of the loop (every five seconds). *)
PeerCleanup ==
  /\ pc = "prune"
  /\ pc' = "incoming"
  /\ \/ Forget(Inactive)
     \/ UNCHANGED <<stateVars, focusVars, removed>>
  /\ UNCHANGED <<role, now, peerVars, queue, held>>

(* Seeded fault: a server, too, is sent clicks by UDP.                     *)
AnyPacket(p) == 1 .. Len(wire[p])

(* Which packet of p ProcessIncomingPackets takes next.  A server reads    *)
(* p's TCP stream in order.  A client gets what the server relays by UDP   *)
(* (SendPacketToGroup), in any order; a packet never taken is a lost one.  *)
NextPackets(p) ==
  IF role = "server" THEN {i \in {1} : wire[p] # <<>>} ELSE 1 .. Len(wire[p])

Without(s, i) == SubSeq(s, 1, i - 1) \o SubSeq(s, i + 1, Len(s))

Take(p, i) ==
  /\ pc = "incoming"
  /\ wire' = [wire EXCEPT ![p] = Without(@, i)]
  /\ UNCHANGED <<role, now, skew, hand, presses, pc, held>>

(* Seeded fault: the newest event is decided first.                        *)
PushFront(event) == <<event>> \o queue

PushInteraction(event) == Append(queue, event)

(* Click: the button is noted if the peer is known; the event is queued in *)
(* any case.                                                               *)
ReceiveClick(p, i) ==
  /\ wire[p][i].kind \in {"press", "release"}
  /\ Take(p, i)
  /\ LET down == wire[p][i].kind = "press"
     IN /\ buttons' = IF p \notin known THEN buttons
                      ELSE IF down THEN buttons \cup {p} ELSE buttons \ {p}
        /\ queue' = PushInteraction([peer |-> p, down |-> down,
                                     ts |-> wire[p][i].ts,
                                     at |-> wire[p][i].at])
  /\ UNCHANGED <<known, seenAt, selecting, blocked, offset, focusVars, removed>>

(* SelectionUpdate: UpdatePeerSelection ignores a peer it does not know.   *)
ReceiveSelection(p, i) ==
  /\ wire[p][i].kind \in {"select", "unselect"}
  /\ Take(p, i)
  /\ selecting' = IF p \notin known THEN selecting
                  ELSE IF wire[p][i].kind = "select" THEN selecting \cup {p}
                  ELSE selecting \ {p}
  /\ UNCHANGED <<known, seenAt, buttons, blocked, offset, focusVars, queue,
                 removed>>

ReceiveDisconnect(p, i) ==
  /\ wire[p][i].kind = "disconnect"
  /\ Take(p, i)
  /\ Forget({p})
  /\ UNCHANGED queue

(* AbsoluteMovement, and Handshake, which calls the same UpdatePeer: the   *)
(* peer is created if need be, and its block mark is cleared.  A datagram  *)
(* may be late: it may come from a peer that has said Disconnect.          *)
ReceiveMovement(p) ==
  /\ pc = "incoming"
  /\ known' = known \cup {p}
  /\ seenAt' = [seenAt EXCEPT ![p] = now]
  /\ blocked' = blocked \ {p}
  /\ UNCHANGED <<role, now, peerVars, buttons, selecting, offset, focusVars,
                 pc, queue, held, removed>>

(* ResolutionUpdate, which a client sends once: UpdatePeerResolution       *)
(* creates the peer if need be, with a lastSeen of zero.                   *)
ReceiveResolution(p) ==
  /\ pc = "incoming"
  /\ p \notin known
  /\ known' = known \cup {p}
  /\ UNCHANGED <<role, now, peerVars, seenAt, buttons, selecting, blocked,
                 offset, focusVars, pc, queue, held, removed>>

(* Heartbeat: RefreshPeer; a client also measures the clock offset.  The   *)
(* travel time, which UpdateClockOffset estimates as half the latency, is  *)
(* taken as exact, so it drops out of both times.                          *)
ReceiveHeartbeat(p) ==
  /\ pc = "incoming"
  /\ p \in known
  /\ seenAt' = [seenAt EXCEPT ![p] = now]
  /\ offset' = IF role = "server" THEN offset
               ELSE [offset EXCEPT ![p] = MeasuredOffset(now + skew[p], now)]
  /\ UNCHANGED <<role, now, peerVars, known, buttons, selecting, blocked,
                 focusVars, pc, queue, held, removed>>

(* FocusUpdate, broadcast by the server: SetActivePeer(inPkt.button).  The *)
(* serializer carries no button for this type                              *)
(* (src/src/PacketSerializer.cpp:28-184), so it always reads 0: Nobody.    *)
ReceiveFocusUpdate ==
  /\ pc = "incoming"
  /\ role = "client"
  /\ focus' = [owner |-> Nobody, since |-> now]
  /\ claim' = [at |-> now, exact |-> TRUE]
  /\ UNCHANGED <<role, now, peerVars, stateVars, pc, queue, held, removed>>

NoMorePackets ==
  /\ pc = "incoming"
  /\ pc' = "decide"
  /\ UNCHANGED <<role, now, peerVars, stateVars, focusVars, queue, held,
                 removed>>

-----------------------------------------------------------------------------
(* ProcessInteractionQueue, one event per step.                            *)

At(event) == AdjustedTimestamp(event.ts, offset[event.peer])

Granted(event) ==
  ~ event.down \/ MayClaim(focus, selecting, event.peer, At(event))

(* Seeded fault: m_activePeerId is read without the gesture test.          *)
ResolveIgnoringGesture(event) ==
  IF event.down
  THEN focus' = Claim(focus, {}, event.peer, At(event))
  ELSE focus' = SoftRelease(focus, event.peer, At(event))

ResolveInteraction(event) ==
  IF event.down
  THEN focus' = Claim(focus, selecting, event.peer, At(event))
  ELSE focus' = SoftRelease(focus, event.peer, At(event))

(* History: what lies behind focus.since after this event.                 *)
RecordClaim(event) ==
  claim' = IF focus'.owner = event.peer /\ Granted(event)
           THEN [at |-> event.at,
                 exact |-> offset[event.peer] = MeasuredOffset(skew[event.peer], 0)]
           ELSE claim

(* Seeded fault: the button follows the packet, not the decision.          *)
InjectAlways(event) ==
  held' = IF event.down THEN event.peer ELSE Nobody

(* SendMouseButton or PerformWarpClickRestore: the OS has one such button. *)
Inject(event) ==
  held' = IF ~ Granted(event) THEN held
          ELSE IF event.down THEN event.peer ELSE Nobody

(* An event of a peer that is no longer known is dropped.                  *)
ProcessInteraction ==
  /\ pc = "decide"
  /\ queue # <<>>
  /\ queue' = Tail(queue)
  /\ LET event == Head(queue)
     IN IF event.peer \in known
        THEN /\ ResolveInteraction(event)
             /\ RecordClaim(event)
             /\ Inject(event)
             /\ blocked' = IF event.down
                              /\ RaisesBlock(focus, selecting, event.peer, At(event))
                           THEN blocked \cup {event.peer} ELSE blocked
        ELSE UNCHANGED <<focusVars, held, blocked>>
  /\ UNCHANGED <<role, now, peerVars, known, seenAt, buttons, selecting,
                 offset, pc, removed>>

QueueDrained ==
  /\ pc = "decide"
  /\ queue = <<>>
  /\ pc' = "prune"
  /\ UNCHANGED <<role, now, peerVars, stateVars, focusVars, queue, held,
                 removed>>

-----------------------------------------------------------------------------
Peer(p) ==
  \/ PeerPress(p)
  \/ PeerSelect(p)
  \/ PeerRelease(p)
  \/ PeerLeave(p)

Receive(p) ==
  \/ \E i \in NextPackets(p) : ReceiveClick(p, i)
  \/ \E i \in NextPackets(p) : ReceiveSelection(p, i)
  \/ \E i \in NextPackets(p) : ReceiveDisconnect(p, i)
  \/ ReceiveMovement(p)
  \/ ReceiveResolution(p)
  \/ ReceiveHeartbeat(p)

Next ==
  \/ \E p \in Peers : Peer(p)
  \/ \E p \in Peers : Receive(p)
  \/ Tick
  \/ PeerCleanup
  \/ ReceiveFocusUpdate
  \/ NoMorePackets
  \/ ProcessInteraction
  \/ QueueDrained

Spec == Init /\ [][Next]_vars

-----------------------------------------------------------------------------
(* The owner of the focus, and every peer with a button, a selection or a  *)
(* block mark, is a peer in the map: pruning and Disconnect, in whatever   *)
(* order they fall between a click and its decision, leave no dangling id  *)
(* (SyncModule.cpp:213-240, NetMuxFramework.cpp:368).                      *)
OwnerIsKnown ==
  /\ focus.owner \in known \cup {Nobody}
  /\ buttons \cup selecting \cup blocked \subseteq known

(* When every click has arrived and been decided, every finger is up, and  *)
(* no peer was ever removed, the server's OS button is up: preemption,     *)
(* refusal and takeover in any order never leave it pressed.               *)
ReleasedAtRest ==
  (/\ role = "server"
   /\ ~ removed
   /\ queue = <<>>
   /\ \A p \in Peers : hand[p] = "up" /\ wire[p] = <<>>)
  => held = Nobody

(* A press that is refused is never injected: the OS button goes down only *)
(* for a peer that owns the focus after the same step.                     *)
OnlyOwnerPressInjected ==
  [][held' \notin {held, Nobody} => focus'.owner = held']_vars

(* Gesture integrity (SyncModule.cpp:341): another peer takes the focus    *)
(* from an owner that is selecting only by the timeout.                    *)
GestureHolds ==
  [][(/\ focus.owner \in selecting
      /\ focus'.owner \notin {focus.owner, Nobody})
     => focus'.since - focus.since > Timeout]_vars

(* The server reads a peer's clicks in the order they were made, so the    *)
(* time kept for an owner never runs back while it stays the owner: each   *)
(* of its clicks overwrites m_lastActiveSwitch without a comparison        *)
(* (SyncModule.cpp:319, 333), and an older one would change which presses  *)
(* of the others count as earlier, and free the focus too soon.            *)
OwnerTimeAdvances ==
  [][(role = "server" /\ focus.owner # Nobody /\ focus'.owner = focus.owner)
     => focus'.since >= focus.since]_vars

(* clockOffset is the "offset to convert remote timestamps to local        *)
(* timeline" (SyncModule.hpp:41): where it was measured exactly, the time  *)
(* kept for the owner's click is the local time at which it occurred.      *)
UnifiedTimeline == claim.exact => focus.since = claim.at
=============================================================================
