---------------------- MODULE InteractionOwnership_proofs ----------------------
(***************************************************************************)
(* For every set of peers, every clock skew, every Timeout and every       *)
(* bound: the types, the absence of dangling peer ids, the release of the  *)
(* OS button, and the three action properties of InteractionOwnership.     *)
(***************************************************************************)
EXTENDS InteractionOwnership, SequenceTheorems, TLAPS

USE TimeoutAssumption, PeersAssumption, SkewsAssumption, BoundsAssumption

(* Taking one packet out of a queue leaves a queue of packets.             *)
LEMMA WithoutIsSeq ==
  ASSUME NEW S, NEW s \in Seq(S), NEW i \in 1 .. Len(s)
  PROVE  Without(s, i) \in Seq(S)
<1>1. Len(s) \in Nat /\ \A j \in 1 .. Len(s) : s[j] \in S
  BY ElementOfSeq, LenProperties
<1>2. SubSeq(s, 1, i - 1) \in Seq(S)
  <2>1. \A j \in 1 .. (i - 1) : s[j] \in S
    BY <1>1
  <2> QED BY <2>1, SubSeqProperties, <1>1
<1>3. SubSeq(s, i + 1, Len(s)) \in Seq(S)
  <2>1. \A j \in (i + 1) .. Len(s) : s[j] \in S
    BY <1>1
  <2> QED BY <2>1, SubSeqProperties, <1>1
<1> QED BY <1>2, <1>3, ConcatProperties DEF Without

(* What ProcessIncomingPackets takes is a packet, whatever the role.       *)
LEMMA TakenIsPacket ==
  ASSUME TypeOK, NEW p \in Peers, NEW i \in NextPackets(p)
  PROVE  /\ i \in 1 .. Len(wire[p])
         /\ wire[p][i] \in Packet
         /\ [wire EXCEPT ![p] = Without(@, i)] \in [Peers -> Seq(Packet)]
<1>1. wire[p] \in Seq(Packet)
  BY DEF TypeOK
<1>2. i \in 1 .. Len(wire[p])
  BY <1>1, EmptySeq DEF NextPackets
<1>3. wire[p][i] \in Packet
  BY <1>1, <1>2, ElementOfSeq
<1>4. Without(wire[p], i) \in Seq(Packet)
  BY <1>1, <1>2, WithoutIsSeq
<1> QED BY <1>2, <1>3, <1>4 DEF TypeOK

(* Whoever is removed, the map, its entries and the focus keep their types *)
(* and no id of a removed peer is left.                                    *)
LEMMA ForgetIsClean ==
  ASSUME TypeOK, NEW ids \in SUBSET Peers, Forget(ids)
  PROVE  /\ known' \subseteq Peers
         /\ seenAt' \in [Peers -> Nat]
         /\ buttons' \subseteq Peers
         /\ selecting' \subseteq Peers
         /\ blocked' \subseteq Peers
         /\ offset' \in [Peers -> Int]
         /\ removed' \in BOOLEAN
         /\ focus' \in [owner : Peers \cup {Nobody}, since : Int]
         /\ focus'.owner \in {focus.owner, Nobody}
         /\ claim' = claim
         /\ OwnerIsKnown => OwnerIsKnown'
<1>1. focus' \in [owner : Peers \cup {Nobody}, since : Int]
  BY DEF Forget, TypeOK
<1>2. focus'.owner \in {focus.owner, Nobody}
  BY DEF Forget, TypeOK
<1>3. focus'.owner \notin ids
  BY DEF Forget, TypeOK
<1>4. OwnerIsKnown => OwnerIsKnown'
  BY <1>2, <1>3 DEF Forget, TypeOK, OwnerIsKnown
<1>5. removed' \in BOOLEAN
  <2>1. removed' = (removed \/ ids \cap known # {})
    BY DEF Forget
  <2>2. (removed \/ ids \cap known # {}) \in BOOLEAN
    OBVIOUS
  <2> QED BY <2>1, <2>2, Zenon
<1>6. /\ known' \subseteq Peers
      /\ seenAt' \in [Peers -> Nat]
      /\ buttons' \subseteq Peers
      /\ selecting' \subseteq Peers
      /\ blocked' \subseteq Peers
      /\ offset' \in [Peers -> Int]
      /\ claim' = claim
  <2>1. /\ known' = known \ ids
        /\ seenAt' = [p \in Peers |-> IF p \in ids THEN 0 ELSE seenAt[p]]
        /\ buttons' = buttons \ ids
        /\ selecting' = selecting \ ids
        /\ blocked' = blocked \ ids
        /\ offset' = [p \in Peers |-> IF p \in ids THEN 0 ELSE offset[p]]
        /\ claim' = claim
    BY DEF Forget
  <2> QED BY <2>1 DEF TypeOK
<1> QED BY <1>1, <1>2, <1>4, <1>5, <1>6

(* What deciding an event of a known peer does to the focus, by cases.     *)
LEMMA ResolutionOutcome ==
  ASSUME TypeOK, NEW event \in Event, ResolveInteraction(event)
  PROVE  /\ At(event) \in Int
         /\ focus' \in [owner : Peers \cup {Nobody}, since : Int]
         /\ focus'.owner \in {focus.owner, event.peer}
         /\ event.down /\ Granted(event)
              => focus' = [owner |-> event.peer, since |-> At(event)]
         /\ ~ event.down => focus'.owner = focus.owner
         /\ ~ Granted(event) => focus' = focus
<1>1. At(event) \in Int
  BY DEF At, AdjustedTimestamp, TypeOK, Event
<1>2. CASE event.down
  BY <1>1, <1>2 DEF ResolveInteraction, Claim, Granted, TypeOK, Event
<1>3. CASE ~ event.down
  BY <1>1, <1>3 DEF ResolveInteraction, SoftRelease, Granted, TypeOK, Event
<1> QED BY <1>1, <1>2, <1>3 DEF Event

(* The head of the queue is an event and the rest is a queue.              *)
LEMMA HeadIsEvent ==
  ASSUME TypeOK, queue # <<>>
  PROVE  Head(queue) \in Event /\ Tail(queue) \in Seq(Event)
BY HeadTailProperties DEF TypeOK

-----------------------------------------------------------------------------
IInv == TypeOK /\ OwnerIsKnown

LEMMA OwnershipInit == Init => IInv
<1> SUFFICES ASSUME Init PROVE IInv
  OBVIOUS
<1>1. TypeOK
  <2>1. /\ wire \in [Peers -> Seq(Packet)]
        /\ queue \in Seq(Event)
    BY EmptySeq DEF Init
  <2>2. claim \in [at : Int, exact : BOOLEAN]
    BY DEF Init
  <2>3. removed \in BOOLEAN
    BY Zenon DEF Init
  <2>4. /\ role \in Roles
        /\ skew \in [Peers -> Skews]
        /\ now \in Nat
        /\ hand \in [Peers -> {"up", "down", "gone"}]
        /\ presses \in Nat
        /\ known \subseteq Peers
        /\ seenAt \in [Peers -> Nat]
        /\ buttons \subseteq Peers
        /\ selecting \subseteq Peers
        /\ blocked \subseteq Peers
        /\ offset \in [Peers -> Int]
        /\ focus \in [owner : Peers \cup {Nobody}, since : Int]
        /\ pc \in {"prune", "incoming", "decide"}
        /\ held \in Peers \cup {Nobody}
    BY DEF Init
  <2> QED BY <2>1, <2>2, <2>3, <2>4 DEF TypeOK
<1>2. OwnerIsKnown
  BY DEF Init, OwnerIsKnown
<1> QED BY <1>1, <1>2 DEF IInv

LEMMA PeerStep == ASSUME IInv, NEW p \in Peers, Peer(p) PROVE IInv'
<1>1. /\ UNCHANGED <<role, now, skew, stateVars, focusVars, pc, queue, held,
                     removed>>
  BY DEF Peer, PeerPress, PeerSelect, PeerRelease, PeerLeave
<1>2. OwnerIsKnown'
  BY <1>1 DEF IInv, OwnerIsKnown, stateVars, focusVars
<1>3. /\ hand' \in [Peers -> {"up", "down", "gone"}]
      /\ presses' \in Nat
  <2> USE DEF IInv, TypeOK
  <2>1. CASE PeerPress(p)
    BY <2>1 DEF PeerPress
  <2>2. CASE PeerSelect(p)
    BY <2>2 DEF PeerSelect
  <2>3. CASE PeerRelease(p)
    BY <2>3 DEF PeerRelease
  <2>4. CASE PeerLeave(p)
    BY <2>4 DEF PeerLeave
  <2> QED BY <2>1, <2>2, <2>3, <2>4 DEF Peer
<1>4. wire' \in [Peers -> Seq(Packet)]
  <2>0. skew[p] \in Int
    BY DEF IInv, TypeOK
  <2>1. wire[p] \in Seq(Packet) /\ now + skew[p] \in Int /\ now \in Int
    BY <2>0 DEF IInv, TypeOK
  <2>2. /\ Sent(p, "press") \in Packet
        /\ Sent(p, "release") \in Packet
        /\ Unstamped("select") \in Packet
        /\ Unstamped("unselect") \in Packet
        /\ Unstamped("disconnect") \in Packet
    BY <2>1 DEF Sent, Unstamped, Packet, Kinds
  <2>3. \A k \in Packet : Append(wire[p], k) \in Seq(Packet)
    BY <2>1, AppendProperties
  <2>4. Append(Append(wire[p], Sent(p, "release")), Unstamped("unselect"))
          \in Seq(Packet)
    BY <2>2, <2>3, AppendProperties
  <2>5. \E s \in Seq(Packet) : wire' = [wire EXCEPT ![p] = s]
    BY <2>2, <2>3, <2>4 DEF Peer, PeerPress, PeerSelect, PeerRelease, PeerLeave
  <2> QED BY <2>5 DEF IInv, TypeOK
<1> QED BY <1>1, <1>2, <1>3, <1>4 DEF IInv, TypeOK, stateVars, focusVars

LEMMA TickStep == ASSUME IInv, Tick PROVE IInv'
BY DEF IInv, TypeOK, OwnerIsKnown, Tick, peerVars, stateVars, focusVars

LEMMA CleanupStep == ASSUME IInv, PeerCleanup PROVE IInv'
<1>1. CASE Forget(Inactive)
  <2>1. Inactive \in SUBSET Peers
    BY DEF Inactive, IInv, TypeOK
  <2> QED BY <1>1, <2>1, ForgetIsClean DEF IInv, TypeOK, PeerCleanup, peerVars
<1>2. CASE UNCHANGED <<stateVars, focusVars, removed>>
  BY <1>2 DEF IInv, TypeOK, OwnerIsKnown, PeerCleanup, peerVars, stateVars, focusVars
<1> QED BY <1>1, <1>2 DEF PeerCleanup

LEMMA ReceivePacketStep ==
  ASSUME IInv, NEW p \in Peers, NEW i \in NextPackets(p),
         ReceiveClick(p, i) \/ ReceiveSelection(p, i) \/ ReceiveDisconnect(p, i)
  PROVE  IInv'
<1>1. /\ wire[p][i] \in Packet
      /\ wire' \in [Peers -> Seq(Packet)]
      /\ UNCHANGED <<role, now, skew, hand, presses, pc, held>>
  BY TakenIsPacket DEF IInv, ReceiveClick, ReceiveSelection, ReceiveDisconnect, Take
<1>2. CASE ReceiveClick(p, i)
  <2>1. [peer |-> p, down |-> wire[p][i].kind = "press",
         ts |-> wire[p][i].ts, at |-> wire[p][i].at] \in Event
    BY <1>1 DEF Packet, Event
  <2>2. queue' \in Seq(Event)
    BY <1>2, <2>1, AppendProperties DEF ReceiveClick, PushInteraction, IInv, TypeOK
  <2>3. buttons' \subseteq Peers /\ (OwnerIsKnown => buttons' \subseteq known)
    BY <1>2 DEF ReceiveClick, IInv, TypeOK, OwnerIsKnown
  <2>4. UNCHANGED <<known, seenAt, selecting, blocked, offset, focusVars, removed>>
    BY <1>2 DEF ReceiveClick
  <2> QED BY <1>1, <2>2, <2>3, <2>4 DEF IInv, TypeOK, OwnerIsKnown, focusVars
<1>3. CASE ReceiveSelection(p, i)
  <2>1. /\ selecting' \subseteq Peers
        /\ OwnerIsKnown => selecting' \subseteq known
    BY <1>3 DEF ReceiveSelection, IInv, TypeOK, OwnerIsKnown
  <2>2. UNCHANGED <<known, seenAt, buttons, blocked, offset, focusVars, queue, removed>>
    BY <1>3 DEF ReceiveSelection
  <2> QED BY <1>1, <2>1, <2>2 DEF IInv, TypeOK, OwnerIsKnown, focusVars
<1>4. CASE ReceiveDisconnect(p, i)
  <2>1. Forget({p}) /\ queue' = queue
    BY <1>4 DEF ReceiveDisconnect
  <2> QED BY <1>1, <2>1, ForgetIsClean DEF IInv, TypeOK
<1> QED BY <1>2, <1>3, <1>4

LEMMA ReceiveDatagramStep ==
  ASSUME IInv, NEW p \in Peers,
         ReceiveMovement(p) \/ ReceiveResolution(p) \/ ReceiveHeartbeat(p)
  PROVE  IInv'
<1>1. CASE ReceiveMovement(p)
  BY <1>1 DEF ReceiveMovement, IInv, TypeOK, OwnerIsKnown, peerVars, focusVars
<1>2. CASE ReceiveHeartbeat(p)
  <2>0. skew[p] \in Int
    BY DEF IInv, TypeOK
  <2>1. MeasuredOffset(now + skew[p], now) \in Int
    BY <2>0 DEF MeasuredOffset, IInv, TypeOK
  <2> QED
    BY <1>2, <2>1 DEF ReceiveHeartbeat, IInv, TypeOK, OwnerIsKnown, peerVars, focusVars
<1>3. CASE ReceiveResolution(p)
  BY <1>3 DEF ReceiveResolution, IInv, TypeOK, OwnerIsKnown, peerVars, focusVars
<1> QED BY <1>1, <1>2, <1>3

LEMMA FocusUpdateStep == ASSUME IInv, ReceiveFocusUpdate PROVE IInv'
BY DEF ReceiveFocusUpdate, IInv, TypeOK, OwnerIsKnown, peerVars, stateVars

LEMMA LoopStep == ASSUME IInv, NoMorePackets \/ QueueDrained PROVE IInv'
<1>1. /\ pc' \in {"prune", "incoming", "decide"}
      /\ UNCHANGED <<role, now, peerVars, stateVars, focusVars, queue, held,
                     removed>>
  BY DEF NoMorePackets, QueueDrained
<1> QED
  BY <1>1 DEF IInv, TypeOK, OwnerIsKnown, peerVars, stateVars, focusVars

LEMMA ProcessStep == ASSUME IInv, ProcessInteraction PROVE IInv'
<1> DEFINE event == Head(queue)
<1>1. queue # <<>> /\ queue' = Tail(queue)
  BY DEF ProcessInteraction
<1>2. event \in Event /\ queue' \in Seq(Event)
  BY <1>1, HeadIsEvent DEF IInv
<1>3. UNCHANGED <<role, now, peerVars, known, seenAt, buttons, selecting,
                  offset, pc, removed>>
  BY DEF ProcessInteraction
<1>4. CASE event.peer \in known
  <2>1. /\ ResolveInteraction(event)
        /\ RecordClaim(event)
        /\ Inject(event)
        /\ blocked' \subseteq blocked \cup {event.peer}
    BY <1>4 DEF ProcessInteraction
  <2>2. /\ focus' \in [owner : Peers \cup {Nobody}, since : Int]
        /\ focus'.owner \in {focus.owner, event.peer}
    BY <1>2, <2>1, ResolutionOutcome DEF IInv
  <2>3. claim' \in [at : Int, exact : BOOLEAN]
    BY <1>2, <2>1 DEF RecordClaim, IInv, TypeOK, Event
  <2>4. held' \in Peers \cup {Nobody}
    BY <1>2, <2>1 DEF Inject, IInv, TypeOK, Event
  <2>5. TypeOK'
    BY <1>2, <1>3, <2>1, <2>2, <2>3, <2>4 DEF IInv, TypeOK, peerVars, Event
  <2>6. OwnerIsKnown'
    BY <1>3, <1>4, <2>1, <2>2 DEF IInv, OwnerIsKnown
  <2> QED BY <2>5, <2>6 DEF IInv
<1>5. CASE event.peer \notin known
  <2>1. UNCHANGED <<focusVars, held, blocked>>
    BY <1>5 DEF ProcessInteraction
  <2> QED BY <1>2, <1>3, <2>1 DEF IInv, TypeOK, OwnerIsKnown, peerVars, focusVars
<1> QED BY <1>4, <1>5

LEMMA OwnershipStep == IInv /\ [Next]_vars => IInv'
<1> SUFFICES ASSUME IInv, [Next]_vars PROVE IInv'
  OBVIOUS
<1>1. ASSUME NEW p \in Peers, Peer(p) PROVE IInv'
  BY <1>1, PeerStep
<1>2. ASSUME NEW p \in Peers, Receive(p) PROVE IInv'
  BY <1>2, ReceivePacketStep, ReceiveDatagramStep DEF Receive
<1>3. CASE UNCHANGED vars
  BY <1>3 DEF vars, peerVars, stateVars, focusVars, IInv, TypeOK, OwnerIsKnown
<1> QED
  BY <1>1, <1>2, <1>3, TickStep, CleanupStep, FocusUpdateStep, LoopStep,
     ProcessStep DEF Next

-----------------------------------------------------------------------------
(* Every variable of the node keeps its type.                              *)
THEOREM OwnershipTypeCorrect == Spec => []TypeOK
<1>1. IInv => TypeOK
  BY DEF IInv
<1> QED BY <1>1, OwnershipInit, OwnershipStep, PTL DEF Spec

(* No dangling id: the owner of the focus and every peer with a mark is in *)
(* the map, however pruning, Disconnect and clicks interleave.             *)
THEOREM OwnerAlwaysKnown == Spec => []OwnerIsKnown
<1>1. IInv => OwnerIsKnown
  BY DEF IInv
<1> QED BY <1>1, OwnershipInit, OwnershipStep, PTL DEF Spec

(* The focus and the OS button move only as follows.  The focus goes to    *)
(* nobody, or stays where it is and the button is not pressed, or the step *)
(* decides an event of a known peer.                                       *)
LEMMA WhoMovesTheFocus ==
  ASSUME IInv, [Next]_vars
  PROVE  \/ focus'.owner = Nobody /\ held' = held
         \/ focus'.owner = focus.owner /\ held' = held
         \/ \E event \in Event :
               /\ ResolveInteraction(event)
               /\ Inject(event)
       <1>1. ASSUME NEW p \in Peers, Peer(p) PROVE focus' = focus /\ held' = held
  BY <1>1 DEF Peer, PeerPress, PeerSelect, PeerRelease, PeerLeave, focusVars
<1>2. CASE Tick \/ NoMorePackets \/ QueueDrained
  BY <1>2 DEF Tick, NoMorePackets, QueueDrained, focusVars
<1>3. ASSUME NEW ids \in SUBSET Peers, Forget(ids)
      PROVE  focus'.owner \in {focus.owner, Nobody}
  BY <1>3, ForgetIsClean DEF IInv
<1>4. CASE PeerCleanup
  <2>1. Inactive \in SUBSET Peers
    BY DEF Inactive, IInv, TypeOK
  <2> QED BY <1>3, <1>4, <2>1 DEF PeerCleanup, focusVars
<1>5. ASSUME NEW p \in Peers, Receive(p)
      PROVE  focus'.owner \in {focus.owner, Nobody} /\ held' = held
  <2>1. ASSUME NEW i \in NextPackets(p), ReceiveDisconnect(p, i)
        PROVE  focus'.owner \in {focus.owner, Nobody} /\ held' = held
    BY <1>3, <2>1 DEF ReceiveDisconnect, Take
  <2> QED
    BY <1>5, <2>1 DEF Receive, ReceiveClick, ReceiveSelection, Take,
       ReceiveMovement, ReceiveResolution, ReceiveHeartbeat, focusVars
<1>6. CASE ReceiveFocusUpdate
  BY <1>6 DEF ReceiveFocusUpdate
<1>7. CASE ProcessInteraction
  <2>1. Head(queue) \in Event
    BY <1>7, HeadIsEvent DEF IInv, ProcessInteraction
  <2> QED BY <1>7, <2>1 DEF ProcessInteraction, focusVars
<1>8. CASE UNCHANGED vars
  BY <1>8 DEF vars, focusVars
<1> QED
  BY <1>1, <1>2, <1>4, <1>5, <1>6, <1>7, <1>8 DEF Next

(* A refused press is never injected into the OS.                          *)
THEOREM RefusedIsNeverInjected == Spec => OnlyOwnerPressInjected
<1>1. IInv /\ [Next]_vars
        => [held' \notin {held, Nobody} => focus'.owner = held']_vars
  <2> SUFFICES ASSUME IInv, [Next]_vars, held' \notin {held, Nobody}
               PROVE  focus'.owner = held'
    OBVIOUS
  <2>1. PICK event \in Event : ResolveInteraction(event) /\ Inject(event)
    BY WhoMovesTheFocus
  <2>2. event.down /\ Granted(event) /\ held' = event.peer
    BY <2>1 DEF Inject
  <2>3. focus'.owner = event.peer
    BY <2>1, <2>2, ResolutionOutcome DEF IInv
  <2> QED BY <2>2, <2>3
<1> QED BY <1>1, OwnershipInit, OwnershipStep, PTL DEF Spec, OnlyOwnerPressInjected

(* Gesture integrity: a selecting owner loses the focus to another peer    *)
(* only when more than Timeout lies between their clicks.                  *)
THEOREM GestureAlwaysHolds == Spec => GestureHolds
<1>1. IInv /\ [Next]_vars
        => [(/\ focus.owner \in selecting
             /\ focus'.owner \notin {focus.owner, Nobody})
            => focus'.since - focus.since > Timeout]_vars
  <2> SUFFICES ASSUME IInv, [Next]_vars,
                      focus.owner \in selecting,
                      focus'.owner \notin {focus.owner, Nobody}
               PROVE  focus'.since - focus.since > Timeout
    OBVIOUS
  <2>1. PICK event \in Event : ResolveInteraction(event)
    BY WhoMovesTheFocus
  <2>2. focus.owner \in Peers /\ focus.owner # Nobody
    BY DEF IInv, TypeOK
  <2>3. /\ event.down
        /\ Granted(event)
        /\ focus' = [owner |-> event.peer, since |-> At(event)]
    BY <2>1, ResolutionOutcome DEF IInv, Event
  <2>4. MayClaim(focus, selecting, event.peer, At(event))
    BY <2>3 DEF Granted
  <2>5. TimedOut(focus, At(event))
    BY <2>2, <2>3, <2>4 DEF MayClaim, MayPreempt
  <2> QED BY <2>3, <2>5 DEF TimedOut
<1> QED BY <1>1, OwnershipInit, OwnershipStep, PTL DEF Spec, GestureHolds

-----------------------------------------------------------------------------
(* A release of p that is still to be decided, behind the n-th event of    *)
(* the queue, or p's finger is not up, so that one is still to come or p   *)
(* has left.                                                               *)
ReleaseComes(p, n) ==
  \/ hand[p] # "up"
  \/ \E j \in 1 .. Len(wire[p]) : wire[p][j].kind = "release"
  \/ \E j \in n + 1 .. Len(queue) : queue[j].peer = p /\ ~ queue[j].down

(* Every press on its way to a server has its release behind it, and so    *)
(* has the press that holds the button down.                               *)
PressesOnWire ==
  \A p \in Peers : \A i \in 1 .. Len(wire[p]) :
    wire[p][i].kind = "press" =>
      hand[p] # "up" \/ \E j \in i + 1 .. Len(wire[p]) : wire[p][j].kind = "release"

PressesInQueue ==
  \A i \in 1 .. Len(queue) : queue[i].down => ReleaseComes(queue[i].peer, i)

HolderLetsGo ==
  (held # Nobody /\ ~ removed) => held \in known /\ ReleaseComes(held, 0)

Followed == role = "server" => PressesOnWire /\ PressesInQueue /\ HolderLetsGo

LEMMA FollowedInit == Init => Followed
BY EmptySeq DEF Init, Followed, PressesOnWire, PressesInQueue, HolderLetsGo

(* A click: the packets that ProcessInteractionQueue decides.              *)
IsClick(packet) == packet.kind \in {"press", "release"}

(* What a peer does adds to its stream, and never loses a release; a click *)
(* bears the time of the peer's clock.                                     *)
LEMMA PeerSends ==
  ASSUME IInv, NEW p \in Peers, Peer(p)
  PROVE  /\ UNCHANGED <<role, now, skew, known, offset, focus, queue, held, removed>>
         /\ Len(wire[p]) \in Nat
         /\ Len(wire'[p]) \in Nat /\ Len(wire'[p]) > Len(wire[p])
         /\ \A q \in Peers \ {p} : wire'[q] = wire[q] /\ hand'[q] = hand[q]
         /\ \A i \in 1 .. Len(wire[p]) : wire'[p][i] = wire[p][i]
         /\ \A i \in Len(wire[p]) + 1 .. Len(wire'[p]) :
              /\ wire'[p][i].kind = "press" => hand'[p] = "down"
              /\ IsClick(wire'[p][i]) => wire'[p][i].ts = now + skew[p]
         /\ hand[p] # "up" =>
              \/ hand'[p] # "up"
              \/ \E j \in Len(wire[p]) + 1 .. Len(wire'[p]) : wire'[p][j].kind = "release"
<1>1. UNCHANGED <<role, now, skew, known, offset, focus, queue, held, removed>>
  BY DEF Peer, PeerPress, PeerSelect, PeerRelease, PeerLeave, stateVars, focusVars
<1>2. /\ wire \in [Peers -> Seq(Packet)] /\ hand \in [Peers -> {"up", "down", "gone"}]
  BY DEF IInv, TypeOK
<1>3. wire[p] \in Seq(Packet) /\ Len(wire[p]) \in Nat
  BY <1>2, LenProperties
<1>4. /\ Sent(p, "press") \in Packet /\ Sent(p, "release") \in Packet
      /\ Unstamped("select") \in Packet /\ Unstamped("unselect") \in Packet
      /\ Unstamped("disconnect") \in Packet
  <2>1. skew[p] \in Int
    BY DEF IInv, TypeOK
  <2>2. now \in Int
    BY DEF IInv, TypeOK
  <2> QED BY <2>1, <2>2 DEF Sent, Unstamped, Packet, Kinds
<1> DEFINE n == Len(wire[p])
<1>5. /\ \A q \in Peers \ {p} : wire'[q] = wire[q] /\ hand'[q] = hand[q]
      /\ Len(wire'[p]) \in Nat /\ Len(wire'[p]) > n
      /\ \A i \in 1 .. n : wire'[p][i] = wire[p][i]
      /\ \A i \in n + 1 .. Len(wire'[p]) :
           /\ wire'[p][i].kind = "press" => hand'[p] = "down"
           /\ IsClick(wire'[p][i]) => wire'[p][i].ts = now + skew[p]
      /\ hand[p] # "up" =>
           hand'[p] # "up" \/ \E j \in n + 1 .. Len(wire'[p]) : wire'[p][j].kind = "release"
  <2> USE DEF IsClick
  <2>1. ASSUME NEW k \in Packet, wire' = [wire EXCEPT ![p] = Append(wire[p], k)]
        PROVE  /\ \A q \in Peers \ {p} : wire'[q] = wire[q]
               /\ Len(wire'[p]) = n + 1 /\ wire'[p][n + 1] = k
               /\ \A i \in 1 .. n : wire'[p][i] = wire[p][i]
    BY <1>2, <1>3, <2>1, AppendProperties
  <2>2. CASE PeerPress(p)
    BY <1>2, <1>3, <1>4, <2>1, <2>2 DEF PeerPress, Sent
  <2>3. CASE PeerSelect(p)
    BY <1>2, <1>3, <1>4, <2>1, <2>3 DEF PeerSelect, Unstamped
  <2>4. CASE PeerLeave(p)
    BY <1>2, <1>3, <1>4, <2>1, <2>4 DEF PeerLeave, Unstamped
  <2>5. CASE PeerRelease(p)
    <3> DEFINE s == Append(wire[p], Sent(p, "release"))
               t == Append(s, Unstamped("unselect"))
    <3>1. /\ s \in Seq(Packet) /\ Len(s) = n + 1 /\ s[n + 1] = Sent(p, "release")
          /\ \A i \in 1 .. n : s[i] = wire[p][i]
      BY <1>3, <1>4, AppendProperties
    <3>2. /\ Len(t) = n + 2 /\ t[n + 2] = Unstamped("unselect")
          /\ \A i \in 1 .. n + 1 : t[i] = s[i]
      BY <1>3, <1>4, <3>1, AppendProperties
    <3>3. wire' = [wire EXCEPT ![p] = t] /\ hand' = [hand EXCEPT ![p] = "up"]
      BY <2>5 DEF PeerRelease
    <3> HIDE DEF t
    <3>4. /\ wire'[p] = t /\ \A q \in Peers \ {p} : wire'[q] = wire[q] /\ hand'[q] = hand[q]
      BY <1>2, <3>3
    <3>5. /\ t[n + 1].kind = "release" /\ t[n + 2].kind = "unselect"
          /\ t[n + 1].ts = now + skew[p]
          /\ \A i \in 1 .. n : t[i] = wire[p][i]
      <4> HIDE DEF s
      <4>1. n \in Nat
        BY <1>3
      <4>2. t[n + 1] = s[n + 1] /\ \A i \in 1 .. n : t[i] = s[i]
        BY <3>2, <4>1, SMT DEF n
      <4>3. QED BY <3>1, <3>2, <4>2 DEF Sent, Unstamped
    <3> HIDE DEF n, s
    <3>6. n \in Nat
      BY <1>3 DEF n
    <3>7. /\ Len(t) \in Nat /\ Len(t) > n /\ n + 1 \in n + 1 .. Len(t)
          /\ \A i \in n + 1 .. Len(t) : i = n + 1 \/ i = n + 2
      BY <3>2, <3>6, SMT
    <3> QED BY <3>4, <3>5, <3>7
  <2> QED BY <2>2, <2>3, <2>4, <2>5 DEF Peer
<1> QED BY <1>1, <1>3, <1>5

LEMMA PeerFollowed ==
  ASSUME IInv, Followed, role = "server", NEW p \in Peers, Peer(p)
  PROVE  Followed'
<1>1. UNCHANGED <<role, known, queue, held, removed>>
  BY PeerSends
<1>2. queue \in Seq(Event) /\ held \in Peers \cup {Nobody}
  BY DEF IInv, TypeOK
<1> DEFINE n == Len(wire[p])
<1>3. n \in Nat
  BY PeerSends
<1>5. /\ \A q \in Peers \ {p} : wire'[q] = wire[q] /\ hand'[q] = hand[q]
      /\ Len(wire'[p]) \in Nat /\ Len(wire'[p]) > n
      /\ \A i \in 1 .. n : wire'[p][i] = wire[p][i]
      /\ \A i \in n + 1 .. Len(wire'[p]) : wire'[p][i].kind = "press" => hand'[p] = "down"
      /\ hand[p] # "up" =>
           hand'[p] # "up" \/ \E j \in n + 1 .. Len(wire'[p]) : wire'[p][j].kind = "release"
  BY PeerSends
<1>6. ASSUME NEW q \in Peers, NEW m \in Nat, ReleaseComes(q, m) PROVE ReleaseComes(q, m)'
  <2>1. CASE q = p
    BY <1>1, <1>3, <1>5, <1>6, <2>1 DEF ReleaseComes
  <2>2. CASE q # p
    BY <1>1, <1>5, <1>6, <2>2 DEF ReleaseComes
  <2> QED BY <2>1, <2>2
<1>7. PressesOnWire'
  <2> SUFFICES ASSUME NEW q \in Peers, NEW i \in 1 .. Len(wire'[q]),
                      wire'[q][i].kind = "press", hand'[q] = "up"
               PROVE  \E j \in i + 1 .. Len(wire'[q]) : wire'[q][j].kind = "release"
    BY DEF PressesOnWire
  <2>1. PressesOnWire
    BY DEF Followed
  <2>2. CASE q # p
    BY <1>5, <2>1, <2>2 DEF PressesOnWire
  <2>3. CASE q = p
    <3>1. n \in Nat /\ Len(wire'[p]) \in Nat /\ Len(wire'[p]) > n
      BY <1>3, <1>5
    <3>2. ~ (i \in n + 1 .. Len(wire'[p]))
      BY <1>5, <2>3
    <3>3. i \in 1 .. n
      <4> HIDE DEF n
      <4> QED BY <2>3, <3>1, <3>2, SMT
    <3>4. wire[p][i].kind = "press"
      BY <1>5, <2>3, <3>3
    <3>5. CASE hand[p] # "up"
      <4>1. PICK j \in n + 1 .. Len(wire'[p]) : wire'[p][j].kind = "release"
        BY <1>5, <2>3, <3>5
      <4>2. j \in i + 1 .. Len(wire'[p])
        <5> HIDE DEF n
        <5> QED BY <3>1, <3>3, SMT
      <4> QED BY <2>3, <4>1, <4>2
    <3>6. CASE hand[p] = "up"
      <4>1. PICK j \in i + 1 .. n : wire[p][j].kind = "release"
        BY <2>1, <3>3, <3>4, <3>6 DEF PressesOnWire
      <4>2. j \in 1 .. n /\ j \in i + 1 .. Len(wire'[p])
        <5> HIDE DEF n
        <5> QED BY <3>1, <3>3, SMT
      <4> QED BY <1>5, <2>3, <4>1, <4>2
    <3> QED BY <3>5, <3>6
  <2> QED BY <2>2, <2>3
<1>8. PressesInQueue'
  <2> SUFFICES ASSUME NEW i \in 1 .. Len(queue), queue[i].down
               PROVE  ReleaseComes(queue[i].peer, i)'
    BY <1>1 DEF PressesInQueue
  <2>1. queue[i] \in Event /\ Len(queue) \in Nat
    BY <1>2, ElementOfSeq, LenProperties
  <2>2. queue[i].peer \in Peers /\ i \in Nat
    BY <2>1 DEF Event
  <2>3. ReleaseComes(queue[i].peer, i)
    BY DEF Followed, PressesInQueue
  <2>4. PICK q \in Peers : q = queue[i].peer
    BY <2>2
  <2>5. ReleaseComes(q, i)'
    BY <1>6, <2>2, <2>3, <2>4
  <2> QED BY <1>1, <2>4, <2>5 DEF ReleaseComes
<1>9. HolderLetsGo'
  BY <1>1, <1>2, <1>6 DEF Followed, HolderLetsGo
<1> QED BY <1>7, <1>8, <1>9 DEF Followed

(* A server takes the first packet of a stream.                            *)
LEMMA WithoutFirst ==
  ASSUME NEW S, NEW s \in Seq(S), s # <<>>
  PROVE  /\ Len(s) \in Nat \ {0} /\ Len(Without(s, 1)) = Len(s) - 1
         /\ \A i \in 1 .. Len(s) - 1 : Without(s, 1)[i] = s[i + 1]
<1>1. Len(s) \in Nat \ {0} /\ \A i \in 1 .. Len(s) : s[i] \in S
  BY ElementOfSeq, EmptySeq
<1>2. SubSeq(s, 1, 0) = <<>>
  BY SubSeqEmpty
<1>3. /\ SubSeq(s, 2, Len(s)) \in Seq(S)
      /\ Len(SubSeq(s, 2, Len(s))) = Len(s) - 1
      /\ \A i \in 1 .. Len(s) - 1 : SubSeq(s, 2, Len(s))[i] = s[i + 1]
  BY TailIsSubSeq, HeadTailProperties
<1>4. Without(s, 1) = SubSeq(s, 2, Len(s))
  BY <1>2, <1>3, ConcatEmptySeq DEF Without
<1> QED BY <1>1, <1>3, <1>4

(* Who is not removed stays in the map.                                    *)
LEMMA ForgetKeepsOrTells ==
  ASSUME TypeOK, NEW ids, Forget(ids), ~ removed'
  PROVE  ~ removed /\ known' = known
BY DEF Forget, TypeOK

(* Taking the first packet of a stream: a click goes to the end of the     *)
(* queue, with its time, and nothing else is queued.                       *)
LEMMA PacketTaken ==
  ASSUME IInv, role = "server", NEW p \in Peers, NEW i \in NextPackets(p),
         ReceiveClick(p, i) \/ ReceiveSelection(p, i) \/ ReceiveDisconnect(p, i)
  PROVE  /\ UNCHANGED <<role, now, skew, hand, held>>
         /\ Len(wire[p]) \in Nat \ {0} /\ Len(wire'[p]) = Len(wire[p]) - 1
         /\ wire[p][1] \in Packet
         /\ \A j \in 1 .. Len(wire[p]) - 1 : wire'[p][j] = wire[p][j + 1]
         /\ \A q \in Peers \ {p} : wire'[q] = wire[q]
         /\ Len(queue) \in Nat /\ \A j \in 1 .. Len(queue) : queue[j] \in Event
         /\ Len(queue') \in {Len(queue), Len(queue) + 1}
         /\ \A j \in 1 .. Len(queue) : queue'[j] = queue[j]
         /\ wire[p][1].kind = "release" =>
              /\ Len(queue') = Len(queue) + 1
              /\ ~ queue'[Len(queue) + 1].down
         /\ Len(queue') = Len(queue) + 1 =>
              /\ IsClick(wire[p][1])
              /\ queue'[Len(queue) + 1].peer = p
              /\ queue'[Len(queue) + 1].ts = wire[p][1].ts
              /\ queue'[Len(queue) + 1].down => wire[p][1].kind = "press"
<1>1. /\ i = 1 /\ wire[p] # <<>> /\ wire[p] \in Seq(Packet) /\ queue \in Seq(Event)
      /\ wire \in [Peers -> Seq(Packet)] /\ held \in Peers \cup {Nobody}
  BY DEF NextPackets, IInv, TypeOK
<1>2. wire' = [wire EXCEPT ![p] = Without(wire[p], 1)] /\ UNCHANGED <<role, now, skew, hand, held>>
  BY <1>1 DEF ReceiveClick, ReceiveSelection, ReceiveDisconnect, Take
<1> DEFINE n == Len(wire[p])
           first == wire[p][1]
<1>3. /\ n \in Nat \ {0} /\ Len(wire'[p]) = n - 1 /\ first \in Packet
      /\ \A j \in 1 .. n - 1 : wire'[p][j] = wire[p][j + 1]
      /\ \A q \in Peers \ {p} : wire'[q] = wire[q]
  BY <1>1, <1>2, WithoutFirst, ElementOfSeq
<1>4. Len(queue) \in Nat /\ \A j \in 1 .. Len(queue) : queue[j] \in Event
  BY <1>1, ElementOfSeq, LenProperties
<1>5. CASE ReceiveClick(p, i)
  <2> DEFINE event == [peer |-> p, down |-> first.kind = "press",
                       ts |-> first.ts, at |-> first.at]
  <2>1. event \in Event
    BY <1>3 DEF Packet, Event
  <2>2. queue' = Append(queue, event) /\ first.kind \in {"press", "release"}
    BY <1>1, <1>5 DEF ReceiveClick, PushInteraction
  <2>3. /\ Len(queue') = Len(queue) + 1 /\ queue'[Len(queue) + 1] = event
        /\ \A j \in 1 .. Len(queue) : queue'[j] = queue[j]
    BY <1>1, <2>1, <2>2, AppendProperties
  <2>4. event.peer = p /\ event.ts = first.ts /\ (event.down <=> first.kind = "press")
    OBVIOUS
  <2> HIDE DEF event
  <2>5. first.kind = "release" => ~ event.down
    BY <2>4
  <2> QED BY <1>2, <1>3, <1>4, <2>2, <2>3, <2>4, <2>5 DEF IsClick
<1>6. CASE ~ ReceiveClick(p, i)
  <2>1. queue' = queue /\ first.kind # "release"
    BY <1>1, <1>6 DEF ReceiveSelection, ReceiveDisconnect
  <2> QED BY <1>2, <1>3, <1>4, <2>1
<1> QED BY <1>5, <1>6

LEMMA PacketFollowed ==
  ASSUME IInv, Followed, role = "server", NEW p \in Peers, NEW i \in NextPackets(p),
         ReceiveClick(p, i) \/ ReceiveSelection(p, i) \/ ReceiveDisconnect(p, i)
  PROVE  Followed'
<1>1. held \in Peers \cup {Nobody}
  BY DEF IInv, TypeOK
<1>2. UNCHANGED <<role, hand, held>>
  BY PacketTaken
<1> DEFINE n == Len(wire[p])
           first == wire[p][1]
<1>3. /\ n \in Nat \ {0} /\ Len(wire'[p]) = n - 1 /\ first \in Packet
      /\ \A j \in 1 .. n - 1 : wire'[p][j] = wire[p][j + 1]
      /\ \A q \in Peers \ {p} : wire'[q] = wire[q]
  BY PacketTaken
<1>4. ASSUME NEW j \in 2 .. n PROVE j - 1 \in 1 .. Len(wire'[p]) /\ wire'[p][j - 1] = wire[p][j]
  BY <1>3
<1>5. Len(queue) \in Nat /\ \A j \in 1 .. Len(queue) : queue[j] \in Event
  BY PacketTaken
<1>6. PressesOnWire'
  <2> SUFFICES ASSUME NEW q \in Peers, NEW j \in 1 .. Len(wire'[q]),
                      wire'[q][j].kind = "press", hand'[q] = "up"
               PROVE  \E k \in j + 1 .. Len(wire'[q]) : wire'[q][k].kind = "release"
    BY DEF PressesOnWire
  <2>1. CASE q = p
    <3>1. j + 1 \in 1 .. n /\ wire[p][j + 1].kind = "press" /\ hand[p] = "up"
      BY <1>2, <1>3, <2>1
    <3>2. PICK k \in j + 2 .. n : wire[p][k].kind = "release"
      BY <3>1 DEF Followed, PressesOnWire
    <3>3. k - 1 \in j + 1 .. Len(wire'[p]) /\ wire'[p][k - 1].kind = "release"
      BY <1>3, <3>1, <3>2
    <3> QED BY <2>1, <3>3
  <2>2. CASE q # p
    BY <1>2, <1>3, <2>2 DEF Followed, PressesOnWire
  <2> QED BY <2>1, <2>2
<1>7. /\ Len(queue') \in Nat /\ Len(queue') >= Len(queue)
      /\ \A j \in 1 .. Len(queue) : queue'[j] = queue[j]
      /\ first.kind = "release" =>
           /\ Len(queue') = Len(queue) + 1
           /\ queue'[Len(queue) + 1].peer = p /\ ~ queue'[Len(queue) + 1].down
      /\ \A j \in Len(queue) + 1 .. Len(queue') :
           queue'[j].peer = p /\ (queue'[j].down => first.kind = "press")
  BY PacketTaken
<1>8. ASSUME NEW q \in Peers, NEW m \in 0 .. Len(queue), ReleaseComes(q, m)
      PROVE  ReleaseComes(q, m)'
  <2>1. CASE hand[q] # "up"
    BY <1>2, <2>1 DEF ReleaseComes
  <2>2. CASE \E j \in 1 .. Len(wire[q]) : wire[q][j].kind = "release"
    <3>1. CASE q # p
      BY <1>3, <2>2, <3>1 DEF ReleaseComes
    <3>2. CASE q = p /\ first.kind = "release"
      <4>1. Len(queue) + 1 \in m + 1 .. Len(queue')
        BY <1>5, <1>7, <3>2
      <4> QED BY <1>7, <3>2, <4>1 DEF ReleaseComes
    <3>3. CASE q = p /\ first.kind # "release"
      <4>1. PICK j \in 2 .. n : wire[p][j].kind = "release"
        BY <1>3, <2>2, <3>3
      <4> QED BY <1>4, <3>3, <4>1 DEF ReleaseComes
    <3> QED BY <3>1, <3>2, <3>3
  <2>3. CASE \E j \in m + 1 .. Len(queue) : queue[j].peer = q /\ ~ queue[j].down
    <3>1. PICK j \in m + 1 .. Len(queue) : queue[j].peer = q /\ ~ queue[j].down
      BY <2>3
    <3>2. j \in m + 1 .. Len(queue') /\ queue'[j] = queue[j]
      BY <1>5, <1>7
    <3> QED BY <3>1, <3>2 DEF ReleaseComes
  <2> QED BY <1>8, <2>1, <2>2, <2>3 DEF ReleaseComes
<1>9. PressesInQueue'
  <2> SUFFICES ASSUME NEW j \in 1 .. Len(queue'), queue'[j].down
               PROVE  ReleaseComes(queue[j].peer, j)'
    BY DEF PressesInQueue
  <2>1. CASE j \in 1 .. Len(queue)
    <3>1. queue'[j] = queue[j] /\ queue[j].peer \in Peers /\ ReleaseComes(queue[j].peer, j)
      BY <1>5, <1>7, <2>1 DEF Followed, PressesInQueue, Event
    <3>2. PICK q \in Peers : q = queue[j].peer
      BY <3>1
    <3>3. ReleaseComes(q, j)'
      BY <1>5, <1>8, <2>1, <3>1, <3>2
    <3> QED BY <3>1, <3>2, <3>3 DEF ReleaseComes
  <2>2. CASE j \notin 1 .. Len(queue)
    <3>1. queue'[j].peer = p /\ first.kind = "press"
      BY <1>5, <1>7, <2>2
    <3>2. hand[p] # "up" \/ \E k \in 2 .. n : wire[p][k].kind = "release"
      BY <1>3, <3>1 DEF Followed, PressesOnWire
    <3> QED BY <1>2, <1>4, <3>1, <3>2 DEF ReleaseComes
  <2> QED BY <2>1, <2>2
<1>10. HolderLetsGo'
  <2> SUFFICES ASSUME held # Nobody, ~ removed'
               PROVE  held \in known' /\ ReleaseComes(held, 0)'
    BY <1>2 DEF HolderLetsGo
  <2>1. ~ removed /\ known' = known
    BY ForgetKeepsOrTells DEF ReceiveClick, ReceiveSelection, ReceiveDisconnect, IInv
  <2>2. held \in known /\ ReleaseComes(held, 0) /\ held \in Peers
    BY <1>1, <2>1 DEF Followed, HolderLetsGo
  <2>3. ReleaseComes(held, 0)'
    BY <1>2, <1>5, <1>8, <2>2 DEF ReleaseComes
  <2> QED BY <2>1, <2>2, <2>3
<1> QED BY <1>6, <1>9, <1>10 DEF Followed
(* Deciding the head of the queue: a press has its release behind it, and  *)
(* a release lets the button go, whoever's it is.                          *)
LEMMA ProcessFollowed ==
  ASSUME IInv, Followed, role = "server", ProcessInteraction
  PROVE  Followed'
<1> DEFINE event == Head(queue)
           n == Len(queue)
<1>1. /\ queue \in Seq(Event) /\ queue # <<>> /\ queue' = Tail(queue)
      /\ held \in Peers \cup {Nobody}
      /\ UNCHANGED <<role, hand, wire, known, removed>>
  BY DEF ProcessInteraction, peerVars, IInv, TypeOK
<1>2. /\ n \in Nat \ {0} /\ Len(queue') = n - 1 /\ event = queue[1] /\ event \in Event
      /\ \A j \in 1 .. n - 1 : queue'[j] = queue[j + 1]
      /\ \A j \in 1 .. n : queue[j] \in Event
  BY <1>1, HeadTailProperties, ElementOfSeq, EmptySeq
<1>3. ASSUME NEW q \in Peers, NEW m \in 1 .. n, ReleaseComes(q, m)
      PROVE  ReleaseComes(q, m - 1)'
  <2>1. CASE \E j \in m + 1 .. n : queue[j].peer = q /\ ~ queue[j].down
    <3>1. PICK j \in m + 1 .. n : queue[j].peer = q /\ ~ queue[j].down
      BY <2>1
    <3>2. j - 1 \in m .. n - 1 /\ queue'[j - 1] = queue[j]
      BY <1>2, <3>1
    <3> QED BY <1>2, <3>1, <3>2 DEF ReleaseComes
  <2> QED BY <1>1, <1>3, <2>1 DEF ReleaseComes
<1>4. PressesOnWire'
  BY <1>1 DEF Followed, PressesOnWire
<1>5. PressesInQueue'
  <2> SUFFICES ASSUME NEW j \in 1 .. Len(queue'), queue'[j].down
               PROVE  ReleaseComes(queue[j].peer, j)'
    BY DEF PressesInQueue
  <2>1. j + 1 \in 1 .. n /\ queue'[j] = queue[j + 1] /\ queue[j + 1] \in Event
    BY <1>2
  <2>2. PICK q \in Peers : q = queue[j + 1].peer
    BY <2>1 DEF Event
  <2>3. ReleaseComes(q, j + 1)
    BY <2>1, <2>2 DEF Followed, PressesInQueue
  <2>4. (j + 1) - 1 = j
    BY <1>2
  <2>5. ReleaseComes(q, j)'
    BY <1>3, <2>1, <2>3, <2>4
  <2> QED BY <2>1, <2>2, <2>5 DEF ReleaseComes
<1>6. HolderLetsGo'
  <2> SUFFICES ASSUME held' # Nobody, ~ removed
               PROVE  held' \in known /\ ReleaseComes(held, 0)'
    BY <1>1 DEF HolderLetsGo
  <2>1. CASE held' = held
    <3>1. held \in known /\ held \in Peers /\ ReleaseComes(held, 0)
      BY <1>1, <2>1 DEF Followed, HolderLetsGo
    <3>2. ASSUME event.peer = held, ~ event.down PROVE FALSE
      <4>1. Granted(event) /\ event.peer \in known
        BY <3>1, <3>2 DEF Granted
      <4>2. held' = Nobody
        BY <3>2, <4>1 DEF ProcessInteraction, Inject
      <4> QED BY <4>2
    <3>3. ReleaseComes(held, 1)
      <4>1. CASE \E j \in 1 .. n : queue[j].peer = held /\ ~ queue[j].down
        <5>1. PICK j \in 1 .. n : queue[j].peer = held /\ ~ queue[j].down
          BY <4>1
        <5>2. j \in 2 .. n
          BY <1>2, <3>2, <5>1
        <5> QED BY <5>1, <5>2 DEF ReleaseComes
      <4> QED BY <3>1, <4>1 DEF ReleaseComes
    <3>4. ReleaseComes(held, 0)'
      <4>1. PICK q \in Peers : q = held
        BY <3>1
      <4>2. ReleaseComes(q, 1 - 1)'
        BY <1>2, <1>3, <3>3, <4>1
      <4> QED BY <2>1, <4>1, <4>2 DEF ReleaseComes
    <3> QED BY <2>1, <3>1, <3>4
  <2>2. CASE held' # held
    <3>1. event.peer \in known /\ event.down /\ held' = event.peer
      BY <2>2 DEF ProcessInteraction, Inject
    <3>2. event.peer \in Peers /\ ReleaseComes(event.peer, 1)
      BY <1>2, <3>1 DEF Followed, PressesInQueue, Event
    <3>3. ReleaseComes(held, 0)'
      <4>1. PICK q \in Peers : q = event.peer
        BY <3>2
      <4>2. ReleaseComes(q, 1 - 1)'
        BY <1>2, <1>3, <3>2, <4>1
      <4> QED BY <3>1, <4>1, <4>2 DEF ReleaseComes
    <3> QED BY <3>1, <3>3
  <2> QED BY <2>1, <2>2
<1> QED BY <1>4, <1>5, <1>6 DEF Followed

(* The other steps touch neither streams nor queue, and remove nobody      *)
(* without a trace.                                                        *)
LEMMA OtherFollowed ==
  ASSUME IInv, Followed, role = "server",
         UNCHANGED <<hand, wire, queue, held>>,
         ~ removed' => ~ removed /\ known \subseteq known'
  PROVE  PressesOnWire' /\ PressesInQueue' /\ HolderLetsGo'
<1>1. PressesOnWire'
  BY DEF Followed, PressesOnWire
<1>2. PressesInQueue'
  BY DEF Followed, PressesInQueue, ReleaseComes
<1>3. HolderLetsGo'
  BY DEF Followed, HolderLetsGo, ReleaseComes
<1> QED BY <1>1, <1>2, <1>3

LEMMA RoleIsFixed == ASSUME [Next]_vars PROVE role' = role
<1>1. ASSUME NEW p \in Peers, Peer(p) PROVE role' = role
  BY <1>1 DEF Peer, PeerPress, PeerSelect, PeerRelease, PeerLeave
<1>2. ASSUME NEW p \in Peers, Receive(p) PROVE role' = role
  BY <1>2 DEF Receive, ReceiveClick, ReceiveSelection, ReceiveDisconnect, Take,
              ReceiveMovement, ReceiveResolution, ReceiveHeartbeat
<1> QED BY <1>1, <1>2 DEF Next, vars, Tick, PeerCleanup, ReceiveFocusUpdate,
                          NoMorePackets, ProcessInteraction, QueueDrained

LEMMA FollowedStep == IInv /\ Followed /\ [Next]_vars => Followed'
<1> SUFFICES ASSUME IInv, Followed, [Next]_vars, role' = "server" PROVE Followed'
  BY DEF Followed
<1>1. role = "server"
  BY RoleIsFixed
<1>2. ASSUME UNCHANGED <<hand, wire, queue, held>>,
             ~ removed' => ~ removed /\ known \subseteq known'
      PROVE  Followed'
  BY <1>1, <1>2, OtherFollowed DEF Followed
<1>3. ASSUME NEW p \in Peers, Peer(p) PROVE Followed'
  BY <1>1, <1>3, PeerFollowed
<1>4. ASSUME NEW p \in Peers, Receive(p) PROVE Followed'
  <2>1. ASSUME NEW i \in NextPackets(p),
               ReceiveClick(p, i) \/ ReceiveSelection(p, i) \/ ReceiveDisconnect(p, i)
        PROVE  Followed'
    BY <1>1, <2>1, PacketFollowed
  <2>2. CASE ReceiveMovement(p) \/ ReceiveResolution(p) \/ ReceiveHeartbeat(p)
    BY <1>2, <2>2 DEF ReceiveMovement, ReceiveResolution, ReceiveHeartbeat, peerVars
  <2> QED BY <1>4, <2>1, <2>2 DEF Receive
<1>5. CASE PeerCleanup
  <2>1. UNCHANGED <<hand, wire, queue, held>>
    BY <1>5 DEF PeerCleanup, peerVars
  <2>2. ~ removed' => ~ removed /\ known \subseteq known'
    BY <1>5, ForgetKeepsOrTells DEF PeerCleanup, IInv, stateVars
  <2> QED BY <1>2, <2>1, <2>2
<1>6. CASE Tick \/ ReceiveFocusUpdate \/ NoMorePackets \/ QueueDrained
  BY <1>2, <1>6 DEF Tick, ReceiveFocusUpdate, NoMorePackets, QueueDrained, peerVars, stateVars
<1>7. CASE ProcessInteraction
  BY <1>1, <1>7, ProcessFollowed
<1>8. CASE UNCHANGED vars
  BY <1>2, <1>8 DEF vars, peerVars, stateVars
<1> QED BY <1>3, <1>4, <1>5, <1>6, <1>7, <1>8 DEF Next

(* Preemption, refusal and takeover in any order never leave the server's  *)
(* OS button pressed, when every click has been decided and no peer was    *)
(* removed (NetMuxFramework.cpp:361-387).                                  *)
THEOREM AlwaysReleasedAtRest == Spec => []ReleasedAtRest
<1>1. IInv /\ Followed => ReleasedAtRest
  <2> SUFFICES ASSUME IInv, Followed, role = "server", ~ removed, queue = <<>>,
                      \A p \in Peers : hand[p] = "up" /\ wire[p] = <<>>,
                      held # Nobody
               PROVE  FALSE
    BY DEF ReleasedAtRest
  <2>1. held \in Peers /\ ReleaseComes(held, 0)
    BY DEF IInv, TypeOK, Followed, HolderLetsGo
  <2> QED BY <2>1, EmptySeq DEF ReleaseComes
<1> QED BY <1>1, OwnershipInit, OwnershipStep, FollowedInit, FollowedStep, PTL DEF Spec

-----------------------------------------------------------------------------
(* A time no later than now on p's clock, nor than any click of p that is  *)
(* still to be decided.                                                    *)
Before(p, t) ==
  /\ t <= now + skew[p]
  /\ \A i \in 1 .. Len(wire[p]) : IsClick(wire[p][i]) => t <= wire[p][i].ts
  /\ \A i \in 1 .. Len(queue) : queue[i].peer = p => t <= queue[i].ts

(* The clicks of p are in the order of their times: on the wire, in the    *)
(* queue, and those of the queue before those of the wire.                 *)
WireInOrder(p) ==
  \A i \in 1 .. Len(wire[p]) : IsClick(wire[p][i]) =>
    /\ wire[p][i].ts <= now + skew[p]
    /\ \A j \in i .. Len(wire[p]) : IsClick(wire[p][j]) => wire[p][i].ts <= wire[p][j].ts

QueueInOrder(p) ==
  \A i \in 1 .. Len(queue) : queue[i].peer = p =>
    /\ queue[i].ts <= now + skew[p]
    /\ \A j \in 1 .. Len(wire[p]) : IsClick(wire[p][j]) => queue[i].ts <= wire[p][j].ts
    /\ \A j \in i .. Len(queue) : queue[j].peer = p => queue[i].ts <= queue[j].ts

(* A server measures no offset, reads each peer's clicks in their order    *)
(* and has decided none that is newer than what is to come.                *)
Ordered ==
  role = "server" =>
    \A p \in Peers :
      /\ offset[p] = 0
      /\ WireInOrder(p)
      /\ QueueInOrder(p)
      /\ focus.owner = p => Before(p, focus.since)

LEMMA OrderedInit == Init => Ordered
<1> SUFFICES ASSUME Init, NEW p \in Peers
             PROVE  /\ offset[p] = 0 /\ WireInOrder(p) /\ QueueInOrder(p)
                    /\ focus.owner # p
  BY DEF Ordered
<1>1. offset[p] = 0 /\ focus.owner # p
  BY PeersAssumption DEF Init
<1>2. Len(wire[p]) = 0 /\ Len(queue) = 0
  BY EmptySeq DEF Init
<1> QED BY <1>1, <1>2 DEF WireInOrder, QueueInOrder

(* The types that the comparisons need.                                    *)
LEMMA OrderTypes ==
  ASSUME TypeOK
  PROVE  /\ now \in Int /\ skew \in [Peers -> Int] /\ focus.since \in Int
         /\ Len(queue) \in Nat /\ \A i \in 1 .. Len(queue) : queue[i] \in Event
         /\ \A p \in Peers : /\ Len(wire[p]) \in Nat
                             /\ \A i \in 1 .. Len(wire[p]) : wire[p][i] \in Packet
<1>1. /\ now \in Int /\ focus.since \in Int /\ queue \in Seq(Event)
      /\ \A p \in Peers : wire[p] \in Seq(Packet)
  BY DEF TypeOK
<1>2. skew \in [Peers -> Int]
  BY SkewsAssumption DEF TypeOK
<1> QED BY <1>1, <1>2, ElementOfSeq, LenProperties

(* What is sent is no older than what was sent before it.                  *)
LEMMA PeerOrdered ==
  ASSUME IInv, Ordered, role = "server", NEW p \in Peers, Peer(p)
  PROVE  Ordered'
<1> SUFFICES ASSUME NEW q \in Peers
             PROVE  /\ offset[q] = 0 /\ WireInOrder(q)' /\ QueueInOrder(q)'
                    /\ focus.owner = q => (Before(q, focus.since))'
  BY PeerSends DEF Ordered
<1>1. offset[q] = 0 /\ WireInOrder(q) /\ QueueInOrder(q)
      /\ (focus.owner = q => Before(q, focus.since))
  BY DEF Ordered
<1>2. UNCHANGED <<now, skew, focus, queue>>
  BY PeerSends
<1>3. CASE q # p
  <2>1. wire'[q] = wire[q]
    BY <1>3, PeerSends
  <2> QED BY <1>1, <1>2, <2>1 DEF WireInOrder, QueueInOrder, Before
<1>4. CASE q = p
  <2> DEFINE n == Len(wire[p])
             m == Len(wire'[p])
             t == now + skew[p]
  <2>1. /\ n \in Nat /\ m \in Nat /\ m > n /\ t \in Int /\ focus.since \in Int
        /\ \A i \in 1 .. n : wire'[p][i] = wire[p][i] /\ wire[p][i].ts \in Int
        /\ \A i \in n + 1 .. m : IsClick(wire'[p][i]) => wire'[p][i].ts = t
        /\ \A i \in 1 .. Len(queue) : queue[i].ts \in Int
    <3>1. /\ t \in Int /\ focus.since \in Int
          /\ \A i \in 1 .. n : wire[p][i] \in Packet
          /\ \A i \in 1 .. Len(queue) : queue[i] \in Event
      BY OrderTypes DEF IInv
    <3>2. /\ n \in Nat /\ m \in Nat /\ m > n
          /\ \A i \in 1 .. n : wire'[p][i] = wire[p][i]
          /\ \A i \in n + 1 .. m : IsClick(wire'[p][i]) => wire'[p][i].ts = t
      BY PeerSends
    <3> QED BY <3>1, <3>2 DEF Packet, Event
  <2>2. \A i \in 1 .. m : i \in 1 .. n \/ i \in n + 1 .. m
    <3> HIDE DEF n, m
    <3> QED BY <2>1, SMT
  <2>3. ASSUME NEW i \in 1 .. m, IsClick(wire'[p][i])
        PROVE  /\ wire'[p][i].ts \in Int /\ wire'[p][i].ts <= t
               /\ i \in n + 1 .. m => wire'[p][i].ts = t
    <3>1. CASE i \in 1 .. n
      <4>1. wire'[p][i] = wire[p][i] /\ wire[p][i].ts <= t
        BY <1>1, <1>4, <2>1, <2>3, <3>1 DEF WireInOrder
      <4> QED BY <2>1, <2>3, <3>1, <4>1
    <3>2. CASE i \in n + 1 .. m
      BY <2>1, <2>3, <3>2
    <3> QED BY <2>2, <3>1, <3>2
  <2>4. WireInOrder(p)'
    <3> SUFFICES ASSUME NEW i \in 1 .. m, IsClick(wire'[p][i]),
                        NEW j \in i .. m, IsClick(wire'[p][j])
                 PROVE  wire'[p][i].ts <= t /\ wire'[p][i].ts <= wire'[p][j].ts
      BY <1>2, <2>3 DEF WireInOrder
    <3>1. j \in 1 .. m
      <4> HIDE DEF m
      <4> QED BY <2>1, SMT
    <3>2. CASE j \in n + 1 .. m
      BY <2>3, <3>1, <3>2
    <3>3. CASE j \in 1 .. n
      <4>1. i \in 1 .. n /\ j \in i .. n
        <5> HIDE DEF n, m
        <5> QED BY <2>1, <3>3, SMT
      <4> QED BY <1>1, <1>4, <2>1, <2>3, <3>3, <4>1 DEF WireInOrder
    <3> QED BY <2>2, <3>1, <3>2, <3>3
  <2>5. ASSUME NEW x \in Int, x <= t,
               \A i \in 1 .. n : IsClick(wire[p][i]) => x <= wire[p][i].ts
        PROVE  \A i \in 1 .. m : IsClick(wire'[p][i]) => x <= wire'[p][i].ts
    <3> HIDE DEF n, m, t
    <3> QED BY <2>1, <2>2, <2>3, <2>5
  <2>6. QueueInOrder(p)'
    BY <1>1, <1>2, <1>4, <2>1, <2>5 DEF QueueInOrder
  <2>7. focus.owner = p => (Before(p, focus.since))'
    BY <1>1, <1>2, <1>4, <2>1, <2>5 DEF Before
  <2> QED BY <1>1, <1>4, <2>4, <2>6, <2>7
<1> QED BY <1>3, <1>4

(* The first click of the stream becomes the last of its peer in the queue. *)
LEMMA PacketOrdered ==
  ASSUME IInv, Ordered, role = "server", NEW p \in Peers, NEW i \in NextPackets(p),
         ReceiveClick(p, i) \/ ReceiveSelection(p, i) \/ ReceiveDisconnect(p, i)
  PROVE  Ordered'
<1> SUFFICES ASSUME NEW q \in Peers
             PROVE  /\ offset'[q] = 0 /\ WireInOrder(q)' /\ QueueInOrder(q)'
                    /\ focus'.owner = q => (Before(q, focus.since))'
  BY DEF Ordered
<1>1. offset[q] = 0 /\ WireInOrder(q) /\ QueueInOrder(q)
      /\ (focus.owner = q => Before(q, focus.since))
  BY DEF Ordered
<1>2. UNCHANGED <<now, skew>>
  BY PacketTaken
<1>3. /\ offset'[q] = 0
      /\ focus'.owner = q => focus' = focus
  <2>1. CASE ReceiveDisconnect(p, i)
    BY <1>1, <2>1, PeersAssumption DEF ReceiveDisconnect, Forget, IInv, TypeOK
  <2>2. CASE ~ ReceiveDisconnect(p, i)
    BY <1>1, <2>2 DEF ReceiveClick, ReceiveSelection, focusVars
  <2> QED BY <2>1, <2>2
<1> DEFINE n == Len(wire[p])
           k == Len(queue)
           first == wire[p][1]
<1>4. /\ n \in Nat \ {0} /\ Len(wire'[p]) = n - 1 /\ k \in Nat /\ Len(queue') \in {k, k + 1}
      /\ \A j \in 1 .. n - 1 : wire'[p][j] = wire[p][j + 1]
      /\ \A r \in Peers \ {p} : wire'[r] = wire[r]
      /\ \A j \in 1 .. k : queue'[j] = queue[j]
      /\ Len(queue') = k + 1 =>
           IsClick(first) /\ queue'[k + 1].peer = p /\ queue'[k + 1].ts = first.ts
      /\ first.ts \in Int
  BY PacketTaken DEF Packet
<1>5. \A j \in 1 .. Len(wire'[p]) : j + 1 \in 1 .. n /\ wire'[p][j] = wire[p][j + 1]
  <2>1. \A j \in 1 .. Len(wire'[p]) : j \in 1 .. n - 1 /\ j + 1 \in 1 .. n
    <3> HIDE DEF n
    <3> QED BY <1>4
  <2> QED BY <1>4, <2>1
<1>6. WireInOrder(q)'
  <2>1. CASE q # p
    BY <1>1, <1>2, <1>4, <2>1 DEF WireInOrder
  <2>2. CASE q = p
    <3> SUFFICES ASSUME NEW a \in 1 .. n - 1, IsClick(wire'[p][a])
                 PROVE  /\ wire'[p][a].ts <= now + skew[p]
                        /\ \A b \in a .. n - 1 : IsClick(wire'[p][b])
                             => wire'[p][a].ts <= wire'[p][b].ts
      BY <1>2, <1>4, <2>2 DEF WireInOrder
    <3>1. /\ a + 1 \in 1 .. n /\ wire'[p][a] = wire[p][a + 1]
          /\ \A b \in a .. n - 1 : b + 1 \in a + 1 .. n /\ wire'[p][b] = wire[p][b + 1]
      <4> HIDE DEF n
      <4> QED BY <1>4
    <3> QED BY <1>1, <2>2, <3>1 DEF WireInOrder
  <2> QED BY <2>1, <2>2
<1>7. ASSUME NEW x, \A j \in 1 .. Len(wire[q]) : IsClick(wire[q][j]) => x <= wire[q][j].ts,
             \A j \in 1 .. k : queue[j].peer = q => x <= queue[j].ts
      PROVE  /\ \A j \in 1 .. Len(wire'[q]) : IsClick(wire'[q][j]) => x <= wire'[q][j].ts
             /\ \A j \in 1 .. Len(queue') : queue'[j].peer = q => x <= queue'[j].ts
  <2>1. \A j \in 1 .. Len(wire'[q]) : IsClick(wire'[q][j]) => x <= wire'[q][j].ts
    <3>1. CASE q # p
      BY <1>4, <1>7, <3>1
    <3>2. CASE q = p
      BY <1>5, <1>7, <3>2
    <3> QED BY <3>1, <3>2
  <2>2. ASSUME NEW j \in 1 .. Len(queue'), queue'[j].peer = q PROVE x <= queue'[j].ts
    <3>1. j \in 1 .. k \/ (j = k + 1 /\ Len(queue') = k + 1)
      <4> HIDE DEF k
      <4> QED BY <1>4
    <3>2. CASE j \in 1 .. k
      BY <1>4, <1>7, <2>2, <3>2
    <3>3. CASE j = k + 1 /\ Len(queue') = k + 1
      <4>1. q = p /\ IsClick(first) /\ queue'[j].ts = first.ts
        BY <1>4, <2>2, <3>3
      <4>2. 1 \in 1 .. n
        <5> HIDE DEF n
        <5> QED BY <1>4
      <4> QED BY <1>7, <4>1, <4>2
    <3> QED BY <3>1, <3>2, <3>3
  <2> QED BY <2>1, <2>2
<1>8. QueueInOrder(q)'
  <2> SUFFICES ASSUME NEW a \in 1 .. Len(queue'), queue'[a].peer = q
               PROVE  /\ queue'[a].ts <= now + skew[q]
                      /\ \A j \in 1 .. Len(wire'[q]) :
                           IsClick(wire'[q][j]) => queue'[a].ts <= wire'[q][j].ts
                      /\ \A j \in a .. Len(queue') :
                           queue'[j].peer = q => queue'[a].ts <= queue'[j].ts
    BY <1>2 DEF QueueInOrder
  <2>1. a \in 1 .. k \/ (a = k + 1 /\ Len(queue') = k + 1)
    <3> HIDE DEF k
    <3> QED BY <1>4
  <2>2. CASE a = k + 1 /\ Len(queue') = k + 1
    <3>1. /\ q = p /\ IsClick(first) /\ queue'[a].ts = first.ts
          /\ \A j \in a .. Len(queue') : j = a
      <4> HIDE DEF k
      <4> QED BY <1>4, <2>2
    <3>2. 1 \in 1 .. n
      <4> HIDE DEF n
      <4> QED BY <1>4
    <3>3. first.ts <= now + skew[p]
          /\ \A j \in 1 .. n : IsClick(wire[p][j]) => first.ts <= wire[p][j].ts
      BY <1>1, <3>1, <3>2 DEF WireInOrder
    <3>4. first.ts <= first.ts
      BY <1>4
    <3>5. \A j \in 1 .. Len(wire'[p]) : IsClick(wire'[p][j]) => first.ts <= wire'[p][j].ts
      BY <1>5, <3>3
    <3> QED BY <3>1, <3>3, <3>4, <3>5
  <2>3. CASE a \in 1 .. k
    <3> DEFINE x == queue[a].ts
    <3>1. queue'[a] = queue[a] /\ x <= now + skew[q]
      BY <1>1, <1>4, <2>3 DEF QueueInOrder
    <3>2. /\ \A j \in 1 .. Len(wire[q]) : IsClick(wire[q][j]) => x <= wire[q][j].ts
          /\ \A j \in a .. k : queue[j].peer = q => x <= queue[j].ts
      BY <1>1, <2>3, <3>1 DEF QueueInOrder
    <3>3. \A j \in 1 .. Len(wire'[q]) : IsClick(wire'[q][j]) => x <= wire'[q][j].ts
      <4>1. CASE q # p
        BY <1>4, <3>2, <4>1
      <4>2. CASE q = p
        BY <1>5, <3>2, <4>2
      <4> QED BY <4>1, <4>2
    <3>4. ASSUME NEW j \in a .. Len(queue'), queue'[j].peer = q PROVE x <= queue'[j].ts
      <4>1. j \in a .. k \/ (j = k + 1 /\ Len(queue') = k + 1)
        <5> HIDE DEF k
        <5> QED BY <1>4, <2>3
      <4>2. CASE j \in a .. k
        <5>1. j \in 1 .. k
          <6> HIDE DEF k
          <6> QED BY <1>4, <2>3, <4>2
        <5> QED BY <1>4, <3>2, <3>4, <4>2, <5>1
      <4>3. CASE j = k + 1 /\ Len(queue') = k + 1
        <5>1. q = p /\ IsClick(first) /\ queue'[j].ts = first.ts
          BY <1>4, <3>4, <4>3
        <5>2. 1 \in 1 .. n
          <6> HIDE DEF n
          <6> QED BY <1>4
        <5> QED BY <3>2, <5>1, <5>2
      <4> QED BY <4>1, <4>2, <4>3
    <3> QED BY <3>1, <3>3, <3>4
  <2> QED BY <2>1, <2>2, <2>3
<1>9. focus'.owner = q => (Before(q, focus.since))'
  BY <1>1, <1>2, <1>3, <1>7 DEF Before
<1> QED BY <1>3, <1>6, <1>8, <1>9

(* On a server the time kept after a decision is the old one, or that of   *)
(* the click decided, which is then the owner's.                           *)
LEMMA DecisionTime ==
  ASSUME TypeOK, NEW event \in Event, offset[event.peer] = 0, ResolveInteraction(event)
  PROVE  \/ focus' = focus
         \/ focus' = [owner |-> event.peer, since |-> event.ts]
<1>1. At(event) = event.ts
  BY DEF At, AdjustedTimestamp, Event
<1>2. CASE event.down
  BY <1>1, <1>2 DEF ResolveInteraction, Claim
<1>3. CASE ~ event.down
  BY <1>1, <1>3 DEF ResolveInteraction, SoftRelease, TypeOK
<1> QED BY <1>2, <1>3 DEF Event

LEMMA ProcessOrdered ==
  ASSUME IInv, Ordered, role = "server", ProcessInteraction
  PROVE  Ordered'
<1> SUFFICES ASSUME NEW q \in Peers
             PROVE  /\ offset'[q] = 0 /\ WireInOrder(q)' /\ QueueInOrder(q)'
                    /\ focus'.owner = q => (Before(q, focus.since))'
  BY DEF Ordered
<1>1. offset[q] = 0 /\ WireInOrder(q) /\ QueueInOrder(q)
      /\ (focus.owner = q => Before(q, focus.since))
  BY DEF Ordered
<1>2. /\ UNCHANGED <<now, skew, offset, wire>> /\ queue' = Tail(queue)
      /\ queue \in Seq(Event) /\ queue # <<>>
  BY DEF ProcessInteraction, peerVars, IInv, TypeOK
<1> DEFINE n == Len(queue)
           event == queue[1]
<1>3. /\ n \in Nat \ {0} /\ Len(queue') = n - 1 /\ event \in Event /\ event = Head(queue)
      /\ \A j \in 1 .. n - 1 : queue'[j] = queue[j + 1]
      /\ \A j \in 1 .. n : queue[j] \in Event
  BY <1>2, HeadTailProperties, ElementOfSeq, EmptySeq
<1>4. /\ 1 \in 1 .. n
      /\ \A j \in 1 .. Len(queue') : j + 1 \in 1 .. n /\ queue'[j] = queue[j + 1]
  <2>1. /\ 1 \in 1 .. n
        /\ \A j \in 1 .. Len(queue') : j \in 1 .. n - 1 /\ j + 1 \in 1 .. n
    <3> HIDE DEF n
    <3> QED BY <1>3
  <2> QED BY <1>3, <2>1
<1>5. WireInOrder(q)'
  BY <1>1, <1>2 DEF WireInOrder
<1>6. QueueInOrder(q)'
  <2> SUFFICES ASSUME NEW a \in 1 .. Len(queue'), queue'[a].peer = q
               PROVE  /\ queue'[a].ts <= now + skew[q]
                      /\ \A j \in 1 .. Len(wire[q]) :
                           IsClick(wire[q][j]) => queue'[a].ts <= wire[q][j].ts
                      /\ \A j \in a .. Len(queue') :
                           queue'[j].peer = q => queue'[a].ts <= queue'[j].ts
    BY <1>2 DEF QueueInOrder
  <2>1. a + 1 \in 1 .. n /\ queue'[a] = queue[a + 1]
    BY <1>4
  <2>2. \A j \in a .. Len(queue') : j + 1 \in a + 1 .. n /\ queue'[j] = queue[j + 1]
    <3>1. \A j \in a .. Len(queue') : j \in 1 .. Len(queue') /\ j + 1 >= a + 1
      <4> HIDE DEF n
      <4> QED BY <1>3
    <3>2. \A j \in a .. Len(queue') : j + 1 \in 1 .. n /\ queue'[j] = queue[j + 1]
      BY <1>4, <3>1
    <3>3. \A j \in a .. Len(queue') : j + 1 \in a + 1 .. n
      <4> HIDE DEF n
      <4> QED BY <1>3, <2>1, <3>1, <3>2
    <3> QED BY <3>2, <3>3
  <2> QED BY <1>1, <2>1, <2>2 DEF QueueInOrder
<1>7. focus'.owner = q => (Before(q, focus.since))'
  <2> SUFFICES ASSUME focus'.owner = q PROVE (Before(q, focus.since))'
    OBVIOUS
  <2>1. CASE focus' = focus
    BY <1>1, <1>2, <1>4, <2>1 DEF Before
  <2>2. CASE focus' # focus
    <3>1. event.peer \in Peers /\ offset[event.peer] = 0
      BY <1>3 DEF Ordered, Event
    <3>2. ResolveInteraction(event)
      BY <1>3, <2>2 DEF ProcessInteraction, focusVars
    <3>3. focus' = [owner |-> event.peer, since |-> event.ts]
      BY <1>3, <2>2, <3>1, <3>2, DecisionTime DEF IInv
    <3>4. event.peer = q /\ focus'.since = event.ts
      BY <3>3
    <3>5. /\ event.ts <= now + skew[q]
          /\ \A j \in 1 .. Len(wire[q]) : IsClick(wire[q][j]) => event.ts <= wire[q][j].ts
          /\ \A j \in 1 .. n : queue[j].peer = q => event.ts <= queue[j].ts
      BY <1>1, <1>4, <3>4 DEF QueueInOrder
    <3> QED BY <1>2, <1>4, <3>4, <3>5 DEF Before
  <2> QED BY <2>1, <2>2
<1> QED BY <1>1, <1>2, <1>5, <1>6, <1>7

(* The other steps leave streams and queue alone; the clock may advance,   *)
(* and the owner may be forgotten.                                         *)
LEMMA OtherOrdered ==
  ASSUME IInv, Ordered, role = "server", UNCHANGED <<skew, wire, queue>>,
         now' \in Int, now' >= now,
         \A q \in Peers : offset[q] = 0 => offset'[q] = 0,
         \A q \in Peers : focus'.owner = q => focus' = focus
  PROVE  Ordered'
<1> SUFFICES ASSUME NEW q \in Peers
             PROVE  /\ offset'[q] = 0 /\ WireInOrder(q)' /\ QueueInOrder(q)'
                    /\ focus'.owner = q => (Before(q, focus.since))'
  BY DEF Ordered
<1>1. offset'[q] = 0 /\ WireInOrder(q) /\ QueueInOrder(q)
      /\ (focus.owner = q => Before(q, focus.since))
  BY DEF Ordered
<1>2. /\ now \in Int /\ skew[q] \in Int /\ focus.since \in Int
      /\ \A i \in 1 .. Len(queue) : queue[i].ts \in Int
      /\ \A i \in 1 .. Len(wire[q]) : wire[q][i].ts \in Int
  BY OrderTypes DEF IInv, Event, Packet
<1>3. \A x \in Int : x <= now + skew[q] => x <= now' + skew[q]
  BY <1>2
<1>4. WireInOrder(q)'
  BY <1>1, <1>2, <1>3 DEF WireInOrder
<1>5. QueueInOrder(q)'
  BY <1>1, <1>2, <1>3 DEF QueueInOrder
<1>6. focus'.owner = q => (Before(q, focus.since))'
  BY <1>1, <1>2, <1>3 DEF Before
<1> QED BY <1>1, <1>4, <1>5, <1>6

LEMMA OrderedStep == IInv /\ Ordered /\ [Next]_vars => Ordered'
<1> SUFFICES ASSUME IInv, Ordered, [Next]_vars, role' = "server" PROVE Ordered'
  BY DEF Ordered
<1>1. role = "server"
  BY RoleIsFixed
<1>2. ASSUME UNCHANGED <<skew, wire, queue>>, now' \in Int, now' >= now,
             \A q \in Peers : offset[q] = 0 => offset'[q] = 0,
             \A q \in Peers : focus'.owner = q => focus' = focus
      PROVE  Ordered'
  BY <1>1, <1>2, OtherOrdered
<1>3. now \in Int /\ now >= now
  BY DEF IInv, TypeOK
<1>4. ASSUME NEW p \in Peers, Peer(p) PROVE Ordered'
  BY <1>1, <1>4, PeerOrdered
<1>5. ASSUME NEW p \in Peers, Receive(p) PROVE Ordered'
  <2>1. ASSUME NEW i \in NextPackets(p),
               ReceiveClick(p, i) \/ ReceiveSelection(p, i) \/ ReceiveDisconnect(p, i)
        PROVE  Ordered'
    BY <1>1, <2>1, PacketOrdered
  <2>2. CASE ReceiveMovement(p) \/ ReceiveResolution(p) \/ ReceiveHeartbeat(p)
    BY <1>1, <1>2, <1>3, <2>2
       DEF ReceiveMovement, ReceiveResolution, ReceiveHeartbeat, peerVars, focusVars
  <2> QED BY <1>5, <2>1, <2>2 DEF Receive
<1>6. CASE PeerCleanup
  <2>1. UNCHANGED <<skew, wire, queue, now>>
    BY <1>6 DEF PeerCleanup, peerVars
  <2>2. /\ \A q \in Peers : offset[q] = 0 => offset'[q] = 0
        /\ \A q \in Peers : focus'.owner = q => focus' = focus
    BY <1>6, PeersAssumption DEF PeerCleanup, Forget, stateVars, focusVars, IInv, TypeOK
  <2> QED BY <1>2, <1>3, <2>1, <2>2
<1>7. CASE Tick
  BY <1>2, <1>3, <1>7 DEF Tick, peerVars, stateVars, focusVars
<1>8. CASE NoMorePackets \/ QueueDrained
  BY <1>2, <1>3, <1>8 DEF NoMorePackets, QueueDrained, peerVars, stateVars, focusVars
<1>9. CASE ReceiveFocusUpdate
  BY <1>1, <1>9 DEF ReceiveFocusUpdate
<1>10. CASE ProcessInteraction
  BY <1>1, <1>10, ProcessOrdered
<1>11. CASE UNCHANGED vars
  BY <1>2, <1>3, <1>11 DEF vars, peerVars, stateVars, focusVars
<1> QED BY <1>4, <1>5, <1>6, <1>7, <1>8, <1>9, <1>10, <1>11 DEF Next

(* Only a decision moves the time of an owner that stays.                  *)
LEMMA WhoMovesTheTime ==
  ASSUME IInv, [Next]_vars, role = "server", focus.owner # Nobody,
         focus'.owner = focus.owner
  PROVE  focus' = focus \/ ProcessInteraction
<1>1. ASSUME NEW p \in Peers, Peer(p) PROVE focus' = focus
  BY <1>1, PeerSends
<1>2. ASSUME NEW ids, Forget(ids) PROVE focus' = focus
  BY <1>2 DEF Forget, IInv, TypeOK
<1>3. ASSUME NEW p \in Peers, Receive(p) PROVE focus' = focus
  <2>1. ASSUME NEW i \in NextPackets(p), ReceiveDisconnect(p, i) PROVE focus' = focus
    BY <1>2, <2>1 DEF ReceiveDisconnect
  <2> QED
    BY <1>3, <2>1 DEF Receive, ReceiveClick, ReceiveSelection,
       ReceiveMovement, ReceiveResolution, ReceiveHeartbeat, focusVars
<1>4. CASE PeerCleanup
  BY <1>2, <1>4 DEF PeerCleanup, focusVars
<1>5. CASE Tick \/ NoMorePackets \/ QueueDrained \/ ReceiveFocusUpdate
  BY <1>5 DEF Tick, NoMorePackets, QueueDrained, ReceiveFocusUpdate, focusVars
<1>6. CASE UNCHANGED vars
  BY <1>6 DEF vars, focusVars
<1> QED BY <1>1, <1>3, <1>4, <1>5, <1>6 DEF Next

(* On a server the time kept for an owner never runs back while it stays   *)
(* the owner, although each of its clicks overwrites that time without a   *)
(* comparison (SyncModule.cpp:319, 333).                                   *)
THEOREM OwnerTimeAlwaysAdvances == Spec => OwnerTimeAdvances
<1>1. IInv /\ Ordered /\ [Next]_vars
        => [(role = "server" /\ focus.owner # Nobody /\ focus'.owner = focus.owner)
            => focus'.since >= focus.since]_vars
  <2> SUFFICES ASSUME IInv, Ordered, [Next]_vars,
                      role = "server", focus.owner # Nobody, focus'.owner = focus.owner
               PROVE  focus'.since >= focus.since
    OBVIOUS
  <2>1. focus.since \in Int /\ focus.owner \in Peers
    BY DEF IInv, TypeOK
  <2>2. CASE focus' = focus
    BY <2>1, <2>2
  <2>3. CASE focus' # focus
    <3>1. ProcessInteraction
      BY <2>3, WhoMovesTheTime
    <3> DEFINE event == Head(queue)
    <3>2. queue \in Seq(Event) /\ queue # <<>> /\ ResolveInteraction(event)
      BY <2>3, <3>1 DEF ProcessInteraction, focusVars, IInv, TypeOK
    <3>3. event \in Event /\ event = queue[1] /\ Len(queue) \in Nat \ {0}
      BY <3>2, HeadTailProperties, ElementOfSeq, EmptySeq
    <3>4. event.peer \in Peers /\ event.ts \in Int /\ offset[event.peer] = 0
      BY <3>3 DEF Event, Ordered
    <3>5. focus' = [owner |-> event.peer, since |-> event.ts]
      BY <2>3, <3>2, <3>3, <3>4, DecisionTime DEF IInv
    <3>6. event.peer = focus.owner /\ focus'.since = event.ts
      BY <3>5
    <3>7. Before(focus.owner, focus.since)
      BY <2>1 DEF Ordered
    <3>8. 1 \in 1 .. Len(queue)
      BY <3>3
    <3>9. focus.since <= queue[1].ts
      BY <3>3, <3>6, <3>7, <3>8 DEF Before
    <3> QED BY <2>1, <3>3, <3>4, <3>6, <3>9
  <2> QED BY <2>2, <2>3
<1> QED BY <1>1, OwnershipInit, OwnershipStep, OrderedInit, OrderedStep, PTL
    DEF Spec, OwnerTimeAdvances
=============================================================================
