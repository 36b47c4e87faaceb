---------------------------- MODULE CursorTracking ----------------------------
(***************************************************************************)
(* How one machine's cursor is followed by the server and by the other     *)
(* clients: the movements that InputEngine::Update reports, their relay by *)
(* the server, and the positions that the server itself broadcasts         *)
(* (src/src/InputEngine.cpp, the movement handlers and PerformMaster-      *)
(* StateSync of src/src/NetMuxFramework.cpp, SyncModule::UpdatePeer).      *)
(*                                                                         *)
(* Movements are datagrams: they are lost, overtake each other and come    *)
(* twice.  MasterStateSync goes by TCP, under the id of the machine that   *)
(* moves, and may fall victim to the replay cache.  A position is one      *)
(* coordinate; 0 .. Edge stands for 0 .. 65535.  Every peer is trusted,    *)
(* and all are of one group.                                               *)
(***************************************************************************)
EXTENDS Integers, Sequences, FiniteSets

CONSTANTS
  Server,
  Clients,      \* the clients that watch
  Edge,         \* the largest coordinate
  PointerEdge,  \* the same of an X11 screen, taken for one of 1920 by 1080
  Unknown,      \* stands for a peer that is not in m_peers
  KeyInterval,  \* one movement in so many is sent as a position
  MaxMoves,     \* bound: movements
  MaxFaults     \* bound: prunes and dropped broadcasts

ASSUME ServerAssumption == Server \notin Clients
ASSUME EdgeAssumption == Edge \in Nat \ {0} /\ PointerEdge \in Nat
ASSUME UnknownAssumption == Unknown \notin Int
ASSUME KeyAssumption == KeyInterval \in Nat \ {0}
ASSUME BoundsAssumption == MaxMoves \in Nat /\ MaxFaults \in Nat

Viewers == Clients \cup {Server}
Coordinates == 0 .. Edge
Pointed == 0 .. PointerEdge
Positions == Coordinates \cup Pointed

VARIABLES
  platform,    \* which lines of Update the machine has been built with
  virtual,     \* m_virtualX of the machine that moves
  polls,       \* moveCount, or linuxMoveCount, modulo KeyInterval
  raws,        \* rawMoveCount modulo KeyInterval
  moves,       \* the movements sent, by sequence number
  reached,     \* reached[i]: m_virtualX when moves[i] was sent
  wire,        \* wire[n]: numbers of the datagrams that may reach n
  lastSeq,     \* lastSeq[n]: m_lastSequence of the machine that moves
  view,        \* view[n]: its normalizedX in the peer map of n
  lastMaster,  \* m_lastMasterSyncPos of the server
  master,      \* master[c]: MasterStateSync packets on their way to c
  joined,      \* clients that have connected
  faults,      \* prunes and dropped broadcasts so far
  excused,     \* excused[n]: why view[n] may be off since the last position
  latest,      \* latest[n]: type of the packet that view[n] is from
  bereft       \* clients that have dropped the newest broadcast

inputVars == <<virtual, polls, raws, moves, reached>>
masterVars == <<lastMaster, master>>
viewHistory == <<excused, latest>>
history == <<viewHistory, bereft>>
vars == <<platform, inputVars, wire, lastSeq, view, masterVars, joined, faults, history>>

Platforms == {"windows", "x11", "evdev"}
Excuses == {"missed", "edge", "master"}
Types == {"handshake", "absolute", "delta", "master"}

TypeOK ==
  /\ platform \in Platforms
  /\ virtual \in Positions
  /\ platform # "x11" => virtual \in Coordinates
  /\ polls \in 0 .. KeyInterval - 1
  /\ raws \in 0 .. KeyInterval - 1
  /\ moves \in Seq([type : {"absolute", "delta"}, value : Int])
  /\ reached \in Seq(Positions)
  /\ Len(moves) = Len(reached)
  /\ wire \in [Viewers -> SUBSET DOMAIN moves]
  /\ lastSeq \in [Viewers -> 0 .. Len(moves)]
  /\ \A n \in Viewers : n \notin joined \cup {Server} => view[n] = Unknown
  /\ view \in [Viewers -> Int \cup {Unknown}]
  /\ lastMaster \in Int \cup {Unknown}
  /\ master \in [Clients -> Seq(Int)]
  /\ joined \subseteq Clients
  /\ faults \in 0 .. MaxFaults
  /\ excused \in [Viewers -> SUBSET Excuses]
  /\ latest \in [Viewers -> Types]
  /\ bereft \subseteq joined

(* The server has had the Handshake, which puts a new peer at the origin.  *)
Init ==
  /\ platform \in Platforms
  /\ virtual = 0
  /\ polls = 0
  /\ raws = 0
  /\ moves = <<>>
  /\ reached = <<>>
  /\ wire = [n \in Viewers |-> {}]
  /\ lastSeq = [n \in Viewers |-> 0]
  /\ view = [n \in Viewers |-> IF n = Server THEN 0 ELSE Unknown]
  /\ lastMaster = Unknown
  /\ master = [c \in Clients |-> <<>>]
  /\ joined = {}
  /\ faults = 0
  /\ excused = [n \in Viewers |-> {}]
  /\ latest = [n \in Viewers |-> "handshake"]
  /\ bereft = {}

-----------------------------------------------------------------------------
(* InputEngine::Update.                                                    *)

(* Seeded fault: the position is kept from leaving on one side only.       *)
ClampedBelow(x) == IF x < 0 THEN 0 ELSE x

Clamped(x) == IF x < 0 THEN 0 ELSE IF x > Edge THEN Edge ELSE x

(* ProcessOutgoingPackets numbers the packet and sends it to the server.   *)
Send(type, value, position) ==
  /\ Len(moves) < MaxMoves
  /\ moves' = Append(moves, [type |-> type, value |-> value])
  /\ reached' = Append(reached, position)
  /\ virtual' = position
  /\ wire' = [wire EXCEPT ![Server] = @ \cup {Len(moves) + 1}]
  /\ UNCHANGED <<platform, lastSeq, view, masterVars, joined, faults, history>>

(* The cursor is at another of these positions than before.                *)
PolledMove(positions) ==
  /\ \E x \in positions \ {virtual} :
       IF polls = 0 THEN Send("absolute", x, x) ELSE Send("delta", x - virtual, x)
  /\ polls' = (polls + 1) % KeyInterval
  /\ UNCHANGED raws

(* GetCursorPos, on the screen that all monitors make up.                  *)
CursorMove == platform = "windows" /\ PolledMove(Coordinates)

(* XQueryPointer, with a counter of its own: the position is divided by    *)
(* 1919 whatever the screen, and not kept within 0 .. 65535.               *)
PointerMove == platform = "x11" /\ PolledMove(Pointed)

(* WM_INPUT: what is sent is the movement of the mouse, although the       *)
(* position is kept within the screen.                                     *)
RawMove ==
  /\ platform = "windows"
  /\ \E dx \in {-1, 1} :
       LET x == Clamped(virtual + dx)
       IN IF raws = 0 THEN Send("absolute", x, x) ELSE Send("delta", dx, x)
  /\ raws' = (raws + 1) % KeyInterval
  /\ UNCHANGED polls

(* Without an X display every event is sent as a position.                 *)
EvdevMove ==
  /\ platform = "evdev"
  /\ \E dx \in {-1, 1} :
       LET x == Clamped(virtual + dx) IN Send("absolute", x, x)
  /\ UNCHANGED <<polls, raws>>

-----------------------------------------------------------------------------
(* ProcessIncomingPackets.                                                 *)

(* Seeded fault: a datagram that comes late is taken nevertheless.         *)
TakesAll(n, i) == i # lastSeq[n]

(* The replay filter, but for the wrap-around.                             *)
Passes(n, i) == i > lastSeq[n]

(* normalizedX by UpdatePeer; a delta is added to what the receiver has.   *)
Moved(n, i) ==
  IF moves[i].type = "absolute" THEN moves[i].value ELSE view[n] + moves[i].value

(* A delta that leads to where m_virtualX did not go.                      *)
PushedEdge(i) ==
  /\ moves[i].type = "delta"
  /\ i > 1
  /\ reached[i] # reached[i - 1] + moves[i].value

Excused(n, i) ==
  IF moves[i].type = "absolute" THEN {}
  ELSE excused[n] \cup (IF i > lastSeq[n] + 1 THEN {"missed"} ELSE {})
                  \cup (IF PushedEdge(i) THEN {"edge"} ELSE {})

(* A delta of an unknown peer is dropped, and not relayed; the server      *)
(* relays everything else to every client.                                 *)
ReceiveMove(n) ==
  \E i \in wire[n] :
    /\ Passes(n, i)
    /\ lastSeq' = [lastSeq EXCEPT ![n] = i]
    /\ IF moves[i].type = "delta" /\ view[n] = Unknown
       THEN UNCHANGED <<view, wire, viewHistory>>
       ELSE /\ view' = [view EXCEPT ![n] = Moved(n, i)]
            /\ excused' = [excused EXCEPT ![n] = Excused(n, i)]
            /\ latest' = [latest EXCEPT ![n] = moves[i].type]
            /\ wire' = IF n = Server
                       THEN [m \in Viewers |->
                              IF m \in joined THEN wire[m] \cup {i} ELSE wire[m]]
                       ELSE wire
    /\ UNCHANGED <<platform, inputVars, masterVars, joined, faults, bereft>>

(* Seeded fault: every peer's position is broadcast once.                  *)
UnsentOnce == view[Server] # Unknown /\ lastMaster = Unknown

(* The server's map has a position that was not the last it broadcast.     *)
Unsent == view[Server] # Unknown /\ view[Server] # lastMaster

BroadcastPosition ==
  master' = [c \in Clients |->
              IF c \in joined THEN Append(master[c], view[Server]) ELSE master[c]]

PerformMasterStateSync ==
  /\ Unsent
  /\ BroadcastPosition
  /\ lastMaster' = view[Server]
  /\ bereft' = {}
  /\ UNCHANGED <<platform, inputVars, wire, lastSeq, view, joined, faults, viewHistory>>

(* Seeded fault: the server's word counts for known peers only.            *)
PlacedIfKnown(c) == IF view[c] = Unknown THEN Unknown ELSE Head(master[c])

(* UpdatePeer makes a peer that is not in the map.                         *)
Placed(c) == Head(master[c])

(* The handler of MasterStateSync.                                         *)
ReceiveMaster(c) ==
  /\ master[c] # <<>>
  /\ master' = [master EXCEPT ![c] = Tail(@)]
  /\ view' = [view EXCEPT ![c] = Placed(c)]
  /\ excused' = [excused EXCEPT ![c] = @ \cup {"master"}]
  /\ latest' = [latest EXCEPT ![c] = "master"]
  /\ UNCHANGED <<platform, inputVars, wire, lastSeq, lastMaster, joined, faults, bereft>>

(* A packet of the server bears a number of the server's under the id of   *)
(* the machine that moves: the replay cache drops it if that machine has   *)
(* used the number in a packet that c has taken (a click, say).  The       *)
(* server has noted the position as sent and does not repeat it.           *)
DropMaster(c) ==
  /\ master[c] # <<>>
  /\ faults < MaxFaults
  /\ faults' = faults + 1
  /\ master' = [master EXCEPT ![c] = Tail(@)]
  /\ bereft' = IF Tail(master[c]) = <<>> THEN bereft \cup {c} ELSE bereft
  /\ UNCHANGED <<platform, inputVars, wire, lastSeq, view, lastMaster, joined, viewHistory>>

Join(c) ==
  /\ c \notin joined
  /\ joined' = joined \cup {c}
  /\ UNCHANGED <<platform, inputVars, wire, lastSeq, view, masterVars, faults, history>>

(* PruneInactivePeers, after a silence: neither the sequence number nor    *)
(* the position last broadcast is forgotten with the peer.                 *)
Prune(n) ==
  /\ view[n] # Unknown
  /\ faults < MaxFaults
  /\ faults' = faults + 1
  /\ view' = [view EXCEPT ![n] = Unknown]
  /\ UNCHANGED <<platform, inputVars, wire, lastSeq, masterVars, joined, history>>

Next ==
  \/ CursorMove \/ PointerMove
  \/ RawMove
  \/ EvdevMove
  \/ \E n \in Viewers : ReceiveMove(n) \/ Prune(n)
  \/ PerformMasterStateSync
  \/ \E c \in Clients : ReceiveMaster(c) \/ DropMaster(c) \/ Join(c)

(* The server's loop looks for positions to broadcast ten times a second,  *)
(* and what goes by TCP arrives, to be taken or dropped.  No datagram has  *)
(* to arrive, and nobody has to move.                                      *)
Fairness ==
  /\ WF_vars(PerformMasterStateSync)
  /\ \A c \in Clients : WF_vars(ReceiveMaster(c) \/ DropMaster(c))

Spec == Init /\ [][Next]_vars /\ Fairness

-----------------------------------------------------------------------------
(* Deltas do not add up to an error of their own: a view that is not where *)
(* the cursor was when it sent the last movement taken has missed a        *)
(* movement, has followed a mouse pushed against the edge or has mixed in  *)
(* a broadcast, and that after the last position it was sent               *)
(* (NetMuxFramework.cpp:448-454, 486-517; InputEngine.cpp:238-252,         *)
(* 268-285).                                                               *)
OnlyFaultsDrift ==
  \A n \in Viewers :
    (view[n] # Unknown /\ lastSeq[n] > 0 /\ latest[n] # "handshake") =>
      view[n] = reached[lastSeq[n]] \/ excused[n] # {}

(* What the server broadcasts goes out of date only by a newer broadcast   *)
(* or a movement: with none to come, a client whose view is from a         *)
(* broadcast has the server's, unless its replay cache has dropped the     *)
(* newest (NetMuxFramework.cpp:473-477, 692-698).                          *)
MasterAligns ==
  \A c \in Clients :
    (~ Unsent /\ master[c] = <<>> /\ view[Server] # Unknown
       /\ view[c] # Unknown /\ latest[c] = "master")
      => view[c] = view[Server] \/ c \in bereft

(* A client that is connected when the server learns of a new position     *)
(* comes to know the peer if the position lasts, whatever becomes of the   *)
(* datagrams, unless its replay cache drops the broadcast that follows     *)
(* (NetMuxFramework.cpp:473-477, 684-703).                                 *)
MoverIsSeen ==
  \A c \in Clients : \A x \in Positions :
    (c \in joined /\ Unsent /\ view[Server] = x)
      ~> (view[c] # Unknown \/ view[Server] # x \/ (~ Unsent /\ c \in bereft))
=============================================================================
