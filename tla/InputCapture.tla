----------------------------- MODULE InputCapture -----------------------------
(***************************************************************************)
(* Whose machine a user's mouse and keyboard act on: the hooks, Update and *)
(* the queue of src/src/InputEngine.cpp, the two threads of src/src/       *)
(* main.cpp, and the injection of src/src/DriverInterface.cpp.             *)
(*                                                                         *)
(* The user sits "here", at a Windows machine whose right edge borders on  *)
(* the peer's, "there".  The hooks run within the calls of PeekMessage, so *)
(* at once.  A mouse event posts a WM_INPUT too, swallowed or not, and it  *)
(* depends on which PeekMessage finds it whether anybody reads it.  The    *)
(* framework's thread empties m_pendingPackets, which no lock protects.    *)
(* The peer trusts this machine and has no rival for its focus.  If it is  *)
(* the server, it relays what it receives to the whole group, back to this *)
(* machine too.  The mouse is relative, and a move is one unit.            *)
(***************************************************************************)
EXTENDS Integers, Sequences

CONSTANTS
  Keys,       \* keys of the keyboard
  Button,     \* the button of the mouse
  Threshold,  \* moves back that do not yet release the capture
  MaxActs,    \* bound: what the user does, moves back excepted
  MaxPosted,  \* bound: WM_INPUT messages in the queue
  MaxFaults   \* bound: comings and goings of the peer, races on the queue

Moves == {"back", "forth"}

ASSUME InputAssumption ==
  /\ Button \notin Keys \cup Moves
  /\ Keys \cap Moves = {}
  /\ Threshold \in Nat /\ MaxActs \in Nat /\ MaxPosted \in Nat /\ MaxFaults \in Nat

Inputs == Keys \cup {Button}

VARIABLES
  role,       \* what this machine is; the peer is the other
  held,       \* what the user holds down
  here,       \* what is down for the programs of this machine
  there,      \* what is down for the programs of the peer's
  cursor,     \* where the pointer of this machine is
  captured,   \* m_isCaptured
  travelled,  \* m_accumulatedX
  connected,  \* m_peerConnected
  posted,     \* WM_INPUT messages of the main thread
  pending,    \* m_pendingPackets
  wire,       \* the TCP stream to the peer
  echo,       \* datagrams with what the server has relayed back
  main,       \* where the main thread is
  present,    \* the peer is in the peer map
  driver,     \* the peer's DriverInterface
  acts,       \* user's acts so far
  faults,     \* faults so far
  torn        \* inputs that met a switch, a fault or a lost message

user == <<held, acts>>
machines == <<here, there, cursor>>
capture == <<captured, travelled>>
packets == <<posted, pending, wire, echo>>
peer == <<connected, present, driver>>
vars == <<role, user, machines, capture, packets, main, peer, faults, torn>>

RawMessage == [input : Moves \cup {Button}, down : BOOLEAN]
Event == [input : Inputs, down : BOOLEAN]

Lowest == - (Threshold + 1 + MaxPosted)

(* DriverInterface::Initialize: Windows falls back on a stub, and evdev    *)
(* may find no device that it may open.  macOS only claims to inject.      *)
Drivers ==
  {[os |-> "windows", initialized |-> TRUE], [os |-> "linux", initialized |-> TRUE],
   [os |-> "linux", initialized |-> FALSE]}

TypeOK ==
  /\ role \in {"server", "client"}
  /\ held \subseteq Inputs /\ here \subseteq Inputs /\ there \subseteq Inputs
  /\ cursor \in {"inside", "edge"}
  /\ captured \in BOOLEAN /\ connected \in BOOLEAN /\ present \in BOOLEAN
  /\ travelled \in Lowest .. MaxActs
  /\ posted \in Seq(RawMessage) /\ Len(posted) <= MaxPosted
  /\ pending \in Seq(Event) /\ wire \in Seq(Event)
  /\ echo \subseteq Event
  /\ main \in {"peek", "update"} /\ driver \in Drivers
  /\ acts \in 0 .. MaxActs /\ faults \in 0 .. MaxFaults
  /\ torn \subseteq Inputs

Init ==
  /\ role \in {"server", "client"}
  /\ held = {} /\ here = {} /\ there = {}
  /\ cursor = "inside"
  /\ captured = FALSE
  /\ travelled = 0
  /\ connected = FALSE
  /\ posted = <<>> /\ pending = <<>> /\ wire = <<>> /\ echo = {}
  /\ main = "peek"
  /\ present = TRUE
  /\ driver \in Drivers
  /\ acts = 0
  /\ faults = 0
  /\ torn = {}

-----------------------------------------------------------------------------
(* What the operating system makes of an input that no hook has swallowed. *)
After(down, input, set) == IF down THEN set \cup {input} ELSE set \ {input}

Acts ==
  /\ acts < MaxActs
  /\ acts' = acts + 1

(* Seeded fault: a key that goes to the peer acts here as well.            *)
PassOn(key, down) ==
  /\ pending' = IF captured THEN Append(pending, [input |-> key, down |-> down]) ELSE pending
  /\ here' = After(down, key, here)

(* Seeded fault: a release is swallowed without being sent.                *)
SendPresses(key, down) ==
  IF captured
  THEN /\ pending' = IF down THEN Append(pending, [input |-> key, down |-> down]) ELSE pending
       /\ UNCHANGED here
  ELSE /\ here' = After(down, key, here)
       /\ UNCHANGED pending

(* KeyboardHookProc: a key goes to the peer while the mouse is captured,   *)
(* and to this machine otherwise.                                          *)
KeyboardHookProc(key, down) ==
  IF captured
  THEN /\ pending' = Append(pending, [input |-> key, down |-> down])
       /\ UNCHANGED here
  ELSE /\ here' = After(down, key, here)
       /\ UNCHANGED pending

(* A key is pressed, repeats itself, or is released.                       *)
Key(key, down) ==
  /\ ~ down => key \in held
  /\ Acts
  /\ held' = After(down, key, held)
  /\ KeyboardHookProc(key, down)
  /\ UNCHANGED <<role, there, cursor, capture, posted, wire, echo, main, peer, faults, torn>>

IsAtBoundary(point) == point = "edge"

(* On the left of the peer; on its right it is the other way round.        *)
MovingBack == travelled < - Threshold

(* MouseHookProc: what it makes of an event at a point, which acts on this *)
(* machine if it passes.                                                   *)
MouseHookProc(point, Pass, Swallow) ==
  LET captures == IsAtBoundary(point) /\ ~ captured /\ connected
  IN \/ /\ captures
        /\ captured' = TRUE
        /\ travelled' = 0
        /\ torn' = torn \cup held \cup held'
        /\ Swallow
     \/ /\ captured /\ MovingBack
        /\ captured' = FALSE
        /\ travelled' = 0
        /\ torn' = torn \cup held \cup held'
        /\ Pass
     \/ /\ captured /\ ~ MovingBack
        /\ UNCHANGED <<captured, travelled, torn>>
        /\ Swallow
     \/ /\ ~ captures /\ ~ captured
        /\ UNCHANGED <<captured, travelled, torn>>
        /\ Pass

Post(event) ==
  /\ Len(posted) < MaxPosted
  /\ posted' = Append(posted, event)

Move(direction) ==
  LET point == IF direction = "forth" THEN "edge" ELSE "inside"
  IN /\ UNCHANGED held
     /\ MouseHookProc(point, cursor' = point, UNCHANGED cursor)
     /\ Post([input |-> direction, down |-> FALSE])
     /\ UNCHANGED <<role, here, there, pending, wire, echo, main, peer, faults>>

MoveForth == Move("forth") /\ Acts
MoveBack == Move("back") /\ UNCHANGED acts

Press(down) ==
  /\ ~ (down <=> Button \in held)
  /\ Acts
  /\ held' = After(down, Button, held)
  /\ MouseHookProc(cursor, here' = After(down, Button, here), UNCHANGED here)
  /\ Post([input |-> Button, down |-> down])
  /\ UNCHANGED <<role, there, cursor, pending, wire, echo, main, peer, faults>>

-----------------------------------------------------------------------------
(* main: the loop's own PeekMessage hands a WM_INPUT that it finds to      *)
(* DefWindowProc, and it finds all that were posted while it slept.        *)
PeekMessage ==
  /\ main = "peek"
  /\ IF posted = <<>>
     THEN /\ main' = "update"
          /\ UNCHANGED <<posted, torn>>
     ELSE /\ posted' = Tail(posted)
          /\ torn' = IF Head(posted).input \in Moves THEN torn ELSE torn \cup {Button}
          /\ UNCHANGED main
  /\ UNCHANGED <<role, user, machines, capture, pending, wire, echo, peer, faults>>

(* Seeded fault: the length of a move counts, whatever its direction.      *)
AccumulateLength(direction) == travelled' = travelled + 1

(* Seeded fault: only moves towards the peer count.                        *)
AccumulateForth(direction) ==
  travelled' = IF direction = "forth" THEN travelled + 1 ELSE travelled

(* What is moved counts, captured or not.                                  *)
Accumulate(direction) ==
  travelled' = IF direction = "forth" THEN travelled + 1
               ELSE IF travelled > Lowest THEN travelled - 1 ELSE travelled

(* InputEngine::Update: the messages that were posted since PeekMessage    *)
(* found none.  Buttons are sent whether the mouse is captured or not.     *)
Update ==
  /\ main = "update"
  /\ IF posted = <<>>
     THEN /\ main' = "peek"
          /\ UNCHANGED <<posted, pending, travelled>>
     ELSE /\ posted' = Tail(posted)
          /\ IF Head(posted).input \in Moves
             THEN Accumulate(Head(posted).input) /\ UNCHANGED pending
             ELSE pending' = Append(pending, Head(posted)) /\ UNCHANGED travelled
          /\ UNCHANGED main
  /\ UNCHANGED <<role, user, machines, captured, wire, echo, peer, faults, torn>>

-----------------------------------------------------------------------------
(* The framework's thread: ProcessOutgoingPackets, and the check of every  *)
(* half second whether there is a peer.                                    *)
ProcessOutgoingPackets ==
  /\ pending # <<>>
  /\ pending' = Tail(pending)
  /\ wire' = IF present THEN Append(wire, Head(pending)) ELSE wire
  /\ UNCHANGED <<role, user, machines, capture, posted, echo, main, peer, faults, torn>>

CheckPeers ==
  /\ connected # present
  /\ connected' = present
  /\ UNCHANGED <<role, user, machines, capture, packets, main, present, driver, faults, torn>>

(* A push meets a pop: the counter of the queue misses one of the two, and *)
(* a packet is lost or is taken for a new one once more.                   *)
Race ==
  /\ pending # <<>> /\ faults < MaxFaults
  /\ faults' = faults + 1
  /\ pending' \in {Tail(pending), <<Head(pending)>> \o pending}
  /\ torn' = torn \cup {Head(pending).input}
  /\ UNCHANGED <<role, user, machines, capture, posted, wire, echo, main, peer>>

-----------------------------------------------------------------------------
(* On Windows both inject what they can and return false.                  *)
SendKeyboardKey == driver.initialized
SendMouseButton == driver.os = "linux" /\ driver.initialized

(* Injects on Windows only, and is called when SendMouseButton says false. *)
PerformWarpClickRestore == driver.os = "windows"

Injects(input) ==
  IF input \in Keys THEN SendKeyboardKey ELSE SendMouseButton \/ PerformWarpClickRestore

(* The peer's handlers of KeyboardEvent and Click; a server relays both.   *)
Receive ==
  /\ wire # <<>>
  /\ LET packet == Head(wire)
     IN /\ there' = IF Injects(packet.input) THEN After(packet.down, packet.input, there)
                    ELSE there
        /\ echo' = IF role = "client" THEN echo \cup {packet} ELSE echo
  /\ wire' = Tail(wire)
  /\ UNCHANGED <<role, user, here, cursor, capture, posted, pending, main, peer, faults, torn>>

(* The same handlers of this machine take its own packets for a peer's, if *)
(* they are not lost; what they inject passes the hooks.                   *)
ReceiveEcho ==
  \E packet \in echo :
    /\ echo' = echo \ {packet}
    /\ here' \in {here, After(packet.down, packet.input, here)}
    /\ UNCHANGED <<role, user, there, cursor, capture, posted, pending, wire, main, peer,
                   faults, torn>>

(* The peer goes, or comes back with its machine as it was.                *)
PeerChanges ==
  /\ faults < MaxFaults
  /\ faults' = faults + 1
  /\ present' = ~ present
  /\ driver' \in IF present THEN {driver} ELSE {d \in Drivers : d.os = driver.os}
  /\ wire' = <<>>
  /\ torn' = Inputs
  /\ UNCHANGED <<role, user, machines, capture, posted, pending, echo, main, connected>>

Next ==
  \/ \E key \in Keys, down \in BOOLEAN : Key(key, down)
  \/ MoveForth \/ MoveBack
  \/ \E down \in BOOLEAN : Press(down)
  \/ PeekMessage \/ Update
  \/ ProcessOutgoingPackets \/ CheckPeers \/ Race
  \/ Receive \/ ReceiveEcho \/ PeerChanges

(* The loop turns, and faster than a mouse posts.  A user who wants the    *)
(* mouse back keeps moving, and some move falls into Update: neither of    *)
(* the two knows of the other.                                             *)
Fairness ==
  /\ WF_vars(PeekMessage)
  /\ WF_vars(Update)
  /\ []<>(main # "peek")
  /\ SF_vars(main = "update" /\ MoveBack)

Spec == Init /\ [][Next]_vars
FairSpec == Spec /\ Fairness

-----------------------------------------------------------------------------
Quiet == posted = <<>> /\ pending = <<>> /\ wire = <<>> /\ echo = {}

(* When nothing is under way, what the user holds down is down where the   *)
(* capture leads, a button at the peer's in any case, and what he does not *)
(* hold is down nowhere, but for what met a change of capture, a fault, or *)
(* the PeekMessage of main.  On a client that is true of the server only:  *)
(* what it captures comes back and acts on it too (InputEngine.cpp:33-86,  *)
(* 287-303, main.cpp:103-119, DriverInterface.cpp:288-366,                 *)
(* NetMuxFramework.cpp:529, 663).                                          *)
DownWhereCaptured ==
  Quiet => \A input \in Inputs \ torn :
    /\ input \in there <=>
         Injects(input) /\ input \in held /\ (captured \/ input = Button)
    /\ role = "server" => (input \in here <=> input \in held /\ ~ captured)

(* A key that is released after a change of capture stays down on the side *)
(* that is left, but on one side only, whatever the user has done before,  *)
(* unless a server relays it back (InputEngine.cpp:76-86).                 *)
StuckOnOneSide ==
  (Quiet /\ faults = 0 /\ role = "server") => \A key \in Keys \ held : ~ (key \in here /\ key \in there)

(* A user who keeps moving back regains the mouse, however far he has gone *)
(* forth, even if the peer has left (InputEngine.cpp:51-71, 263-268).      *)
Regained == captured ~> ~ captured
=============================================================================
