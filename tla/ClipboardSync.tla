---------------------------- MODULE ClipboardSync ----------------------------
(***************************************************************************)
(* Clipboard synchronisation: ClipboardModule and its use by               *)
(* NetMuxFramework (src/src/ClipboardModule.cpp, PerformClipboardSync and  *)
(* the ClipboardSync handler of src/src/NetMuxFramework.cpp).              *)
(*                                                                         *)
(* A node polls the clipboard of its machine.  When the text has changed   *)
(* it cuts it into chunks that all carry one timestamp and sends them by   *)
(* TCP.  A receiver takes the chunks of a text whose adjusted timestamp is *)
(* newer than that of the last text it took, and a server relays what it   *)
(* takes to every client, to the one it comes from as well.                *)
(*                                                                         *)
(* A text is the sequence of its chunks, and a chunk on its way knows the  *)
(* text and the place in it that it comes from; a receiver looks at the    *)
(* place, the total and the payload only.  What a machine's clipboard      *)
(* gives back need not be what it was given: Windows loses the characters  *)
(* of four bytes, and Linux without xclip gives back nothing.  The X11     *)
(* paths of ClipboardModule never run: the module is made with a display   *)
(* that NetMuxFramework opens only afterwards.                             *)
(*                                                                         *)
(* All nodes are of one group and trust each other.  Clocks run at one     *)
(* speed and differ by when they were started; a client has measured every *)
(* offset, or none, before anything is copied.                             *)
(***************************************************************************)
EXTENDS Integers, Sequences, FiniteSetsExt

CONSTANTS
  Server,
  Clients,
  Texts,      \* what users copy, each a sequence of chunks
  Kept,       \* Kept[p]: a chunk without its characters of four bytes
  Machines,   \* which machines the nodes may be: functions of nodes
  Starts,     \* when the clocks may have been started: functions of nodes
  MaxCopies,  \* bound: copies that users make
  MaxFaults   \* bound: prunes, dropped chunks and clipboards that do not open

Nodes == Clients \cup {Server}

Payloads == UNION {{t[i] : i \in DOMAIN t} : t \in Texts}

ASSUME NodesAssumption == Server \notin Clients /\ IsFiniteSet(Clients)
ASSUME TextsAssumption == Texts \subseteq Seq(Payloads) /\ <<>> \in Texts
ASSUME MachinesAssumption == Machines \subseteq [Nodes -> {"windows", "xclip", "bare"}]
ASSUME StartsAssumption == Starts \subseteq [Nodes -> Int]
ASSUME BoundsAssumption == MaxCopies \in Nat /\ MaxFaults \in Nat

(* Utf8ToUtf16: a sequence of four bytes matches no branch of it.          *)
Narrowed(text) == [i \in DOMAIN text |-> Kept[text[i]]]

(* Users may copy what is left of a text, too.                             *)
ASSUME KeptAssumption ==
  /\ Kept \in [Payloads -> Payloads]
  /\ \A t \in Texts : Narrowed(t) \in Texts

VARIABLES
  machine,   \* machine[n]: Windows, Linux with xclip, or Linux without it
  start,     \* start[n]: when the clock of n was started
  measured,  \* clients that have measured the clocks of the others
  clip,      \* clip[n]: what HasChanged reads of the clipboard of n's machine
  seen,      \* seen[n]: m_lastText and its hash
  stamp,     \* stamp[n]: m_lastClipboardTimestamp
  buffer,    \* buffer[n][p]: m_clipboardReassembly[p]
  up,        \* up[c]: the TCP stream from c to the server
  down,      \* down[c]: the TCP stream from the server to c
  now,       \* moves on whenever a text is sent
  copies,    \* copies made so far
  altered,   \* how often a machine has not kept a text as it was set
  faults,    \* faults so far
  served,    \* texts that the server has sent as its own
  spoiled,   \* nodes at which a fault has struck; all, once one of them alters a text
  calm       \* holds the last copy, if it was made while all was at rest

setup == <<machine, start, measured>>
streams == <<up, down>>
counts == <<copies, altered, faults>>
history == <<served, spoiled, calm>>
vars == <<setup, now, clip, seen, stamp, buffer, streams, counts, history>>

AtRest ==
  /\ \A n \in Nodes : clip[n] = seen[n]
  /\ \A c \in Clients : up[c] = <<>> /\ down[c] = <<>>

ClocksAgree == \A m, n \in Nodes : start[m] = start[n]

(* What the clipboard of n gives back when text has been put into it.      *)
ReadBack(n, text) ==
  CASE machine[n] = "windows" -> Narrowed(text)
    [] machine[n] = "xclip"   -> text
    [] machine[n] = "bare"    -> <<>>

(* An empty text has one chunk too (NetMuxFramework.cpp:791-792).          *)
Total(text) == IF text = <<>> THEN 1 ELSE Len(text)

Packets ==
  {p \in [sender : Nodes, time : Int, text : Seq(Payloads), index : Nat \ {0}] :
     p.index <= Total(p.text)}

(* What a buffer may hold of a text that is not all there yet.             *)
Beginnings ==
  {<<>>} \cup UNION {{SubSeq(t, 1, i - 1) : i \in 1 .. Total(t)} : t \in Texts}

(* A buffer never holds a finished text (NetMuxFramework.cpp:562).         *)
TypeOK ==
  /\ machine \in Machines
  /\ start \in Starts
  /\ measured \subseteq Clients
  /\ clip \in [Nodes -> Seq(Payloads)]
  /\ seen \in [Nodes -> Seq(Payloads)]
  /\ stamp \in [Nodes -> Int]
  /\ buffer \in [Nodes -> [Nodes -> Seq(Payloads)]]
  /\ \A n \in Nodes \ spoiled, p \in Nodes : buffer[n][p] \in Beginnings
  /\ up \in [Clients -> Seq(Packets)]
  /\ down \in [Clients -> Seq(Packets)]
  /\ now \in Int
  /\ copies \in 0 .. MaxCopies
  /\ altered \in Nat
  /\ faults \in 0 .. MaxFaults
  /\ served \subseteq Seq(Payloads)
  /\ spoiled \subseteq Nodes
  /\ calm \subseteq Texts

Init ==
  /\ machine \in Machines
  /\ start \in Starts
  /\ measured \in IF ClocksAgree THEN {{}} ELSE {{}, Clients}
  /\ clip = [n \in Nodes |-> <<>>]
  /\ seen = [n \in Nodes |-> <<>>]
  /\ stamp = [n \in Nodes |-> 0]
  /\ buffer = [n \in Nodes |-> [p \in Nodes |-> <<>>]]
  /\ up = [c \in Clients |-> <<>>]
  /\ down = [c \in Clients |-> <<>>]
  /\ now = 1 + Max({start[n] : n \in Nodes})
  /\ copies = 0
  /\ altered = 0
  /\ faults = 0
  /\ served = {}
  /\ spoiled = {}
  /\ calm = {}

-----------------------------------------------------------------------------
(* The user copies something, without a word to the program; on a machine  *)
(* only what its clipboard holds and gives back as it is.                  *)
Copy(n) ==
  \E text \in Texts \ {clip[n]} :
    /\ ReadBack(n, text) = text
    /\ copies < MaxCopies
    /\ copies' = copies + 1
    /\ calm' = IF AtRest THEN {text} ELSE {}
    /\ clip' = [clip EXCEPT ![n] = text]
    /\ UNCHANGED <<setup, now, seen, stamp, buffer, streams, altered, faults>>
    /\ UNCHANGED <<served, spoiled>>

(* Seeded fault: no chunk for an empty text.                               *)
ChunksByLength(n, text) ==
  [i \in 1 .. Len(text) |->
     [sender |-> n, time |-> now - start[n], text |-> text, index |-> i]]

(* The chunks of a text, all of one timestamp.                             *)
Chunks(n, text) ==
  [i \in 1 .. Total(text) |->
     [sender |-> n, time |-> now - start[n], text |-> text, index |-> i]]

(* Seeded fault: a server does not send a text back to where it is from.   *)
BroadcastToOthers(packets) ==
  down' = [c \in Clients |->
            down[c] \o SelectSeq(packets, LAMBDA p : p.sender # c)]

(* SendPacket on the server.                                               *)
Broadcast(packets) == down' = [c \in Clients |-> down[c] \o packets]

(* PerformClipboardSync, when HasChanged: a text that is read back other   *)
(* than it was set has changed, too.  The timestamp of the last text taken *)
(* is not moved by one's own.                                              *)
Poll(n) ==
  /\ clip[n] # seen[n]
  /\ seen' = [seen EXCEPT ![n] = clip[n]]
  /\ now' = now + 1
  /\ LET packets == Chunks(n, clip[n])
     IN IF n = Server
        THEN Broadcast(packets) /\ UNCHANGED up
        ELSE up' = [up EXCEPT ![n] = @ \o packets] /\ UNCHANGED down
  /\ served' = IF n = Server THEN served \cup {clip[n]} ELSE served
  /\ UNCHANGED <<setup, clip, stamp, buffer, counts, spoiled, calm>>

-----------------------------------------------------------------------------
(* GetAdjustedTimestamp: the offset, local minus remote, is subtracted.    *)
(* The server measures none, and nobody's map has an offset of itself.     *)
AdjustedTimestamp(n, packet) ==
  IF n \in measured
  THEN packet.time - (start[packet.sender] - start[n])
  ELSE packet.time

IsNewer(n, packet) == AdjustedTimestamp(n, packet) > stamp[n]

IsLast(packet) == packet.index = Total(packet.text)

Payload(packet) == IF packet.text = <<>> THEN <<>> ELSE <<packet.text[packet.index]>>

(* Seeded fault: a first chunk does not begin a new text.                  *)
AppendedToRest(n, packet) == buffer[n][packet.sender] \o Payload(packet)

(* The text under assembly with the chunk at its end.                      *)
Appended(n, packet) ==
  (IF packet.index = 1 THEN <<>> ELSE buffer[n][packet.sender]) \o Payload(packet)

(* Seeded fault: the buffer keeps the finished text.                       *)
KeepAll(packet, text) == text

KeepBuffer(packet, text) == IF IsLast(packet) THEN <<>> ELSE text

(* Seeded fault: m_lastText is left as it was.                             *)
SetTextForgetting(n, text) ==
  /\ clip' = [clip EXCEPT ![n] = ReadBack(n, text)]
  /\ UNCHANGED <<seen, altered, faults, spoiled>>

(* SetText: nothing to do for the text it knows.  What it remembers is the *)
(* text as it came, whatever the machine makes of it.  On Windows a        *)
(* clipboard that another program has open is left as it is, and the text  *)
(* is lost.  What a spoiled node alters may be torn, and goes to all.      *)
SetText(n, text) ==
  \/ /\ text = seen[n]
     /\ UNCHANGED <<clip, seen, altered, faults, spoiled>>
  \/ /\ text # seen[n]
     /\ clip' = [clip EXCEPT ![n] = ReadBack(n, text)]
     /\ seen' = [seen EXCEPT ![n] = text]
     /\ IF ReadBack(n, text) = text
        THEN UNCHANGED <<altered, spoiled>>
        ELSE /\ altered' = altered + 1
             /\ spoiled' = IF n \in spoiled THEN Nodes ELSE spoiled
     /\ UNCHANGED faults
  \/ /\ text # seen[n]
     /\ machine[n] = "windows"
     /\ faults < MaxFaults
     /\ faults' = faults + 1
     /\ spoiled' = spoiled \cup {n}
     /\ UNCHANGED <<clip, seen, altered>>

(* The handler of ClipboardSync but for the server's relay.                *)
Take(n, packet) ==
  LET text == Appended(n, packet)
  IN /\ buffer' = [buffer EXCEPT ![n][packet.sender] = KeepBuffer(packet, text)]
     /\ IF IsLast(packet)
        THEN /\ SetText(n, text)
             /\ stamp' = [stamp EXCEPT ![n] = AdjustedTimestamp(n, packet)]
        ELSE UNCHANGED <<clip, seen, stamp, altered, faults, spoiled>>

Ignore == UNCHANGED <<buffer, clip, seen, stamp, altered, faults, spoiled>>

(* The server relays a chunk exactly if it has taken it.                   *)
ServerReceives(c) ==
  /\ up[c] # <<>>
  /\ LET packet == Head(up[c])
     IN IF IsNewer(Server, packet)
        THEN Take(Server, packet) /\ Broadcast(<<packet>>)
        ELSE Ignore /\ UNCHANGED down
  /\ up' = [up EXCEPT ![c] = Tail(@)]
  /\ UNCHANGED <<setup, now, copies, served, calm>>

ClientReceives(c) ==
  /\ down[c] # <<>>
  /\ LET packet == Head(down[c])
     IN IF IsNewer(c, packet) THEN Take(c, packet) ELSE Ignore
  /\ down' = [down EXCEPT ![c] = Tail(@)]
  /\ UNCHANGED <<setup, now, up, copies, served, calm>>

Strikes(n) ==
  /\ faults < MaxFaults
  /\ faults' = faults + 1
  /\ spoiled' = spoiled \cup {n}

(* A client's replay cache has met the number of a peer's chunk already,   *)
(* in a MasterStateSync that the server sent under the peer's id.          *)
DropChunk(c) ==
  /\ down[c] # <<>>
  /\ Head(down[c]).sender \notin {c, Server}
  /\ Strikes(c)
  /\ down' = [down EXCEPT ![c] = Tail(@)]
  /\ UNCHANGED <<setup, now, clip, seen, stamp, buffer, up, copies, altered>>
  /\ UNCHANGED <<served, calm>>

(* PerformPeerCleanup after a pause in the middle of a text.               *)
Prune(n, p) ==
  /\ buffer[n][p] # <<>>
  /\ Strikes(n)
  /\ buffer' = [buffer EXCEPT ![n][p] = <<>>]
  /\ UNCHANGED <<setup, now, clip, seen, stamp, streams, copies, altered>>
  /\ UNCHANGED <<served, calm>>

Next ==
  \/ \E n \in Nodes : Copy(n) \/ Poll(n)
  \/ \E c \in Clients : ServerReceives(c) \/ ClientReceives(c) \/ DropChunk(c)
  \/ \E n, p \in Nodes : n # p /\ Prune(n, p)

Spec == Init /\ [][Next]_vars

-----------------------------------------------------------------------------
(* A clipboard holds a text that users copy, and all of it, however the    *)
(* chunks of several senders interleave and whichever of them come too     *)
(* late; only a prune or a replay drop amid a text leaves a torn one       *)
(* (NetMuxFramework.cpp:554-566).                                          *)
WholeTexts == \A n \in Nodes \ spoiled : clip[n] \in Texts

(* With clocks that agree, the clients agree when all is quiet: the echo   *)
(* of a client's own text puts right what an older text has overwritten,   *)
(* and a machine that does not keep a text as it was set sends what it has *)
(* kept to all (NetMuxFramework.cpp:553, 565, ClipboardModule.cpp:94-98).  *)
ClientsAgree ==
  (AtRest /\ ClocksAgree) =>
    \A c, d \in Clients \ spoiled : Server \notin spoiled => clip[c] = clip[d]

(* ... and the server differs from them only if they hold a text that the  *)
(* server sent as its own, the time of which it does not remember          *)
(* (NetMuxFramework.cpp:553, 561, 783-805).                                *)
ServerLosesOnlyItsOwn ==
  (AtRest /\ ClocksAgree /\ Server \notin spoiled) =>
    \A c \in Clients \ spoiled : clip[c] # clip[Server] => clip[c] \in served

Settled == AtRest /\ ClocksAgree /\ calm # {} /\ Server \notin spoiled

KeptByAll(text) == \A n \in Nodes : ReadBack(n, text) = text

(* A text that is copied while all is quiet, and that no machine alters,   *)
(* is on every clipboard when all is quiet again, if nothing else is       *)
(* copied meanwhile and the clocks agree (NetMuxFramework.cpp:551-566,     *)
(* 783-805).                                                               *)
CalmCopySpreads ==
  Settled => \A n \in Nodes \ spoiled, t \in calm : KeptByAll(t) => clip[n] = t

(* A text is sent once for each time it is copied, and once for each time  *)
(* that a machine has altered one: nothing else that arrives is taken for  *)
(* a change to send in turn, and the echo of one's own text ends where it  *)
(* began (ClipboardModule.cpp:94-100, 107-109, 146-147).                   *)
SentOncePerChange ==
  now <= 1 + Max({start[n] : n \in Nodes}) + copies + altered
=============================================================================
