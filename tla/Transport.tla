------------------------------ MODULE Transport ------------------------------
(***************************************************************************)
(* The TCP side of NetworkManager (src/src/NetworkManager.cpp): clients    *)
(* that connect, greet and send, and the server that accepts them, cuts    *)
(* packets out of their streams and notices when they are gone.            *)
(*                                                                         *)
(* A stream is cut anywhere on its way, and a recv takes what has arrived, *)
(* up to the size of its buffer.  One call of ReceivePacket accepts at     *)
(* most one connection, prefers a datagram to everything else, and         *)
(* otherwise walks through the clients until one of them yields a packet.  *)
(*                                                                         *)
(* A packet is its kind and its length in units; the first unit is the     *)
(* header, which tells the length.  The client's way of receiving is the   *)
(* same code for one stream and is modelled as far as it closes the        *)
(* socket.  recv on a socket that is still connecting would block, as it   *)
(* does on Linux.                                                          *)
(***************************************************************************)
EXTENDS Naturals, Sequences, FiniteSets

CONSTANTS
  Clients,
  Sizes,        \* lengths of the packets that are neither greeting nor farewell
  ReadMax,      \* size of tempBuf, in units
  MaxOthers,    \* bound: such packets that a client sends
  MaxDatagrams  \* bound: datagrams that reach the server

ASSUME SizesAssumption == Sizes \subseteq Nat \ {0}
ASSUME ReadAssumption == ReadMax \in Nat \ {0}
ASSUME BoundsAssumption == MaxOthers \in Nat /\ MaxDatagrams \in Nat

VARIABLES
  tcpState,   \* tcpState[c]: m_tcpState
  lastState,  \* lastState[c]: lastTcpState of Run
  link,       \* link[c]: c's connection as the operating systems see it
  flight,     \* flight[c]: units c has sent that have not arrived
  arrived,    \* arrived[c]: units that wait in the server's socket
  backlog,    \* connections the server has not accepted, oldest first
  conns,      \* m_clients
  buffer,     \* buffer[c]: ClientConnection::buffer
  datagrams,  \* datagrams that wait in the server's UDP socket
  coming,     \* datagrams still to come (bounded)
  sent,       \* sent[c]: packets c has sent
  taken       \* taken[c]: packets of c that ReceivePacket has returned

clientVars == <<tcpState, lastState>>
netVars == <<link, flight, arrived>>
serverVars == <<backlog, conns, buffer>>
udpVars == <<datagrams, coming>>
vars == <<clientVars, netVars, serverVars, udpVars, sent, taken>>

Kinds == {"handshake", "other", "disconnect"}
Packets == [kind : Kinds, size : Sizes \cup {1}]

(* Unit j of the k-th packet of a stream.                                  *)
Units(k, packet) == [j \in 1 .. packet.size |-> <<k, j>>]

(* Where c's stream has packets of one kind.                               *)
Places(c, kind) == {i \in 1 .. Len(sent[c]) : sent[c][i].kind = kind}

Listed(c) == \E i \in 1 .. Len(conns) : conns[i] = c
Waiting(c) == \E i \in 1 .. Len(backlog) : backlog[i] = c

TypeOK ==
  /\ tcpState \in [Clients -> {"disconnected", "connecting", "connected"}]
  /\ lastState \in [Clients -> {"disconnected", "connecting", "connected"}]
  /\ link \in [Clients -> {"none", "pending", "refused", "up", "ended", "reset"}]
  /\ \A c \in Clients :
       /\ buffer[c] # <<>> => Listed(c) /\ Head(buffer[c])[2] = 1
       /\ sent[c] \in Seq(Packets)
       /\ taken[c] \in Seq(Packets)
  /\ conns \in Seq(Clients)
  /\ backlog \in Seq(Clients)
  /\ datagrams + coming \in 0 .. MaxDatagrams

Init ==
  /\ tcpState = [c \in Clients |-> "disconnected"]
  /\ lastState = [c \in Clients |-> "disconnected"]
  /\ link = [c \in Clients |-> "none"]
  /\ flight = [c \in Clients |-> <<>>]
  /\ arrived = [c \in Clients |-> <<>>]
  /\ backlog = <<>>
  /\ conns = <<>>
  /\ buffer = [c \in Clients |-> <<>>]
  /\ datagrams = 0
  /\ coming = MaxDatagrams
  /\ sent = [c \in Clients |-> <<>>]
  /\ taken = [c \in Clients |-> <<>>]

-----------------------------------------------------------------------------
(* The clients.                                                            *)

(* SafeSend goes on until every byte of the packet is in the socket.       *)
SendPacket(c, packet) ==
  /\ sent' = [sent EXCEPT ![c] = Append(@, packet)]
  /\ flight' = [flight EXCEPT ![c] = @ \o Units(Len(sent[c]) + 1, packet)]

Handshake == [kind |-> "handshake", size |-> 1]
Disconnect == [kind |-> "disconnect", size |-> 1]

(* Connect returns while the connection is being made.                     *)
Connect(c) ==
  /\ link[c] = "none"
  /\ link' = [link EXCEPT ![c] = "pending"]
  /\ tcpState' = [tcpState EXCEPT ![c] = "connecting"]
  /\ lastState' = [lastState EXCEPT ![c] = "connecting"]
  /\ UNCHANGED <<flight, arrived, serverVars, udpVars, sent, taken>>

(* connect succeeds at once: Initialize greets, and Run, which begins in   *)
(* state Connected, does not.                                              *)
ConnectAtOnce(c) ==
  /\ link[c] = "none"
  /\ link' = [link EXCEPT ![c] = "up"]
  /\ tcpState' = [tcpState EXCEPT ![c] = "connected"]
  /\ lastState' = [lastState EXCEPT ![c] = "connected"]
  /\ SendPacket(c, Handshake)
  /\ backlog' = Append(backlog, c)
  /\ UNCHANGED <<arrived, conns, buffer, udpVars, taken>>

(* Seeded fault: Run waits for a connection that was lost to come back.    *)
NoticedAfterLoss(old, new) == old = "disconnected" /\ new = "connected"

Noticed(old, new) == old = "connecting" /\ new = "connected"

(* Seeded fault: lastTcpState is not brought up to date.                   *)
WatchForgetting(c) ==
  /\ link[c] # "none"
  /\ Noticed(lastState[c], tcpState[c])
  /\ link[c] = "up"
  /\ SendPacket(c, Handshake)
  /\ UNCHANGED <<clientVars, link, arrived, serverVars, udpVars, taken>>

(* The first lines of a turn of Run.                                       *)
Watch(c) ==
  /\ lastState[c] # tcpState[c]
  /\ lastState' = [lastState EXCEPT ![c] = tcpState[c]]
  /\ IF Noticed(lastState[c], tcpState[c]) /\ link[c] = "up"
     THEN SendPacket(c, Handshake)
     ELSE UNCHANGED <<sent, flight>>
  /\ UNCHANGED <<tcpState, link, arrived, serverVars, udpVars, taken>>

(* ReceivePacket on a client: a pending connection is tested for its       *)
(* outcome; a socket that fails is closed.                                 *)
ClientPoll(c) ==
  LET failed == link[c] \in {"refused", "reset"}
  IN /\ tcpState[c] # "disconnected"
     /\ tcpState[c] = "connecting" => link[c] # "pending"
     /\ tcpState[c] = "connected" => failed
     /\ tcpState' = [tcpState EXCEPT
                       ![c] = IF failed THEN "disconnected" ELSE "connected"]
     /\ UNCHANGED <<lastState, netVars, serverVars, udpVars, sent, taken>>

(* Everything else a client sends, whatever m_tcpState says; the           *)
(* ResolutionUpdate of Initialize waits in SafeSend while the connection   *)
(* is being made, and so precedes the greeting of Run.                     *)
SendOther(c) ==
  /\ link[c] = "up"
  /\ Cardinality(Places(c, "other")) < MaxOthers
  /\ \E size \in Sizes : SendPacket(c, [kind |-> "other", size |-> size])
  /\ UNCHANGED <<clientVars, link, arrived, serverVars, udpVars, taken>>

(* Shutdown says Disconnect and closes the socket.                         *)
Leave(c) ==
  /\ link[c] = "up"
  /\ SendPacket(c, Disconnect)
  /\ link' = [link EXCEPT ![c] = "ended"]
  /\ tcpState' = [tcpState EXCEPT ![c] = "disconnected"]
  /\ lastState' = [lastState EXCEPT ![c] = "disconnected"]
  /\ UNCHANGED <<arrived, serverVars, udpVars, taken>>

-----------------------------------------------------------------------------
(* The network.                                                            *)

Establish(c) ==
  /\ link[c] = "pending"
  /\ link' = [link EXCEPT ![c] = "up"]
  /\ backlog' = Append(backlog, c)
  /\ UNCHANGED <<clientVars, flight, arrived, conns, buffer, udpVars, sent, taken>>

Refuse(c) ==
  /\ link[c] = "pending"
  /\ link' = [link EXCEPT ![c] = "refused"]
  /\ UNCHANGED <<clientVars, flight, arrived, serverVars, udpVars, sent, taken>>

Arrive(c) ==
  \E n \in 1 .. Len(flight[c]) :
    /\ arrived' = [arrived EXCEPT ![c] = @ \o SubSeq(flight[c], 1, n)]
    /\ flight' = [flight EXCEPT ![c] = SubSeq(@, n + 1, Len(@))]
    /\ UNCHANGED <<clientVars, link, serverVars, udpVars, sent, taken>>

(* The connection breaks, or is reset since the client closed it with      *)
(* packets unread: what the server has not read is gone.                   *)
Break(c) ==
  /\ link[c] \in {"up", "ended"}
  /\ link' = [link EXCEPT ![c] = "reset"]
  /\ flight' = [flight EXCEPT ![c] = <<>>]
  /\ arrived' = [arrived EXCEPT ![c] = <<>>]
  /\ UNCHANGED <<clientVars, serverVars, udpVars, sent, taken>>

DatagramComes ==
  /\ coming > 0
  /\ coming' = coming - 1
  /\ datagrams' = datagrams + 1
  /\ UNCHANGED <<clientVars, netVars, serverVars, sent, taken>>

-----------------------------------------------------------------------------
(* ReceivePacket on the server.                                            *)

ReadSize(c) ==
  IF Len(arrived[c]) < ReadMax THEN Len(arrived[c]) ELSE ReadMax

(* The buffer of c after its recv.                                         *)
Filled(c) == buffer[c] \o SubSeq(arrived[c], 1, ReadSize(c))

FirstPacket(c, b) == sent[c][Head(b)[1]]

(* Deserialize: nothing is consumed before the packet is there as a whole. *)
HasPacket(c, b) == b # <<>> /\ Len(b) >= FirstPacket(c, b).size

(* Seeded fault: the last unit of the packet stays in the buffer.          *)
RestOffByOne(c, b) == SubSeq(b, FirstPacket(c, b).size, Len(b))

(* Seeded fault: the buffer is cleared as a whole.                         *)
RestCleared(c, b) == <<>>

Rest(c, b) == SubSeq(b, FirstPacket(c, b).size + 1, Len(b))

(* recv returns zero, or an error.                                         *)
Ended(c) ==
  \/ link[c] = "ended" /\ flight[c] = <<>> /\ arrived[c] = <<>>
  \/ link[c] = "reset"

(* Seeded fault: the end of the stream is looked at before the buffer.     *)
OutcomeEndFirst(c) ==
  IF Ended(c) THEN "ended"
  ELSE IF HasPacket(c, Filled(c)) THEN "packet" ELSE "idle"

Outcome(c) ==
  IF HasPacket(c, Filled(c)) THEN "packet"
  ELSE IF Ended(c) THEN "ended" ELSE "idle"

(* Seeded fault: the walk ends at a client that has nothing.               *)
WalkUntilIdle(list) ==
  LET stops == {i \in 1 .. Len(list) : Outcome(list[i]) # "ended"}
  IN IF stops = {} THEN Len(list)
     ELSE CHOOSE i \in stops : \A j \in stops : i <= j

(* How far the walk through m_clients goes: to the first packet.           *)
Walk(list) ==
  LET stops == {i \in 1 .. Len(list) : Outcome(list[i]) = "packet"}
  IN IF stops = {} THEN Len(list)
     ELSE CHOOSE i \in stops : \A j \in stops : i <= j

Accepted == IF backlog = <<>> THEN conns ELSE Append(conns, Head(backlog))

(* m_clients without those that were erased on the way.                    *)
Without(list, lost) ==
  LET kept[i \in 0 .. Len(list)] ==
        IF i = 0 THEN <<>>
        ELSE IF list[i] \in lost THEN kept[i - 1] ELSE Append(kept[i - 1], list[i])
  IN kept[Len(list)]

ReceiveDatagram ==
  /\ datagrams > 0
  /\ datagrams' = datagrams - 1
  /\ conns' = Accepted
  /\ UNCHANGED <<coming, clientVars, netVars, buffer, taken, sent>>

ReceiveTcp ==
  LET last == Walk(Accepted)
      walked == {Accepted[i] : i \in 1 .. last}
      by == {c \in walked : Outcome(c) = "packet"}
      lost == {c \in walked : Outcome(c) = "ended"}
  IN /\ datagrams = 0
     /\ conns' = Without(Accepted, lost)
     /\ arrived' = [c \in Clients |->
                     IF c \in walked
                     THEN SubSeq(arrived[c], ReadSize(c) + 1, Len(arrived[c]))
                     ELSE arrived[c]]
     /\ buffer' = [c \in Clients |->
                    IF c \in by THEN Rest(c, Filled(c))
                    ELSE IF c \in lost THEN <<>>
                    ELSE IF c \in walked THEN Filled(c)
                    ELSE buffer[c]]
     /\ taken' = [c \in Clients |->
                   IF c \in by THEN Append(taken[c], FirstPacket(c, Filled(c)))
                   ELSE taken[c]]
     /\ UNCHANGED <<clientVars, link, flight, udpVars, sent>>

ReceivePacket ==
  /\ ReceiveDatagram \/ ReceiveTcp
  /\ backlog' = IF backlog = <<>> THEN <<>> ELSE Tail(backlog)

Client(c) ==
  \/ Connect(c)
  \/ ConnectAtOnce(c)
  \/ Watch(c)
  \/ ClientPoll(c)
  \/ SendOther(c)
  \/ Leave(c)

Network(c) ==
  \/ Establish(c)
  \/ Refuse(c)
  \/ Arrive(c)
  \/ Break(c)

Next ==
  \/ \E c \in Clients : Client(c) \/ Network(c)
  \/ DatagramComes
  \/ ReceivePacket

(* The loops of Run keep looking and receiving, what is sent arrives while *)
(* the connection lives, an attempt to connect comes to an end.  Nobody    *)
(* has to connect, send or leave.                                          *)
Fairness ==
  /\ \A c \in Clients :
       /\ WF_vars(Watch(c))
       /\ WF_vars(ClientPoll(c))
       /\ WF_vars(Arrive(c))
       /\ WF_vars(Establish(c) \/ Refuse(c))
  /\ WF_vars(ReceivePacket)

Spec == Init /\ [][Next]_vars /\ Fairness

-----------------------------------------------------------------------------
(* However the streams are cut, every client's packets are returned whole, *)
(* in order and once (NetworkManager.cpp:283-294).                         *)
Channel == INSTANCE PacketChannel

ImplementsChannel == Channel!Spec

(* A client that has closed its connection in order is forgotten only when *)
(* all its packets have been returned, the Disconnect included; several of *)
(* them may wait in the buffer when recv reports the end                   *)
(* (NetworkManager.cpp:288-306).                                           *)
NothingLostAtClose ==
  \A c \in Clients :
    (link[c] = "ended" /\ ~ Listed(c) /\ ~ Waiting(c)) => taken[c] = sent[c]

(* Every packet is returned in the end unless its connection breaks:       *)
(* neither the datagrams that go first nor the clients that come earlier   *)
(* in m_clients keep a client from being read, as all of them pause        *)
(* (NetworkManager.cpp:271-307).                                           *)
EveryPacketTaken ==
  []<>(\A c \in Clients : link[c] # "reset" => taken[c] = sent[c])

(* Initialize and Run both greet (NetMuxFramework.cpp:66-72, 164-173), and *)
(* no connection is greeted by both.                                       *)
GreetedOnce == \A c \in Clients : Cardinality(Places(c, "handshake")) <= 1

(* A connection that holds is greeted, although ReceivePacket changes      *)
(* m_tcpState and Run only compares it with what it was a turn ago.        *)
ConnectionGreeted ==
  []<>(\A c \in Clients : link[c] = "up" => Places(c, "handshake") # {})
=============================================================================
