---------------------------- MODULE PacketChannel ----------------------------
(***************************************************************************)
(* What the handlers of ProcessIncomingPackets rely on for packets that    *)
(* are sent by TCP (src/src/NetworkManager.cpp:283-307): whatever the      *)
(* sizes in which a stream arrives, the packets of a client are taken      *)
(* whole, in the order in which they were sent, and each of them once.     *)
(***************************************************************************)
EXTENDS Naturals, Sequences

CONSTANTS
  Clients,
  Packets

VARIABLES
  sent,    \* sent[c]: the packets c has sent
  taken    \* taken[c]: the packets of c that have been handed to a handler

vars == <<sent, taken>>

Init ==
  /\ sent = [c \in Clients |-> <<>>]
  /\ taken = [c \in Clients |-> <<>>]

Send(c) ==
  /\ \E p \in Packets : sent' = [sent EXCEPT ![c] = Append(@, p)]
  /\ UNCHANGED taken

Take(c) ==
  /\ Len(taken[c]) < Len(sent[c])
  /\ taken' = [taken EXCEPT ![c] = Append(@, sent[c][Len(taken[c]) + 1])]
  /\ UNCHANGED sent

Next == \E c \in Clients : Send(c) \/ Take(c)

Spec == Init /\ [][Next]_vars
=============================================================================
