------------------------------ MODULE PeerSession ------------------------------
(***************************************************************************)
(* How a server with a security key comes to trust its clients, and how it *)
(* forgets them: AuthService (src/src/AuthService.cpp), IsPeerTrusted and  *)
(* the handlers of Handshake, AuthResponse, Ping, Disconnect and of every  *)
(* packet that needs trust (src/src/NetMuxFramework.cpp:407-427, 429-667), *)
(* PerformPeerCleanup (737-749) and the map of SyncModule                  *)
(* (src/src/SyncModule.cpp).                                               *)
(*                                                                         *)
(* All clients hold the right key, so an answer is right exactly if it is  *)
(* the answer to the nonce the server has pending for that client.  The    *)
(* server sends a challenge to ALL TCP clients and every one of them       *)
(* answers it, under its own id.                                           *)
(*                                                                         *)
(* Time passes in ticks; a TCP packet takes less than a tick unless its    *)
(* client is cut off, and a client that is not cut off sends a Ping in     *)
(* every tick.  Being cut off is an outage that TCP survives: a cable      *)
(* pulled for a while, a laptop asleep.                                    *)
(***************************************************************************)
EXTENDS Naturals, Sequences

CONSTANTS
  Clients,
  Nonces,          \* values of the 31-bit nonce
  NoNonce,
  PruneAfter,      \* 10000 ms of PerformPeerCleanup, in ticks
  ChallengeAfter,  \* 2000 ms of IsPeerTrusted, in ticks
  Cuttable         \* bound: clients that may be cut off, each once

ASSUME NoncesAssumption == NoNonce \notin Nonces
(* A tick is at least the 2000 ms between two Pings, and not all of 10000. *)
ASSUME TimesAssumption ==
  PruneAfter \in Nat \ {0} /\ ChallengeAfter \in Nat /\ Cuttable \subseteq Clients

VARIABLES
  stage,          \* stage[c]: "new", "joined" or "gone"
  cut,            \* clients that are cut off
  everCut,        \* clients that have been cut off
  up,             \* up[c]: what c has sent by TCP and the server not taken
  down,           \* down[c]: challenges c has not yet answered
  known,          \* ids in m_peers
  authenticated,  \* peers whose isAuthenticated is true
  age,            \* age[c]: ticks since lastSeen, up to PruneAfter + 1
  pending,        \* m_pendingChallenges
  quiet,          \* quiet[c]: ticks since lastChallengeTime[c]
  heard,          \* clients whose Ping has come in this tick
  pruned          \* history: clients PruneInactivePeers has removed

clientVars == <<stage, cut, everCut>>
peerVars == <<known, authenticated, age>>
vars == <<clientVars, up, down, peerVars, pending, quiet, heard, pruned>>

Messages ==
  [kind : {"handshake", "disconnect"}, nonce : {NoNonce}]
  \cup [kind : {"response"}, nonce : Nonces]

TypeOK ==
  /\ stage \in [Clients -> {"new", "joined", "gone"}]
  /\ cut \subseteq everCut
  /\ everCut \subseteq Clients
  /\ up \in [Clients -> Seq(Messages)]
  /\ down \in [Clients -> Seq(Nonces)]
  /\ known \subseteq Clients
  /\ authenticated \subseteq known
  /\ age \in [Clients -> 0 .. PruneAfter + 1]
  /\ pending \in [Clients -> Nonces \cup {NoNonce}]
  /\ quiet \in [Clients -> 0 .. ChallengeAfter + 1]
  /\ heard \subseteq Clients
  /\ pruned \subseteq Clients

Init ==
  /\ stage = [c \in Clients |-> "new"]
  /\ cut = {}
  /\ everCut = {}
  /\ up = [c \in Clients |-> <<>>]
  /\ down = [c \in Clients |-> <<>>]
  /\ known = {}
  /\ authenticated = {}
  /\ age = [c \in Clients |-> 0]
  /\ pending = [c \in Clients |-> NoNonce]
  /\ quiet = [c \in Clients |-> ChallengeAfter + 1]
  /\ heard = {}
  /\ pruned = {}

-----------------------------------------------------------------------------
(* The clients and the network.                                            *)

Reachable(c) == stage[c] = "joined" /\ c \notin cut

Message(kind, nonce) == [kind |-> kind, nonce |-> nonce]

(* TCP is connected: Run sends the one Handshake of this process.          *)
Join(c) ==
  /\ stage[c] = "new"
  /\ stage' = [stage EXCEPT ![c] = "joined"]
  /\ up' = [up EXCEPT ![c] = Append(@, Message("handshake", NoNonce))]
  /\ UNCHANGED <<cut, everCut, down, peerVars, pending, quiet, heard, pruned>>

(* Shutdown.                                                               *)
Leave(c) ==
  /\ Reachable(c)
  /\ stage' = [stage EXCEPT ![c] = "gone"]
  /\ up' = [up EXCEPT ![c] = Append(@, Message("disconnect", NoNonce))]
  /\ down' = [down EXCEPT ![c] = <<>>]
  /\ UNCHANGED <<cut, everCut, peerVars, pending, quiet, heard, pruned>>

(* AuthChallenge on a client: whoever the nonce was meant for, it answers. *)
Answer(c) ==
  /\ Reachable(c)
  /\ down[c] # <<>>
  /\ down' = [down EXCEPT ![c] = Tail(@)]
  /\ up' = [up EXCEPT ![c] = Append(@, Message("response", Head(down[c])))]
  /\ UNCHANGED <<clientVars, peerVars, pending, quiet, heard, pruned>>

CutOff(c) ==
  /\ Reachable(c)
  /\ c \in Cuttable \ everCut
  /\ everCut' = everCut \cup {c}
  /\ cut' = cut \cup {c}
  /\ UNCHANGED <<stage, up, down, peerVars, pending, quiet, heard, pruned>>

Reconnect(c) ==
  /\ c \in cut
  /\ cut' = cut \ {c}
  /\ UNCHANGED <<stage, everCut, up, down, peerVars, pending, quiet, heard, pruned>>

Older(n, limit) == IF n > limit THEN n ELSE n + 1

(* What was in flight has arrived, every reachable client has been heard.  *)
Tick ==
  /\ \A c \in Clients : c \notin cut => up[c] = <<>> /\ down[c] = <<>>
  /\ \A c \in Clients : Reachable(c) => c \in heard
  /\ age' = [c \in Clients |->
              IF c \in known THEN Older(age[c], PruneAfter) ELSE 0]
  /\ quiet' = [c \in Clients |-> Older(quiet[c], ChallengeAfter)]
  /\ heard' = {}
  /\ UNCHANGED <<clientVars, up, down, known, authenticated, pending, pruned>>

-----------------------------------------------------------------------------
(* The server.                                                             *)

(* CreateChallenge draws a random nonce: one that is nowhere in use.       *)
Fresh(n) ==
  \A c \in Clients :
    /\ pending[c] # n
    /\ \A i \in 1 .. Len(down[c]) : down[c][i] # n
    /\ \A i \in 1 .. Len(up[c]) : up[c][i].nonce # n

(* CreateChallenge, and SendPacket to all TCP clients.  Bound: a nonce is   *)
(* left.                                                                   *)
Challenge(c) ==
  LET n == CHOOSE n \in Nonces : Fresh(n)
  IN /\ \E free \in Nonces : Fresh(free)
     /\ pending' = [pending EXCEPT ![c] = n]
     /\ down' = [d \in Clients |->
                  IF stage[d] = "joined" THEN Append(down[d], n) ELSE down[d]]

TakeFrom(c, kind) ==
  /\ c \notin cut
  /\ up[c] # <<>>
  /\ Head(up[c]).kind = kind
  /\ up' = [up EXCEPT ![c] = Tail(@)]

(* Handshake: UpdatePeer creates the peer; a challenge is sent at once and *)
(* does not touch lastChallengeTime.                                       *)
ReceiveHandshake(c) ==
  /\ TakeFrom(c, "handshake")
  /\ known' = known \cup {c}
  /\ age' = [age EXCEPT ![c] = 0]
  /\ Challenge(c)
  /\ UNCHANGED <<clientVars, authenticated, quiet, heard, pruned>>

(* Seeded fault: SetAuthenticated is called with the outcome, good or bad. *)
TrustAsAnswered(c, nonce) ==
  IF pending[c] = nonce /\ c \in known THEN authenticated \cup {c}
  ELSE authenticated \ {c}

(* VerifyResponse, and SetAuthenticated, which ignores an unknown peer.    *)
TrustAfter(c, nonce) ==
  IF pending[c] = nonce /\ c \in known THEN authenticated \cup {c}
  ELSE authenticated

(* AuthResponse: the pending nonce is used up, whatever the answer.        *)
ReceiveResponse(c) ==
  /\ TakeFrom(c, "response")
  /\ pending' = [pending EXCEPT ![c] = NoNonce]
  /\ authenticated' = TrustAfter(c, Head(up[c]).nonce)
  /\ UNCHANGED <<clientVars, down, known, age, quiet, heard, pruned>>

(* Disconnect: RemovePeer; the pending nonce stays.                        *)
ReceiveDisconnect(c) ==
  /\ TakeFrom(c, "disconnect")
  /\ known' = known \ {c}
  /\ authenticated' = authenticated \ {c}
  /\ age' = [age EXCEPT ![c] = 0]
  /\ UNCHANGED <<clientVars, down, pending, quiet, heard, pruned>>

(* Seeded fault: a Ping keeps only trusted peers alive.                    *)
RefreshTrusted(c) ==
  age' = IF c \in authenticated THEN [age EXCEPT ![c] = 0] ELSE age

(* RefreshPeer ignores a peer it does not know.                            *)
RefreshPeer(c) ==
  age' = IF c \in known THEN [age EXCEPT ![c] = 0] ELSE age

(* Ping and Sync need no trust.                                            *)
ReceivePing(c) ==
  /\ Reachable(c)
  /\ heard' = heard \cup {c}
  /\ RefreshPeer(c)
  /\ UNCHANGED <<clientVars, up, down, known, authenticated, pending, quiet, pruned>>

(* Seeded fault: lastChallengeTime is set by every packet, challenge or not.*)
GuardedPostponing(c) ==
  /\ Reachable(c)
  /\ IF c \in authenticated
     THEN /\ age' = [age EXCEPT ![c] = 0]
          /\ UNCHANGED <<known, down, pending, quiet>>
     ELSE /\ IF quiet[c] > ChallengeAfter THEN Challenge(c)
             ELSE UNCHANGED <<down, pending>>
          /\ quiet' = [quiet EXCEPT ![c] = 0]
          /\ UNCHANGED <<known, age>>
  /\ UNCHANGED <<clientVars, up, authenticated, heard, pruned>>

(* AbsoluteMovement, Heartbeat and all that IsPeerTrusted guards.  From a  *)
(* trusted peer a position or a heartbeat refreshes the entry (it has one, *)
(* for a trusted peer is known), and other types change nothing here.      *)
(* From any other peer the one effect is a challenge, and that only some   *)
(* time after the last.                                                    *)
ReceiveGuarded(c) ==
  /\ Reachable(c)
  /\ IF c \in authenticated
     THEN /\ age' = [age EXCEPT ![c] = 0]
          /\ UNCHANGED <<known, down, pending, quiet>>
     ELSE /\ quiet[c] > ChallengeAfter
          /\ Challenge(c)
          /\ quiet' = [quiet EXCEPT ![c] = 0]
          /\ UNCHANGED <<known, age>>
  /\ UNCHANGED <<clientVars, up, authenticated, heard, pruned>>

(* Seeded fault: trust is kept in a set of its own and survives pruning.   *)
CleanupKeepingTrust ==
  LET inactive == {c \in known : age[c] > PruneAfter}
  IN /\ inactive # {}
     /\ known' = known \ inactive
     /\ age' = [c \in Clients |-> IF c \in inactive THEN 0 ELSE age[c]]
     /\ pending' = [c \in Clients |-> IF c \in inactive THEN NoNonce ELSE pending[c]]
     /\ pruned' = pruned \cup inactive
     /\ UNCHANGED <<clientVars, up, down, authenticated, quiet, heard>>

(* PruneInactivePeers, ClearPeer and the other clean-ups.                  *)
PeerCleanup ==
  LET inactive == {c \in known : age[c] > PruneAfter}
  IN /\ inactive # {}
     /\ known' = known \ inactive
     /\ authenticated' = authenticated \ inactive
     /\ age' = [c \in Clients |-> IF c \in inactive THEN 0 ELSE age[c]]
     /\ pending' = [c \in Clients |-> IF c \in inactive THEN NoNonce ELSE pending[c]]
     /\ pruned' = pruned \cup inactive
     /\ UNCHANGED <<clientVars, up, down, quiet, heard>>

Server(c) ==
  \/ ReceiveHandshake(c)
  \/ ReceiveResponse(c)
  \/ ReceiveDisconnect(c)
  \/ ReceivePing(c)
  \/ ReceiveGuarded(c)

Next ==
  \/ \E c \in Clients :
       Join(c) \/ Leave(c) \/ Answer(c) \/ CutOff(c) \/ Reconnect(c) \/ Server(c)
  \/ Tick
  \/ PeerCleanup

(* A client that runs keeps answering and sending, the server keeps        *)
(* looping, an outage ends.  Nobody has to join, leave or be cut off.      *)
Fairness ==
  /\ \A c \in Clients :
       /\ WF_vars(Answer(c))
       /\ WF_vars(Reconnect(c))
       /\ WF_vars(ReceiveHandshake(c))
       /\ WF_vars(ReceiveResponse(c))
       /\ WF_vars(ReceiveDisconnect(c))
       /\ WF_vars(ReceivePing(c))
       /\ WF_vars(ReceiveGuarded(c))
  /\ WF_vars(Tick)
  /\ WF_vars(PeerCleanup)

Spec == Init /\ [][Next]_vars /\ Fairness

-----------------------------------------------------------------------------
(* Only a client that was cut off is ever pruned: a Ping, which needs no   *)
(* trust, keeps even a peer that never authenticates in the map.           *)
OnlySilentPruned == pruned \subseteq everCut

(* Trust is lost only with the entry: answers to other clients' and to     *)
(* stale challenges, which every client keeps sending, cost nobody trust.  *)
TrustIsKept ==
  [][\A c \in authenticated :
       c \in authenticated' \/ stage[c] = "gone" \/ age[c] > PruneAfter]_vars

(* As long as nobody is pruned, every client that stays is trusted in the  *)
(* end and for good, although every client answers every challenge and a   *)
(* wrong answer uses up the pending nonce.                                 *)
StayingClientsTrusted ==
  [](pruned = {}) =>
    \A c \in Clients :
      <>[](stage[c] = "joined") => <>[](c \in authenticated)

(* SyncModule.cpp:181-182 on a refreshed peer that is not in the map:      *)
(* "We'll let the next AbsoluteMovement create them."                      *)
PrunedComesBack ==
  \A c \in Clients : c \in pruned ~> (c \in known \/ stage[c] = "gone")
=============================================================================
