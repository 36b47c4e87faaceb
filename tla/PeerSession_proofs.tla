-------------------------- MODULE PeerSession_proofs --------------------------
(***************************************************************************)
(* For any clients, nonces and limits of time: the map's entries and the   *)
(* nonces are of their types, trust is lost with the entry only, and no    *)
(* client is pruned that was never cut off.                                *)
(***************************************************************************)
EXTENDS PeerSession, TLAPS, SequenceTheorems

(* A client opens its stream with the Handshake and closes it with the     *)
(* Disconnect, and the server forgets who has closed.                      *)
StreamInv(c) ==
  /\ \A i \in 1 .. Len(up[c]) :
       /\ up[c][i].kind = "handshake" => i = 1
       /\ up[c][i].kind = "disconnect" => stage[c] = "gone"
  /\ stage[c] = "new" => up[c] = <<>> /\ c \notin known
  /\ stage[c] = "gone" =>
       /\ up[c] # <<>> => up[c][Len(up[c])].kind = "disconnect"
       /\ c \in known => up[c] # <<>>

(* Who is heard in a tick is young, and nobody who was never cut off is    *)
(* older than the tick before.                                             *)
AgeInv(c) ==
  /\ c \notin known \/ c \in heard => age[c] = 0
  /\ c \notin everCut => age[c] <= 1

IInv ==
  /\ TypeOK
  /\ \A c \in Clients : StreamInv(c) /\ AgeInv(c)
  /\ OnlySilentPruned
-----------------------------------------------------------------------------
(* Sequences.                                                              *)

LEMMA Grown ==
  ASSUME NEW S, NEW s \in Seq(S), NEW e \in S
  PROVE  /\ Append(s, e) \in Seq(S) /\ Append(s, e) # <<>>
         /\ Len(s) \in Nat /\ Len(Append(s, e)) = Len(s) + 1
         /\ \A i \in 1 .. Len(s) : Append(s, e)[i] = s[i]
         /\ Append(s, e)[Len(s) + 1] = e
BY AppendProperties, SMT

LEMMA Popped ==
  ASSUME NEW S, NEW s \in Seq(S), s # <<>>
  PROVE  /\ Head(s) \in S /\ Head(s) = s[1]
         /\ Tail(s) \in Seq(S)
         /\ Len(s) \in Nat \ {0} /\ Len(Tail(s)) = Len(s) - 1
         /\ \A i \in 1 .. Len(s) - 1 : Tail(s)[i] = s[i + 1]
BY HeadTailProperties, EmptySeq, SMT

-----------------------------------------------------------------------------
(* The streams.                                                            *)

LEMMA SameStream ==
  ASSUME NEW c \in Clients, StreamInv(c), up'[c] = up[c], stage'[c] = stage[c],
         c \in known' => c \in known
  PROVE  StreamInv(c)'
BY DEF StreamInv

LEMMA GrownStream ==
  ASSUME TypeOK, NEW c \in Clients, StreamInv(c), NEW m \in Messages,
         up'[c] = Append(up[c], m), stage[c] # "gone",
         stage'[c] = IF m.kind = "disconnect" THEN "gone" ELSE "joined",
         m.kind = "handshake" => up[c] = <<>>
  PROVE  StreamInv(c)'
<1>1. up[c] \in Seq(Messages)
  BY DEF TypeOK
<1> DEFINE l == Len(up[c])
<1>2. /\ l \in Nat /\ Len(up'[c]) = l + 1 /\ up'[c] # <<>>
      /\ \A i \in 1 .. l : up'[c][i] = up[c][i]
      /\ up'[c][l + 1] = m
  BY <1>1, Grown
<1>3. ASSUME NEW i \in 1 .. Len(up'[c])
      PROVE  /\ up'[c][i].kind = "handshake" => i = 1
             /\ up'[c][i].kind = "disconnect" => stage'[c] = "gone"
  <2>1. CASE i \in 1 .. l
    BY <1>2, <2>1 DEF StreamInv
  <2>2. CASE i \notin 1 .. l
    <3>1. i = l + 1
      BY <1>2, <2>2, SMT
    <3>2. m.kind = "handshake" => i = 1
      BY <3>1, EmptySeq, SMT
    <3>3. QED BY <1>2, <3>1, <3>2
  <2>3. QED BY <2>1, <2>2
<1>4. stage'[c] = "gone" => up'[c][Len(up'[c])].kind = "disconnect"
  BY <1>2
<1>5. stage'[c] # "new"
  OBVIOUS
<1>6. QED BY <1>2, <1>3, <1>4, <1>5 DEF StreamInv

LEMMA PoppedStream ==
  ASSUME TypeOK, NEW c \in Clients, StreamInv(c), up[c] # <<>>,
         up'[c] = Tail(up[c]), stage'[c] = stage[c],
         c \in known' => Head(up[c]).kind # "disconnect"
  PROVE  StreamInv(c)'
<1>1. up[c] \in Seq(Messages)
  BY DEF TypeOK
<1> DEFINE l == Len(up[c])
<1>2. /\ l \in Nat \ {0} /\ Len(up'[c]) = l - 1 /\ Head(up[c]) = up[c][1]
      /\ up'[c] \in Seq(Messages)
      /\ \A i \in 1 .. l - 1 : up'[c][i] = up[c][i + 1]
  BY <1>1, Popped
<1>3. ASSUME NEW i \in 1 .. Len(up'[c])
      PROVE  /\ up'[c][i].kind = "handshake" => i = 1
             /\ up'[c][i].kind = "disconnect" => stage'[c] = "gone"
  <2>1. i + 1 \in 1 .. l /\ i + 1 # 1 /\ i \in 1 .. l - 1
    BY <1>2, SMT
  <2>2. QED BY <1>2, <2>1 DEF StreamInv
<1>4. stage[c] # "new"
  BY DEF StreamInv
<1>5. ASSUME stage[c] = "gone", up'[c] # <<>>
      PROVE  up'[c][Len(up'[c])].kind = "disconnect"
  <2>1. l - 1 # 0
    BY <1>2, <1>5, EmptySeq
  <2>2. l - 1 \in 1 .. l - 1 /\ (l - 1) + 1 = l
    <3>1. l \in Nat \ {0}
      BY <1>2
    <3> HIDE DEF l
    <3>2. QED BY <2>1, <3>1, SMT
  <2>3. up'[c][l - 1] = up[c][l]
    BY <1>2, <2>2
  <2>4. QED BY <1>2, <1>5, <2>3 DEF StreamInv
<1>6. ASSUME stage[c] = "gone", c \in known'
      PROVE  up'[c] # <<>>
  <2>1. up[c][l].kind = "disconnect" /\ up[c][1].kind # "disconnect"
    BY <1>2, <1>6 DEF StreamInv
  <2>2. l - 1 # 0
    BY <1>2, <2>1, SMT
  <2>3. QED BY <1>2, <2>2, EmptySeq
<1>7. QED BY <1>3, <1>4, <1>5, <1>6 DEF StreamInv

(* A challenge is a nonce for everyone who is there.                       *)
LEMMA ChallengeTypes ==
  ASSUME TypeOK, NEW c \in Clients, Challenge(c)
  PROVE  /\ pending' \in [Clients -> Nonces \cup {NoNonce}]
         /\ down' \in [Clients -> Seq(Nonces)]
<1>1. PICK n : n = CHOOSE m \in Nonces : Fresh(m)
  OBVIOUS
<1>2. n \in Nonces
  BY <1>1 DEF Challenge
<1>3. /\ pending' = [pending EXCEPT ![c] = n]
      /\ down' = [d \in Clients |->
                   IF stage[d] = "joined" THEN Append(down[d], n) ELSE down[d]]
  BY <1>1 DEF Challenge
<1>4. ASSUME NEW d \in Clients PROVE down'[d] \in Seq(Nonces)
  <2>1. down[d] \in Seq(Nonces)
    BY DEF TypeOK
  <2>2. Append(down[d], n) \in Seq(Nonces)
    BY <1>2, <2>1, Grown
  <2>3. QED BY <1>3, <2>1, <2>2
<1>5. QED BY <1>2, <1>3, <1>4 DEF TypeOK
-----------------------------------------------------------------------------
(* Every step keeps the types.                                             *)

LEMMA MessageTypes ==
  /\ Message("handshake", NoNonce) \in Messages
  /\ Message("disconnect", NoNonce) \in Messages
  /\ \A n \in Nonces : Message("response", n) \in Messages
BY DEF Message, Messages

LEMMA Aging ==
  ASSUME NEW limit \in Nat, NEW n \in 0 .. limit + 1
  PROVE  Older(n, limit) \in 0 .. limit + 1 /\ Older(n, limit) <= n + 1
BY SMT DEF Older

LEMMA TypeNext ==
  ASSUME TypeOK, Next
  PROVE  TypeOK'
<1>1. PruneAfter \in Nat \ {0} /\ ChallengeAfter \in Nat
  BY TimesAssumption
<1>2. /\ up \in [Clients -> Seq(Messages)] /\ down \in [Clients -> Seq(Nonces)]
      /\ \A c \in Clients : up[c] \in Seq(Messages) /\ down[c] \in Seq(Nonces)
  BY DEF TypeOK
<1>3. <<>> \in Seq(Nonces) /\ 0 \in 0 .. PruneAfter + 1 /\ 0 \in 0 .. ChallengeAfter + 1
  BY <1>1, EmptySeq, SMT
<1>4. ASSUME NEW c \in Clients, Join(c)
      PROVE  TypeOK'
  <2>1. Append(up[c], Message("handshake", NoNonce)) \in Seq(Messages)
    BY <1>2, MessageTypes, Grown
  <2>2. up' \in [Clients -> Seq(Messages)]
    BY <1>2, <1>4, <2>1 DEF Join
  <2>3. QED BY <1>4, <2>2 DEF Join, TypeOK, peerVars
<1>5. ASSUME NEW c \in Clients, Leave(c)
      PROVE  TypeOK'
  <2>1. Append(up[c], Message("disconnect", NoNonce)) \in Seq(Messages)
    BY <1>2, MessageTypes, Grown
  <2>2. up' \in [Clients -> Seq(Messages)] /\ down' \in [Clients -> Seq(Nonces)]
    BY <1>2, <1>3, <1>5, <2>1 DEF Leave
  <2>3. QED BY <1>5, <2>2 DEF Leave, TypeOK, peerVars
<1>6. ASSUME NEW c \in Clients, Answer(c)
      PROVE  TypeOK'
  <2>1. Head(down[c]) \in Nonces /\ Tail(down[c]) \in Seq(Nonces)
    BY <1>2, <1>6, Popped DEF Answer
  <2>2. Append(up[c], Message("response", Head(down[c]))) \in Seq(Messages)
    BY <1>2, <2>1, MessageTypes, Grown
  <2>3. up' \in [Clients -> Seq(Messages)] /\ down' \in [Clients -> Seq(Nonces)]
    BY <1>2, <1>6, <2>1, <2>2 DEF Answer
  <2>4. QED BY <1>6, <2>3 DEF Answer, TypeOK, peerVars, clientVars
<1>7. ASSUME NEW c \in Clients, CutOff(c) \/ Reconnect(c)
      PROVE  TypeOK'
  BY <1>7 DEF CutOff, Reconnect, TypeOK, peerVars
<1>8. ASSUME NEW c \in Clients, NEW kind, TakeFrom(c, kind)
      PROVE  up' \in [Clients -> Seq(Messages)]
  <2>1. Tail(up[c]) \in Seq(Messages)
    BY <1>2, <1>8, Popped DEF TakeFrom
  <2>2. QED BY <1>2, <1>8, <2>1 DEF TakeFrom
<1>9. ASSUME NEW c \in Clients
      PROVE  [age EXCEPT ![c] = 0] \in [Clients -> 0 .. PruneAfter + 1]
  BY <1>3 DEF TypeOK
<1>10. ASSUME NEW c \in Clients, ReceiveHandshake(c)
       PROVE  TypeOK'
  <2>1. /\ up' \in [Clients -> Seq(Messages)] /\ down' \in [Clients -> Seq(Nonces)]
        /\ pending' \in [Clients -> Nonces \cup {NoNonce}]
    BY <1>8, <1>10, ChallengeTypes DEF ReceiveHandshake
  <2>2. QED BY <1>9, <1>10, <2>1 DEF ReceiveHandshake, TypeOK, clientVars
<1>11. ASSUME NEW c \in Clients, ReceiveResponse(c)
       PROVE  TypeOK'
  <2>1. up' \in [Clients -> Seq(Messages)]
    BY <1>8, <1>11 DEF ReceiveResponse
  <2>2. authenticated' \subseteq known'
    BY <1>11 DEF ReceiveResponse, TrustAfter, TypeOK
  <2>3. QED BY <1>11, <2>1, <2>2 DEF ReceiveResponse, TypeOK, clientVars
<1>12. ASSUME NEW c \in Clients, ReceiveDisconnect(c)
       PROVE  TypeOK'
  <2>1. up' \in [Clients -> Seq(Messages)]
    BY <1>8, <1>12 DEF ReceiveDisconnect
  <2>2. QED BY <1>9, <1>12, <2>1 DEF ReceiveDisconnect, TypeOK, clientVars
<1>13. ASSUME NEW c \in Clients, ReceivePing(c)
       PROVE  TypeOK'
  <2>1. age' \in [Clients -> 0 .. PruneAfter + 1]
    BY <1>9, <1>13 DEF ReceivePing, RefreshPeer, TypeOK
  <2>2. QED BY <1>13, <2>1 DEF ReceivePing, TypeOK, clientVars
<1>14. ASSUME NEW c \in Clients, ReceiveGuarded(c)
       PROVE  TypeOK'
  <2>1. /\ age' \in [Clients -> 0 .. PruneAfter + 1]
        /\ down' \in [Clients -> Seq(Nonces)]
        /\ pending' \in [Clients -> Nonces \cup {NoNonce}]
        /\ quiet' \in [Clients -> 0 .. ChallengeAfter + 1]
    <3>1. CASE c \in authenticated
      BY <1>2, <1>9, <1>14, <3>1 DEF ReceiveGuarded, TypeOK
    <3>2. CASE c \notin authenticated
      BY <1>3, <1>14, <3>2, ChallengeTypes DEF ReceiveGuarded, TypeOK
    <3>3. QED BY <3>1, <3>2
  <2>2. known' = known
    BY <1>14 DEF ReceiveGuarded
  <2>3. QED BY <1>14, <2>1, <2>2 DEF ReceiveGuarded, TypeOK, clientVars
<1>15. CASE Tick
  <2>1. \A c \in Clients :
          /\ Older(age[c], PruneAfter) \in 0 .. PruneAfter + 1
          /\ Older(quiet[c], ChallengeAfter) \in 0 .. ChallengeAfter + 1
    BY <1>1, Aging DEF TypeOK
  <2>2. /\ age' \in [Clients -> 0 .. PruneAfter + 1]
        /\ quiet' \in [Clients -> 0 .. ChallengeAfter + 1]
    BY <1>3, <1>15, <2>1 DEF Tick
  <2>3. QED BY <1>15, <2>2 DEF Tick, TypeOK, clientVars
<1>16. CASE PeerCleanup
  <2>1. /\ age' \in [Clients -> 0 .. PruneAfter + 1]
        /\ pending' \in [Clients -> Nonces \cup {NoNonce}]
    BY <1>3, <1>16 DEF PeerCleanup, TypeOK
  <2>2. QED BY <1>16, <2>1 DEF PeerCleanup, TypeOK, clientVars
<1>17. QED
  BY <1>4, <1>5, <1>6, <1>7, <1>10, <1>11, <1>12, <1>13, <1>14, <1>15, <1>16
  DEF Next, Server

-----------------------------------------------------------------------------
(* Every step keeps the order of the streams.                              *)

LEMMA StreamNext ==
  ASSUME TypeOK, \A c \in Clients : StreamInv(c), Next, NEW d \in Clients
  PROVE  StreamInv(d)'
<1>1. StreamInv(d) /\ up \in [Clients -> Seq(Messages)]
      /\ stage \in [Clients -> {"new", "joined", "gone"}]
  BY DEF TypeOK
<1>2. ASSUME NEW c \in Clients, Join(c)
      PROVE  StreamInv(d)'
  <2>1. CASE c = d
    <3>1. up[d] = <<>>
      BY <1>1, <1>2, <2>1 DEF Join, StreamInv
    <3>2. /\ up'[d] = Append(up[d], Message("handshake", NoNonce))
          /\ stage[d] # "gone" /\ stage'[d] = "joined"
      BY <1>1, <1>2, <2>1 DEF Join
    <3>3. QED BY <1>1, <3>1, <3>2, MessageTypes, GrownStream DEF Message
  <2>2. CASE c # d
    BY <1>1, <1>2, <2>2, SameStream DEF Join, peerVars
  <2>3. QED BY <2>1, <2>2
<1>3. ASSUME NEW c \in Clients, Leave(c)
      PROVE  StreamInv(d)'
  <2>1. CASE c = d
    <3>1. /\ up'[d] = Append(up[d], Message("disconnect", NoNonce))
          /\ stage[d] # "gone" /\ stage'[d] = "gone"
      BY <1>1, <1>3, <2>1 DEF Leave, Reachable
    <3>2. QED BY <1>1, <3>1, MessageTypes, GrownStream DEF Message
  <2>2. CASE c # d
    BY <1>1, <1>3, <2>2, SameStream DEF Leave, peerVars
  <2>3. QED BY <2>1, <2>2
<1>4. ASSUME NEW c \in Clients, Answer(c)
      PROVE  StreamInv(d)'
  <2>1. CASE c = d
    <3>1. Head(down[d]) \in Nonces
      BY <1>4, <2>1, Popped DEF Answer, TypeOK
    <3>2. /\ up'[d] = Append(up[d], Message("response", Head(down[d])))
          /\ stage[d] = "joined" /\ stage'[d] = "joined"
      BY <1>1, <1>4, <2>1 DEF Answer, Reachable, clientVars
    <3>3. QED BY <1>1, <3>1, <3>2, MessageTypes, GrownStream DEF Message
  <2>2. CASE c # d
    BY <1>1, <1>4, <2>2, SameStream DEF Answer, clientVars, peerVars
  <2>3. QED BY <2>1, <2>2
<1>5. ASSUME NEW c \in Clients, CutOff(c) \/ Reconnect(c)
      PROVE  StreamInv(d)'
  BY <1>1, <1>5, SameStream DEF CutOff, Reconnect, peerVars
<1>6. ASSUME NEW c \in Clients, ReceiveHandshake(c)
      PROVE  StreamInv(d)'
  <2>1. CASE c = d
    BY <1>1, <1>6, <2>1, PoppedStream DEF ReceiveHandshake, TakeFrom, clientVars
  <2>2. CASE c # d
    BY <1>1, <1>6, <2>2, SameStream DEF ReceiveHandshake, TakeFrom, clientVars
  <2>3. QED BY <2>1, <2>2
<1>7. ASSUME NEW c \in Clients, ReceiveResponse(c)
      PROVE  StreamInv(d)'
  <2>1. CASE c = d
    BY <1>1, <1>7, <2>1, PoppedStream DEF ReceiveResponse, TakeFrom, clientVars
  <2>2. CASE c # d
    BY <1>1, <1>7, <2>2, SameStream DEF ReceiveResponse, TakeFrom, clientVars
  <2>3. QED BY <2>1, <2>2
<1>8. ASSUME NEW c \in Clients, ReceiveDisconnect(c)
      PROVE  StreamInv(d)'
  <2>1. CASE c = d
    BY <1>1, <1>8, <2>1, PoppedStream DEF ReceiveDisconnect, TakeFrom, clientVars
  <2>2. CASE c # d
    BY <1>1, <1>8, <2>2, SameStream DEF ReceiveDisconnect, TakeFrom, clientVars
  <2>3. QED BY <2>1, <2>2
<1>9. ASSUME NEW c \in Clients, ReceivePing(c) \/ ReceiveGuarded(c)
      PROVE  StreamInv(d)'
  <2>1. up' = up /\ stage' = stage /\ known' = known
    BY <1>9 DEF ReceivePing, ReceiveGuarded, clientVars
  <2>2. QED BY <1>1, <2>1, SameStream
<1>10. CASE Tick \/ PeerCleanup
  <2>1. up' = up /\ stage' = stage /\ known' \subseteq known
    BY <1>10 DEF Tick, PeerCleanup, clientVars
  <2>2. QED BY <1>1, <2>1, SameStream
<1>11. QED
  BY <1>2, <1>3, <1>4, <1>5, <1>6, <1>7, <1>8, <1>9, <1>10 DEF Next, Server

-----------------------------------------------------------------------------
(* Every step keeps the ages, and nobody is pruned that was never cut off. *)

LEMMA AgeNext ==
  ASSUME TypeOK, \A c \in Clients : StreamInv(c) /\ AgeInv(c), Next, NEW d \in Clients
  PROVE  AgeInv(d)'
<1>1. /\ AgeInv(d) /\ StreamInv(d) /\ age[d] \in 0 .. PruneAfter + 1
      /\ cut \subseteq everCut /\ age \in [Clients -> 0 .. PruneAfter + 1]
      /\ stage[d] \in {"new", "joined", "gone"}
  BY DEF TypeOK
<1>2. 0 <= 1
  BY SMT
<1>3. ASSUME NEW c \in Clients, Join(c) \/ Leave(c) \/ Answer(c) \/ CutOff(c) \/ Reconnect(c)
      PROVE  AgeInv(d)'
  BY <1>1, <1>3 DEF Join, Leave, Answer, CutOff, Reconnect, AgeInv, clientVars, peerVars
<1>4. ASSUME NEW c \in Clients, ReceiveHandshake(c)
      PROVE  AgeInv(d)'
  BY <1>1, <1>2, <1>4 DEF ReceiveHandshake, AgeInv, clientVars
<1>5. ASSUME NEW c \in Clients, ReceiveResponse(c)
      PROVE  AgeInv(d)'
  BY <1>1, <1>5 DEF ReceiveResponse, AgeInv, clientVars
<1>6. ASSUME NEW c \in Clients, ReceiveDisconnect(c)
      PROVE  AgeInv(d)'
  BY <1>1, <1>2, <1>6 DEF ReceiveDisconnect, AgeInv, clientVars
<1>7. ASSUME NEW c \in Clients, ReceivePing(c)
      PROVE  AgeInv(d)'
  BY <1>1, <1>2, <1>7 DEF ReceivePing, RefreshPeer, AgeInv, clientVars
<1>8. ASSUME NEW c \in Clients, ReceiveGuarded(c)
      PROVE  AgeInv(d)'
  <2>1. age' = age \/ age' = [age EXCEPT ![c] = 0]
    BY <1>8 DEF ReceiveGuarded
  <2>2. known' = known /\ heard' = heard /\ everCut' = everCut
    BY <1>8 DEF ReceiveGuarded, clientVars
  <2>3. QED BY <1>1, <1>2, <2>1, <2>2 DEF AgeInv
<1>9. CASE Tick
  <2>1. /\ age'[d] = IF d \in known THEN Older(age[d], PruneAfter) ELSE 0
        /\ heard' = {} /\ known' = known /\ everCut' = everCut
    BY <1>9 DEF Tick, clientVars
  <2>2. ASSUME d \notin everCut, d \in known
        PROVE  age'[d] <= 1
    <3>1. up[d] = <<>>
      BY <1>1, <1>9, <2>2 DEF Tick
    <3>2. Reachable(d)
      BY <1>1, <2>2, <3>1 DEF StreamInv, Reachable
    <3>3. age[d] = 0
      BY <1>1, <1>9, <3>2 DEF Tick, AgeInv
    <3>4. QED BY <2>1, <2>2, <3>3, TimesAssumption, SMT DEF Older
  <2>3. QED BY <1>2, <2>1, <2>2 DEF AgeInv
<1>10. CASE PeerCleanup
  BY <1>1, <1>2, <1>10 DEF PeerCleanup, AgeInv, clientVars
<1>11. QED
  BY <1>3, <1>4, <1>5, <1>6, <1>7, <1>8, <1>9, <1>10 DEF Next, Server

LEMMA PrunedNext ==
  ASSUME TypeOK, \A c \in Clients : AgeInv(c), OnlySilentPruned, Next
  PROVE  OnlySilentPruned'
<1>1. everCut \subseteq everCut'
  BY DEF Next, Server, Join, Leave, Answer, CutOff, Reconnect, ReceiveHandshake,
     ReceiveResponse, ReceiveDisconnect, ReceivePing, ReceiveGuarded, Tick, PeerCleanup,
     clientVars
<1>2. CASE PeerCleanup
  <2>1. ASSUME NEW c \in known, age[c] > PruneAfter
        PROVE  c \in everCut
    <3>1. c \in Clients /\ age[c] \in 0 .. PruneAfter + 1 /\ PruneAfter \in Nat \ {0}
      BY <2>1, TimesAssumption DEF TypeOK
    <3>2. ~ (age[c] <= 1)
      BY <2>1, <3>1, SMT
    <3>3. QED BY <3>1, <3>2 DEF AgeInv
  <2>2. pruned' = pruned \cup {c \in known : age[c] > PruneAfter}
    BY <1>2 DEF PeerCleanup
  <2>3. QED BY <1>1, <2>1, <2>2 DEF OnlySilentPruned
<1>3. CASE ~ PeerCleanup
  <2>1. pruned' = pruned
    BY <1>3 DEF Next, Server, Join, Leave, Answer, CutOff, Reconnect, ReceiveHandshake,
       ReceiveResponse, ReceiveDisconnect, ReceivePing, ReceiveGuarded, Tick
  <2>2. QED BY <1>1, <2>1 DEF OnlySilentPruned
<1>4. QED BY <1>2, <1>3

-----------------------------------------------------------------------------
(* The invariant holds at first and is kept by every step.                 *)

LEMMA InitInv == Init => IInv
<1> SUFFICES ASSUME Init PROVE IInv
  OBVIOUS
<1>1. /\ PruneAfter \in Nat /\ ChallengeAfter \in Nat
      /\ 0 \in 0 .. PruneAfter + 1 /\ ChallengeAfter + 1 \in 0 .. ChallengeAfter + 1
  BY TimesAssumption, SMT
<1>2. TypeOK
  BY <1>1, EmptySeq DEF Init, TypeOK
<1>3. ASSUME NEW c \in Clients PROVE StreamInv(c)
  <2>1. up[c] = <<>> /\ stage[c] = "new" /\ c \notin known
    BY DEF Init
  <2>2. 1 .. Len(up[c]) = {}
    BY <2>1, EmptySeq, SMT
  <2>3. QED BY <2>1, <2>2 DEF StreamInv
<1>4. 0 <= 1
  BY SMT
<1>5. QED BY <1>2, <1>3, <1>4 DEF Init, IInv, AgeInv, OnlySilentPruned

LEMMA NextInv == IInv /\ [Next]_vars => IInv'
<1> SUFFICES ASSUME IInv, [Next]_vars PROVE IInv'
  OBVIOUS
<1>1. CASE Next
  <2>1. TypeOK /\ (\A c \in Clients : StreamInv(c) /\ AgeInv(c)) /\ OnlySilentPruned
    BY DEF IInv
  <2>2. TypeOK'
    BY <1>1, <2>1, TypeNext
  <2>3. \A c \in Clients : StreamInv(c)'
    BY <1>1, <2>1, StreamNext
  <2>4. \A c \in Clients : AgeInv(c)'
    BY <1>1, <2>1, AgeNext
  <2>5. OnlySilentPruned'
    BY <1>1, <2>1, PrunedNext
  <2>6. QED BY <2>2, <2>3, <2>4, <2>5 DEF IInv
<1>2. CASE UNCHANGED vars
  BY <1>2 DEF vars, clientVars, peerVars, IInv, TypeOK, StreamInv, AgeInv, OnlySilentPruned
<1>3. QED BY <1>1, <1>2

LEMMA InvHolds == Spec => []IInv
BY InitInv, NextInv, PTL DEF Spec

-----------------------------------------------------------------------------
(* The map, the streams and the nonces are of their types, and a trusted   *)
(* peer is in the map (SyncModule::SetAuthenticated, IsPeerTrusted).       *)
THEOREM SessionTypeCorrect == Spec => []TypeOK
<1>1. IInv => TypeOK
  BY DEF IInv
<1>2. QED BY <1>1, InvHolds, PTL

(* A client that was never cut off is never pruned, trusted or not, for    *)
(* its Ping renews the entry that its Handshake has made, and its          *)
(* Disconnect removes it (SyncModule.cpp PruneInactivePeers, RefreshPeer;  *)
(* NetMuxFramework.cpp:711-717, 737-749).                                  *)
THEOREM OnlySilentArePruned == Spec => []OnlySilentPruned
<1>1. IInv => OnlySilentPruned
  BY DEF IInv
<1>2. QED BY <1>1, InvHolds, PTL

(* A step takes trust from a client that has left or whose entry is too    *)
(* old, and from no other: the answers to challenges that were meant for   *)
(* others, which every client sends, cost nobody trust                     *)
(* (AuthService.cpp VerifyResponse, NetMuxFramework.cpp:407-427).          *)
THEOREM TrustIsAlwaysKept == Spec => TrustIsKept
<1>1. IInv /\ [Next]_vars =>
        [\A c \in authenticated :
           c \in authenticated' \/ stage[c] = "gone" \/ age[c] > PruneAfter]_vars
  <2>1. SUFFICES ASSUME IInv, Next, NEW c \in authenticated
                 PROVE  c \in authenticated' \/ stage[c] = "gone" \/ age[c] > PruneAfter
    OBVIOUS
  <2>2. c \in Clients /\ c \in known
    BY <2>1 DEF IInv, TypeOK
  <2>3. ASSUME NEW d \in Clients, ReceiveDisconnect(d), d = c
        PROVE  stage[c] = "gone"
    <3>1. up[c] \in Seq(Messages) /\ up[c] # <<>> /\ Head(up[c]).kind = "disconnect"
      BY <2>1, <2>2, <2>3 DEF ReceiveDisconnect, TakeFrom, IInv, TypeOK
    <3>2. up[c][1].kind = "disconnect" /\ 1 \in 1 .. Len(up[c])
      BY <3>1, Popped, SMT
    <3>3. QED BY <2>1, <2>2, <3>2 DEF IInv, StreamInv
  <2>4. ASSUME NEW d \in Clients, ReceiveDisconnect(d), d # c
        PROVE  c \in authenticated'
    BY <2>1, <2>4 DEF ReceiveDisconnect
  <2>5. ASSUME NEW d \in Clients, ReceiveResponse(d)
        PROVE  c \in authenticated'
    BY <2>1, <2>5 DEF ReceiveResponse, TrustAfter
  <2>6. CASE PeerCleanup
    BY <2>1, <2>2, <2>6 DEF PeerCleanup
  <2>7. ASSUME NEW d \in Clients,
               \/ Join(d) \/ Leave(d) \/ Answer(d) \/ CutOff(d) \/ Reconnect(d)
               \/ ReceiveHandshake(d) \/ ReceivePing(d) \/ ReceiveGuarded(d)
        PROVE  c \in authenticated'
    BY <2>1, <2>7 DEF Join, Leave, Answer, CutOff, Reconnect, ReceiveHandshake,
       ReceivePing, ReceiveGuarded, peerVars
  <2>8. CASE Tick
    BY <2>1, <2>8 DEF Tick
  <2>9. QED BY <2>1, <2>3, <2>4, <2>5, <2>6, <2>7, <2>8 DEF Next, Server
<1>2. QED BY <1>1, InvHolds, PTL DEF Spec, TrustIsKept
=============================================================================
