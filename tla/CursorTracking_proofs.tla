------------------------ MODULE CursorTracking_proofs ------------------------
(* Type correctness of CursorTracking, and that views drift for the named  *)
(* causes only and broadcasts align them, for any clients, any size of     *)
(* screen and any share of movements that are sent as positions.           *)
EXTENDS CursorTracking, Coordinates, SequenceTheorems, TLAPS

(* The first movement is sent as a position, and a position is where the   *)
(* cursor was.                                                             *)
Numbered ==
  /\ moves = <<>> => polls = 0 /\ raws = 0
  /\ moves # <<>> => moves[1].type = "absolute"
  /\ \A i \in DOMAIN moves : moves[i].type = "absolute" => moves[i].value = reached[i]

(* Nothing reaches a client that has not joined.                           *)
Aloof == \A c \in Clients \ joined : wire[c] = {} /\ master[c] = <<>>

(* A view that a Handshake has made has taken no movement.                 *)
Fresh ==
  \A n \in Viewers : (view[n] # Unknown /\ latest[n] = "handshake") => lastSeq[n] = 0

(* The last broadcast is the last one on its way to a client, or the one   *)
(* that its view is from, or was dropped.                                  *)
LastWord ==
  \A c \in Clients :
    /\ master[c] # <<>> => master[c][Len(master[c])] = lastMaster
    /\ (master[c] = <<>> /\ latest[c] = "master" /\ view[c] # Unknown)
         => view[c] = lastMaster \/ c \in bereft

IInv == TypeOK /\ Numbered /\ Aloof /\ Fresh /\ OnlyFaultsDrift /\ LastWord

LEMMA InitInv == Init => IInv
<1> SUFFICES ASSUME Init PROVE IInv
  OBVIOUS
<1> USE ServerAssumption, EdgeAssumption, UnknownAssumption, KeyAssumption, BoundsAssumption
<1>1. TypeOK
  BY DEF Init, TypeOK, Viewers, Positions, Coordinates, Pointed, Types, Excuses
<1>2. Numbered /\ Aloof /\ Fresh /\ OnlyFaultsDrift /\ LastWord
  BY DEF Init, Numbered, Aloof, Fresh, OnlyFaultsDrift, LastWord, Viewers
<1>3. QED BY <1>1, <1>2 DEF IInv

Movement == [type : {"absolute", "delta"}, value : Int]

(* A movement sent: it is the first one only if it is a position.          *)
LEMMA SendInv ==
  ASSUME IInv, NEW type \in {"absolute", "delta"}, NEW value \in Int,
         NEW position \in Positions,
         platform # "x11" => position \in Coordinates,
         Send(type, value, position),
         type = "absolute" => value = position,
         moves = <<>> => type = "absolute",
         polls' \in 0 .. KeyInterval - 1, raws' \in 0 .. KeyInterval - 1
  PROVE  IInv'
<1> DEFINE m == [type |-> type, value |-> value]
<1> USE ServerAssumption
<1>1. /\ moves \in Seq(Movement) /\ reached \in Seq(Positions) /\ m \in Movement
      /\ Len(moves) = Len(reached)
      /\ moves' = Append(moves, m) /\ reached' = Append(reached, position)
  BY DEF IInv, TypeOK, Send, Movement
<1>2. /\ moves' \in Seq(Movement) /\ Len(moves') = Len(moves) + 1 /\ moves' # <<>>
      /\ \A i \in 1 .. Len(moves) : moves'[i] = moves[i]
      /\ moves'[Len(moves) + 1] = m
  <2> HIDE DEF m
  <2> QED BY <1>1, AppendProperties, EmptySeq
<1>3. /\ reached' \in Seq(Positions) /\ Len(reached') = Len(moves) + 1
      /\ \A i \in 1 .. Len(moves) : reached'[i] = reached[i]
      /\ reached'[Len(moves) + 1] = position
  BY <1>1, AppendProperties
<1>4. Len(moves) \in Nat /\ DOMAIN moves = 1 .. Len(moves) /\ DOMAIN moves' = 1 .. Len(moves) + 1
  BY <1>1, <1>2, LenProperties
<1> HIDE DEF m
<1>5. TypeOK'
  <2>1. wire' \in [Viewers -> SUBSET DOMAIN moves']
    BY <1>4 DEF IInv, TypeOK, Send, Viewers
  <2>2. lastSeq' \in [Viewers -> 0 .. Len(moves')]
    BY <1>2, <1>4 DEF IInv, TypeOK, Send
  <2>3. \A n \in Viewers : n \notin joined' \cup {Server} => view'[n] = Unknown
    BY DEF IInv, TypeOK, Send
  <2>4. QED BY <1>2, <1>3, <2>1, <2>2, <2>3
        DEF IInv, TypeOK, Send, Movement, masterVars, history, viewHistory
<1>6. Numbered'
  <2>1. moves'[1].type = "absolute"
    <3>1. CASE moves = <<>>
      <4>1. Len(moves) = 0
        BY <3>1, EmptySeq
      <4> QED BY <1>2, <3>1, <4>1 DEF m
    <3>2. CASE moves # <<>>
      <4>1. 1 \in 1 .. Len(moves)
        BY <1>1, <1>4, <3>2, EmptySeq
      <4> QED BY <1>2, <3>2, <4>1 DEF IInv, Numbered
    <3> QED BY <3>1, <3>2
  <2>2. ASSUME NEW i \in DOMAIN moves', moves'[i].type = "absolute"
        PROVE  moves'[i].value = reached'[i]
    <3>1. CASE i = Len(moves) + 1
      BY <1>2, <1>3, <2>2, <3>1 DEF m
    <3>2. CASE i \in 1 .. Len(moves)
      BY <1>2, <1>3, <1>4, <2>2, <3>2 DEF IInv, Numbered
    <3> QED BY <1>4, <3>1, <3>2
  <2> QED BY <1>2, <2>1, <2>2 DEF Numbered
<1>7. Aloof'
  BY DEF IInv, TypeOK, Aloof, Send, Viewers, masterVars
<1>8. Fresh' /\ LastWord'
  BY DEF IInv, Fresh, LastWord, Send, masterVars, history, viewHistory
<1>9. OnlyFaultsDrift'
  <2>1. \A n \in Viewers : lastSeq[n] > 0 => reached'[lastSeq[n]] = reached[lastSeq[n]]
    BY <1>3, <1>4 DEF IInv, TypeOK
  <2> QED BY <2>1 DEF IInv, OnlyFaultsDrift, Send, history, viewHistory
<1> QED BY <1>5, <1>6, <1>7, <1>8, <1>9 DEF IInv

LEMMA MoveInv ==
  ASSUME IInv, CursorMove \/ PointerMove \/ RawMove \/ EvdevMove
  PROVE  IInv'
<1> USE EdgeAssumption, KeyAssumption
<1>1. /\ virtual \in Int /\ (platform # "x11" => virtual \in Coordinates)
      /\ polls \in 0 .. KeyInterval - 1 /\ raws \in 0 .. KeyInterval - 1
      /\ moves = <<>> => polls = 0 /\ raws = 0
  BY DEF IInv, TypeOK, Numbered, Positions, Coordinates, Pointed
<1>2. /\ (polls + 1) % KeyInterval \in 0 .. KeyInterval - 1
      /\ (raws + 1) % KeyInterval \in 0 .. KeyInterval - 1
  BY <1>1
<1>3. \A x \in Int : Clamped(x) \in Coordinates
  BY DEF Clamped, Coordinates
<1>4. /\ Coordinates \subseteq Positions /\ Pointed \subseteq Positions
      /\ Positions \subseteq Int
  BY DEF Positions, Coordinates, Pointed
<1>5. ASSUME NEW dx \in {-1, 1} PROVE dx \in Int /\ Clamped(virtual + dx) \in Coordinates
  <2>1. virtual + dx \in Int
    BY <1>1, <1>4
  <2> QED BY <1>3, <2>1
<1>6. ASSUME NEW positions \in SUBSET Positions, PolledMove(positions),
             platform # "x11" => positions \subseteq Coordinates
      PROVE  IInv'
  <2>1. PICK x \in positions \ {virtual} :
          IF polls = 0 THEN Send("absolute", x, x) ELSE Send("delta", x - virtual, x)
    BY <1>6 DEF PolledMove
  <2>2. polls' \in 0 .. KeyInterval - 1 /\ raws' \in 0 .. KeyInterval - 1
    BY <1>1, <1>2, <1>6 DEF PolledMove
  <2>3. /\ x \in Int /\ x \in Positions /\ x - virtual \in Int
        /\ platform # "x11" => x \in Coordinates
    BY <1>1, <1>4, <1>6
  <2>4. CASE polls = 0
    BY <1>1, <2>1, <2>2, <2>3, <2>4, SendInv
  <2>5. CASE polls # 0
    BY <1>1, <2>1, <2>2, <2>3, <2>5, SendInv
  <2> QED BY <2>4, <2>5
<1>7. CASE RawMove
  <2>1. PICK dx \in {-1, 1} :
          IF raws = 0 THEN Send("absolute", Clamped(virtual + dx), Clamped(virtual + dx))
          ELSE Send("delta", dx, Clamped(virtual + dx))
    BY <1>7 DEF RawMove
  <2>2. polls' \in 0 .. KeyInterval - 1 /\ raws' \in 0 .. KeyInterval - 1
    BY <1>1, <1>2, <1>7 DEF RawMove
  <2>3. dx \in Int /\ Clamped(virtual + dx) \in Coordinates /\ Clamped(virtual + dx) \in Int
        /\ Clamped(virtual + dx) \in Positions
    BY <1>4, <1>5
  <2>4. CASE raws = 0
    BY <2>1, <2>2, <2>3, <2>4, SendInv
  <2>5. CASE raws # 0
    BY <1>1, <2>1, <2>2, <2>3, <2>5, SendInv
  <2> QED BY <2>4, <2>5
<1>8. CASE EvdevMove
  <2>1. PICK dx \in {-1, 1} : Send("absolute", Clamped(virtual + dx), Clamped(virtual + dx))
    BY <1>8 DEF EvdevMove
  <2>2. polls' \in 0 .. KeyInterval - 1 /\ raws' \in 0 .. KeyInterval - 1
    BY <1>1, <1>8 DEF EvdevMove
  <2>3. Clamped(virtual + dx) \in Coordinates /\ Clamped(virtual + dx) \in Int
        /\ Clamped(virtual + dx) \in Positions
    BY <1>4, <1>5
  <2> QED BY <2>1, <2>2, <2>3, SendInv
<1>9. CASE CursorMove
  BY <1>4, <1>6, <1>9 DEF CursorMove
<1>10. CASE PointerMove
  BY <1>4, <1>6, <1>10 DEF PointerMove
<1> QED BY <1>7, <1>8, <1>9, <1>10

(* A movement taken: a delta that is not excused leads from where the view *)
(* was right to where the cursor went.                                     *)
LEMMA ReceiveMoveInv ==
  ASSUME IInv, NEW n \in Viewers, ReceiveMove(n)
  PROVE  IInv'
<1> USE ServerAssumption, UnknownAssumption
<1>1. PICK i \in wire[n] :
        /\ Passes(n, i)
        /\ lastSeq' = [lastSeq EXCEPT ![n] = i]
        /\ IF moves[i].type = "delta" /\ view[n] = Unknown
           THEN UNCHANGED <<view, wire, viewHistory>>
           ELSE /\ view' = [view EXCEPT ![n] = Moved(n, i)]
                /\ excused' = [excused EXCEPT ![n] = Excused(n, i)]
                /\ latest' = [latest EXCEPT ![n] = moves[i].type]
                /\ wire' = IF n = Server
                           THEN [m \in Viewers |->
                                  IF m \in joined THEN wire[m] \cup {i} ELSE wire[m]]
                           ELSE wire
        /\ UNCHANGED <<platform, inputVars, masterVars, joined, faults, bereft>>
  BY DEF ReceiveMove
<1>2. /\ moves \in Seq(Movement) /\ reached \in Seq(Positions) /\ Len(moves) = Len(reached)
      /\ lastSeq \in [Viewers -> 0 .. Len(moves)] /\ wire \in [Viewers -> SUBSET DOMAIN moves]
      /\ view \in [Viewers -> Int \cup {Unknown}]
      /\ excused \in [Viewers -> SUBSET Excuses] /\ latest \in [Viewers -> Types]
  BY DEF IInv, TypeOK, Movement
<1>3. /\ i \in 1 .. Len(moves) /\ Len(moves) \in Nat /\ DOMAIN moves = 1 .. Len(moves)
      /\ lastSeq[n] \in 0 .. Len(moves) /\ i > lastSeq[n]
  BY <1>1, <1>2, LenProperties DEF Passes
<1>4. /\ moves[i] \in Movement /\ moves[i].type \in {"absolute", "delta"}
      /\ moves[i].value \in Int
  <2>1. moves[i] \in Movement
    BY <1>2, <1>3, ElementOfSeq
  <2> QED BY <2>1 DEF Movement
<1>5. n \notin joined \cup {Server} => wire[n] = {}
  BY DEF IInv, Aloof, Viewers
<1>6. n \in joined \cup {Server}
  BY <1>1, <1>5
<1>7. UNCHANGED <<platform, virtual, polls, raws, moves, reached, lastMaster, master, joined,
                  faults, bereft>>
  BY <1>1 DEF inputVars, masterVars
<1>8. wire' \in [Viewers -> SUBSET DOMAIN moves]
  <2>1. \/ wire' = wire
        \/ wire' = [m \in Viewers |-> IF m \in joined THEN wire[m] \cup {i} ELSE wire[m]]
    BY <1>1 DEF viewHistory
  <2> QED BY <1>2, <1>3, <2>1
<1>9. \A c \in Clients \ joined : wire'[c] = wire[c] /\ master'[c] = master[c]
  BY <1>1, <1>2, <1>7 DEF Viewers
<1>10. Aloof'
  BY <1>7, <1>9 DEF IInv, Aloof
<1>11. Numbered'
  BY <1>7 DEF IInv, Numbered
<1>12. lastSeq' \in [Viewers -> 0 .. Len(moves)] /\ lastSeq'[n] = i
       /\ \A m \in Viewers \ {n} : lastSeq'[m] = lastSeq[m]
  BY <1>1, <1>2, <1>3
<1>13. CASE moves[i].type = "delta" /\ view[n] = Unknown
  <2>1. UNCHANGED <<view, wire, excused, latest>>
    BY <1>1, <1>13 DEF viewHistory
  <2>2. TypeOK'
    BY <1>7, <1>8, <1>12, <2>1 DEF IInv, TypeOK
  <2>3. Fresh' /\ LastWord' /\ OnlyFaultsDrift'
    BY <1>7, <1>12, <1>13, <2>1 DEF IInv, Fresh, LastWord, OnlyFaultsDrift
  <2> QED BY <1>10, <1>11, <2>2, <2>3 DEF IInv
<1>14. CASE ~ (moves[i].type = "delta" /\ view[n] = Unknown)
  <2>1. /\ view' = [view EXCEPT ![n] = Moved(n, i)]
        /\ excused' = [excused EXCEPT ![n] = Excused(n, i)]
        /\ latest' = [latest EXCEPT ![n] = moves[i].type]
    BY <1>1, <1>14
  <2>2. Moved(n, i) \in Int
    BY <1>2, <1>4, <1>14 DEF Moved
  <2>3. Excused(n, i) \in SUBSET Excuses
    BY <1>2 DEF Excused, Excuses
  <2>4. /\ view'[n] = Moved(n, i) /\ excused'[n] = Excused(n, i) /\ latest'[n] = moves[i].type
        /\ \A m \in Viewers \ {n} :
             view'[m] = view[m] /\ excused'[m] = excused[m] /\ latest'[m] = latest[m]
    BY <1>2, <2>1
  <2>5. TypeOK'
    <3>1. view' \in [Viewers -> Int \cup {Unknown}] /\ excused' \in [Viewers -> SUBSET Excuses]
          /\ latest' \in [Viewers -> Types]
      BY <1>2, <1>4, <2>1, <2>2, <2>3 DEF Types
    <3>2. \A m \in Viewers : m \notin joined \cup {Server} => view'[m] = Unknown
      BY <1>6, <2>4 DEF IInv, TypeOK
    <3> QED BY <1>7, <1>8, <1>12, <3>1, <3>2 DEF IInv, TypeOK
  <2>6. Fresh' /\ LastWord'
    BY <1>4, <1>7, <1>12, <2>4 DEF IInv, Fresh, LastWord, Viewers
  <2>7. view'[n] = reached[i] \/ excused'[n] # {}
    <3>1. CASE moves[i].type = "absolute"
      BY <1>3, <2>4, <3>1 DEF IInv, Numbered, Moved
    <3>2. CASE moves[i].type = "delta" /\ i > lastSeq[n] + 1
      BY <2>4, <3>2 DEF Excused
    <3>3. CASE moves[i].type = "delta" /\ i = lastSeq[n] + 1 /\ PushedEdge(i)
      BY <2>4, <3>3 DEF Excused
    <3>4. CASE moves[i].type = "delta" /\ i = lastSeq[n] + 1 /\ ~ PushedEdge(i)
      <4>1. i > 1
        <5>1. moves # <<>>
          BY <1>2, <1>3, EmptySeq
        <5>2. i # 1
          BY <3>4, <5>1 DEF IInv, Numbered
        <5> QED BY <1>3, <5>2
      <4>2. lastSeq[n] = i - 1 /\ lastSeq[n] > 0
        BY <1>3, <3>4, <4>1
      <4>3. view[n] # Unknown /\ latest[n] # "handshake"
        BY <1>14, <3>4, <4>2 DEF IInv, Fresh
      <4>4. view[n] = reached[i - 1] \/ excused[n] # {}
        BY <4>2, <4>3 DEF IInv, OnlyFaultsDrift
      <4>5. reached[i] = reached[i - 1] + moves[i].value
        BY <3>4, <4>1 DEF PushedEdge
      <4>6. excused'[n] = excused[n] \/ excused[n] \subseteq excused'[n]
        BY <2>4, <3>4 DEF Excused
      <4>7. view'[n] = view[n] + moves[i].value
        BY <2>4, <3>4 DEF Moved
      <4> QED BY <4>4, <4>5, <4>6, <4>7
    <3> QED BY <1>3, <1>4, <3>1, <3>2, <3>3, <3>4
  <2>8. OnlyFaultsDrift'
    BY <1>7, <1>12, <2>4, <2>7 DEF IInv, OnlyFaultsDrift
  <2> QED BY <1>10, <1>11, <2>5, <2>6, <2>8 DEF IInv
<1> QED BY <1>13, <1>14

LEMMA PerformMasterStateSyncInv ==
  ASSUME IInv, PerformMasterStateSync
  PROVE  IInv'
<1> USE ServerAssumption
<1>1. /\ view[Server] \in Int /\ master \in [Clients -> Seq(Int)]
      /\ lastMaster' = view[Server] /\ bereft' = {}
      /\ UNCHANGED <<platform, virtual, polls, raws, moves, reached, wire, lastSeq, view,
                     joined, faults, excused, latest>>
  BY DEF IInv, TypeOK, PerformMasterStateSync, Unsent, Viewers, inputVars, viewHistory
<1>2. master' = [c \in Clients |->
                  IF c \in joined THEN Append(master[c], view[Server]) ELSE master[c]]
  BY DEF PerformMasterStateSync, BroadcastPosition
<1>3. ASSUME NEW c \in Clients
      PROVE  /\ Append(master[c], view[Server]) \in Seq(Int)
             /\ Append(master[c], view[Server]) # <<>>
             /\ LET longer == Append(master[c], view[Server])
                IN longer[Len(longer)] = view[Server]
  BY <1>1, AppendProperties, EmptySeq
<1>4. TypeOK'
  <2>1. master' \in [Clients -> Seq(Int)]
    BY <1>1, <1>2, <1>3
  <2>2. lastMaster' \in Int
    BY <1>1
  <2> QED BY <1>1, <2>1, <2>2 DEF IInv, TypeOK
<1>5. Numbered' /\ Fresh' /\ OnlyFaultsDrift' /\ Aloof'
  BY <1>1, <1>2 DEF IInv, Numbered, Fresh, OnlyFaultsDrift, Aloof
<1>6. LastWord'
  <2> SUFFICES ASSUME NEW c \in Clients
               PROVE  /\ master'[c] # <<>> => master'[c][Len(master'[c])] = lastMaster'
                      /\ (master'[c] = <<>> /\ latest'[c] = "master" /\ view'[c] # Unknown)
                           => view'[c] = lastMaster' \/ c \in bereft'
    BY DEF LastWord
  <2>1. CASE c \in joined
    BY <1>1, <1>2, <1>3, <2>1
  <2>2. CASE c \notin joined
    <3>1. master'[c] = <<>> /\ view'[c] = Unknown
      BY <1>1, <1>2, <2>2 DEF IInv, TypeOK, Aloof, Viewers
    <3> QED BY <3>1
  <2> QED BY <2>1, <2>2
<1> QED BY <1>4, <1>5, <1>6 DEF IInv

(* What is left of a queue ends as the queue did; nothing is left of one   *)
(* whose head was its end.                                                 *)
LEMMA LastOfTail ==
  ASSUME NEW s \in Seq(Int), s # <<>>
  PROVE  /\ Tail(s) = <<>> => Head(s) = s[Len(s)]
         /\ Tail(s) # <<>> => Tail(s)[Len(Tail(s))] = s[Len(s)]
<1> DEFINE t == Tail(s)
<1>1. /\ t \in Seq(Int) /\ Head(s) = s[1]
      /\ Len(t) = Len(s) - 1 /\ \A i \in 1 .. Len(t) : t[i] = s[i + 1]
  BY HeadTailProperties
<1>2. Len(s) \in Nat /\ Len(t) \in Nat
  BY <1>1, LenProperties
<1>3. Len(t) = 0 <=> t = <<>>
  BY <1>1, EmptySeq
<1> HIDE DEF t
<1>4. ASSUME t = <<>> PROVE Head(s) = s[Len(s)]
  <2>1. Len(s) = 1
    BY <1>1, <1>2, <1>3, <1>4
  <2> QED BY <1>1, <2>1
<1>5. ASSUME t # <<>> PROVE t[Len(t)] = s[Len(s)]
  <2>1. Len(t) \in 1 .. Len(t) /\ Len(t) + 1 = Len(s)
    BY <1>1, <1>2, <1>3, <1>5
  <2> QED BY <1>1, <2>1
<1> QED BY <1>4, <1>5 DEF t

LEMMA ReceiveMasterInv ==
  ASSUME IInv, NEW c \in Clients, ReceiveMaster(c)
  PROVE  IInv'
<1> USE ServerAssumption
<1>1. /\ master \in [Clients -> Seq(Int)] /\ master[c] \in Seq(Int) /\ master[c] # <<>>
      /\ master' = [master EXCEPT ![c] = Tail(@)]
      /\ view' = [view EXCEPT ![c] = Head(master[c])]
      /\ excused' = [excused EXCEPT ![c] = @ \cup {"master"}]
      /\ latest' = [latest EXCEPT ![c] = "master"]
      /\ UNCHANGED <<platform, virtual, polls, raws, moves, reached, wire, lastSeq,
                     lastMaster, joined, faults, bereft>>
  BY DEF IInv, TypeOK, ReceiveMaster, Placed, inputVars
<1>2. Head(master[c]) \in Int /\ Tail(master[c]) \in Seq(Int)
  BY <1>1, HeadTailProperties
<1>3. c \in joined
  BY <1>1 DEF IInv, Aloof
<1>4. /\ view \in [Viewers -> Int \cup {Unknown}] /\ c \in Viewers
      /\ excused \in [Viewers -> SUBSET Excuses] /\ latest \in [Viewers -> Types]
  BY DEF IInv, TypeOK, Viewers
<1>5. TypeOK'
  <2>1. /\ master' \in [Clients -> Seq(Int)] /\ view' \in [Viewers -> Int \cup {Unknown}]
        /\ excused' \in [Viewers -> SUBSET Excuses] /\ latest' \in [Viewers -> Types]
    BY <1>1, <1>2, <1>4 DEF Excuses, Types
  <2>2. \A n \in Viewers : n \notin joined' \cup {Server} => view'[n] = Unknown
    BY <1>1, <1>3, <1>4 DEF IInv, TypeOK
  <2> QED BY <1>1, <2>1, <2>2 DEF IInv, TypeOK
<1>6. Numbered' /\ Aloof'
  BY <1>1, <1>3 DEF IInv, Numbered, Aloof
<1>7. Fresh' /\ OnlyFaultsDrift'
  BY <1>1, <1>4 DEF IInv, Fresh, OnlyFaultsDrift
<1>8. LastWord'
  <2>1. \A d \in Clients \ {c} :
          master'[d] = master[d] /\ view'[d] = view[d] /\ latest'[d] = latest[d]
    BY <1>1, <1>4 DEF Viewers
  <2>2. master'[c] = Tail(master[c]) /\ view'[c] = Head(master[c])
    BY <1>1, <1>4
  <2>3. master[c][Len(master[c])] = lastMaster
    BY <1>1 DEF IInv, LastWord
  <2>4. /\ Tail(master[c]) = <<>> => Head(master[c]) = lastMaster
        /\ Tail(master[c]) # <<>> => Tail(master[c])[Len(Tail(master[c]))] = lastMaster
    BY <1>1, <2>3, LastOfTail
  <2> QED BY <1>1, <2>1, <2>2, <2>4 DEF IInv, LastWord
<1> QED BY <1>5, <1>6, <1>7, <1>8 DEF IInv

LEMMA DropMasterInv ==
  ASSUME IInv, NEW c \in Clients, DropMaster(c)
  PROVE  IInv'
<1>1. /\ master \in [Clients -> Seq(Int)] /\ master[c] \in Seq(Int) /\ master[c] # <<>>
      /\ master' = [master EXCEPT ![c] = Tail(@)]
      /\ bereft' = IF Tail(master[c]) = <<>> THEN bereft \cup {c} ELSE bereft
      /\ faults' \in 0 .. MaxFaults
      /\ UNCHANGED <<platform, virtual, polls, raws, moves, reached, wire, lastSeq, view,
                     lastMaster, joined, excused, latest>>
  BY BoundsAssumption DEF IInv, TypeOK, DropMaster, inputVars, viewHistory
<1>2. Tail(master[c]) \in Seq(Int) /\ c \in joined
  BY <1>1, HeadTailProperties DEF IInv, Aloof
<1>3. TypeOK'
  BY <1>1, <1>2 DEF IInv, TypeOK
<1>4. Numbered' /\ Aloof' /\ Fresh' /\ OnlyFaultsDrift'
  BY <1>1, <1>2 DEF IInv, Numbered, Aloof, Fresh, OnlyFaultsDrift
<1>5. LastWord'
  <2>1. \A d \in Clients \ {c} : master'[d] = master[d] /\ (d \in bereft' <=> d \in bereft)
    BY <1>1
  <2>2. master'[c] = Tail(master[c]) /\ (Tail(master[c]) = <<>> => c \in bereft')
    BY <1>1
  <2>3. Tail(master[c]) # <<>> => Tail(master[c])[Len(Tail(master[c]))] = lastMaster
    BY <1>1, LastOfTail DEF IInv, LastWord
  <2> QED BY <1>1, <2>1, <2>2, <2>3 DEF IInv, LastWord
<1> QED BY <1>3, <1>4, <1>5 DEF IInv

LEMMA JoinInv ==
  ASSUME IInv, NEW c \in Clients, Join(c)
  PROVE  IInv'
BY DEF IInv, TypeOK, Numbered, Aloof, Fresh, OnlyFaultsDrift, LastWord, Join, inputVars,
       masterVars, history, viewHistory

LEMMA PruneInv ==
  ASSUME IInv, NEW n \in Viewers, Prune(n)
  PROVE  IInv'
<1>1. /\ view \in [Viewers -> Int \cup {Unknown}] /\ view' = [view EXCEPT ![n] = Unknown]
      /\ faults' \in 0 .. MaxFaults
      /\ UNCHANGED <<platform, virtual, polls, raws, moves, reached, wire, lastSeq,
                     lastMaster, master, joined, excused, latest, bereft>>
  BY BoundsAssumption DEF IInv, TypeOK, Prune, inputVars, masterVars, history, viewHistory
<1>2. TypeOK'
  BY <1>1 DEF IInv, TypeOK
<1>3. Numbered' /\ Aloof' /\ Fresh' /\ OnlyFaultsDrift'
  BY <1>1 DEF IInv, Numbered, Aloof, Fresh, OnlyFaultsDrift
<1>4. LastWord'
  BY <1>1 DEF IInv, LastWord, Viewers
<1> QED BY <1>2, <1>3, <1>4 DEF IInv

LEMMA NextInv == IInv /\ [Next]_vars => IInv'
<1> SUFFICES ASSUME IInv, [Next]_vars PROVE IInv'
  OBVIOUS
<1>1. CASE CursorMove \/ PointerMove \/ RawMove \/ EvdevMove
  BY <1>1, MoveInv
<1>2. CASE \E n \in Viewers : ReceiveMove(n)
  BY <1>2, ReceiveMoveInv
<1>3. CASE \E n \in Viewers : Prune(n)
  BY <1>3, PruneInv
<1>4. CASE PerformMasterStateSync
  BY <1>4, PerformMasterStateSyncInv
<1>5. CASE \E c \in Clients : ReceiveMaster(c)
  BY <1>5, ReceiveMasterInv
<1>6. CASE \E c \in Clients : DropMaster(c)
  BY <1>6, DropMasterInv
<1>7. CASE \E c \in Clients : Join(c)
  BY <1>7, JoinInv
<1>8. CASE UNCHANGED vars
  BY <1>8 DEF vars, inputVars, masterVars, history, viewHistory, IInv, TypeOK, Numbered, Aloof, Fresh,
              OnlyFaultsDrift, LastWord
<1> QED BY <1>1, <1>2, <1>3, <1>4, <1>5, <1>6, <1>7, <1>8 DEF Next

LEMMA InvHolds == Spec => []IInv
BY InitInv, NextInv, PTL DEF Spec

(* Every map, queue and counter keeps its type, and who has not joined     *)
(* knows nobody (NetMuxFramework.cpp:486-522, 645-649, 684-703).           *)
THEOREM TrackingTypeCorrect == Spec => []TypeOK
<1>1. IInv => TypeOK
  BY DEF IInv
<1> QED BY <1>1, InvHolds, PTL

(* Deltas do not add up to an error of their own (NetMuxFramework.cpp:     *)
(* 448-454, 486-517; InputEngine.cpp:238-252, 268-285).                    *)
THEOREM OnlyFaultsEverDrift == Spec => []OnlyFaultsDrift
<1>1. IInv => OnlyFaultsDrift
  BY DEF IInv
<1> QED BY <1>1, InvHolds, PTL

(* A client that follows the server's broadcasts is where the server is,   *)
(* when there is none to come, unless its replay cache has dropped the     *)
(* newest (NetMuxFramework.cpp:473-477, 692-698).                          *)
THEOREM MasterAlwaysAligns == Spec => []MasterAligns
<1>1. IInv => MasterAligns
  BY DEF IInv, LastWord, MasterAligns, Unsent
<1> QED BY <1>1, InvHolds, PTL

-----------------------------------------------------------------------------
(* What Normalize and Denormalize promise, for every size of screen.       *)

LEMMA FullNat == Full \in Nat \ {0}
BY DEF Full

(* What division of naturals is.                                           *)
LEMMA Division ==
  ASSUME NEW a \in Nat, NEW b \in Nat \ {0}
  PROVE  /\ a \div b \in Nat
         /\ b * (a \div b) <= a
         /\ a < b * (a \div b) + b
BY SMT

(* Multiplying keeps an order.                                             *)
LEMMA Product ==
  ASSUME NEW a \in Nat, NEW b \in Nat, NEW c \in Nat, a <= b
  PROVE  a * c \in Nat /\ b * c \in Nat /\ a * c <= b * c
<1>1. b - a \in Nat /\ (b - a) * c = b * c - a * c
  BY SMT
<1>2. ASSUME NEW d \in Nat PROVE d * c \in Nat
  BY SMT
<1>3. QED BY <1>1, <1>2, SMT

(* What was multiplied keeps the order of the products.                    *)
LEMMA Cancelled ==
  ASSUME NEW a \in Nat, NEW b \in Nat, NEW c \in Nat, a * c < b * c
  PROVE  a < b
<1>1. SUFFICES ASSUME b <= a PROVE FALSE
  BY SMT
<1>2. b * c <= a * c /\ a * c \in Nat /\ b * c \in Nat
  BY <1>1, Product
<1>3. QED BY <1>2, SMT

(* Neither product exceeds 32768 * Full = 2147450880 on screens of up to   *)
(* 32769 pixels, so that neither leaves an int of 32 bits (SyncModule.cpp: *)
(* 298, 303).                                                              *)
THEOREM ProductsFit ==
  ASSUME NEW max \in 2 .. 32769
  PROVE  /\ \A val \in 0 .. max - 1 : val * Full <= 32768 * Full
         /\ \A val \in 0 .. Full : val * (max - 1) <= Full * 32768
<1>0. max \in Nat /\ max - 1 \in Nat /\ max - 1 <= 32768 /\ 32768 \in Nat
  BY SMT
<1>1. ASSUME NEW val \in 0 .. max - 1 PROVE val * Full <= 32768 * Full
  <2>1. val \in Nat /\ val <= 32768
    BY <1>0, SMT
  <2>2. QED BY <1>0, <2>1, FullNat, Product
<1>2. ASSUME NEW val \in 0 .. Full PROVE val * (max - 1) <= Full * 32768
  <2> DEFINE k == max - 1
  <2>1. val \in Nat /\ k \in Nat /\ Full \in Nat /\ val <= Full /\ k <= 32768
    BY <1>0, FullNat, SMT
  <2> HIDE DEF k
  <2>2. val * k <= Full * k /\ val * k \in Nat
    BY <2>1, Product
  <2>3. k * Full <= 32768 * Full /\ k * Full = Full * k /\ 32768 * Full = Full * 32768
    BY <1>0, <2>1, Product, SMT
  <2>4. Full * k \in Nat /\ Full * 32768 \in Nat
    BY <2>1, SMT
  <2>5. val * k <= Full * 32768
    BY <2>2, <2>3, <2>4, SMT
  <2>6. QED BY <2>5 DEF k
<1>3. QED BY <1>1, <1>2

(* A cursor is shown at most one pixel before where it is, whatever the    *)
(* size of the screens, as long as they are equal and there are no more    *)
(* pixels than coordinates (SyncModule.cpp:296-304, InputEngine.cpp:       *)
(* 236-237).                                                               *)
THEOREM PixelKept ==
  ASSUME NEW max \in 2 .. Full + 1
  PROVE  RoundTrip(max)
<1> SUFFICES ASSUME NEW val \in 0 .. max - 1
             PROVE  Denormalize(Normalize(val, max), max) \in {val - 1, val}
  BY DEF RoundTrip
<1> DEFINE k == max - 1
           p == val * Full
           n == p \div k
           q == n * k
           r == q \div Full
<1>1. k \in Nat \ {0} /\ k <= Full /\ val \in Nat /\ ~ (max <= 1) /\ Full \in Nat \ {0}
  BY FullNat, SMT
<1>2. p \in Nat
  BY <1>1, Product
<1> HIDE DEF k, p
<1>3. n \in Nat /\ k * n <= p /\ p < k * n + k
  BY <1>1, <1>2, Division
<1> HIDE DEF n
<1>4. q \in Nat /\ q = k * n
  BY <1>1, <1>3, SMT
<1> HIDE DEF q
<1>5. r \in Nat /\ Full * r <= q /\ q < Full * r + Full
  BY <1>1, <1>4, Division
<1> HIDE DEF r
<1>6. r * Full = Full * r /\ (r + 2) * Full = Full * r + Full + Full /\ (val + 1) * Full = p + Full
      /\ Full * r \in Nat
  BY <1>1, <1>5, SMT DEF p
<1>7. r * Full < (val + 1) * Full
  BY <1>1, <1>2, <1>3, <1>4, <1>5, <1>6, SMT
<1>8. p < (r + 2) * Full
  BY <1>1, <1>2, <1>3, <1>4, <1>5, <1>6, SMT
<1>9. r < val + 1
  BY <1>1, <1>5, <1>7, Cancelled, val + 1 \in Nat
<1>10. val < r + 2
  BY <1>1, <1>5, <1>8, Cancelled, r + 2 \in Nat DEF p
<1>11. r \in {val - 1, val}
  BY <1>1, <1>5, <1>9, <1>10, SMT
<1>12. Normalize(val, max) = n
  <2>1. Quotient(p, k) = n
    BY <1>2, SMT DEF Quotient, n
  <2>2. QED BY <1>1, <2>1 DEF Normalize, p, k
<1>13. Denormalize(n, max) = r
  <2>1. Quotient(q, Full) = r
    BY <1>4, SMT DEF Quotient, r
  <2>2. QED BY <1>1, <2>1 DEF Denormalize, q, k
<1>14. QED BY <1>11, <1>12, <1>13

(* A coordinate within its range never leads off a screen.                 *)
THEOREM ShownOnScreen ==
  ASSUME NEW max \in Nat \ {0}
  PROVE  OnScreen(max)
<1> SUFFICES ASSUME NEW val \in 0 .. Full
             PROVE  Denormalize(val, max) \in 0 .. max - 1
  BY DEF OnScreen
<1>1. CASE max <= 1
  BY <1>1, SMT DEF Denormalize
<1>2. CASE max > 1
  <2> DEFINE k == max - 1
             q == val * k
             r == q \div Full
  <2>1. val \in Nat /\ val <= Full /\ k \in Nat /\ ~ (max <= 1) /\ Full \in Nat \ {0}
    BY <1>2, FullNat, SMT
  <2>2. q \in Nat /\ q <= Full * k /\ Full * k \in Nat
    BY <2>1, Product
  <2> HIDE DEF q
  <2>3. r \in Nat /\ Full * r <= q
    BY <2>1, <2>2, Division
  <2> HIDE DEF r
  <2>4. r * Full = Full * r /\ (k + 1) * Full = Full * k + Full /\ Full * r \in Nat
    BY <2>1, <2>3, SMT
  <2>5. r * Full < (k + 1) * Full
    BY <2>1, <2>2, <2>3, <2>4, SMT
  <2>6. r < k + 1
    BY <2>1, <2>3, <2>5, Cancelled, k + 1 \in Nat
  <2>7. Denormalize(val, max) = r
    <3>1. Quotient(q, Full) = r
      BY <2>2, SMT DEF Quotient, r
    <3>2. QED BY <2>1, <3>1 DEF Denormalize, q
  <2>8. QED BY <2>1, <2>3, <2>6, <2>7, SMT
<1>3. QED BY <1>1, <1>2, SMT
=============================================================================
