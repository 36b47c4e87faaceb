-------------------------- MODULE ClipboardSync_proofs --------------------------
(***************************************************************************)
(* For any clients, texts, clocks and numbers of copies and faults: no     *)
(* clipboard holds a torn text, texts are sent for copies and alterations  *)
(* only, and, with clocks that agree, the clients end with one text and    *)
(* the server differs by texts of its own only.                            *)
(***************************************************************************)
EXTENDS ClipboardSync, TLAPS, FiniteSetTheorems, SequenceTheorems,
        WellFoundedInduction

(* What of a text comes before a chunk of it.                              *)
Before(p) == SubSeq(p.text, 1, p.index - 1)

(* p is the chunk after q.                                                 *)
Follows(q, p) ==
  q.sender = p.sender /\ q.time = p.time /\ q.text = p.text /\ p.index = q.index + 1

(* n has what comes before p, or does not take p.                          *)
Ready(n, p) == IsNewer(n, p) => buffer[n][p.sender] = Before(p)

(* The last that n gets from p's sender before the i-th packet to come is  *)
(* the chunk before p, if p is not the first of a text: it is on its way,  *)
(* or in the buffer.                                                       *)
Expected(n, p, i) ==
  \/ p.index = 1
  \/ \E j \in 1 .. i - 1 :
       /\ Follows(down[n][j], p)
       /\ \A k \in j + 1 .. i - 1 : down[n][k].sender # p.sender
  \/ /\ \A k \in 1 .. i - 1 : down[n][k].sender # p.sender
     /\ Ready(n, p)

UpFlow ==
  \A c \in Clients :
    /\ \A i \in 1 .. Len(up[c]) :
         /\ up[c][i].sender = c
         /\ i > 1 => up[c][i].index = 1 \/ Follows(up[c][i - 1], up[c][i])
    /\ (Server \notin spoiled /\ up[c] # <<>>) =>
         up[c][1].index = 1 \/ Ready(Server, up[c][1])

DownFlow ==
  \A n \in Clients \ spoiled :
    /\ \A i \in 1 .. Len(down[n]) : Expected(n, down[n][i], i)
    /\ \A c \in Clients :
         (up[c] # <<>> /\ IsNewer(Server, up[c][1])) =>
           Expected(n, up[c][1], Len(down[n]) + 1)

(* While any node is unspoiled, every text on its way and every one to be  *)
(* polled is whole.                                                        *)
Whole(stream) == \A i \in 1 .. Len(stream) : stream[i].text \in Texts

Untorn ==
  spoiled # Nodes =>
    /\ \A n \in Nodes : clip[n] # seen[n] => clip[n] \in Texts
    /\ \A c \in Clients : Whole(up[c]) /\ Whole(down[c])

Unpolled == {n \in Nodes : clip[n] # seen[n]}

Counted ==
  /\ Cardinality(Unpolled) \in Nat
  /\ now + Cardinality(Unpolled) <=
       1 + Max({start[n] : n \in Nodes}) + copies + altered

(* The time of the text sent last, for clocks that agree.                  *)
Latest == now - 1 - start[Server]

(* text[t] is the text that was sent at time t.                            *)
Known(text, p) == p.time <= Latest /\ text[p.time] = p.text

(* newest is the greatest time of a text that the server has broadcast to  *)
(* its end.  An unspoiled client has taken the text of that time or is to  *)
(* get it, and what it shows is the text it took last, unless it is to get *)
(* a newer one or has itself sent one that the server has yet to take.     *)
HeadsFor(text, newest, c) ==
  /\ stamp[c] <= newest
  /\ \A i \in 1 .. Len(down[c]) : IsLast(down[c][i]) => down[c][i].time <= newest
  /\ \/ stamp[c] = newest
     \/ \E i \in 1 .. Len(down[c]) : IsLast(down[c][i]) /\ down[c][i].time = newest
  /\ \/ seen[c] = text[stamp[c]]
     \/ stamp[c] < newest
     \/ \E i \in 1 .. Len(up[c]) : IsLast(up[c][i]) /\ up[c][i].time > stamp[c]

Agreement(text, newest) ==
  /\ newest <= Latest
  /\ \A n \in Nodes : stamp[n] <= Latest
  /\ \A c \in Clients :
       /\ \A i \in 1 .. Len(up[c]) : Known(text, up[c][i])
       /\ \A i \in 1 .. Len(down[c]) : Known(text, down[c][i])
  /\ stamp[Server] <= newest
  /\ \/ text[newest] \in served
     \/ stamp[Server] = newest /\ seen[Server] = text[newest]
  /\ \A c \in Clients \ spoiled : HeadsFor(text, newest, c)

(* A text copied while all was quiet, that all machines keep, and not sent *)
(* yet.                                                                    *)
AboutToSend(x) ==
  /\ \A c \in Clients : up[c] = <<>> /\ down[c] = <<>>
  /\ \E m \in Nodes :
       clip[m] = x /\ clip[m] # seen[m] /\ \A n \in Nodes \ {m} : clip[n] = seen[n]

(* It is the newest text, and on its way to the server or from it.         *)
Spreading(text, newest, x) ==
  /\ \A n \in Nodes : clip[n] = seen[n]
  /\ text[Latest] = x
  /\ \A c \in Clients :
       /\ \A i \in 1 .. Len(up[c]) : up[c][i].time = Latest
       /\ \A i \in 1 .. Len(down[c]) : down[c][i].time = Latest
  /\ \/ newest = Latest /\ seen[Server] = x
     \/ /\ stamp[Server] < Latest
        /\ \E c \in Clients : \E i \in 1 .. Len(up[c]) : IsLast(up[c][i])

CalmKept == \E x \in calm : KeptByAll(x)

CalmInv(text, newest) ==
  CalmKept =>
    \E x \in Texts :
      calm = {x} /\ (AboutToSend(x) \/ Spreading(text, newest, x))

Concord ==
  (ClocksAgree /\ Server \notin spoiled) =>
    \E text \in [Int -> Seq(Payloads)], newest \in Int :
      Agreement(text, newest) /\ CalmInv(text, newest)

IInv ==
  /\ TypeOK /\ UpFlow /\ DownFlow /\ Untorn /\ WholeTexts /\ Counted /\ Concord
-----------------------------------------------------------------------------
(* Texts and their chunks.                                                 *)

LEMMA TextTypes ==
  ASSUME NEW t \in Seq(Payloads)
  PROVE  Total(t) \in Nat \ {0} /\ (t # <<>> => Total(t) = Len(t))
BY EmptySeq, SMT DEF Total

LEMMA ReadBackTypes ==
  ASSUME TypeOK, NEW n \in Nodes, NEW t \in Seq(Payloads)
  PROVE  /\ ReadBack(n, t) \in Seq(Payloads)
         /\ t \in Texts => ReadBack(n, t) \in Texts
<1>1. machine[n] \in {"windows", "xclip", "bare"}
  BY MachinesAssumption DEF TypeOK
<1>2. <<>> \in Seq(Payloads) /\ <<>> \in Texts
  BY TextsAssumption, EmptySeq
<1>3. Narrowed(t) \in Seq(Payloads)
  <2>1. Len(t) \in Nat /\ DOMAIN t = 1 .. Len(t) /\ t \in [1 .. Len(t) -> Payloads]
    BY LenProperties
  <2>2. Narrowed(t) \in [1 .. Len(t) -> Payloads]
    BY <2>1, KeptAssumption DEF Narrowed
  <2>3. QED BY <2>1, <2>2, IsASeq
<1>4. t \in Texts => Narrowed(t) \in Texts
  BY KeptAssumption
<1>5. QED BY <1>1, <1>2, <1>3, <1>4 DEF ReadBack

LEMMA PacketTypes ==
  ASSUME NEW p \in Packets
  PROVE  /\ p.sender \in Nodes /\ p.time \in Int
         /\ p.text \in Seq(Payloads) /\ p.index \in 1 .. Total(p.text)
         /\ Payload(p) \in Seq(Payloads)
<1>1. /\ p.sender \in Nodes /\ p.time \in Int /\ p.text \in Seq(Payloads)
      /\ p.index \in Nat \ {0} /\ p.index <= Total(p.text)
  BY DEF Packets
<1>2. Total(p.text) \in Nat \ {0}
  BY <1>1, TextTypes
<1>3. p.index \in 1 .. Total(p.text)
  BY <1>1, <1>2, SMT
<1>4. Payload(p) \in Seq(Payloads)
  <2>1. CASE p.text = <<>>
    BY <2>1 DEF Payload
  <2>2. CASE p.text # <<>>
    <3>1. p.index \in 1 .. Len(p.text)
      BY <2>2, <1>3 DEF Total
    <3>2. p.text[p.index] \in Payloads
      BY <1>1, <3>1, SMT
    <3>3. QED BY <2>2, <3>2 DEF Payload
  <2>3. QED BY <2>1, <2>2
<1>5. QED BY <1>1, <1>2, <1>3, <1>4

(* A chunk put behind what comes before it.                                *)
LEMMA Joined ==
  ASSUME NEW p \in Packets
  PROVE  /\ Before(p) \in Seq(Payloads)
         /\ p.text \in Texts => Before(p) \in Beginnings
         /\ p.index = 1 => Before(p) = <<>>
         /\ Before(p) \o Payload(p) = SubSeq(p.text, 1, p.index)
         /\ IsLast(p) => Before(p) \o Payload(p) = p.text
<1>1. /\ p.text \in Seq(Payloads)
      /\ p.index \in 1 .. Total(p.text)
  BY PacketTypes
<1>2. Total(p.text) \in Nat \ {0} /\ (p.text # <<>> => Total(p.text) = Len(p.text))
  BY <1>1, TextTypes
<1>3. p.index \in Nat \ {0} /\ Len(p.text) \in Nat
  BY <1>1, <1>2, SMT
<1>4. p.text \in Texts => Before(p) \in Beginnings
  BY <1>1 DEF Beginnings, Before
<1>5. CASE p.text = <<>>
  <2>1. Total(p.text) = 1
    BY <1>5 DEF Total
  <2>2. p.index = 1
    BY <1>1, <2>1, SMT
  <2>3. Before(p) = <<>> /\ SubSeq(p.text, 1, p.index) = <<>>
    BY <1>5, <2>2, SMT DEF Before
  <2>4. Payload(p) = <<>>
    BY <1>5 DEF Payload
  <2>5. <<>> \in Seq(Payloads) /\ <<>> \o <<>> = <<>>
    BY EmptySeq, ConcatEmptySeq
  <2>6. QED BY <1>4, <1>5, <2>3, <2>4, <2>5
<1>6. CASE p.text # <<>>
  <2>1. p.index <= Len(p.text) /\ Total(p.text) = Len(p.text)
    BY <1>1, <1>2, <1>6, SMT
  <2> DEFINE t == p.text
             i == p.index
  <2>2. /\ Before(p) \in Seq(Payloads) /\ Len(Before(p)) = i - 1
        /\ \A k \in 1 .. i - 1 : Before(p)[k] = t[k]
    BY <1>1, <1>3, <2>1, SMT DEF Before
  <2>3. /\ SubSeq(t, 1, i) \in Seq(Payloads) /\ Len(SubSeq(t, 1, i)) = i
        /\ \A k \in 1 .. i : SubSeq(t, 1, i)[k] = t[k]
    BY <1>1, <1>3, <2>1, SMT
  <2>4. Payload(p) = <<t[i]>> /\ Payload(p) \in Seq(Payloads)
    BY <1>6, PacketTypes DEF Payload
  <2>5. /\ Before(p) \o Payload(p) \in Seq(Payloads)
        /\ Len(Before(p) \o Payload(p)) = i
        /\ \A k \in 1 .. i : (Before(p) \o Payload(p))[k] = t[k]
    <3> HIDE DEF t, i
    <3>1. i \in Nat \ {0}
      BY <1>3 DEF i
    <3>2. QED BY <2>2, <2>4, <3>1, SMT
  <2>6. Before(p) \o Payload(p) = SubSeq(t, 1, i)
    <3> HIDE DEF t, i
    <3>1. QED BY <2>3, <2>5, SeqEqual
  <2>7. p.index = 1 => Before(p) = <<>>
    BY <2>2, EmptySeq, SMT
  <2>8. IsLast(p) => SubSeq(t, 1, i) = t
    <3>1. SUFFICES ASSUME i = Len(t) PROVE SubSeq(t, 1, i) = t
      BY <2>1 DEF IsLast
    <3>2. t \in Seq(Payloads)
      BY <1>1
    <3> HIDE DEF t, i
    <3>3. QED BY <2>3, <3>1, <3>2, SeqEqual
  <2>9. QED BY <1>4, <2>2, <2>6, <2>7, <2>8
<1>7. QED BY <1>5, <1>6
LEMMA ChunksTypes ==
  ASSUME TypeOK, NEW n \in Nodes, NEW t \in Seq(Payloads)
  PROVE  /\ Chunks(n, t) \in Seq(Packets)
         /\ Len(Chunks(n, t)) = Total(t)
         /\ \A i \in 1 .. Total(t) :
              /\ Chunks(n, t)[i].sender = n /\ Chunks(n, t)[i].text = t
              /\ Chunks(n, t)[i].time = now - start[n] /\ Chunks(n, t)[i].index = i
<1>1. Total(t) \in Nat \ {0}
  BY TextTypes
<1>2. now - start[n] \in Int
  BY StartsAssumption, SMT DEF TypeOK
<1>3. \A i \in 1 .. Total(t) :
        [sender |-> n, time |-> now - start[n], text |-> t, index |-> i] \in Packets
  <2>1. TAKE i \in 1 .. Total(t)
  <2>2. i \in Nat \ {0} /\ i <= Total(t)
    BY <1>1, SMT
  <2>3. QED BY <1>2, <2>2 DEF Packets
<1>4. Chunks(n, t) \in [1 .. Total(t) -> Packets]
  BY <1>3 DEF Chunks
<1>5. Chunks(n, t) \in Seq(Packets)
  BY <1>1, <1>4, IsASeq
<1>6. DOMAIN Chunks(n, t) = 1 .. Total(t)
  BY DEF Chunks
<1>7. Len(Chunks(n, t)) = Total(t)
  BY <1>1, <1>5, <1>6, SMT
<1>8. QED BY <1>5, <1>7 DEF Chunks

LEMMA TimesTypes ==
  ASSUME TypeOK, NEW n \in Nodes, NEW p \in Packets
  PROVE  /\ start \in [Nodes -> Int]
         /\ AdjustedTimestamp(n, p) \in Int
<1>1. start \in [Nodes -> Int]
  BY StartsAssumption DEF TypeOK
<1>2. p.sender \in Nodes /\ p.time \in Int
  BY PacketTypes
<1>3. QED BY <1>1, <1>2, SMT DEF AdjustedTimestamp

(* What a chunk that is taken changes.                                     *)
LEMMA TakeOutcome ==
  ASSUME TypeOK, NEW n \in Nodes, NEW p \in Packets, IsNewer(n, p), Take(n, p)
  PROVE  /\ buffer' \in [Nodes -> [Nodes -> Seq(Payloads)]]
         /\ clip' \in [Nodes -> Seq(Payloads)]
         /\ seen' \in [Nodes -> Seq(Payloads)]
         /\ stamp' \in [Nodes -> Int]
         /\ faults' \in 0 .. MaxFaults /\ altered' \in Nat
         /\ spoiled \subseteq spoiled' /\ spoiled' \subseteq Nodes
         /\ Appended(n, p) \in Seq(Payloads)
         /\ buffer'[n][p.sender] = KeepBuffer(p, Appended(n, p))
         /\ \A m, q \in Nodes :
              (m # n \/ q # p.sender) => buffer'[m][q] = buffer[m][q]
         /\ \A m \in Nodes \ {n} :
              clip'[m] = clip[m] /\ seen'[m] = seen[m] /\ stamp'[m] = stamp[m]
         /\ stamp'[n] = IF IsLast(p) THEN AdjustedTimestamp(n, p) ELSE stamp[n]
         /\ stamp'[n] >= stamp[n]
         /\ IF IsLast(p) /\ ~ (clip'[n] = clip[n] /\ seen'[n] = seen[n])
            THEN clip'[n] = ReadBack(n, Appended(n, p)) /\ seen'[n] = Appended(n, p)
            ELSE clip'[n] = clip[n] /\ seen'[n] = seen[n]
         /\ \/ clip'[n] = clip[n] /\ seen'[n] = seen[n]
            \/ clip'[n] = seen'[n]
            \/ n \notin spoiled'
            \/ spoiled' = Nodes
         /\ (IsLast(p) /\ n \notin spoiled') => seen'[n] = Appended(n, p)
<1> DEFINE a == Appended(n, p)
           b == buffer[n][p.sender]
<1>1. p.sender \in Nodes /\ Payload(p) \in Seq(Payloads)
  BY PacketTypes
<1>2. /\ clip \in [Nodes -> Seq(Payloads)] /\ seen \in [Nodes -> Seq(Payloads)]
      /\ stamp \in [Nodes -> Int] /\ buffer \in [Nodes -> [Nodes -> Seq(Payloads)]]
      /\ faults \in 0 .. MaxFaults /\ altered \in Nat /\ spoiled \subseteq Nodes
  BY DEF TypeOK
<1>3. a \in Seq(Payloads)
  <2>1. b \in Seq(Payloads)
    BY <1>1, <1>2
  <2>2. <<>> \in Seq(Payloads)
    BY EmptySeq
  <2>3. CASE p.index = 1
    BY <1>1, <2>2, <2>3, ConcatProperties DEF Appended
  <2>4. CASE p.index # 1
    BY <1>1, <2>1, <2>4, ConcatProperties DEF Appended
  <2>5. QED BY <2>3, <2>4
<1>4. KeepBuffer(p, a) \in Seq(Payloads)
  BY <1>3, EmptySeq DEF KeepBuffer
<1>5. buffer' = [buffer EXCEPT ![n][p.sender] = KeepBuffer(p, a)]
  BY DEF Take
<1>6. /\ buffer' \in [Nodes -> [Nodes -> Seq(Payloads)]]
      /\ buffer'[n][p.sender] = KeepBuffer(p, a)
      /\ \A m, q \in Nodes : (m # n \/ q # p.sender) => buffer'[m][q] = buffer[m][q]
  <2> HIDE DEF a
  <2>1. QED BY <1>1, <1>2, <1>4, <1>5
<1>7. AdjustedTimestamp(n, p) \in Int /\ AdjustedTimestamp(n, p) > stamp[n] /\ stamp[n] \in Int
  BY <1>2, TimesTypes DEF IsNewer
<1>8. CASE IsLast(p)
  <2>1. SetText(n, a) /\ stamp' = [stamp EXCEPT ![n] = AdjustedTimestamp(n, p)]
    BY <1>8 DEF Take
  <2>2. /\ stamp' \in [Nodes -> Int] /\ stamp'[n] = AdjustedTimestamp(n, p)
        /\ \A m \in Nodes \ {n} : stamp'[m] = stamp[m]
    BY <1>2, <1>7, <2>1
  <2>3. stamp'[n] >= stamp[n]
    BY <1>7, <2>2, SMT
  <2> HIDE DEF a
  <2>4. /\ clip' \in [Nodes -> Seq(Payloads)] /\ seen' \in [Nodes -> Seq(Payloads)]
        /\ \A m \in Nodes \ {n} : clip'[m] = clip[m] /\ seen'[m] = seen[m]
        /\ ~ (clip'[n] = clip[n] /\ seen'[n] = seen[n]) =>
             clip'[n] = ReadBack(n, a) /\ seen'[n] = a
        /\ n \notin spoiled' => seen'[n] = a
    <3>1. ReadBack(n, a) \in Seq(Payloads)
      BY <1>3, ReadBackTypes DEF a
    <3>2. QED BY <1>2, <1>3, <2>1, <3>1 DEF SetText
  <2>5. /\ spoiled \subseteq spoiled' /\ spoiled' \subseteq Nodes
        /\ \/ clip'[n] = clip[n] /\ seen'[n] = seen[n]
           \/ clip'[n] = seen'[n]
           \/ n \notin spoiled'
           \/ spoiled' = Nodes
    BY <1>2, <2>1 DEF SetText
  <2>6. faults' \in 0 .. MaxFaults /\ altered' \in Nat
    BY <1>2, <2>1, BoundsAssumption, SMT DEF SetText
  <2>7. QED BY <1>3, <1>6, <1>8, <2>2, <2>3, <2>4, <2>5, <2>6 DEF a
<1>9. CASE ~ IsLast(p)
  <2>1. UNCHANGED <<clip, seen, stamp, altered, faults, spoiled>>
    BY <1>9 DEF Take
  <2>2. stamp'[n] >= stamp[n]
    BY <1>7, <2>1, SMT
  <2>3. QED BY <1>2, <1>3, <1>6, <1>9, <2>1, <2>2
<1>10. QED BY <1>8, <1>9
(* What is in the buffer when a chunk has been taken whose beginning was   *)
(* there.                                                                  *)
LEMMA TakenText ==
  ASSUME TypeOK, NEW n \in Nodes, NEW p \in Packets, IsNewer(n, p),
         p.index = 1 \/ Ready(n, p)
  PROVE  /\ Appended(n, p) = SubSeq(p.text, 1, p.index)
         /\ IsLast(p) => Appended(n, p) = p.text
         /\ p.text \in Texts => KeepBuffer(p, Appended(n, p)) \in Beginnings
         /\ \A q \in Packets :
              Follows(p, q) => KeepBuffer(p, Appended(n, p)) = Before(q)
<1>1. Appended(n, p) = Before(p) \o Payload(p)
  <2>1. CASE p.index = 1
    BY <2>1, Joined DEF Appended
  <2>2. CASE p.index # 1
    BY <2>2 DEF Appended, Ready
  <2>3. QED BY <2>1, <2>2
<1>2. /\ p.text \in Seq(Payloads) /\ p.index \in 1 .. Total(p.text)
      /\ Total(p.text) \in Nat \ {0}
  BY PacketTypes, TextTypes
<1>3. p.index \in Nat \ {0} /\ (p.index + 1) - 1 = p.index
  BY <1>2, SMT
<1>4. CASE IsLast(p)
  <2>1. KeepBuffer(p, Appended(n, p)) = <<>>
    BY <1>4 DEF KeepBuffer
  <2>2. ASSUME NEW q \in Packets, Follows(p, q) PROVE FALSE
    <3>1. q.index \in 1 .. Total(q.text)
      BY PacketTypes
    <3>2. q.text = p.text /\ q.index = p.index + 1 /\ p.index = Total(p.text)
      BY <1>4, <2>2 DEF Follows, IsLast
    <3>3. QED BY <1>2, <1>3, <3>1, <3>2, SMT
  <2>3. QED BY <1>1, <2>1, <2>2, Joined DEF Beginnings
<1>5. CASE ~ IsLast(p)
  <2>1. KeepBuffer(p, Appended(n, p)) = SubSeq(p.text, 1, p.index)
    BY <1>1, <1>5, Joined DEF KeepBuffer
  <2>2. p.index + 1 \in 1 .. Total(p.text)
    BY <1>2, <1>5, SMT DEF IsLast
  <2>3. \A t \in Texts : \A i \in 1 .. Total(t) : SubSeq(t, 1, i - 1) \in Beginnings
    BY DEF Beginnings
  <2>4. \A q \in Packets : Follows(p, q) => Before(q) = SubSeq(p.text, 1, p.index)
    BY <1>3 DEF Follows, Before
  <2>5. p.text \in Texts => SubSeq(p.text, 1, p.index) \in Beginnings
    BY <1>2, <1>3, <2>2, <2>3
  <2>6. QED BY <1>1, <1>5, <2>1, <2>4, <2>5, Joined
<1>6. QED BY <1>4, <1>5

(* The chunks of one text are newer or not together, and what is no longer *)
(* newer never is again.                                                   *)
LEMMA NewerKept ==
  ASSUME TypeOK, NEW n \in Nodes, NEW p \in Packets, UNCHANGED <<start, measured>>,
         stamp'[n] \in Int, stamp'[n] >= stamp[n], IsNewer(n, p)'
  PROVE  IsNewer(n, p)
<1>1. AdjustedTimestamp(n, p)' = AdjustedTimestamp(n, p)
  BY DEF AdjustedTimestamp
<1>2. AdjustedTimestamp(n, p) \in Int /\ stamp[n] \in Int
  BY TimesTypes DEF TypeOK
<1>3. QED BY <1>1, <1>2, SMT DEF IsNewer

LEMMA NewerAlike ==
  ASSUME NEW n, NEW p, NEW q, Follows(q, p)
  PROVE  IsNewer(n, p) <=> IsNewer(n, q)
BY DEF Follows, IsNewer, AdjustedTimestamp

(* What was to come still is, behind packets of others too.                *)
LEMMA ExpectedExtends ==
  ASSUME NEW n, NEW p, NEW i \in Nat, NEW k \in Nat, i <= k, Expected(n, p, i),
         \A j \in 1 .. i - 1 : down'[n][j] = down[n][j],
         \A j \in i .. k - 1 : down'[n][j].sender # p.sender,
         Ready(n, p) => Ready(n, p)'
  PROVE  Expected(n, p, k)'
<1>1. CASE p.index = 1
  BY <1>1 DEF Expected
<1>2. CASE \E j \in 1 .. i - 1 :
             /\ Follows(down[n][j], p)
             /\ \A m \in j + 1 .. i - 1 : down[n][m].sender # p.sender
  <2>1. PICK j \in 1 .. i - 1 :
             /\ Follows(down[n][j], p)
             /\ \A m \in j + 1 .. i - 1 : down[n][m].sender # p.sender
    BY <1>2
  <2>2. j \in 1 .. k - 1 /\ Follows(down'[n][j], p)
    <3>1. j \in 1 .. k - 1
      BY SMT
    <3>2. QED BY <2>1, <3>1
  <2>3. \A m \in j + 1 .. k - 1 : down'[n][m].sender # p.sender
    <3>1. TAKE m \in j + 1 .. k - 1
    <3>2. CASE m \in j + 1 .. i - 1
      <4>1. m \in 1 .. i - 1
        BY <3>2, SMT
      <4>2. QED BY <2>1, <3>2, <4>1
    <3>3. CASE m \notin j + 1 .. i - 1
      <4>1. m \in i .. k - 1
        BY <3>3, SMT
      <4>2. QED BY <4>1
    <3>4. QED BY <3>2, <3>3
  <2>4. Follows(down'[n][j], p) => Follows(down[n][j], p)'
    BY DEF Follows
  <2>5. QED BY <2>2, <2>3, <2>4 DEF Expected
<1>3. CASE /\ \A m \in 1 .. i - 1 : down[n][m].sender # p.sender
           /\ Ready(n, p)
  <2>1. \A m \in 1 .. k - 1 : down'[n][m].sender # p.sender
    <3>1. TAKE m \in 1 .. k - 1
    <3>2. m \in 1 .. i - 1 \/ m \in i .. k - 1
      BY SMT
    <3>3. QED BY <1>3, <3>2
  <2>2. Ready(n, p)'
    BY <1>3
  <2>3. QED BY <2>1, <2>2 DEF Expected
<1>4. QED BY <1>1, <1>2, <1>3 DEF Expected
(* What comes first and what comes later of a stream.                      *)
LEMMA HeadTail ==
  ASSUME NEW s \in Seq(Packets), s # <<>>
  PROVE  /\ Head(s) \in Packets /\ Head(s) = s[1]
         /\ Tail(s) \in Seq(Packets) /\ Len(s) \in Nat \ {0}
         /\ Len(Tail(s)) = Len(s) - 1
         /\ \A i \in 1 .. Len(s) - 1 : Tail(s)[i] = s[i + 1]
<1>1. Len(s) \in Nat \ {0}
  BY EmptySeq, SMT
<1>2. QED BY <1>1, HeadTailProperties, SMT

(* Where a packet of a longer stream comes from.                           *)
LEMMA InConcat ==
  ASSUME NEW s \in Seq(Packets), NEW u \in Seq(Packets)
  PROVE  /\ s \o u \in Seq(Packets) /\ Len(s \o u) = Len(s) + Len(u)
         /\ \A i \in 1 .. Len(s) : (s \o u)[i] = s[i]
         /\ \A i \in 1 .. Len(u) : (s \o u)[Len(s) + i] = u[i]
         /\ \A i \in 1 .. Len(s \o u) :
              i \in 1 .. Len(s) \/ \E j \in 1 .. Len(u) : i = Len(s) + j
<1>1. /\ s \o u \in Seq(Packets) /\ Len(s \o u) = Len(s) + Len(u)
      /\ \A i \in 1 .. Len(s) + Len(u) :
           (s \o u)[i] = IF i <= Len(s) THEN s[i] ELSE u[i - Len(s)]
  BY ConcatProperties
<1>2. Len(s) \in Nat /\ Len(u) \in Nat
  BY LenProperties
<1>3. \A i \in 1 .. Len(s) : (s \o u)[i] = s[i]
  BY <1>1, <1>2, SMT
<1>4. ASSUME NEW i \in 1 .. Len(u) PROVE (s \o u)[Len(s) + i] = u[i]
  <2>1. /\ Len(s) + i \in 1 .. Len(s) + Len(u) /\ ~ (Len(s) + i <= Len(s))
        /\ (Len(s) + i) - Len(s) = i
    BY <1>2, SMT
  <2>2. QED BY <1>1, <2>1
<1>5. ASSUME NEW i \in 1 .. Len(s \o u), i \notin 1 .. Len(s)
      PROVE  \E j \in 1 .. Len(u) : i = Len(s) + j
  <2>1. i - Len(s) \in 1 .. Len(u) /\ i = Len(s) + (i - Len(s))
    BY <1>1, <1>2, <1>5, SMT
  <2>2. QED BY <2>1
<1>6. QED BY <1>1, <1>3, <1>4, <1>5

LEMMA WholeTail ==
  ASSUME NEW s \in Seq(Packets), s # <<>>, Whole(s)
  PROVE  Whole(Tail(s)) /\ Head(s).text \in Texts
<1>1. /\ Head(s) = s[1] /\ Len(s) \in Nat \ {0} /\ Len(Tail(s)) = Len(s) - 1
      /\ \A i \in 1 .. Len(s) - 1 : Tail(s)[i] = s[i + 1]
  BY HeadTail
<1>2. 1 \in 1 .. Len(s) /\ \A i \in 1 .. Len(s) - 1 : i + 1 \in 1 .. Len(s)
  BY <1>1, SMT
<1>3. QED BY <1>1, <1>2 DEF Whole

LEMMA WholeConcat ==
  ASSUME NEW s \in Seq(Packets), NEW u \in Seq(Packets), Whole(s), Whole(u)
  PROVE  Whole(s \o u)
BY InConcat DEF Whole

-----------------------------------------------------------------------------
(* Types, flows and whole texts, one lemma for each action.                *)

Basis == TypeOK /\ UpFlow /\ DownFlow /\ Untorn /\ WholeTexts

LEMMA CopyBasis ==
  ASSUME Basis, NEW n \in Nodes, Copy(n)
  PROVE  Basis'
<1>1. PICK text \in Texts \ {clip[n]} :
        /\ copies < MaxCopies
        /\ copies' = copies + 1
        /\ calm' = IF AtRest THEN {text} ELSE {}
        /\ clip' = [clip EXCEPT ![n] = text]
  BY DEF Copy
<1>2. UNCHANGED <<machine, start, measured, now, seen, stamp, buffer, up, down,
                  altered, faults, served, spoiled>>
  BY DEF Copy, setup, streams
<1>3. text \in Seq(Payloads)
  BY TextsAssumption
<1>4. TypeOK /\ UpFlow /\ DownFlow /\ Untorn /\ WholeTexts
  BY DEF Basis
<1>5. copies' \in 0 .. MaxCopies
  BY <1>1, <1>4, BoundsAssumption, SMT DEF TypeOK
<1>6. TypeOK'
  BY <1>1, <1>2, <1>3, <1>4, <1>5 DEF TypeOK
<1>7. UpFlow' /\ DownFlow'
  BY <1>2, <1>4
     DEF UpFlow, DownFlow, Expected, Ready, IsNewer, AdjustedTimestamp, Follows, Before
<1>8. Untorn' /\ WholeTexts'
  BY <1>1, <1>2, <1>4 DEF Untorn, Whole, WholeTexts, TypeOK
<1>9. QED BY <1>6, <1>7, <1>8 DEF Basis

LEMMA DropBasis ==
  ASSUME Basis, NEW c \in Clients, DropChunk(c)
  PROVE  Basis'
<1>1. /\ down[c] # <<>> /\ down' = [down EXCEPT ![c] = Tail(@)]
      /\ faults < MaxFaults /\ faults' = faults + 1 /\ spoiled' = spoiled \cup {c}
      /\ UNCHANGED <<machine, start, measured, now, clip, seen, stamp, buffer, up,
                  copies, altered, served, calm>>
  BY DEF DropChunk, Strikes, setup
<1>2. TypeOK /\ UpFlow /\ DownFlow /\ Untorn /\ WholeTexts
  BY DEF Basis
<1>3. c \in Nodes
  BY DEF Nodes
<1>4. Tail(down[c]) \in Seq(Packets)
  BY <1>1, <1>2, HeadTailProperties DEF TypeOK
<1>5. faults' \in 0 .. MaxFaults
  BY <1>1, <1>2, BoundsAssumption, SMT DEF TypeOK
<1>6. TypeOK'
  BY <1>1, <1>2, <1>3, <1>4, <1>5 DEF TypeOK
<1>7. UpFlow'
  BY <1>1, <1>2 DEF UpFlow, Ready, IsNewer, AdjustedTimestamp, Follows, Before
<1>8. \A n \in Clients \ spoiled' : n \in Clients \ spoiled /\ down'[n] = down[n]
  BY <1>1, <1>2 DEF TypeOK
<1>9. DownFlow'
  <2>1. ASSUME NEW n \in Clients, n \notin spoiled'
        PROVE  /\ \A i \in 1 .. Len(down'[n]) : Expected(n, down[n][i], i)'
               /\ \A d \in Clients :
                    (up'[d] # <<>> /\ IsNewer(Server, up[d][1])') =>
                      Expected(n, up[d][1], Len(down[n]) + 1)'
    <3>1. n \in Clients \ spoiled /\ down'[n] = down[n]
      BY <1>8, <2>1
    <3>2. UNCHANGED <<start, measured, stamp, buffer, up>>
      BY <1>1
    <3>3. \A i \in 1 .. Len(down[n]) : Expected(n, down[n][i], i)
      BY <1>2, <3>1 DEF DownFlow
    <3>4. \A i \in 1 .. Len(down'[n]) : Expected(n, down[n][i], i)'
      BY <3>1, <3>2, <3>3
         DEF Expected, Ready, IsNewer, AdjustedTimestamp, Follows, Before
    <3>5. \A d \in Clients :
            (up[d] # <<>> /\ IsNewer(Server, up[d][1])) =>
              Expected(n, up[d][1], Len(down[n]) + 1)
      BY <1>2, <3>1 DEF DownFlow
    <3>6. \A d \in Clients :
            (up'[d] # <<>> /\ IsNewer(Server, up[d][1])') =>
              Expected(n, up[d][1], Len(down[n]) + 1)'
      BY <3>1, <3>2, <3>5
         DEF Expected, Ready, IsNewer, AdjustedTimestamp, Follows, Before
    <3>7. QED BY <3>4, <3>6
  <2>2. QED BY <2>1 DEF DownFlow
<1>10. Untorn' /\ WholeTexts'
  <2>1. spoiled' # Nodes => spoiled # Nodes
    BY <1>1, <1>3
  <2>2. /\ down[c] \in Seq(Packets) /\ down'[c] = Tail(down[c])
        /\ \A d \in Clients : d # c => down'[d] = down[d]
    BY <1>1, <1>2 DEF TypeOK
  <2>3. Whole(down[c]) => Whole(down'[c])
    BY <1>1, <2>2, WholeTail
  <2>4. \A d \in Clients : Whole(down[d]) => Whole(down'[d])
    BY <2>2, <2>3
  <2>5. Untorn'
    <3>1. SUFFICES ASSUME spoiled' # Nodes PROVE Untorn'
      BY DEF Untorn
    <3>2. \A d \in Clients : Whole(up'[d]) /\ Whole(down'[d])
      BY <1>1, <1>2, <2>1, <2>4, <3>1 DEF Untorn
    <3>3. QED BY <1>1, <1>2, <2>1, <3>1, <3>2 DEF Untorn, Whole
  <2>6. QED BY <1>1, <1>2, <2>5 DEF WholeTexts
<1>11. QED BY <1>6, <1>7, <1>9, <1>10 DEF Basis

LEMMA PruneBasis ==
  ASSUME Basis, NEW n \in Nodes, NEW p \in Nodes, Prune(n, p)
  PROVE  Basis'
<1>1. /\ buffer' = [buffer EXCEPT ![n][p] = <<>>]
      /\ faults < MaxFaults /\ faults' = faults + 1 /\ spoiled' = spoiled \cup {n}
      /\ UNCHANGED <<machine, start, measured, now, clip, seen, stamp, up, down,
                     copies, altered, served, calm>>
  BY DEF Prune, Strikes, setup, streams
<1>2. TypeOK /\ UpFlow /\ DownFlow /\ Untorn /\ WholeTexts
  BY DEF Basis
<1>3. buffer' \in [Nodes -> [Nodes -> Seq(Payloads)]]
  BY <1>1, <1>2, EmptySeq DEF TypeOK
<1>4. \A m \in Nodes \ spoiled' : m \in Nodes \ spoiled /\ buffer'[m] = buffer[m]
  BY <1>1, <1>2 DEF TypeOK
<1>5. faults' \in 0 .. MaxFaults
  BY <1>1, <1>2, BoundsAssumption, SMT DEF TypeOK
<1>6. TypeOK'
  BY <1>1, <1>2, <1>3, <1>4, <1>5 DEF TypeOK
<1>7. \A m \in Nodes \ spoiled' : \A q \in Packets : Ready(m, q)' <=> Ready(m, q)
  BY <1>1, <1>4 DEF Ready, IsNewer, AdjustedTimestamp
<1>8. UpFlow'
  <2>1. \A c \in Clients : up[c] # <<>> => up[c][1] \in Packets
    BY <1>2, SMT DEF TypeOK
  <2>2. Server \in Nodes
    BY DEF Nodes
  <2>3. ASSUME NEW c \in Clients, Server \notin spoiled', up[c] # <<>>
        PROVE  up[c][1].index = 1 \/ Ready(Server, up[c][1])'
    <3>1. PICK q \in Packets : q = up[c][1]
      BY <2>1, <2>3
    <3>2. Server \notin spoiled
      BY <1>1, <2>3
    <3>3. q.index = 1 \/ Ready(Server, q)
      BY <1>2, <2>3, <3>1, <3>2 DEF UpFlow
    <3>4. q.index = 1 \/ Ready(Server, q)'
      BY <1>7, <2>2, <2>3, <3>3
    <3>5. up'[c][1] = q
      BY <1>1, <3>1
    <3>6. QED BY <1>1, <3>1, <3>4, <3>5
  <2>4. QED BY <1>1, <1>2, <2>3 DEF UpFlow, Follows
<1>9. DownFlow'
  <2>1. \A m \in Clients \ spoiled' : m \in Clients \ spoiled /\ buffer'[m] = buffer[m]
    BY <1>4 DEF Nodes
  <2>2. QED BY <1>1, <1>2, <2>1
     DEF DownFlow, Expected, Ready, IsNewer, AdjustedTimestamp, Follows, Before
<1>10. Untorn' /\ WholeTexts'
  <2>1. spoiled' # Nodes => spoiled # Nodes
    BY <1>1
  <2>2. QED BY <1>1, <1>2, <2>1 DEF Untorn, Whole, WholeTexts
<1>11. QED BY <1>6, <1>8, <1>9, <1>10 DEF Basis
(* How DownFlow' is proved: one packet at a time.                          *)
LEMMA DownFlowNext ==
  ASSUME \A n \in Clients : n \notin spoiled' =>
           \A q, i :
             /\ (i \in 1 .. Len(down'[n]) /\ q = down'[n][i]) => Expected(n, q, i)'
             /\ (/\ i = Len(down'[n]) + 1
                 /\ \E d \in Clients : up'[d] # <<>> /\ q = up'[d][1]
                 /\ IsNewer(Server, q)') => Expected(n, q, i)'
  PROVE  DownFlow'
<1>1. ASSUME NEW n \in Clients, n \notin spoiled', NEW i \in 1 .. Len(down'[n])
      PROVE  Expected(n, down[n][i], i)'
  <2>1. PICK q : q = down'[n][i]
    OBVIOUS
  <2>2. Expected(n, q, i)'
    BY <1>1, <2>1
  <2>3. QED BY <2>1, <2>2
     DEF Expected, Ready, IsNewer, AdjustedTimestamp, Follows, Before
<1>2. ASSUME NEW n \in Clients, n \notin spoiled', NEW d \in Clients,
             up'[d] # <<>>, IsNewer(Server, up[d][1])'
      PROVE  Expected(n, up[d][1], Len(down[n]) + 1)'
  <2>1. PICK q, i : q = up'[d][1] /\ i = Len(down'[n]) + 1
    OBVIOUS
  <2>2. IsNewer(Server, q)'
    BY <1>2, <2>1 DEF IsNewer, AdjustedTimestamp
  <2>3. Expected(n, q, i)'
    BY <1>2, <2>1, <2>2
  <2>4. QED BY <2>1, <2>3
     DEF Expected, Ready, IsNewer, AdjustedTimestamp, Follows, Before
<1>3. QED BY <1>1, <1>2 DEF DownFlow

(* ... and how DownFlow is used.                                           *)
LEMMA DownFlowHere ==
  ASSUME DownFlow, NEW n \in Clients \ spoiled, NEW q
  PROVE  /\ \A i \in 1 .. Len(down[n]) : q = down[n][i] => Expected(n, q, i)
         /\ \A d \in Clients :
              (up[d] # <<>> /\ q = up[d][1] /\ IsNewer(Server, q)) =>
                Expected(n, q, Len(down[n]) + 1)
BY DEF DownFlow

(* Sending a text, whole and at once.                                      *)
LEMMA PollBasis ==
  ASSUME Basis, NEW n \in Nodes, Poll(n)
  PROVE  Basis'
<1> DEFINE t == clip[n]
           new == Chunks(n, t)
<1>1. /\ clip[n] # seen[n] /\ seen' = [seen EXCEPT ![n] = clip[n]] /\ now' = now + 1
      /\ IF n = Server THEN down' = [c \in Clients |-> down[c] \o new] /\ UNCHANGED up
         ELSE up' = [up EXCEPT ![n] = @ \o new] /\ UNCHANGED down
      /\ served' = IF n = Server THEN served \cup {clip[n]} ELSE served
      /\ UNCHANGED <<machine, start, measured, clip, stamp, buffer, copies, altered,
                     faults, spoiled, calm>>
  BY DEF Poll, Broadcast, setup, counts
<1>2. TypeOK /\ UpFlow /\ DownFlow /\ Untorn /\ WholeTexts
  BY DEF Basis
<1>3. t \in Seq(Payloads) /\ (spoiled # Nodes => t \in Texts)
  BY <1>1, <1>2 DEF Untorn, TypeOK
<1>4. /\ new \in Seq(Packets) /\ Len(new) = Total(t)
      /\ \A i \in 1 .. Total(t) :
           new[i].sender = n /\ new[i].index = i /\ new[i].text = t
      /\ \A i, j \in 1 .. Total(t) : i = j + 1 => Follows(new[j], new[i])
  <2>1. /\ new \in Seq(Packets) /\ Len(new) = Total(t)
        /\ \A i \in 1 .. Total(t) :
             /\ new[i].sender = n /\ new[i].text = t
             /\ new[i].time = now - start[n] /\ new[i].index = i
    BY <1>2, <1>3, ChunksTypes
  <2> HIDE DEF new
  <2>2. QED BY <2>1 DEF Follows
<1>5. Total(t) \in Nat \ {0}
  BY <1>3, TextTypes
<1> HIDE DEF new, t
<1>6. /\ up \in [Clients -> Seq(Packets)] /\ down \in [Clients -> Seq(Packets)]
  BY <1>2 DEF TypeOK
<1>7. up' \in [Clients -> Seq(Packets)] /\ down' \in [Clients -> Seq(Packets)]
  <2>1. \A c \in Clients : up[c] \o new \in Seq(Packets) /\ down[c] \o new \in Seq(Packets)
    BY <1>4, <1>6, ConcatProperties
  <2>2. QED BY <1>1, <1>6, <2>1
<1>8. TypeOK'
  <2>1. now' \in Int
    BY <1>1, <1>2, SMT DEF TypeOK
  <2>2. seen' \in [Nodes -> Seq(Payloads)]
    BY <1>1, <1>2 DEF TypeOK
  <2>3. served' \subseteq Seq(Payloads)
    BY <1>1, <1>2 DEF TypeOK
  <2>4. QED BY <1>1, <1>2, <1>7, <2>1, <2>2, <2>3 DEF TypeOK
<1>9. \A m, q : Ready(m, q)' <=> Ready(m, q)
  BY <1>1 DEF Ready, IsNewer, AdjustedTimestamp
<1>10. \A q : IsNewer(Server, q)' <=> IsNewer(Server, q)
  BY <1>1 DEF IsNewer, AdjustedTimestamp
<1>11. Untorn' /\ WholeTexts'
  <2>1. seen'[n] = clip[n] /\ \A m \in Nodes \ {n} : seen'[m] = seen[m]
    BY <1>1, <1>2 DEF TypeOK
  <2>2. ASSUME spoiled' # Nodes, NEW c \in Clients
        PROVE  Whole(up'[c]) /\ Whole(down'[c])
    <3>1. Whole(new) /\ Whole(up[c]) /\ Whole(down[c])
      BY <1>1, <1>2, <1>3, <1>4, <2>2 DEF Untorn, Whole
    <3>2. Whole(up[c] \o new) /\ Whole(down[c] \o new)
      BY <1>4, <1>6, <3>1, WholeConcat
    <3>3. /\ up'[c] = up[c] \/ up'[c] = up[c] \o new
          /\ down'[c] = down[c] \/ down'[c] = down[c] \o new
      BY <1>1, <1>6
    <3>4. QED BY <3>1, <3>2, <3>3
  <2>3. ASSUME spoiled' # Nodes, NEW m \in Nodes, clip'[m] # seen'[m]
        PROVE  clip'[m] \in Texts
    BY <1>1, <1>2, <2>1, <2>3 DEF Untorn
  <2>4. Untorn'
    BY <2>2, <2>3 DEF Untorn, Whole
  <2>5. QED BY <1>1, <1>2, <2>4 DEF WholeTexts
<1>12. ASSUME n = Server PROVE UpFlow' /\ DownFlow'
  <2>1. down' = [c \in Clients |-> down[c] \o new] /\ UNCHANGED up
    BY <1>1, <1>12
  <2>2. UpFlow'
    BY <1>1, <1>2, <2>1 DEF UpFlow, Ready, IsNewer, AdjustedTimestamp, Follows, Before
  <2>3. ASSUME NEW m \in Clients, m \notin spoiled', NEW q, NEW i
        PROVE  /\ (i \in 1 .. Len(down'[m]) /\ q = down'[m][i]) => Expected(m, q, i)'
               /\ (/\ i = Len(down'[m]) + 1
                   /\ \E d \in Clients : up'[d] # <<>> /\ q = up'[d][1]
                   /\ IsNewer(Server, q)') => Expected(m, q, i)'
    <3> DEFINE l == Len(down[m])
    <3>1. m \in Clients \ spoiled /\ down[m] \in Seq(Packets) /\ l \in Nat
      BY <1>1, <1>6, <2>3
    <3>2. /\ down'[m] = down[m] \o new
          /\ Len(down'[m]) = l + Total(t)
          /\ \A j \in 1 .. l : down'[m][j] = down[m][j]
          /\ \A j \in 1 .. Total(t) : down'[m][l + j] = new[j]
          /\ \A j \in 1 .. Len(down'[m]) :
               j \in 1 .. l \/ \E k \in 1 .. Total(t) : j = l + k
      BY <1>4, <2>1, <3>1, InConcat
    <3>3. ASSUME i \in 1 .. l, q = down'[m][i] PROVE Expected(m, q, i)'
      <4>1. Expected(m, q, i)
        BY <1>2, <3>1, <3>2, <3>3, DownFlowHere
      <4>2. i \in Nat /\ i .. i - 1 = {} /\ \A j \in 1 .. i - 1 : j \in 1 .. l
        BY <3>1, <3>3, SMT
      <4>3. QED BY <1>9, <3>2, <4>1, <4>2, ExpectedExtends
    <3>4. ASSUME NEW j \in 1 .. Total(t), i = l + j, q = down'[m][i]
          PROVE  Expected(m, q, i)'
      <4>1. q = new[j]
        BY <3>2, <3>4
      <4>2. CASE j = 1
        BY <1>4, <4>1, <4>2 DEF Expected
      <4>3. CASE j # 1
        <5>1. j - 1 \in 1 .. Total(t) /\ j = (j - 1) + 1 /\ l + (j - 1) = i - 1
          BY <1>5, <3>1, <3>4, <4>3, SMT
        <5>2. down'[m][i - 1] = new[j - 1] /\ Follows(new[j - 1], new[j])
          BY <1>4, <3>2, <5>1
        <5>3. /\ i - 1 \in 1 .. i - 1
              /\ \A k \in (i - 1) + 1 .. i - 1 : down'[m][k].sender # q.sender
          BY <3>1, <3>4, <4>3, SMT
        <5>4. Follows(down[m][i - 1], q)'
          BY <4>1, <5>2 DEF Follows
        <5>5. QED BY <5>3, <5>4 DEF Expected
      <4>4. QED BY <4>2, <4>3
    <3>5. ASSUME i = Len(down'[m]) + 1, NEW d \in Clients, up'[d] # <<>>,
                 q = up'[d][1], IsNewer(Server, q)'
          PROVE  Expected(m, q, i)'
      <4>1. Expected(m, q, l + 1)
        BY <1>2, <1>10, <2>1, <3>1, <3>5, DownFlowHere
      <4>2. q.sender = d
        <5>1. 1 \in 1 .. Len(up[d])
          BY <1>6, <2>1, <3>5, EmptySeq, SMT
        <5>2. QED BY <1>2, <2>1, <3>5, <5>1 DEF UpFlow
      <4>3. d # n
        BY <1>12, NodesAssumption
      <4>4. l + 1 \in Nat /\ i \in Nat /\ l + 1 <= i /\ (l + 1) - 1 = l
        BY <1>5, <3>1, <3>2, <3>5, SMT
      <4>5. ASSUME NEW k \in l + 1 .. i - 1 PROVE down'[m][k].sender # q.sender
        <5>1. k - l \in 1 .. Total(t) /\ l + (k - l) = k
          BY <1>5, <3>1, <3>2, <3>5, SMT
        <5>2. down'[m][k] = new[k - l]
          BY <3>2, <5>1
        <5>3. QED BY <1>4, <4>2, <4>3, <5>1, <5>2
      <4>6. QED BY <1>9, <3>2, <4>1, <4>4, <4>5, ExpectedExtends
    <3>6. QED BY <3>2, <3>3, <3>4, <3>5
  <2>4. QED BY <2>2, <2>3, DownFlowNext
<1>13. ASSUME n # Server PROVE UpFlow' /\ DownFlow'
  <2>1. n \in Clients /\ up' = [up EXCEPT ![n] = @ \o new] /\ UNCHANGED down
    BY <1>1, <1>13 DEF Nodes
  <2>2. \A c \in Clients : up'[c] = IF c = n THEN up[n] \o new ELSE up[c]
    BY <1>6, <2>1
  <2> DEFINE l == Len(up[n])
  <2>3. /\ l \in Nat
        /\ Len(up'[n]) = l + Total(t)
        /\ \A j \in 1 .. l : up'[n][j] = up[n][j]
        /\ \A j \in 1 .. Total(t) : up'[n][l + j] = new[j]
        /\ \A j \in 1 .. Len(up'[n]) : j \in 1 .. l \/ \E k \in 1 .. Total(t) : j = l + k
    <3>1. up[n] \in Seq(Packets) /\ l \in Nat /\ up'[n] = up[n] \o new
      BY <1>6, <2>1, <2>2
    <3>2. /\ Len(up[n] \o new) = Len(up[n]) + Len(new)
          /\ \A i \in 1 .. Len(up[n]) : (up[n] \o new)[i] = up[n][i]
          /\ \A i \in 1 .. Len(new) : (up[n] \o new)[Len(up[n]) + i] = new[i]
          /\ \A i \in 1 .. Len(up[n] \o new) :
               i \in 1 .. Len(up[n]) \/ \E j \in 1 .. Len(new) : i = Len(up[n]) + j
      BY <1>4, <3>1, InConcat
    <3>3. Len(new) = Total(t)
      BY <1>4
    <3>4. QED BY <3>1, <3>2, <3>3
  <2> HIDE DEF l
  <2>4. ASSUME NEW c \in Clients, up'[c] # <<>>
        PROVE  up'[c][1].index = 1 \/ (up[c] # <<>> /\ up'[c][1] = up[c][1])
    <3>1. CASE c # n
      BY <2>2, <2>4, <3>1
    <3>2. CASE c = n /\ up[n] = <<>>
      <4>1. l = 0 /\ 1 \in 1 .. Total(t) /\ 0 + 1 = 1
        BY <1>5, <3>2, EmptySeq, SMT DEF l
      <4>2. up'[n][0 + 1] = new[1]
        BY <2>3, <4>1
      <4>3. QED BY <1>4, <3>2, <4>1, <4>2
    <3>3. CASE c = n /\ up[n] # <<>>
      <4>1. 1 \in 1 .. l
        BY <1>6, <2>1, <3>3, EmptySeq, SMT DEF l
      <4>2. QED BY <2>3, <3>3, <4>1
    <3>4. QED BY <3>1, <3>2, <3>3
  <2>5. ASSUME NEW c \in Clients, NEW i \in 1 .. Len(up'[c])
        PROVE  /\ up'[c][i].sender = c
               /\ i > 1 => up'[c][i].index = 1 \/ Follows(up[c][i - 1], up[c][i])'
    <3>1. CASE c # n
      BY <1>2, <2>2, <2>5, <3>1 DEF UpFlow, Follows
    <3>2. CASE c = n /\ i \in 1 .. l
      <4>1. i > 1 => i - 1 \in 1 .. l
        BY <2>3, <3>2, SMT
      <4>2. /\ up[c][i].sender = c
            /\ i > 1 => up[c][i].index = 1 \/ Follows(up[c][i - 1], up[c][i])
        BY <1>2, <3>2 DEF UpFlow, l
      <4>3. up'[c][i] = up[c][i] /\ (i > 1 => up'[c][i - 1] = up[c][i - 1])
        BY <2>3, <3>2, <4>1
      <4>4. QED BY <4>2, <4>3 DEF Follows
    <3>3. ASSUME c = n, NEW j \in 1 .. Total(t), i = l + j
          PROVE  /\ up'[c][i].sender = c
                 /\ i > 1 => up'[c][i].index = 1 \/ Follows(up[c][i - 1], up[c][i])'
      <4>1. up'[n][i] = new[j]
        BY <2>3, <3>3
      <4>2. CASE j = 1
        BY <1>4, <3>3, <4>1, <4>2
      <4>3. CASE j # 1
        <5> l \in Nat /\ i = l + j
          BY <2>3, <3>3
        <5>1. j - 1 \in 1 .. Total(t) /\ j = (j - 1) + 1 /\ l + (j - 1) = i - 1
          BY <1>5, <4>3, SMT
        <5>2. up'[n][i - 1] = new[j - 1] /\ Follows(new[j - 1], new[j])
          BY <1>4, <2>3, <5>1
        <5>3. QED BY <1>4, <3>3, <4>1, <5>2 DEF Follows
      <4>4. QED BY <4>2, <4>3
    <3>4. QED BY <2>3, <2>5, <3>1, <3>2, <3>3
  <2>6. ASSUME NEW c \in Clients, Server \notin spoiled', up'[c] # <<>>
        PROVE  up'[c][1].index = 1 \/ Ready(Server, up[c][1])'
    <3>1. CASE up[c] # <<>> /\ up'[c][1] = up[c][1]
      <4>1. up[c][1].index = 1 \/ Ready(Server, up[c][1])
        BY <1>1, <1>2, <2>6, <3>1 DEF UpFlow
      <4>2. QED BY <1>1, <3>1, <4>1 DEF Ready, IsNewer, AdjustedTimestamp, Before
    <3>2. QED BY <2>4, <2>6, <3>1
  <2>7. UpFlow'
    BY <2>5, <2>6 DEF UpFlow
  <2>8. ASSUME NEW m \in Clients, m \notin spoiled', NEW q, NEW i
        PROVE  /\ (i \in 1 .. Len(down'[m]) /\ q = down'[m][i]) => Expected(m, q, i)'
               /\ (/\ i = Len(down'[m]) + 1
                   /\ \E d \in Clients : up'[d] # <<>> /\ q = up'[d][1]
                   /\ IsNewer(Server, q)') => Expected(m, q, i)'
    <3>1. m \in Clients \ spoiled /\ down[m] \in Seq(Packets) /\ Len(down[m]) \in Nat
      BY <1>1, <1>6, <2>8
    <3>2. Expected(m, q, i)' <=> Expected(m, q, i)
      BY <1>9, <2>1 DEF Expected, Follows
    <3>3. (i \in 1 .. Len(down'[m]) /\ q = down'[m][i]) => Expected(m, q, i)'
      BY <1>2, <2>1, <3>1, <3>2, DownFlowHere
    <3>4. ASSUME i = Len(down'[m]) + 1, NEW d \in Clients, up'[d] # <<>>,
                 q = up'[d][1], IsNewer(Server, q)'
          PROVE  Expected(m, q, i)'
      <4>1. CASE q.index = 1
        BY <4>1 DEF Expected
      <4>2. CASE up[d] # <<>> /\ q = up[d][1]
        BY <1>2, <1>10, <2>1, <3>1, <3>2, <3>4, <4>2, DownFlowHere
      <4>3. QED BY <2>4, <3>4, <4>1, <4>2
    <3>5. QED BY <3>3, <3>4
  <2>9. QED BY <2>7, <2>8, DownFlowNext
<1>14. QED BY <1>8, <1>11, <1>12, <1>13 DEF Basis
(* What n makes of a chunk, taken or not.                                  *)
Handles(n, p) == IF IsNewer(n, p) THEN Take(n, p) ELSE Ignore

LEMMA HandlesOutcome ==
  ASSUME TypeOK, Untorn, WholeTexts, NEW n \in Nodes, NEW p \in Packets,
         n \notin spoiled => p.index = 1 \/ Ready(n, p),
         spoiled # Nodes => p.text \in Texts,
         Handles(n, p), UNCHANGED <<start, measured>>
  PROVE  /\ buffer' \in [Nodes -> [Nodes -> Seq(Payloads)]]
         /\ clip' \in [Nodes -> Seq(Payloads)]
         /\ seen' \in [Nodes -> Seq(Payloads)]
         /\ stamp' \in [Nodes -> Int]
         /\ faults' \in 0 .. MaxFaults /\ altered' \in Nat
         /\ spoiled \subseteq spoiled' /\ spoiled' \subseteq Nodes
         /\ \A m \in Nodes \ spoiled', q \in Nodes : buffer'[m][q] \in Beginnings
         /\ WholeTexts'
         /\ \A m \in Nodes :
              (spoiled' # Nodes /\ clip'[m] # seen'[m]) => clip'[m] \in Texts
         /\ \A m \in Nodes : m # n => stamp'[m] = stamp[m] /\ buffer'[m] = buffer[m]
         /\ \A m \in Nodes, q \in Packets : IsNewer(m, q)' => IsNewer(m, q)
         /\ \A m \in Nodes, q \in Packets :
              (m # n \/ q.sender # p.sender) => (Ready(m, q) => Ready(m, q)')
         /\ n \notin spoiled' => \A q \in Packets : Follows(p, q) => Ready(n, q)'
<1>1. /\ buffer \in [Nodes -> [Nodes -> Seq(Payloads)]]
      /\ stamp \in [Nodes -> Int]
      /\ \A m \in Nodes \ spoiled, q \in Nodes : buffer[m][q] \in Beginnings
  BY DEF TypeOK
<1>2. CASE ~ IsNewer(n, p)
  <2>1. UNCHANGED <<buffer, clip, seen, stamp, altered, faults, spoiled>>
    BY <1>2 DEF Handles, Ignore
  <2>2. \A m \in Nodes, q \in Packets :
          (IsNewer(m, q)' <=> IsNewer(m, q)) /\ (Ready(m, q)' <=> Ready(m, q))
    BY <2>1 DEF IsNewer, AdjustedTimestamp, Ready, Before
  <2>3. \A q \in Packets : Follows(p, q) => Ready(n, q)
    BY <1>2, NewerAlike DEF Ready
  <2>4. /\ WholeTexts'
        /\ \A m \in Nodes :
             (spoiled' # Nodes /\ clip'[m] # seen'[m]) => clip'[m] \in Texts
    BY <2>1 DEF Untorn, WholeTexts
  <2>5. QED BY <1>1, <2>1, <2>2, <2>3, <2>4 DEF TypeOK
<1>3. CASE IsNewer(n, p)
  <2> DEFINE a == Appended(n, p)
  <2>1. Take(n, p)
    BY <1>3 DEF Handles
  <2>2. /\ buffer' \in [Nodes -> [Nodes -> Seq(Payloads)]]
        /\ clip' \in [Nodes -> Seq(Payloads)]
        /\ seen' \in [Nodes -> Seq(Payloads)]
        /\ stamp' \in [Nodes -> Int]
        /\ faults' \in 0 .. MaxFaults /\ altered' \in Nat
        /\ spoiled \subseteq spoiled' /\ spoiled' \subseteq Nodes
        /\ buffer'[n][p.sender] = KeepBuffer(p, a)
        /\ \A m, q \in Nodes : (m # n \/ q # p.sender) => buffer'[m][q] = buffer[m][q]
        /\ \A m \in Nodes \ {n} :
             clip'[m] = clip[m] /\ seen'[m] = seen[m] /\ stamp'[m] = stamp[m]
        /\ stamp'[n] >= stamp[n]
        /\ IF IsLast(p) /\ ~ (clip'[n] = clip[n] /\ seen'[n] = seen[n])
           THEN clip'[n] = ReadBack(n, a) /\ seen'[n] = a
           ELSE clip'[n] = clip[n] /\ seen'[n] = seen[n]
        /\ \/ clip'[n] = clip[n] /\ seen'[n] = seen[n]
           \/ clip'[n] = seen'[n]
           \/ n \notin spoiled'
           \/ spoiled' = Nodes
    BY <1>3, <2>1, TakeOutcome
  <2>3. n \notin spoiled =>
          /\ IsLast(p) => a = p.text
          /\ p.text \in Texts => KeepBuffer(p, a) \in Beginnings
          /\ \A q \in Packets : Follows(p, q) => KeepBuffer(p, a) = Before(q)
    BY <1>3, TakenText
  <2> HIDE DEF a
  <2>4. /\ p.sender \in Nodes
        /\ (\E m \in Nodes : m \notin spoiled) =>
             p.text \in Texts /\ ReadBack(n, p.text) \in Texts
    BY PacketTypes, ReadBackTypes
  <2>5. \A m \in Nodes : m # n => stamp'[m] = stamp[m] /\ buffer'[m] = buffer[m]
    <3>1. TAKE m \in Nodes
    <3>2. HAVE m # n
    <3>3. \A q \in Nodes : buffer'[m][q] = buffer[m][q]
      BY <2>2, <3>2
    <3>4. buffer'[m] \in [Nodes -> Seq(Payloads)] /\ buffer[m] \in [Nodes -> Seq(Payloads)]
      BY <1>1, <2>2
    <3>5. buffer'[m] = buffer[m]
      BY <3>3, <3>4
    <3>6. QED BY <2>2, <3>2, <3>5
  <2>6. \A m \in Nodes \ spoiled', q \in Nodes : buffer'[m][q] \in Beginnings
    BY <1>1, <2>2, <2>3, <2>4
  <2>7. WholeTexts'
    <3>1. \A m \in Nodes \ spoiled' :
            m \notin spoiled /\ (clip'[m] = clip[m] \/ clip'[m] = ReadBack(n, p.text))
      BY <2>2, <2>3
    <3>2. QED BY <2>4, <3>1 DEF WholeTexts
  <2>8. ASSUME NEW m \in Nodes, spoiled' # Nodes, clip'[m] # seen'[m]
        PROVE  clip'[m] \in Texts
    <3>1. CASE clip'[m] = clip[m] /\ seen'[m] = seen[m]
      BY <2>2, <2>8, <3>1 DEF Untorn
    <3>2. CASE ~ (clip'[m] = clip[m] /\ seen'[m] = seen[m])
      <4>1. m = n /\ n \notin spoiled'
        BY <2>2, <2>8, <3>2
      <4>2. QED BY <2>7, <4>1 DEF WholeTexts
    <3>3. QED BY <3>1, <3>2
  <2>9. \A m \in Nodes, q \in Packets : IsNewer(m, q)' => IsNewer(m, q)
    <3>1. TAKE m \in Nodes, q \in Packets
    <3>2. HAVE IsNewer(m, q)'
    <3>3. stamp'[m] \in Int /\ stamp[m] \in Int /\ stamp'[m] >= stamp[m]
      <4>1. CASE m = n
        BY <1>1, <2>2, <4>1
      <4>2. CASE m # n
        <5>1. stamp'[m] = stamp[m] /\ stamp[m] \in Int
          BY <1>1, <2>5, <4>2
        <5>2. QED BY <5>1, SMT
      <4>3. QED BY <4>1, <4>2
    <3>4. QED BY <3>2, <3>3, NewerKept
  <2>10. ASSUME NEW m \in Nodes, NEW q \in Packets, m # n \/ q.sender # p.sender, Ready(m, q)
         PROVE  Ready(m, q)'
    <3>1. q.sender \in Nodes
      BY PacketTypes
    <3>2. buffer'[m][q.sender] = buffer[m][q.sender]
      BY <2>2, <2>10, <3>1
    <3>3. IsNewer(m, q)' => IsNewer(m, q)
      BY <2>9
    <3>4. Before(q)' = Before(q)
      BY DEF Before
    <3>5. QED BY <2>10, <3>2, <3>3, <3>4 DEF Ready
  <2>11. ASSUME n \notin spoiled', NEW q \in Packets, Follows(p, q)
         PROVE  Ready(n, q)'
    <3>1. buffer'[n][q.sender] = Before(q)
      BY <2>2, <2>3, <2>11 DEF Follows
    <3>2. QED BY <3>1 DEF Ready, Before
  <2>12. spoiled' \subseteq Nodes
    BY <2>2 DEF TypeOK
  <2>13. QED BY <2>2, <2>5, <2>6, <2>7, <2>8, <2>9, <2>10, <2>11, <2>12
<1>4. QED BY <1>2, <1>3
LEMMA ClientBasis ==
  ASSUME Basis, NEW c \in Clients, ClientReceives(c)
  PROVE  Basis'
<1>1. PICK p : p = Head(down[c])
  OBVIOUS
<1>2. TypeOK /\ UpFlow /\ DownFlow /\ Untorn /\ WholeTexts
  BY DEF Basis
<1>3. /\ down[c] # <<>> /\ down' = [down EXCEPT ![c] = Tail(@)]
      /\ Handles(c, p)
      /\ UNCHANGED <<machine, start, measured, now, up, copies, served, calm>>
  BY <1>1 DEF ClientReceives, Handles, setup
<1>4. c \in Nodes
  BY DEF Nodes
<1>5. down \in [Clients -> Seq(Packets)] /\ up \in [Clients -> Seq(Packets)]
  BY <1>2 DEF TypeOK
<1> DEFINE l == Len(down[c])
<1>6. /\ p \in Packets /\ p = down[c][1] /\ l \in Nat \ {0}
      /\ down'[c] \in Seq(Packets) /\ Len(down'[c]) = l - 1
      /\ \A i \in 1 .. l - 1 : down'[c][i] = down[c][i + 1]
      /\ Whole(down[c]) => Whole(down'[c]) /\ p.text \in Texts
  <2>1. down[c] \in Seq(Packets) /\ down'[c] = Tail(down[c])
    BY <1>3, <1>5
  <2>2. QED BY <1>1, <1>3, <2>1, HeadTail, WholeTail
<1>7. c \notin spoiled => p.index = 1 \/ Ready(c, p)
  <2>1. SUFFICES ASSUME c \notin spoiled PROVE p.index = 1 \/ Ready(c, p)
    OBVIOUS
  <2>2. Expected(c, p, 1)
    BY <1>2, <1>6, <2>1, DownFlowHere
  <2>3. 1 .. 1 - 1 = {}
    BY SMT
  <2>4. QED BY <2>2, <2>3 DEF Expected
<1>8. /\ buffer' \in [Nodes -> [Nodes -> Seq(Payloads)]]
      /\ clip' \in [Nodes -> Seq(Payloads)]
      /\ seen' \in [Nodes -> Seq(Payloads)]
      /\ stamp' \in [Nodes -> Int]
      /\ faults' \in 0 .. MaxFaults /\ altered' \in Nat
      /\ spoiled \subseteq spoiled' /\ spoiled' \subseteq Nodes
      /\ \A m \in Nodes \ spoiled', q \in Nodes : buffer'[m][q] \in Beginnings
      /\ WholeTexts'
      /\ \A m \in Nodes :
           (spoiled' # Nodes /\ clip'[m] # seen'[m]) => clip'[m] \in Texts
      /\ \A m \in Nodes : m # c => stamp'[m] = stamp[m] /\ buffer'[m] = buffer[m]
      /\ \A m \in Nodes, q \in Packets : IsNewer(m, q)' => IsNewer(m, q)
      /\ \A m \in Nodes, q \in Packets :
           (m # c \/ q.sender # p.sender) => (Ready(m, q) => Ready(m, q)')
      /\ c \notin spoiled' => \A q \in Packets : Follows(p, q) => Ready(c, q)'
  <2>1. spoiled # Nodes => p.text \in Texts
    BY <1>2, <1>6 DEF Untorn
  <2>2. QED BY <1>2, <1>3, <1>4, <1>6, <1>7, <2>1, HandlesOutcome
<1>9. TypeOK'
  <2>1. down' \in [Clients -> Seq(Packets)]
    BY <1>3, <1>5, <1>6
  <2>2. QED BY <1>2, <1>3, <1>8, <2>1 DEF TypeOK
<1>10. Server \in Nodes /\ Server # c
  BY NodesAssumption DEF Nodes
<1>11. UpFlow'
  <2>1. ASSUME NEW d \in Clients, Server \notin spoiled', up'[d] # <<>>
        PROVE  up'[d][1].index = 1 \/ Ready(Server, up[d][1])'
    <3>1. PICK q : q = up[d][1]
      OBVIOUS
    <3>2. q \in Packets
      BY <1>3, <1>5, <2>1, <3>1, HeadTail
    <3>3. q.index = 1 \/ Ready(Server, q)
      BY <1>2, <1>3, <1>8, <2>1, <3>1 DEF UpFlow
    <3>4. q.index = 1 \/ Ready(Server, q)'
      BY <1>8, <1>10, <3>2, <3>3
    <3>5. QED BY <1>3, <3>1, <3>4 DEF Ready, IsNewer, AdjustedTimestamp, Before
  <2>2. QED BY <1>2, <1>3, <2>1 DEF UpFlow, Follows
<1>12. DownFlow'
  <2>1. ASSUME NEW m \in Clients, m \notin spoiled', NEW q, NEW i
        PROVE  /\ (i \in 1 .. Len(down'[m]) /\ q = down'[m][i]) => Expected(m, q, i)'
               /\ (/\ i = Len(down'[m]) + 1
                   /\ \E d \in Clients : up'[d] # <<>> /\ q = up'[d][1]
                   /\ IsNewer(Server, q)') => Expected(m, q, i)'
    <3>1. m \in Clients \ spoiled /\ m \in Nodes
      BY <1>8, <2>1 DEF Nodes
    <3>2. (\E d \in Clients : up'[d] # <<>> /\ q = up'[d][1]) => q \in Packets
      BY <1>3, <1>5, HeadTail
    <3>3. CASE m # c
      <4>1. down'[m] = down[m] /\ Len(down[m]) \in Nat
        BY <1>3, <1>5, <3>3
      <4>2. ASSUME q \in Packets, i \in Nat, Expected(m, q, i) PROVE Expected(m, q, i)'
        <5>1. Ready(m, q) => Ready(m, q)'
          BY <1>8, <3>1, <3>3, <4>2
        <5>2. i .. i - 1 = {}
          BY <4>2, SMT
        <5>3. QED BY <4>1, <4>2, <5>1, <5>2, ExpectedExtends
      <4>3. (i \in 1 .. Len(down'[m]) /\ q = down'[m][i]) => Expected(m, q, i)'
        <5>1. SUFFICES ASSUME i \in 1 .. Len(down'[m]), q = down'[m][i]
                       PROVE  Expected(m, q, i)'
          OBVIOUS
        <5>2. i \in Nat /\ q \in Packets
          BY <1>5, <4>1, <5>1, SMT
        <5>3. QED BY <1>2, <3>1, <4>1, <4>2, <5>1, <5>2, DownFlowHere
      <4>4. ASSUME i = Len(down'[m]) + 1, NEW d \in Clients, up'[d] # <<>>,
                   q = up'[d][1], IsNewer(Server, q)'
            PROVE  Expected(m, q, i)'
        <5>1. q \in Packets /\ i \in Nat
          BY <3>2, <4>1, <4>4, SMT
        <5>2. IsNewer(Server, q)
          BY <1>8, <1>10, <4>4, <5>1
        <5>3. QED BY <1>2, <1>3, <3>1, <4>1, <4>2, <4>4, <5>1, <5>2, DownFlowHere
      <4>5. QED BY <4>3, <4>4
    <3>4. CASE m = c
      <4>1. ASSUME q \in Packets, i \in 1 .. l, Expected(c, q, i + 1)
            PROVE  Expected(c, q, i)'
        <5>1. CASE q.index = 1
          BY <5>1 DEF Expected
        <5>2. ASSUME NEW j \in 1 .. (i + 1) - 1, Follows(down[c][j], q),
                     \A k \in j + 1 .. (i + 1) - 1 : down[c][k].sender # q.sender
              PROVE  Expected(c, q, i)'
          <6>1. \A k \in 1 .. i - 1 : k >= j => down'[c][k].sender # q.sender
            <7>1. TAKE k \in 1 .. i - 1
            <7>2. HAVE k >= j
            <7>3. k + 1 \in j + 1 .. (i + 1) - 1 /\ k \in 1 .. l - 1
              BY <1>6, <4>1, <5>2, <7>2, SMT
            <7>4. QED BY <1>6, <5>2, <7>3
          <6>2. CASE j = 1
            <7>1. \A k \in 1 .. i - 1 : down'[c][k].sender # q.sender
              BY <6>1, <6>2, SMT
            <7>2. Ready(c, q)'
              BY <1>6, <1>8, <2>1, <3>4, <4>1, <5>2, <6>2
            <7>3. QED BY <7>1, <7>2 DEF Expected
          <6>3. CASE j # 1
            <7>1. j - 1 \in 1 .. i - 1 /\ j - 1 \in 1 .. l - 1 /\ (j - 1) + 1 = j
              BY <1>6, <4>1, <5>2, <6>3, SMT
            <7>2. Follows(down[c][j - 1], q)'
              BY <1>6, <5>2, <7>1 DEF Follows
            <7>3. \A k \in (j - 1) + 1 .. i - 1 : down'[c][k].sender # q.sender
              <8>1. \A k \in (j - 1) + 1 .. i - 1 : k \in 1 .. i - 1 /\ k >= j
                BY <4>1, <7>1, SMT
              <8>2. QED BY <6>1, <8>1
            <7>4. QED BY <7>1, <7>2, <7>3 DEF Expected
          <6>4. QED BY <6>2, <6>3
        <5>3. CASE /\ \A k \in 1 .. (i + 1) - 1 : down[c][k].sender # q.sender
                   /\ Ready(c, q)
          <6>1. 1 \in 1 .. (i + 1) - 1
            BY <4>1, <1>6, SMT
          <6>2. p.sender # q.sender
            BY <1>6, <5>3, <6>1
          <6>3. Ready(c, q)'
            BY <1>4, <1>8, <4>1, <5>3, <6>2
          <6>4. \A k \in 1 .. i - 1 : down'[c][k].sender # q.sender
            <7>1. TAKE k \in 1 .. i - 1
            <7>2. k + 1 \in 1 .. (i + 1) - 1 /\ k \in 1 .. l - 1
              BY <1>6, <4>1, SMT
            <7>3. QED BY <1>6, <5>3, <7>2
          <6>5. QED BY <6>3, <6>4 DEF Expected
        <5>4. QED BY <4>1, <5>1, <5>2, <5>3 DEF Expected
      <4>2. (i \in 1 .. Len(down'[c]) /\ q = down'[c][i]) => Expected(c, q, i)'
        <5>1. SUFFICES ASSUME i \in 1 .. Len(down'[c]), q = down'[c][i]
                       PROVE  Expected(c, q, i)'
          OBVIOUS
        <5>2. i \in 1 .. l - 1 /\ i \in 1 .. l /\ i + 1 \in 1 .. l
          BY <1>6, <5>1, SMT
        <5>3. q = down[c][i + 1]
          BY <1>6, <5>1, <5>2
        <5>4. q \in Packets
          BY <1>5, <5>2, <5>3
        <5>5. Expected(c, q, i + 1)
          BY <1>2, <3>1, <3>4, <5>2, <5>3, DownFlowHere
        <5>6. QED BY <4>1, <5>2, <5>4, <5>5
      <4>3. ASSUME i = Len(down'[c]) + 1, NEW d \in Clients, up'[d] # <<>>,
                   q = up'[d][1], IsNewer(Server, q)'
            PROVE  Expected(c, q, i)'
        <5>1. q \in Packets
          BY <3>2, <4>3
        <5>2. i = l /\ i \in 1 .. l
          BY <1>6, <4>3, SMT
        <5>3. IsNewer(Server, q)
          BY <1>8, <1>10, <4>3, <5>1
        <5>4. Expected(c, q, l + 1)
          BY <1>2, <1>3, <3>1, <3>4, <4>3, <5>3, DownFlowHere
        <5>5. QED BY <4>1, <5>1, <5>2, <5>4
      <4>4. QED BY <3>4, <4>2, <4>3
    <3>5. QED BY <3>3, <3>4
  <2>2. QED BY <2>1, DownFlowNext
<1>13. Untorn'
  <2>1. spoiled' # Nodes => spoiled # Nodes
    BY <1>2, <1>8 DEF TypeOK
  <2>2. \A d \in Clients : d # c => down'[d] = down[d]
    BY <1>3, <1>5
  <2>3. \A d \in Clients : Whole(down[d]) => Whole(down'[d])
    BY <1>6, <2>2
  <2>4. ASSUME spoiled' # Nodes PROVE \A d \in Clients : Whole(up'[d]) /\ Whole(down'[d])
    BY <1>2, <1>3, <2>1, <2>3, <2>4 DEF Untorn
  <2>5. QED BY <1>8, <2>4 DEF Untorn, Whole
<1>14. QED BY <1>8, <1>9, <1>11, <1>12, <1>13 DEF Basis

LEMMA ServerBasis ==
  ASSUME Basis, NEW c \in Clients, ServerReceives(c)
  PROVE  Basis'
<1>1. PICK p : p = Head(up[c])
  OBVIOUS
<1>2. TypeOK /\ UpFlow /\ DownFlow /\ Untorn /\ WholeTexts
  BY DEF Basis
<1>3. /\ up[c] # <<>> /\ up' = [up EXCEPT ![c] = Tail(@)]
      /\ Handles(Server, p)
      /\ IF IsNewer(Server, p) THEN down' = [m \in Clients |-> down[m] \o <<p>>]
         ELSE down' = down
      /\ UNCHANGED <<machine, start, measured, now, copies, served, calm>>
  BY <1>1 DEF ServerReceives, Handles, setup, Broadcast
<1>4. Server \in Nodes /\ c # Server /\ \A m \in Clients : m # Server /\ m \in Nodes
  BY NodesAssumption DEF Nodes
<1>5. down \in [Clients -> Seq(Packets)] /\ up \in [Clients -> Seq(Packets)]
  BY <1>2 DEF TypeOK
<1> DEFINE l == Len(up[c])
<1>6. /\ p \in Packets /\ p = up[c][1] /\ l \in Nat \ {0}
      /\ up'[c] \in Seq(Packets) /\ Len(up'[c]) = l - 1
      /\ \A i \in 1 .. l - 1 : up'[c][i] = up[c][i + 1]
      /\ \A d \in Clients : d # c => up'[d] = up[d]
      /\ Whole(up[c]) => Whole(up'[c]) /\ p.text \in Texts
  <2>1. up[c] \in Seq(Packets) /\ up'[c] = Tail(up[c])
    BY <1>3, <1>5
  <2>2. QED BY <1>1, <1>3, <1>5, <2>1, HeadTail, WholeTail
<1>7. p.sender = c
  <2>1. 1 \in 1 .. l
    BY <1>6, SMT
  <2>2. QED BY <1>2, <1>6, <2>1 DEF UpFlow
<1>8. Server \notin spoiled => p.index = 1 \/ Ready(Server, p)
  BY <1>2, <1>3, <1>6 DEF UpFlow
<1>9. /\ buffer' \in [Nodes -> [Nodes -> Seq(Payloads)]]
      /\ clip' \in [Nodes -> Seq(Payloads)]
      /\ seen' \in [Nodes -> Seq(Payloads)]
      /\ stamp' \in [Nodes -> Int]
      /\ faults' \in 0 .. MaxFaults /\ altered' \in Nat
      /\ spoiled \subseteq spoiled' /\ spoiled' \subseteq Nodes
      /\ \A m \in Nodes \ spoiled', q \in Nodes : buffer'[m][q] \in Beginnings
      /\ WholeTexts'
      /\ \A m \in Nodes :
           (spoiled' # Nodes /\ clip'[m] # seen'[m]) => clip'[m] \in Texts
      /\ \A m \in Nodes : m # Server => stamp'[m] = stamp[m] /\ buffer'[m] = buffer[m]
      /\ \A m \in Nodes, q \in Packets : IsNewer(m, q)' => IsNewer(m, q)
      /\ \A m \in Nodes, q \in Packets :
           (m # Server \/ q.sender # p.sender) => (Ready(m, q) => Ready(m, q)')
      /\ Server \notin spoiled' => \A q \in Packets : Follows(p, q) => Ready(Server, q)'
  <2>1. spoiled # Nodes => p.text \in Texts
    BY <1>2, <1>6 DEF Untorn
  <2>2. QED BY <1>2, <1>3, <1>4, <1>6, <1>8, <2>1, HandlesOutcome
<1>10. /\ down' \in [Clients -> Seq(Packets)]
       /\ \A m \in Clients :
            /\ \A i \in 1 .. Len(down[m]) : down'[m][i] = down[m][i]
            /\ IF IsNewer(Server, p)
               THEN /\ Len(down'[m]) = Len(down[m]) + 1
                    /\ down'[m][Len(down[m]) + 1] = p
               ELSE Len(down'[m]) = Len(down[m])
  <2>1. CASE ~ IsNewer(Server, p)
    BY <1>3, <1>5, <2>1
  <2>2. CASE IsNewer(Server, p)
    <3>1. down' = [m \in Clients |-> down[m] \o <<p>>]
      BY <1>3, <2>2
    <3>2. <<p>> \in Seq(Packets) /\ Len(<<p>>) = 1 /\ <<p>>[1] = p /\ 1 \in 1 .. Len(<<p>>)
      BY <1>6, SMT
    <3>3. ASSUME NEW m \in Clients
          PROVE  /\ down[m] \o <<p>> \in Seq(Packets)
                 /\ \A i \in 1 .. Len(down[m]) : (down[m] \o <<p>>)[i] = down[m][i]
                 /\ Len(down[m] \o <<p>>) = Len(down[m]) + 1
                 /\ (down[m] \o <<p>>)[Len(down[m]) + 1] = p
      BY <1>5, <3>2, InConcat
    <3>4. QED BY <2>2, <3>1, <3>3
  <2>3. QED BY <2>1, <2>2
<1>11. TypeOK'
  <2>1. up' \in [Clients -> Seq(Packets)]
    BY <1>3, <1>5, <1>6
  <2>2. QED BY <1>2, <1>3, <1>9, <1>10, <2>1 DEF TypeOK
<1>12. ASSUME NEW d \in Clients, up'[d] # <<>>
       PROVE  /\ up'[d][1] \in Packets
              /\ \/ d # c /\ up[d] # <<>> /\ up'[d][1] = up[d][1] /\ up'[d][1].sender # c
                 \/ up'[d][1].index = 1
                 \/ Follows(p, up'[d][1])
  <2>1. up'[d] \in Seq(Packets) /\ 1 \in 1 .. Len(up'[d])
    <3>1. up'[d] \in Seq(Packets)
      BY <1>11 DEF TypeOK
    <3>2. Len(up'[d]) \in Nat \ {0}
      BY <1>12, <3>1, HeadTail
    <3>3. QED BY <3>1, <3>2, SMT
  <2>2. up'[d][1] \in Packets
    BY <2>1
  <2>3. CASE d # c
    <3>1. up'[d] = up[d] /\ up[d][1].sender = d
      BY <1>2, <1>6, <2>1, <2>3 DEF UpFlow
    <3>2. QED BY <1>12, <2>2, <2>3, <3>1
  <2>4. CASE d = c
    <3>1. 1 \in 1 .. l - 1 /\ 2 \in 1 .. l /\ 2 > 1 /\ 2 - 1 = 1 /\ 1 + 1 = 2
      BY <1>6, <2>1, <2>4, SMT
    <3>2. up'[c][1] = up[c][2]
      BY <1>6, <3>1
    <3>3. up[c][2].index = 1 \/ Follows(up[c][1], up[c][2])
      BY <1>2, <3>1 DEF UpFlow
    <3>4. QED BY <1>6, <2>2, <2>4, <3>2, <3>3
  <2>5. QED BY <2>3, <2>4
<1>13. UpFlow'
  <2>1. ASSUME NEW d \in Clients, Server \notin spoiled', up'[d] # <<>>
        PROVE  up'[d][1].index = 1 \/ Ready(Server, up[d][1])'
    <3>1. PICK q : q = up'[d][1]
      OBVIOUS
    <3>2. /\ q \in Packets
          /\ \/ d # c /\ up[d] # <<>> /\ q = up[d][1] /\ q.sender # c
             \/ q.index = 1
             \/ Follows(p, q)
      BY <1>12, <2>1, <3>1
    <3>3. q.index = 1 \/ Ready(Server, q)'
      <4>1. CASE d # c /\ up[d] # <<>> /\ q = up[d][1] /\ q.sender # c
        <5>1. q.index = 1 \/ Ready(Server, q)
          BY <1>2, <1>9, <2>1, <4>1 DEF UpFlow
        <5>2. QED BY <1>4, <1>7, <1>9, <3>2, <4>1, <5>1
      <4>2. CASE Follows(p, q)
        BY <1>9, <2>1, <3>2, <4>2
      <4>3. QED BY <3>2, <4>1, <4>2
    <3>4. QED BY <3>1, <3>3 DEF Ready, IsNewer, AdjustedTimestamp, Before
  <2>2. ASSUME NEW d \in Clients, NEW i \in 1 .. Len(up'[d])
        PROVE  /\ up'[d][i].sender = d
               /\ i > 1 => up'[d][i].index = 1 \/ Follows(up[d][i - 1], up[d][i])'
    <3>1. CASE d # c
      BY <1>2, <1>6, <2>2, <3>1 DEF UpFlow, Follows
    <3>2. CASE d = c
      <4>1. i \in 1 .. l - 1 /\ i + 1 \in 1 .. l /\ i + 1 > 1 /\ (i + 1) - 1 = i
        BY <1>6, <2>2, <3>2, SMT
      <4>2. up'[c][i] = up[c][i + 1]
        BY <1>6, <4>1
      <4>3. /\ up[c][i + 1].sender = c
            /\ up[c][i + 1].index = 1 \/ Follows(up[c][i], up[c][i + 1])
        BY <1>2, <4>1 DEF UpFlow
      <4>4. i > 1 => i - 1 \in 1 .. l - 1 /\ (i - 1) + 1 = i
        BY <4>1, <1>6, SMT
      <4>5. i > 1 => up'[c][i - 1] = up[c][i]
        BY <1>6, <4>4
      <4>6. QED BY <3>2, <4>2, <4>3, <4>5 DEF Follows
    <3>3. QED BY <3>1, <3>2
  <2>3. QED BY <2>1, <2>2 DEF UpFlow
<1>14. ASSUME NEW m \in Clients, m \notin spoiled', NEW q, NEW i
       PROVE  /\ (i \in 1 .. Len(down'[m]) /\ q = down'[m][i]) => Expected(m, q, i)'
              /\ (/\ i = Len(down'[m]) + 1
                  /\ \E d \in Clients : up'[d] # <<>> /\ q = up'[d][1]
                  /\ IsNewer(Server, q)') => Expected(m, q, i)'
  <2> DEFINE k == Len(down[m])
  <2>1. m \in Clients \ spoiled /\ m # Server /\ m \in Nodes /\ k \in Nat
    BY <1>4, <1>5, <1>9, <1>14
  <2>2. /\ \A j \in 1 .. k : down'[m][j] = down[m][j]
        /\ IF IsNewer(Server, p) THEN Len(down'[m]) = k + 1 /\ down'[m][k + 1] = p
           ELSE Len(down'[m]) = k
    BY <1>10
  <2> HIDE DEF k
  <2>3. \A r \in Packets : Ready(m, r) => Ready(m, r)'
    BY <1>9, <2>1
  <2>4. ASSUME q \in Packets, i \in Nat, i <= k + 1, Expected(m, q, i)
        PROVE  Expected(m, q, i)'
    <3>1. i .. i - 1 = {} /\ \A j \in 1 .. i - 1 : j \in 1 .. k
      BY <2>1, <2>4, SMT
    <3>2. QED BY <2>2, <2>3, <2>4, <3>1, ExpectedExtends
  <2>5. IsNewer(Server, p) => Expected(m, p, k + 1)
    BY <1>2, <1>3, <1>6, <2>1, DownFlowHere DEF k
  <2>6. (i \in 1 .. Len(down'[m]) /\ q = down'[m][i]) => Expected(m, q, i)'
    <3>1. SUFFICES ASSUME i \in 1 .. Len(down'[m]), q = down'[m][i]
                   PROVE  Expected(m, q, i)'
      OBVIOUS
    <3>2. i \in Nat /\ q \in Packets
      <4>1. down'[m] \in Seq(Packets)
        BY <1>10
      <4>2. QED BY <3>1, <4>1, SMT
    <3>3. CASE i \in 1 .. k
      <4>1. q = down[m][i] /\ i <= k + 1
        BY <2>1, <2>2, <3>1, <3>3, SMT
      <4>2. Expected(m, q, i)
        BY <1>2, <2>1, <3>3, <4>1, DownFlowHere DEF k
      <4>3. QED BY <2>4, <3>2, <4>1, <4>2
    <3>4. CASE i \notin 1 .. k
      <4>1. IsNewer(Server, p) /\ i = k + 1
        BY <2>1, <2>2, <3>1, <3>4, SMT
      <4>2. q = p /\ Expected(m, q, i) /\ i <= k + 1
        BY <2>1, <2>2, <2>5, <3>1, <4>1, SMT
      <4>3. QED BY <2>4, <3>2, <4>2
    <3>5. QED BY <3>3, <3>4
  <2>7. ASSUME i = Len(down'[m]) + 1, NEW d \in Clients, up'[d] # <<>>,
               q = up'[d][1], IsNewer(Server, q)'
        PROVE  Expected(m, q, i)'
    <3>1. /\ q \in Packets
          /\ \/ d # c /\ up[d] # <<>> /\ q = up[d][1] /\ q.sender # c
             \/ q.index = 1
             \/ Follows(p, q)
      BY <1>12, <2>7
    <3>2. IsNewer(Server, q)
      BY <1>4, <1>9, <2>7, <3>1
    <3>3. CASE d # c /\ up[d] # <<>> /\ q = up[d][1] /\ q.sender # c
      <4>1. Expected(m, q, k + 1)
        BY <1>2, <2>1, <3>2, <3>3, DownFlowHere DEF k
      <4>2. CASE ~ IsNewer(Server, p)
        <5>1. i = k + 1 /\ i \in Nat /\ i <= k + 1
          BY <2>1, <2>2, <2>7, <4>2, SMT
        <5>2. QED BY <2>4, <3>1, <4>1, <5>1
      <4>3. CASE IsNewer(Server, p)
        <5>1. /\ i = k + 2 /\ k + 1 \in Nat /\ i \in Nat /\ k + 1 <= i /\ (k + 1) - 1 = k
              /\ k + 1 .. i - 1 = {k + 1}
          BY <2>1, <2>2, <2>7, <4>3, SMT
        <5>2. \A j \in k + 1 .. i - 1 : down'[m][j].sender # q.sender
          BY <1>7, <2>2, <3>3, <4>3, <5>1
        <5>3. QED BY <2>2, <2>3, <3>1, <4>1, <5>1, <5>2, ExpectedExtends
      <4>4. QED BY <4>2, <4>3
    <3>4. CASE q.index = 1
      BY <3>4 DEF Expected
    <3>5. CASE Follows(p, q)
      <4>1. IsNewer(Server, p)
        BY <3>2, <3>5, NewerAlike
      <4>2. PICK j : j = k + 1
        OBVIOUS
      <4>3. j \in 1 .. i - 1 /\ j + 1 .. i - 1 = {}
        BY <2>1, <2>2, <2>7, <4>1, <4>2, SMT
      <4>4. Follows(down[m][j], q)'
        BY <2>2, <3>5, <4>1, <4>2 DEF Follows
      <4>5. QED BY <4>3, <4>4 DEF Expected
    <3>6. QED BY <3>1, <3>3, <3>4, <3>5
  <2>8. QED BY <2>6, <2>7
<1>15. DownFlow'
  BY <1>14, DownFlowNext
<1>16. Untorn'
  <2>1. spoiled' # Nodes => spoiled # Nodes
    BY <1>2, <1>9 DEF TypeOK
  <2>2. ASSUME spoiled' # Nodes, NEW d \in Clients PROVE Whole(up'[d]) /\ Whole(down'[d])
    <3>1. Whole(up[c]) /\ Whole(up[d]) /\ Whole(down[d])
      BY <1>2, <2>1, <2>2 DEF Untorn
    <3>2. Whole(up'[d]) /\ p.text \in Texts
      BY <1>6, <3>1
    <3>3. Whole(down'[d])
      <4>1. CASE down' = down
        BY <3>1, <4>1
      <4>2. CASE down' = [m \in Clients |-> down[m] \o <<p>>]
        <5>1. <<p>> \in Seq(Packets) /\ Len(<<p>>) = 1 /\ <<p>>[1] = p /\ 1 .. 1 = {1}
          BY <1>6, SMT
        <5>2. Whole(<<p>>)
          BY <3>2, <5>1 DEF Whole
        <5>3. down'[d] = down[d] \o <<p>> /\ down[d] \in Seq(Packets)
          BY <1>5, <4>2
        <5>4. QED BY <3>1, <5>1, <5>2, <5>3, WholeConcat
      <4>3. QED BY <1>3, <4>1, <4>2
    <3>4. QED BY <3>2, <3>3
  <2>3. QED BY <1>9, <2>2 DEF Untorn, Whole
<1>17. QED BY <1>9, <1>11, <1>13, <1>15, <1>16 DEF Basis
-----------------------------------------------------------------------------
(* How often texts are sent.                                               *)

LEMMA NodesFinite == IsFiniteSet(Nodes) /\ Server \in Nodes
BY NodesAssumption, FS_AddElement DEF Nodes

(* Some clock was started last.                                            *)
LEMMA LastStart ==
  ASSUME NEW f \in [Nodes -> Int]
  PROVE  Max({f[n] : n \in Nodes}) \in Int
<1> DEFINE HasLast(T) == \E m \in T : \A n \in T : f[m] >= f[n]
           Bad == {T \in SUBSET Nodes : T # {} /\ ~ HasLast(T)}
           R == StrictSubsetOrdering(Nodes)
<1>1. Bad = {}
  <2>1. SUFFICES ASSUME Bad # {} PROVE FALSE
    OBVIOUS
  <2>2. IsWellFoundedOn(R, SUBSET Nodes)
    BY NodesFinite, FS_StrictSubsetOrderingWellFounded, FS_FiniteSubsetsOfFinite
  <2>3. Bad \subseteq SUBSET Nodes
    OBVIOUS
  <2>4. PICK T \in Bad : \A U \in Bad : ~ (<<U, T>> \in R)
    <3> HIDE DEF Bad, R
    <3>1. QED BY <2>1, <2>2, <2>3, WFMin
  <2>5. T \subseteq Nodes /\ T # {} /\ ~ HasLast(T)
    OBVIOUS
  <2>6. PICK n \in T : TRUE
    BY <2>5
  <2>7. CASE T \ {n} = {}
    <3>1. T = {n} /\ f[n] \in Int
      BY <2>5, <2>7
    <3>2. f[n] >= f[n]
      BY <3>1, SMT
    <3>3. QED BY <2>5, <3>1, <3>2
  <2>8. CASE T \ {n} # {}
    <3>1. <<T \ {n}, T>> \in R
      BY <2>5 DEF StrictSubsetOrdering
    <3>2. HasLast(T \ {n})
      BY <2>4, <2>5, <2>8, <3>1
    <3>3. PICK m \in T \ {n} : \A k \in T \ {n} : f[m] >= f[k]
      BY <3>2
    <3>4. \A k \in T : f[k] \in Int
      BY <2>5
    <3>5. CASE f[m] >= f[n]
      <4>1. \A k \in T : f[m] >= f[k]
        BY <3>3, <3>5
      <4>2. QED BY <2>5, <4>1
    <3>6. CASE ~ (f[m] >= f[n])
      <4>1. \A k \in T : f[n] >= f[k]
        BY <3>3, <3>4, <3>6, SMT
      <4>2. QED BY <2>5, <4>1
    <3>7. QED BY <3>5, <3>6
  <2>9. QED BY <2>7, <2>8
<1>2. Nodes # {}
  BY DEF Nodes
<1>3. PICK m \in Nodes : \A n \in Nodes : f[m] >= f[n]
  BY <1>1, <1>2
<1>4. \E x \in {f[n] : n \in Nodes} : \A y \in {f[n] : n \in Nodes} : x >= y
  BY <1>3
<1>5. Max({f[n] : n \in Nodes}) \in {f[n] : n \in Nodes}
  <2> DEFINE S == {f[n] : n \in Nodes}
  <2>1. \E x \in S : \A y \in S : x >= y
    BY <1>4
  <2> HIDE DEF S
  <2>2. Max(S) \in S
    BY <2>1 DEF Max
  <2>3. QED BY <2>2 DEF S
<1>6. QED BY <1>5

(* One more to send, and one more change to send it for.                   *)
LEMMA OneMore ==
  ASSUME NEW n \in Int, NEW m \in Int, NEW u \in Int, NEW v \in Int,
         NEW a \in Int, NEW b \in Int, NEW c \in Int, NEW d \in Int,
         v <= u + 1, n + u <= 1 + m + a + b, c + d = a + b + 1
  PROVE  n + v <= 1 + m + c + d
BY SMT

LEMMA CountedNext ==
  ASSUME TypeOK, Counted, [Next]_vars
  PROVE  Counted'
<1> DEFINE last == Max({start[n] : n \in Nodes})
<1>1. /\ now \in Int /\ copies \in Nat /\ altered \in Nat /\ last \in Int
      /\ Cardinality(Unpolled) \in Nat
      /\ now + Cardinality(Unpolled) <= 1 + last + copies + altered
  <2>1. start \in [Nodes -> Int]
    BY StartsAssumption DEF TypeOK
  <2>2. last \in Int
    BY <2>1, LastStart
  <2>3. now \in Int /\ copies \in Nat /\ altered \in Nat
    BY SMT, BoundsAssumption DEF TypeOK
  <2>4. QED BY <2>2, <2>3 DEF Counted
<1>2. IsFiniteSet(Unpolled) /\ IsFiniteSet(Unpolled')
  BY NodesFinite, FS_Subset DEF Unpolled
<1>3. start' = start => last' = last
  OBVIOUS
<1> HIDE DEF last
<1>4. (/\ start' = start /\ now' = now /\ copies' = copies /\ altered' = altered
       /\ Unpolled' \subseteq Unpolled) => Counted'
  <2>1. SUFFICES ASSUME start' = start, now' = now, copies' = copies, altered' = altered,
                        Unpolled' \subseteq Unpolled
                 PROVE  Counted'
    OBVIOUS
  <2>2. Cardinality(Unpolled') \in Nat /\ Cardinality(Unpolled') <= Cardinality(Unpolled)
    BY <1>2, <2>1, FS_Subset, FS_CardinalityType
  <2>3. now' + Cardinality(Unpolled') <= 1 + last' + copies' + altered'
    BY <1>1, <1>3, <2>1, <2>2, SMT
  <2>4. QED BY <2>2, <2>3 DEF Counted, last
<1>5. /\ clip \in [Nodes -> Seq(Payloads)] /\ seen \in [Nodes -> Seq(Payloads)]
  BY DEF TypeOK
<1>6. ASSUME NEW n \in Nodes, start' = start, now' = now,
             copies' + altered' = copies + altered + 1,
             \A m \in Nodes \ {n} : clip'[m] = clip[m] /\ seen'[m] = seen[m],
             copies' \in Nat, altered' \in Nat
      PROVE  Counted'
  <2>1. Unpolled' \subseteq Unpolled \cup {n}
    BY <1>6 DEF Unpolled
  <2>2. /\ IsFiniteSet(Unpolled \cup {n})
        /\ Cardinality(Unpolled \cup {n}) <= Cardinality(Unpolled) + 1
        /\ Cardinality(Unpolled \cup {n}) \in Nat
    <3>1. IsFiniteSet(Unpolled \cup {n})
      BY <1>2, FS_AddElement
    <3>2. Cardinality(Unpolled \cup {n}) =
            IF n \in Unpolled THEN Cardinality(Unpolled) ELSE Cardinality(Unpolled) + 1
      BY <1>2, FS_AddElement
    <3>3. QED BY <1>1, <3>1, <3>2, FS_CardinalityType, SMT
  <2>3. /\ Cardinality(Unpolled') \in Nat
        /\ Cardinality(Unpolled') <= Cardinality(Unpolled \cup {n})
    BY <1>2, <2>1, <2>2, FS_Subset, FS_CardinalityType
  <2>4. now' + Cardinality(Unpolled') <= 1 + last' + copies' + altered'
    <3> DEFINE u == Cardinality(Unpolled)
               v == Cardinality(Unpolled')
    <3>1. /\ now \in Int /\ last \in Int /\ u \in Int /\ v \in Int
          /\ copies \in Int /\ altered \in Int /\ copies' \in Int /\ altered' \in Int
          /\ v <= u + 1 /\ now + u <= 1 + last + copies + altered
      BY <1>1, <1>6, <2>2, <2>3, SMT
    <3>2. now' = now /\ last' = last /\ copies' + altered' = copies + altered + 1
      BY <1>3, <1>6
    <3> HIDE DEF u, v
    <3>3. now + v <= 1 + last + copies' + altered'
      BY <3>1, <3>2, OneMore
    <3>4. now' + v <= 1 + last' + copies' + altered'
      BY <3>2, <3>3
    <3>5. QED BY <3>4 DEF v
  <2>5. QED BY <2>3, <2>4 DEF Counted, last
<1>7. ASSUME NEW n \in Nodes, Poll(n) PROVE Counted'
  <2>1. /\ start' = start /\ now' = now + 1 /\ copies' = copies /\ altered' = altered
        /\ clip' = clip /\ seen' = [seen EXCEPT ![n] = clip[n]] /\ clip[n] # seen[n]
    BY <1>7 DEF Poll, setup, counts
  <2>2. seen'[n] = clip[n] /\ \A m \in Nodes \ {n} : seen'[m] = seen[m]
    BY <1>5, <2>1
  <2>3. Unpolled' = Unpolled \ {n} /\ n \in Unpolled
    BY <2>1, <2>2 DEF Unpolled
  <2>4. Cardinality(Unpolled') = Cardinality(Unpolled) - 1 /\ Cardinality(Unpolled') \in Nat
    BY <1>2, <2>3, FS_RemoveElement, FS_CardinalityType
  <2>5. now' + Cardinality(Unpolled') <= 1 + last' + copies' + altered'
    BY <1>1, <1>3, <2>1, <2>4, SMT
  <2>6. QED BY <2>4, <2>5 DEF Counted, last
<1>8. ASSUME NEW n \in Nodes, NEW p, Handles(n, p), UNCHANGED <<start, now, copies>>
      PROVE  Counted'
  <2>1. \/ UNCHANGED <<clip, seen, altered>>
        \/ SetText(n, Appended(n, p))
    BY <1>8 DEF Handles, Take, Ignore
  <2>2. CASE UNCHANGED <<clip, seen, altered>>
    BY <1>4, <1>8, <2>2 DEF Unpolled
  <2>3. CASE SetText(n, Appended(n, p))
    <3> DEFINE a == Appended(n, p)
    <3>1. \A m \in Nodes \ {n} : clip'[m] = clip[m] /\ seen'[m] = seen[m]
      BY <1>5, <2>3 DEF SetText
    <3>2. \/ clip'[n] = clip[n] /\ seen'[n] = seen[n] /\ altered' = altered
          \/ clip'[n] = seen'[n] /\ altered' = altered
          \/ altered' = altered + 1
      BY <1>5, <2>3 DEF SetText
    <3>3. CASE altered' = altered
      <4>1. \/ clip'[n] = clip[n] /\ seen'[n] = seen[n]
            \/ clip'[n] = seen'[n]
        BY <1>1, <3>2, <3>3, SMT
      <4>2. Unpolled' \subseteq Unpolled
        BY <3>1, <4>1 DEF Unpolled
      <4>3. QED BY <1>4, <1>8, <3>3, <4>2
    <3>4. CASE altered' = altered + 1
      <4>1. /\ copies' + altered' = copies + altered + 1
            /\ copies' \in Nat /\ altered' \in Nat
        BY <1>1, <1>8, <3>4, SMT
      <4>2. QED BY <1>6, <1>8, <3>1, <4>1
    <3>5. QED BY <3>2, <3>3, <3>4
  <2>4. QED BY <2>1, <2>2, <2>3
<1>9. ASSUME NEW c \in Clients, ServerReceives(c) PROVE Counted'
  <2>1. /\ Handles(Server, Head(up[c])) /\ UNCHANGED <<start, now, copies>>
    BY <1>9 DEF ServerReceives, Handles, setup
  <2>2. QED BY <1>8, <2>1, NodesFinite
<1>10. ASSUME NEW c \in Clients, ClientReceives(c) PROVE Counted'
  <2>1. /\ Handles(c, Head(down[c])) /\ UNCHANGED <<start, now, copies>>
    BY <1>10 DEF ClientReceives, Handles, setup
  <2>2. QED BY <1>8, <2>1 DEF Nodes
<1>11. ASSUME NEW c \in Clients, DropChunk(c) PROVE Counted'
  BY <1>4, <1>11 DEF DropChunk, setup, Unpolled
<1>12. ASSUME NEW n \in Nodes, NEW p \in Nodes, Prune(n, p) PROVE Counted'
  BY <1>4, <1>12 DEF Prune, setup, Unpolled
<1>13. CASE UNCHANGED vars
  BY <1>4, <1>13 DEF vars, setup, counts, Unpolled
<1>14. ASSUME NEW n \in Nodes, Copy(n) PROVE Counted'
  <2>1. /\ start' = start /\ now' = now /\ copies' = copies + 1 /\ altered' = altered
        /\ \A m \in Nodes \ {n} : clip'[m] = clip[m] /\ seen'[m] = seen[m]
    BY <1>5, <1>14 DEF Copy, setup
  <2>2. /\ copies' + altered' = copies + altered + 1
        /\ copies' \in Nat /\ altered' \in Nat
    BY <1>1, <2>1, SMT
  <2>3. QED BY <1>6, <2>1, <2>2
<1>15. QED BY <1>7, <1>9, <1>10, <1>11, <1>12, <1>13, <1>14 DEF Next
-----------------------------------------------------------------------------
(* Agreement, for clocks that agree and a server that no fault has struck. *)

LEMMA AgreedTimes ==
  ASSUME TypeOK, ClocksAgree
  PROVE  /\ Latest \in Int /\ now \in Int
         /\ \A n \in Nodes :
              /\ stamp[n] \in Int /\ now - start[n] = Latest + 1
              /\ \A p \in Packets :
                   AdjustedTimestamp(n, p) = p.time /\ (IsNewer(n, p) <=> p.time > stamp[n])
<1>1. start \in [Nodes -> Int] /\ now \in Int /\ stamp \in [Nodes -> Int]
  BY StartsAssumption DEF TypeOK
<1>2. Server \in Nodes
  BY NodesFinite
<1>3. ASSUME NEW n \in Nodes
      PROVE  /\ now - start[n] = Latest + 1
             /\ \A p \in Packets : AdjustedTimestamp(n, p) = p.time
  <2>1. start[n] = start[Server] /\ start[n] \in Int
    BY <1>1, <1>2 DEF ClocksAgree
  <2>2. now - start[n] = Latest + 1
    BY <1>1, <2>1, SMT DEF Latest
  <2>3. ASSUME NEW p \in Packets PROVE AdjustedTimestamp(n, p) = p.time
    <3>1. p.sender \in Nodes /\ p.time \in Int
      BY PacketTypes
    <3>2. start[p.sender] = start[n] /\ start[p.sender] \in Int
      BY <1>1, <3>1 DEF ClocksAgree
    <3>3. QED BY <2>1, <3>1, <3>2, SMT DEF AdjustedTimestamp
  <2>4. QED BY <2>2, <2>3
<1>4. Latest \in Int
  BY <1>1, <1>2, SMT DEF Latest
<1>5. QED BY <1>1, <1>3, <1>4 DEF IsNewer

Agreed(text, newest) == Agreement(text, newest) /\ CalmInv(text, newest)

Functions == [Int -> Seq(Payloads)]

LEMMA CopyAgreed ==
  ASSUME TypeOK, NEW text \in Functions, NEW newest \in Int, Agreed(text, newest),
         NEW n \in Nodes, Copy(n)
  PROVE  Agreed(text, newest)'
<1>1. PICK x \in Texts \ {clip[n]} :
        /\ calm' = IF AtRest THEN {x} ELSE {}
        /\ clip' = [clip EXCEPT ![n] = x]
  BY DEF Copy
<1>2. UNCHANGED <<machine, start, measured, now, seen, stamp, buffer, up, down, served, spoiled>>
  BY DEF Copy, setup, streams
<1>3. Agreement(text, newest) /\ CalmInv(text, newest)
  BY DEF Agreed
<1>4. Agreement(text, newest)'
  BY <1>1, <1>2, <1>3 DEF Agreement, HeadsFor, Known, Latest, IsLast
<1>5. CalmInv(text, newest)'
  <2>1. SUFFICES ASSUME AtRest PROVE calm' = {x} /\ AboutToSend(x)'
    BY <1>1 DEF CalmInv, CalmKept
  <2>2. clip'[n] = x /\ \A m \in Nodes \ {n} : clip'[m] = clip[m]
    BY <1>1 DEF TypeOK
  <2>3. x # seen[n]
    BY <1>1, <2>1 DEF AtRest
  <2>4. QED BY <1>1, <1>2, <2>1, <2>2, <2>3 DEF AtRest, AboutToSend
<1>6. QED BY <1>4, <1>5 DEF Agreed

LEMMA DropAgreed ==
  ASSUME TypeOK, NEW text \in Functions, NEW newest \in Int, Agreed(text, newest),
         NEW c \in Clients, DropChunk(c)
  PROVE  Agreed(text, newest)'
<1>1. /\ down[c] # <<>> /\ down' = [down EXCEPT ![c] = Tail(@)]
      /\ spoiled' = spoiled \cup {c}
      /\ UNCHANGED <<machine, start, measured, now, clip, seen, stamp, up, served, calm>>
  BY DEF DropChunk, Strikes, setup
<1>2. Agreement(text, newest) /\ CalmInv(text, newest)
  BY DEF Agreed
<1>3. /\ down[c] \in Seq(Packets)
      /\ \A d \in Clients : d # c => down'[d] = down[d]
      /\ down'[c] = Tail(down[c])
  BY <1>1 DEF TypeOK
<1>4. /\ Len(down[c]) \in Nat \ {0} /\ Len(down'[c]) = Len(down[c]) - 1
      /\ \A i \in 1 .. Len(down[c]) - 1 : down'[c][i] = down[c][i + 1]
  BY <1>1, <1>3, HeadTail
<1>5. ASSUME NEW d \in Clients, NEW i \in 1 .. Len(down'[d])
      PROVE  Known(text, down[d][i])'
  <2>1. CASE d # c
    BY <1>1, <1>2, <1>3, <1>5, <2>1 DEF Agreement, Known, Latest
  <2>2. CASE d = c
    <3>1. i \in 1 .. Len(down[c]) - 1 /\ i + 1 \in 1 .. Len(down[c])
      BY <1>4, <1>5, <2>2, SMT
    <3>2. QED BY <1>1, <1>2, <1>4, <2>2, <3>1 DEF Agreement, Known, Latest
  <2>3. QED BY <2>1, <2>2
<1>6. \A d \in Clients \ spoiled' : d \in Clients \ spoiled /\ d # c
  BY <1>1
<1>7. \A d \in Clients \ spoiled' : HeadsFor(text, newest, d)'
  BY <1>1, <1>2, <1>3, <1>6 DEF Agreement, HeadsFor, IsLast
<1>8. Agreement(text, newest)'
  BY <1>1, <1>2, <1>5, <1>7 DEF Agreement, Known, Latest
<1>9. CalmKept' <=> CalmKept
  BY <1>1 DEF CalmKept, KeptByAll, ReadBack
<1>10. ASSUME NEW x, Spreading(text, newest, x) PROVE Spreading(text, newest, x)'
  <2>1. ASSUME NEW d \in Clients, NEW i \in 1 .. Len(down'[d])
        PROVE  down'[d][i].time = Latest
    <3>1. CASE d # c
      BY <1>3, <1>10, <2>1, <3>1 DEF Spreading
    <3>2. CASE d = c
      <4>1. i \in 1 .. Len(down[c]) - 1 /\ i + 1 \in 1 .. Len(down[c])
        BY <1>4, <2>1, <3>2, SMT
      <4>2. QED BY <1>4, <1>10, <3>2, <4>1 DEF Spreading
    <3>3. QED BY <3>1, <3>2
  <2>2. QED BY <1>1, <1>10, <2>1 DEF Spreading, IsLast, Latest
<1>11. \A x : ~ AboutToSend(x)
  BY <1>1 DEF AboutToSend
<1>12. CalmInv(text, newest)'
  BY <1>1, <1>2, <1>9, <1>10, <1>11 DEF CalmInv
<1>13. QED BY <1>8, <1>12 DEF Agreed

LEMMA PruneAgreed ==
  ASSUME TypeOK, NEW text \in Functions, NEW newest \in Int, Agreed(text, newest),
         NEW n \in Nodes, NEW p \in Nodes, Prune(n, p)
  PROVE  Agreed(text, newest)'
<1>1. /\ spoiled' = spoiled \cup {n}
      /\ UNCHANGED <<machine, start, measured, now, clip, seen, stamp, up, down, served, calm>>
  BY DEF Prune, Strikes, setup, streams
<1>2. Agreement(text, newest) /\ CalmInv(text, newest)
  BY DEF Agreed
<1>3. Agreement(text, newest)'
  BY <1>1, <1>2 DEF Agreement, HeadsFor, Known, Latest, IsLast
<1>4. CalmKept' <=> CalmKept
  BY <1>1 DEF CalmKept, KeptByAll, ReadBack
<1>5. CalmInv(text, newest)'
  BY <1>1, <1>2, <1>4 DEF CalmInv, AboutToSend, Spreading, IsLast, Latest
<1>6. QED BY <1>3, <1>5 DEF Agreed

(* A text is sent: it is the newest that there is.                         *)
LEMMA PollAgreed ==
  ASSUME Basis, ClocksAgree, NEW text \in Functions, NEW newest \in Int,
         Agreed(text, newest), NEW n \in Nodes, Poll(n)
  PROVE  \E text2 \in Functions, newest2 \in Int : Agreed(text2, newest2)'
<1> DEFINE t == clip[n]
           new == Chunks(n, t)
<1>1. /\ clip[n] # seen[n] /\ seen' = [seen EXCEPT ![n] = clip[n]] /\ now' = now + 1
      /\ IF n = Server THEN down' = [c \in Clients |-> down[c] \o new] /\ UNCHANGED up
         ELSE up' = [up EXCEPT ![n] = @ \o new] /\ UNCHANGED down
      /\ served' = IF n = Server THEN served \cup {clip[n]} ELSE served
      /\ UNCHANGED <<machine, start, measured, clip, stamp, spoiled, calm>>
  BY DEF Poll, Broadcast, setup
<1>2. TypeOK /\ Agreement(text, newest) /\ CalmInv(text, newest)
  BY DEF Basis, Agreed
<1>3. PICK x : x = clip[n] /\ x \in Seq(Payloads)
  BY <1>2 DEF TypeOK
<1>4. PICK time : time = Latest + 1 /\ Latest \in Int /\ time \in Int
  BY <1>2, AgreedTimes, SMT
<1>5. now - start[n] = time /\ \A m \in Nodes : stamp[m] \in Int
  BY <1>2, <1>4, AgreedTimes
<1>6. Latest' = time
  <2>1. start[Server] \in Int /\ now \in Int
    BY <1>2, NodesFinite, TimesTypes, StartsAssumption DEF TypeOK
  <2>2. QED BY <1>1, <1>4, <2>1, SMT DEF Latest
<1>7. /\ new \in Seq(Packets) /\ Len(new) = Total(x) /\ Total(x) \in Nat \ {0}
      /\ \A i \in 1 .. Total(x) :
           new[i].time = time /\ new[i].text = x /\ new[i].index = i
  BY <1>2, <1>3, <1>5, ChunksTypes, TextTypes
<1> HIDE DEF new, t
<1>8. PICK text2 \in Functions :
        text2[time] = x /\ \A k \in Int : k <= Latest => text2[k] = text[k]
  <2>1. [text EXCEPT ![time] = x] \in Functions
    BY <1>3, <1>4 DEF Functions
  <2>2. [text EXCEPT ![time] = x][time] = x
    BY <1>4 DEF Functions
  <2>3. \A k \in Int : k <= Latest => [text EXCEPT ![time] = x][k] = text[k]
    BY <1>4, SMT DEF Functions
  <2>4. QED BY <2>1, <2>2, <2>3
<1>9. /\ up \in [Clients -> Seq(Packets)] /\ down \in [Clients -> Seq(Packets)]
      /\ seen'[n] = x /\ \A m \in Nodes \ {n} : seen'[m] = seen[m]
  BY <1>1, <1>2, <1>3 DEF TypeOK
<1>10. \A q \in Packets : Known(text, q) => q.time <= time /\ text2[q.time] = q.text
  <2>1. TAKE q \in Packets
  <2>2. q.time \in Int
    BY PacketTypes
  <2>3. QED BY <1>4, <1>8, <2>2, SMT DEF Known
<1>11. \A m \in Nodes : stamp[m] <= Latest /\ stamp[m] < time
  BY <1>2, <1>4, <1>5, SMT DEF Agreement
<1>12. newest <= Latest /\ newest < time /\ text2[newest] = text[newest]
  BY <1>2, <1>4, <1>8, SMT DEF Agreement
<1>13. \A s \in Seq(Packets) :
         (\A i \in 1 .. Len(s) : Known(text, s[i])) =>
           \A i \in 1 .. Len(s \o new) :
             (s \o new)[i].time <= time /\ text2[(s \o new)[i].time] = (s \o new)[i].text
  <2>1. TAKE s \in Seq(Packets)
  <2>2. HAVE \A i \in 1 .. Len(s) : Known(text, s[i])
  <2>3. TAKE i \in 1 .. Len(s \o new)
  <2>4. CASE i \in 1 .. Len(s)
    <3>1. (s \o new)[i] = s[i] /\ s[i] \in Packets
      BY <1>7, <2>4, InConcat
    <3>2. QED BY <1>10, <2>2, <2>4, <3>1
  <2>5. CASE \E j \in 1 .. Len(new) : i = Len(s) + j
    <3>1. PICK j \in 1 .. Total(x) : (s \o new)[i] = new[j]
      BY <1>7, <2>5, InConcat
    <3>2. time <= time
      BY <1>4, SMT
    <3>3. QED BY <1>7, <1>8, <3>1, <3>2
  <2>6. QED BY <1>7, <2>4, <2>5, InConcat
<1>14. \A s \in Seq(Packets) :
         \E i \in 1 .. Len(s \o new) : IsLast((s \o new)[i]) /\ (s \o new)[i].time = time
  <2>1. TAKE s \in Seq(Packets)
  <2>2. Total(x) \in 1 .. Total(x) /\ Len(s) \in Nat
    BY <1>7, SMT
  <2>3. (s \o new)[Len(s) + Total(x)] = new[Total(x)]
    BY <1>7, <2>2, InConcat
  <2>4. Len(s) + Total(x) \in 1 .. Len(s \o new)
    <3>1. Len(s \o new) = Len(s) + Len(new)
      BY <1>7, InConcat
    <3>2. QED BY <1>7, <2>2, <3>1, SMT
  <2>5. IsLast(new[Total(x)]) /\ new[Total(x)].time = time
    BY <1>7, <2>2 DEF IsLast
  <2>6. QED BY <2>3, <2>4, <2>5
<1>15. CalmKept =>
         /\ calm = {x} /\ x \in Texts
         /\ \A c \in Clients : up[c] = <<>> /\ down[c] = <<>>
         /\ \A m \in Nodes \ {n} : clip[m] = seen[m]
  <2>1. SUFFICES ASSUME CalmKept
                 PROVE  /\ calm = {x} /\ x \in Texts
                        /\ \A c \in Clients : up[c] = <<>> /\ down[c] = <<>>
                        /\ \A m \in Nodes \ {n} : clip[m] = seen[m]
    OBVIOUS
  <2>2. PICK y \in Texts :
          calm = {y} /\ (AboutToSend(y) \/ Spreading(text, newest, y))
    BY <1>2, <2>1 DEF CalmInv
  <2>3. AboutToSend(y)
    BY <1>1, <2>2 DEF Spreading
  <2>4. PICK m \in Nodes :
          clip[m] = y /\ clip[m] # seen[m] /\ \A k \in Nodes \ {m} : clip[k] = seen[k]
    BY <2>3 DEF AboutToSend
  <2>5. m = n
    BY <1>1, <2>4
  <2>6. QED BY <1>3, <2>2, <2>3, <2>4, <2>5 DEF AboutToSend
<1>16. ASSUME CalmKept
       PROVE  /\ \A m \in Nodes : clip'[m] = seen'[m]
              /\ text2[Latest'] = x
              /\ \A c \in Clients :
                   /\ \A i \in 1 .. Len(up'[c]) : up'[c][i].time = Latest'
                   /\ \A i \in 1 .. Len(down'[c]) : down'[c][i].time = Latest'
  <2>1. \A m \in Nodes : clip'[m] = seen'[m]
    BY <1>1, <1>3, <1>9, <1>15, <1>16
  <2>2. ASSUME NEW c \in Clients, NEW i \in 1 .. Len(up'[c]) PROVE up'[c][i].time = time
    <3>1. Len(<<>>) = 0 /\ 1 .. 0 = {}
      BY SMT
    <3>2. n # Server /\ c = n
      BY <1>1, <1>9, <1>15, <1>16, <2>2, <3>1
    <3>3. up'[c] = <<>> \o new /\ <<>> \o new = new
      BY <1>1, <1>7, <1>9, <1>15, <1>16, <3>2, ConcatEmptySeq
    <3>4. QED BY <1>7, <2>2, <3>3
  <2>3. ASSUME NEW c \in Clients, NEW i \in 1 .. Len(down'[c])
        PROVE  down'[c][i].time = time
    <3>1. Len(<<>>) = 0 /\ 1 .. 0 = {}
      BY SMT
    <3>2. down[c] = <<>>
      BY <1>15, <1>16
    <3>3. n = Server
      BY <1>1, <2>3, <3>1, <3>2
    <3>4. down'[c] = <<>> \o new
      BY <1>1, <3>2, <3>3
    <3>5. down'[c] = new
      BY <1>7, <3>4, ConcatEmptySeq
    <3>6. QED BY <1>7, <2>3, <3>5
  <2>4. QED BY <1>6, <1>8, <2>1, <2>2, <2>3
<1>17. CalmKept' => CalmKept
  BY <1>1 DEF CalmKept, KeptByAll, ReadBack
<1>18. CASE n = Server
  <2>1. down' = [c \in Clients |-> down[c] \o new] /\ UNCHANGED up
    BY <1>1, <1>18
  <2>2. text2[time] \in served'
    BY <1>1, <1>3, <1>8, <1>18
  <2>3. ASSUME NEW c \in Clients
        PROVE  /\ \A i \in 1 .. Len(up'[c]) : Known(text2, up[c][i])'
               /\ \A i \in 1 .. Len(down'[c]) : Known(text2, down[c][i])'
    <3>1. /\ \A i \in 1 .. Len(up[c]) : up[c][i] \in Packets /\ Known(text, up[c][i])
          /\ \A i \in 1 .. Len(down[c]) : Known(text, down[c][i])
          /\ down[c] \in Seq(Packets)
      BY <1>2, <1>9 DEF Agreement
    <3>2. \A i \in 1 .. Len(up'[c]) : Known(text2, up[c][i])'
      BY <1>6, <1>10, <2>1, <3>1 DEF Known
    <3>3. down'[c] = down[c] \o new
      BY <2>1
    <3>4. QED BY <1>6, <1>13, <3>1, <3>2, <3>3 DEF Known
  <2>4. ASSUME NEW c \in Clients, c \notin spoiled' PROVE HeadsFor(text2, time, c)'
    <3>1. HeadsFor(text, newest, c) /\ down[c] \in Seq(Packets) /\ down'[c] = down[c] \o new
      BY <1>1, <1>2, <1>9, <2>1, <2>4 DEF Agreement
    <3>2. stamp'[c] <= time /\ stamp'[c] < time
      <4>1. c \in Nodes
        BY DEF Nodes
      <4>2. QED BY <1>1, <1>4, <1>5, <1>11, <4>1, SMT
    <3>3. \A i \in 1 .. Len(down'[c]) : down'[c][i].time <= time
      BY <1>2, <1>13, <3>1 DEF Agreement
    <3>4. \E i \in 1 .. Len(down'[c]) : IsLast(down'[c][i]) /\ down'[c][i].time = time
      BY <1>14, <3>1
    <3>5. QED BY <3>2, <3>3, <3>4 DEF HeadsFor, IsLast
  <2>5. Agreement(text2, time)'
    <3>1. time <= Latest' /\ stamp'[Server] <= time
      BY <1>1, <1>4, <1>5, <1>6, <1>11, NodesFinite, SMT
    <3>2. \A m \in Nodes : stamp'[m] <= Latest'
      BY <1>1, <1>4, <1>5, <1>6, <1>11, SMT
    <3>3. QED BY <2>2, <2>3, <2>4, <3>1, <3>2 DEF Agreement
  <2>6. CalmInv(text2, time)'
    <3>1. SUFFICES ASSUME CalmKept PROVE calm' = {x} /\ x \in Texts /\ Spreading(text2, time, x)'
      BY <1>17 DEF CalmInv
    <3>2. time = Latest' /\ seen'[Server] = x
      BY <1>6, <1>9, <1>18
    <3>3. Spreading(text2, time, x)'
      BY <1>16, <3>1, <3>2 DEF Spreading
    <3>4. QED BY <1>1, <1>15, <3>1, <3>3
  <2>7. QED BY <1>4, <2>5, <2>6 DEF Agreed
<1>19. CASE n # Server
  <2>1. n \in Clients /\ up' = [up EXCEPT ![n] = @ \o new] /\ UNCHANGED down
    BY <1>1, <1>19 DEF Nodes
  <2>2. up'[n] = up[n] \o new /\ \A c \in Clients : c # n => up'[c] = up[c]
    BY <1>9, <2>1
  <2>3. ASSUME NEW c \in Clients
        PROVE  /\ \A i \in 1 .. Len(up'[c]) : Known(text2, up[c][i])'
               /\ \A i \in 1 .. Len(down'[c]) : Known(text2, down[c][i])'
    <3>1. /\ \A i \in 1 .. Len(up[c]) : up[c][i] \in Packets /\ Known(text, up[c][i])
          /\ \A i \in 1 .. Len(down[c]) : down[c][i] \in Packets /\ Known(text, down[c][i])
          /\ up[c] \in Seq(Packets)
      BY <1>2, <1>9 DEF Agreement
    <3>2. \A i \in 1 .. Len(down'[c]) : Known(text2, down[c][i])'
      BY <1>6, <1>10, <2>1, <3>1 DEF Known
    <3>3. \A i \in 1 .. Len(up'[c]) : Known(text2, up[c][i])'
      <4>1. CASE c # n
        BY <1>6, <1>10, <2>2, <3>1, <4>1 DEF Known
      <4>2. CASE c = n
        <5> DEFINE s == up[n] \o new
        <5>3. \A i \in 1 .. Len(s) : s[i].time <= time /\ text2[s[i].time] = s[i].text
          BY <1>13, <3>1, <4>2
        <5>4. up'[c] = s
          BY <2>2, <4>2
        <5> HIDE DEF s
        <5>1. \A i \in 1 .. Len(up'[c]) :
                up'[c][i].time <= time /\ text2[up'[c][i].time] = up'[c][i].text
          BY <5>3, <5>4
        <5>2. QED BY <1>6, <5>1 DEF Known
      <4>3. QED BY <4>1, <4>2
    <3>4. QED BY <3>2, <3>3
  <2>4. ASSUME NEW c \in Clients, c \notin spoiled' PROVE HeadsFor(text2, newest, c)'
    <3>1. HeadsFor(text, newest, c)
      BY <1>1, <1>2, <2>4 DEF Agreement
    <3>2. c \in Nodes
      BY DEF Nodes
    <3>3. text2[stamp[c]] = text[stamp[c]]
      BY <1>5, <1>8, <1>11, <3>2
    <3>4. \/ seen'[c] = text2[stamp'[c]]
          \/ stamp'[c] < newest
          \/ \E i \in 1 .. Len(up'[c]) : IsLast(up'[c][i]) /\ up'[c][i].time > stamp'[c]
      <4>1. CASE c # n
        BY <1>1, <1>9, <2>2, <3>1, <3>2, <3>3, <4>1 DEF HeadsFor
      <4>2. CASE c = n
        <5>1. up[n] \in Seq(Packets)
          BY <1>9, <2>1
        <5>2. PICK i \in 1 .. Len(up'[n]) : IsLast(up'[n][i]) /\ up'[n][i].time = time
          BY <1>14, <2>2, <5>1
        <5>3. time > stamp'[n]
          BY <1>1, <1>4, <1>5, <1>11, SMT
        <5>4. QED BY <4>2, <5>2, <5>3
      <4>3. QED BY <4>1, <4>2
    <3>5. QED BY <1>1, <2>1, <3>1, <3>4 DEF HeadsFor, IsLast
  <2>5. Agreement(text2, newest)'
    <3>1. newest <= Latest'
      BY <1>4, <1>6, <1>12, SMT
    <3>2. \A m \in Nodes : stamp'[m] <= Latest'
      BY <1>1, <1>4, <1>5, <1>6, <1>11, SMT
    <3>3. seen'[Server] = seen[Server]
      BY <1>9, <1>19, NodesFinite
    <3>4. /\ stamp'[Server] <= newest
          /\ \/ text2[newest] \in served'
             \/ stamp'[Server] = newest /\ seen'[Server] = text2[newest]
      BY <1>1, <1>2, <1>12, <3>3 DEF Agreement
    <3>5. QED BY <2>3, <2>4, <3>1, <3>2, <3>4 DEF Agreement
  <2>6. CalmInv(text2, newest)'
    <3>1. SUFFICES ASSUME CalmKept
                   PROVE  calm' = {x} /\ x \in Texts /\ Spreading(text2, newest, x)'
      BY <1>17 DEF CalmInv
    <3>2. stamp'[Server] < Latest'
      BY <1>1, <1>6, <1>11, NodesFinite
    <3>3. up[n] \in Seq(Packets)
      BY <1>9, <2>1
    <3>4. \E c \in Clients : \E i \in 1 .. Len(up'[c]) : IsLast(up'[c][i])
      BY <1>14, <2>1, <2>2, <3>3
    <3>5. Spreading(text2, newest, x)'
      BY <1>16, <3>1, <3>2, <3>4 DEF Spreading, IsLast
    <3>6. QED BY <1>1, <1>15, <3>1, <3>5
  <2>7. QED BY <2>5, <2>6 DEF Agreed
<1>20. QED BY <1>18, <1>19
LEMMA ClientAgreed ==
  ASSUME Basis, ClocksAgree, Server \notin spoiled',
         NEW text \in Functions, NEW newest \in Int,
         Agreed(text, newest), NEW c \in Clients, ClientReceives(c)
  PROVE  Agreed(text, newest)'
<1>1. PICK p : p = Head(down[c])
  OBVIOUS
<1>2. /\ TypeOK /\ DownFlow /\ Untorn /\ WholeTexts
      /\ Agreement(text, newest) /\ CalmInv(text, newest)
  BY DEF Basis, Agreed
<1>3. /\ down[c] # <<>> /\ down' = [down EXCEPT ![c] = Tail(@)]
      /\ IF IsNewer(c, p) THEN Take(c, p) ELSE Ignore
      /\ UNCHANGED <<machine, start, measured, now, up, served, calm>>
  BY <1>1 DEF ClientReceives, setup
<1>4. c \in Nodes /\ Server \in Nodes /\ Server # c
  BY NodesAssumption DEF Nodes
<1>5. down[c] \in Seq(Packets)
  BY <1>2 DEF TypeOK
<1> DEFINE l == Len(down[c])
<1>6. /\ p \in Packets /\ p = down[c][1] /\ l \in Nat \ {0}
      /\ Len(down'[c]) = l - 1
      /\ \A i \in 1 .. l - 1 : down'[c][i] = down[c][i + 1]
      /\ \A d \in Clients : d # c => down'[d] = down[d]
  <2>1. down'[c] = Tail(down[c]) /\ \A d \in Clients : d # c => down'[d] = down[d]
    BY <1>2, <1>3 DEF TypeOK
  <2>2. QED BY <1>1, <1>3, <1>5, <2>1, HeadTail
<1>7. p.time \in Int /\ p.time <= Latest /\ text[p.time] = p.text
  <2>1. 1 \in 1 .. l
    BY <1>6, SMT
  <2>2. QED BY <1>2, <1>6, <2>1, PacketTypes DEF Agreement, Known
<1>8. /\ \A m \in Nodes : stamp[m] \in Int
      /\ AdjustedTimestamp(c, p) = p.time /\ (IsNewer(c, p) <=> p.time > stamp[c])
  BY <1>2, <1>4, <1>6, AgreedTimes
<1>9. ASSUME c \notin spoiled, IsNewer(c, p)
      PROVE  IsLast(p) => Appended(c, p) = p.text
  <2>1. Expected(c, p, 1)
    <3>1. 1 \in 1 .. l
      BY <1>6, SMT
    <3>2. QED BY <1>2, <1>6, <1>9, <3>1, DownFlowHere
  <2>2. 1 .. 1 - 1 = {}
    BY SMT
  <2>3. p.index = 1 \/ Ready(c, p)
    BY <2>1, <2>2 DEF Expected
  <2>4. QED BY <1>2, <1>4, <1>6, <1>9, <2>3, TakenText
<1>10. /\ spoiled \subseteq spoiled'
       /\ \A m \in Nodes \ {c} :
            clip'[m] = clip[m] /\ seen'[m] = seen[m] /\ stamp'[m] = stamp[m]
       /\ \/ clip'[c] = clip[c] /\ seen'[c] = seen[c]
          \/ clip'[c] = seen'[c]
          \/ /\ c \notin spoiled' /\ IsNewer(c, p) /\ IsLast(p)
             /\ clip'[c] = ReadBack(c, Appended(c, p))
       /\ stamp'[c] = IF IsNewer(c, p) /\ IsLast(p) THEN p.time ELSE stamp[c]
       /\ IF IsNewer(c, p) /\ IsLast(p)
          THEN c \notin spoiled' => seen'[c] = Appended(c, p)
          ELSE seen'[c] = seen[c]
  <2>1. CASE IsNewer(c, p)
    BY <1>2, <1>3, <1>4, <1>6, <1>8, <2>1, TakeOutcome
  <2>2. CASE ~ IsNewer(c, p)
    BY <1>3, <2>2 DEF Ignore
  <2>3. QED BY <2>1, <2>2
<1>11. Latest' = Latest
  BY <1>3 DEF Latest
<1> HIDE DEF l
<1>12. ASSUME NEW d \in Clients, NEW i \in 1 .. Len(down'[d])
       PROVE  Known(text, down[d][i])'
  <2>1. CASE d # c
    <3>1. down'[d] = down[d] /\ i \in 1 .. Len(down[d])
      BY <1>6, <1>12, <2>1
    <3>2. Known(text, down[d][i])
      BY <1>2, <3>1 DEF Agreement
    <3>3. QED BY <1>11, <3>1, <3>2 DEF Known
  <2>2. CASE d = c
    <3>1. i \in 1 .. l - 1 /\ i + 1 \in 1 .. l
      BY <1>6, <1>12, <2>2, SMT
    <3>2. QED BY <1>2, <1>6, <1>11, <2>2, <3>1 DEF Agreement, Known, l
  <2>3. QED BY <2>1, <2>2
<1>13. ASSUME c \notin spoiled' PROVE HeadsFor(text, newest, c)'
  <2>1. HeadsFor(text, newest, c)
    BY <1>2, <1>10, <1>13 DEF Agreement
  <2>2. IsLast(p) => p.time <= newest
    <3>1. 1 \in 1 .. l
      BY <1>6, SMT
    <3>2. QED BY <1>6, <2>1, <3>1 DEF HeadsFor, l
  <2>3. stamp'[c] <= newest
    BY <1>10, <2>1, <2>2 DEF HeadsFor
  <2>4. ASSUME NEW i \in 1 .. Len(down'[c]), IsLast(down'[c][i])
        PROVE  down'[c][i].time <= newest
    <3>1. i \in 1 .. l - 1 /\ i + 1 \in 1 .. l
      BY <1>6, <2>4, SMT
    <3>2. QED BY <1>6, <2>1, <2>4, <3>1 DEF HeadsFor, l
  <2>5. \/ stamp'[c] = newest
        \/ \E i \in 1 .. Len(down'[c]) : IsLast(down'[c][i]) /\ down'[c][i].time = newest
    <3>1. CASE stamp[c] = newest
      <4>1. ~ (IsNewer(c, p) /\ IsLast(p))
        BY <1>4, <1>7, <1>8, <2>2, <3>1, SMT
      <4>2. QED BY <1>10, <3>1, <4>1
    <3>2. ASSUME stamp[c] # newest, NEW i \in 1 .. l, IsLast(down[c][i]), down[c][i].time = newest
          PROVE  \/ stamp'[c] = newest
                 \/ \E j \in 1 .. Len(down'[c]) : IsLast(down'[c][j]) /\ down'[c][j].time = newest
      <4>1. CASE i = 1
        <5>1. IsLast(p) /\ p.time = newest /\ newest > stamp[c]
          BY <1>4, <1>6, <1>8, <2>1, <3>2, <4>1, SMT DEF HeadsFor
        <5>2. QED BY <1>8, <1>10, <5>1
      <4>2. CASE i # 1
        <5>1. i - 1 \in 1 .. l - 1 /\ (i - 1) + 1 = i
          BY <1>6, <3>2, <4>2, SMT
        <5>2. down'[c][i - 1] = down[c][i] /\ i - 1 \in 1 .. Len(down'[c])
          BY <1>6, <5>1
        <5>3. QED BY <3>2, <5>2
      <4>3. QED BY <4>1, <4>2
    <3>3. QED BY <2>1, <3>1, <3>2 DEF HeadsFor, l
  <2>6. \/ seen'[c] = text[stamp'[c]]
        \/ stamp'[c] < newest
        \/ \E i \in 1 .. Len(up'[c]) : IsLast(up'[c][i]) /\ up'[c][i].time > stamp'[c]
    <3>1. CASE IsNewer(c, p) /\ IsLast(p)
      BY <1>7, <1>9, <1>10, <1>13, <3>1
    <3>2. CASE ~ (IsNewer(c, p) /\ IsLast(p))
      BY <1>3, <1>10, <2>1, <3>2 DEF HeadsFor
    <3>3. QED BY <3>1, <3>2
  <2>7. QED BY <2>3, <2>4, <2>5, <2>6 DEF HeadsFor, IsLast
<1>14. ASSUME NEW d \in Clients, d \notin spoiled' PROVE HeadsFor(text, newest, d)'
  <2>1. CASE d = c
    BY <1>13, <1>14, <2>1
  <2>2. CASE d # c
    <3>1. HeadsFor(text, newest, d) /\ d \in Nodes
      BY <1>2, <1>10, <1>14 DEF Agreement, Nodes
    <3>2. down'[d] = down[d] /\ up'[d] = up[d] /\ seen'[d] = seen[d] /\ stamp'[d] = stamp[d]
      BY <1>3, <1>6, <1>10, <2>2, <3>1
    <3>3. QED BY <3>1, <3>2 DEF HeadsFor, IsLast
  <2>3. QED BY <2>1, <2>2
<1>15. Agreement(text, newest)'
  <2>1. \A m \in Nodes : stamp'[m] <= Latest'
    BY <1>2, <1>7, <1>10, <1>11 DEF Agreement
  <2>2. stamp'[Server] = stamp[Server] /\ seen'[Server] = seen[Server]
    BY <1>4, <1>10
  <2>3. \A d \in Clients : \A i \in 1 .. Len(up'[d]) : Known(text, up[d][i])'
    BY <1>2, <1>3, <1>11 DEF Agreement, Known
  <2>4. QED BY <1>2, <1>3, <1>11, <1>12, <1>14, <2>1, <2>2, <2>3 DEF Agreement
<1>16. CalmInv(text, newest)'
  <2>1. SUFFICES ASSUME CalmKept PROVE CalmInv(text, newest)'
    BY <1>3 DEF CalmInv, CalmKept, KeptByAll, ReadBack
  <2>2. PICK x \in Texts : calm = {x} /\ (AboutToSend(x) \/ Spreading(text, newest, x))
    BY <1>2, <2>1 DEF CalmInv
  <2>3. Spreading(text, newest, x)
    BY <1>3, <2>2 DEF AboutToSend
  <2>4. p.text = x /\ ReadBack(c, x) = x
    <3>1. 1 \in 1 .. l
      BY <1>6, SMT
    <3>2. p.time = Latest
      BY <1>6, <2>3, <3>1 DEF Spreading, l
    <3>3. QED BY <1>4, <1>7, <2>1, <2>2, <2>3, <3>2 DEF Spreading, CalmKept, KeptByAll
  <2>5. \A m \in Nodes : clip'[m] = seen'[m]
    BY <1>9, <1>10, <2>3, <2>4 DEF Spreading
  <2>6. ASSUME NEW d \in Clients, NEW i \in 1 .. Len(down'[d])
        PROVE  down'[d][i].time = Latest
    <3>1. CASE d # c
      BY <1>6, <2>3, <2>6, <3>1 DEF Spreading
    <3>2. CASE d = c
      <4>1. i \in 1 .. l - 1 /\ i + 1 \in 1 .. l
        BY <1>6, <2>6, <3>2, SMT
      <4>2. QED BY <1>6, <2>3, <3>2, <4>1 DEF Spreading, l
    <3>3. QED BY <3>1, <3>2
  <2>7. stamp'[Server] = stamp[Server] /\ seen'[Server] = seen[Server]
    BY <1>4, <1>10
  <2>8. Spreading(text, newest, x)'
    BY <1>3, <1>11, <2>3, <2>5, <2>6, <2>7 DEF Spreading, IsLast
  <2>9. QED BY <1>3, <2>2, <2>8 DEF CalmInv
<1>17. QED BY <1>15, <1>16 DEF Agreed

LEMMA ServerAgreed ==
  ASSUME Basis, ClocksAgree, Server \notin spoiled',
         NEW text \in Functions, NEW newest \in Int,
         Agreed(text, newest), NEW c \in Clients, ServerReceives(c)
  PROVE  \E newest2 \in Int : Agreed(text, newest2)'
<1>1. PICK p : p = Head(up[c])
  OBVIOUS
<1>2. /\ TypeOK /\ UpFlow /\ DownFlow /\ Untorn /\ WholeTexts
      /\ Agreement(text, newest) /\ CalmInv(text, newest)
  BY DEF Basis, Agreed
<1>3. /\ up[c] # <<>> /\ up' = [up EXCEPT ![c] = Tail(@)]
      /\ IF IsNewer(Server, p) THEN Take(Server, p) ELSE Ignore
      /\ IF IsNewer(Server, p) THEN down' = [m \in Clients |-> down[m] \o <<p>>]
         ELSE down' = down
      /\ UNCHANGED <<machine, start, measured, now, served, calm>>
  BY <1>1 DEF ServerReceives, setup, Broadcast
<1>4. Server \in Nodes /\ \A m \in Clients : m # Server /\ m \in Nodes
  BY NodesAssumption DEF Nodes
<1>5. up[c] \in Seq(Packets) /\ down \in [Clients -> Seq(Packets)]
  BY <1>2 DEF TypeOK
<1> DEFINE l == Len(up[c])
<1>6. /\ p \in Packets /\ p = up[c][1] /\ l \in Nat \ {0}
      /\ Len(up'[c]) = l - 1
      /\ \A i \in 1 .. l - 1 : up'[c][i] = up[c][i + 1]
      /\ \A d \in Clients : d # c => up'[d] = up[d]
  <2>1. up'[c] = Tail(up[c]) /\ \A d \in Clients : d # c => up'[d] = up[d]
    BY <1>2, <1>3 DEF TypeOK
  <2>2. QED BY <1>1, <1>3, <1>5, <2>1, HeadTail
<1>7. p.time \in Int /\ p.time <= Latest /\ text[p.time] = p.text /\ Latest \in Int
  <2>1. 1 \in 1 .. l
    BY <1>6, SMT
  <2>2. QED BY <1>2, <1>6, <2>1, PacketTypes, AgreedTimes DEF Agreement, Known
<1>8. /\ \A m \in Nodes : stamp[m] \in Int
      /\ AdjustedTimestamp(Server, p) = p.time
      /\ IsNewer(Server, p) <=> p.time > stamp[Server]
  BY <1>2, <1>4, <1>6, AgreedTimes
<1>9. Latest' = Latest
  BY <1>3 DEF Latest
<1>10. /\ spoiled \subseteq spoiled' /\ Server \notin spoiled
       /\ \A m \in Nodes \ {Server} :
            clip'[m] = clip[m] /\ seen'[m] = seen[m] /\ stamp'[m] = stamp[m]
       /\ \/ clip'[Server] = clip[Server] /\ seen'[Server] = seen[Server]
          \/ clip'[Server] = seen'[Server]
          \/ IsNewer(Server, p) /\ IsLast(p) /\ clip'[Server] = ReadBack(Server, p.text)
       /\ IF IsNewer(Server, p) /\ IsLast(p)
          THEN stamp'[Server] = p.time /\ seen'[Server] = p.text
          ELSE stamp'[Server] = stamp[Server] /\ seen'[Server] = seen[Server]
  <2>1. CASE IsNewer(Server, p)
    <3>1. /\ spoiled \subseteq spoiled'
          /\ \A m \in Nodes \ {Server} :
               clip'[m] = clip[m] /\ seen'[m] = seen[m] /\ stamp'[m] = stamp[m]
          /\ \/ clip'[Server] = clip[Server] /\ seen'[Server] = seen[Server]
             \/ clip'[Server] = seen'[Server]
             \/ IsLast(p) /\ clip'[Server] = ReadBack(Server, Appended(Server, p))
          /\ stamp'[Server] = IF IsLast(p) THEN p.time ELSE stamp[Server]
          /\ IF IsLast(p) THEN seen'[Server] = Appended(Server, p)
             ELSE seen'[Server] = seen[Server]
      BY <1>2, <1>3, <1>4, <1>6, <1>8, <2>1, TakeOutcome
    <3>2. Server \notin spoiled
      BY <3>1
    <3>3. p.index = 1 \/ Ready(Server, p)
      BY <1>2, <1>3, <1>6, <3>2 DEF UpFlow
    <3>4. IsLast(p) => Appended(Server, p) = p.text
      BY <1>2, <1>4, <1>6, <2>1, <3>3, TakenText
    <3>5. QED BY <2>1, <3>1, <3>2, <3>4
  <2>2. CASE ~ IsNewer(Server, p)
    BY <1>3, <2>2 DEF Ignore
  <2>3. QED BY <2>1, <2>2
<1> HIDE DEF l
<1>11. ASSUME NEW d \in Clients
       PROVE  /\ \A i \in 1 .. Len(down[d]) :
                   i \in 1 .. Len(down'[d]) /\ down'[d][i] = down[d][i]
              /\ \A i \in 1 .. Len(down'[d]) :
                   \/ i \in 1 .. Len(down[d]) /\ down'[d][i] = down[d][i]
                   \/ down'[d][i] = p /\ IsNewer(Server, p)
              /\ IsNewer(Server, p) => \E i \in 1 .. Len(down'[d]) : down'[d][i] = p
  <2>1. CASE ~ IsNewer(Server, p)
    BY <1>3, <2>1
  <2>2. CASE IsNewer(Server, p)
    <3>1. /\ down[d] \in Seq(Packets) /\ <<p>> \in Seq(Packets)
          /\ Len(<<p>>) = 1 /\ <<p>>[1] = p
          /\ down'[d] = down[d] \o <<p>>
      <4>1. down[d] \in Seq(Packets)
        BY <1>5
      <4>2. <<p>> \in Seq(Packets) /\ Len(<<p>>) = 1 /\ <<p>>[1] = p
        BY <1>6, SMT
      <4>3. down' = [m \in Clients |-> down[m] \o <<p>>]
        BY <1>3, <2>2
      <4>4. down'[d] = down[d] \o <<p>>
        BY <4>3
      <4>5. QED BY <4>1, <4>2, <4>4
    <3> DEFINE s == down[d] \o <<p>>
               k == Len(down[d])
    <3>2. /\ Len(s) = k + 1 /\ k \in Nat
          /\ \A i \in 1 .. k : s[i] = down[d][i]
          /\ s[k + 1] = p
      <4>1. 1 \in 1 .. Len(<<p>>) /\ k \in Nat
        BY <3>1, SMT
      <4>2. QED BY <3>1, <4>1, InConcat
    <3>3. /\ \A i \in 1 .. k : i \in 1 .. k + 1
          /\ \A i \in 1 .. k + 1 : i \in 1 .. k \/ i = k + 1
          /\ k + 1 \in 1 .. k + 1
      BY <3>2, SMT
    <3>4. QED BY <2>2, <3>1, <3>2, <3>3
  <2>3. QED BY <2>1, <2>2
<1>12. ASSUME NEW d \in Clients
       PROVE  \A i \in 1 .. Len(up'[d]) : \E j \in 1 .. Len(up[d]) : up'[d][i] = up[d][j]
  <2>1. CASE d # c
    BY <1>6, <2>1
  <2>2. CASE d = c
    <3>1. \A i \in 1 .. l - 1 : i + 1 \in 1 .. l
      BY <1>6, SMT
    <3>2. QED BY <1>6, <2>2, <3>1 DEF l
  <2>3. QED BY <2>1, <2>2
<1>13. ASSUME NEW d \in Clients, NEW i \in 1 .. Len(up[d])
       PROVE  \/ d = c /\ up[d][i] = p
              \/ \E j \in 1 .. Len(up'[d]) : up'[d][j] = up[d][i]
  <2>1. CASE d # c
    BY <1>6, <1>13, <2>1
  <2>2. CASE d = c /\ i = 1
    BY <1>6, <2>2
  <2>3. CASE d = c /\ i # 1
    <3>1. i - 1 \in 1 .. l - 1 /\ (i - 1) + 1 = i
      BY <1>6, <1>13, <2>3, SMT DEF l
    <3>2. QED BY <1>6, <2>3, <3>1
  <2>4. QED BY <2>1, <2>2, <2>3
<1>14. PICK newest2 \in Int :
         newest2 = IF IsNewer(Server, p) /\ IsLast(p) /\ p.time > newest THEN p.time ELSE newest
  BY <1>7
<1>15. /\ newest <= newest2 /\ newest2 <= Latest
       /\ (IsNewer(Server, p) /\ IsLast(p)) => p.time <= newest2
       /\ stamp'[Server] <= newest2
       /\ newest <= Latest /\ stamp[Server] <= newest
  BY <1>2, <1>4, <1>7, <1>8, <1>10, <1>14, SMT DEF Agreement
<1>16. ASSUME NEW d \in Clients
       PROVE  /\ \A i \in 1 .. Len(up'[d]) : Known(text, up[d][i])'
              /\ \A i \in 1 .. Len(down'[d]) : Known(text, down[d][i])'
  <2>1. /\ \A i \in 1 .. Len(up[d]) : Known(text, up[d][i])
        /\ \A i \in 1 .. Len(down[d]) : Known(text, down[d][i])
    BY <1>2 DEF Agreement
  <2>2. Known(text, p)
    BY <1>7 DEF Known
  <2>3. \A i \in 1 .. Len(up'[d]) : up'[d][i].time <= Latest /\ text[up'[d][i].time] = up'[d][i].text
    BY <1>12, <2>1 DEF Known
  <2>4. \A i \in 1 .. Len(down'[d]) :
          down'[d][i].time <= Latest /\ text[down'[d][i].time] = down'[d][i].text
    BY <1>11, <2>1, <2>2 DEF Known
  <2>5. QED BY <1>9, <2>3, <2>4 DEF Known
<1>17. ASSUME NEW d \in Clients, d \notin spoiled' PROVE HeadsFor(text, newest2, d)'
  <2>1. HeadsFor(text, newest, d) /\ d \in Nodes
    BY <1>2, <1>4, <1>10, <1>17 DEF Agreement
  <2>2. stamp'[d] = stamp[d] /\ seen'[d] = seen[d] /\ stamp[d] \in Int
    BY <1>4, <1>8, <1>10, <2>1
  <2>3. stamp'[d] <= newest2
    BY <1>15, <2>1, <2>2, SMT DEF HeadsFor
  <2>4. ASSUME NEW i \in 1 .. Len(down'[d]), IsLast(down'[d][i])
        PROVE  down'[d][i].time <= newest2
    <3>1. CASE down'[d][i] = p /\ IsNewer(Server, p)
      BY <1>15, <2>4, <3>1
    <3>2. CASE i \in 1 .. Len(down[d]) /\ down'[d][i] = down[d][i]
      <4>1. down[d][i].time <= newest /\ down[d][i] \in Packets
        BY <1>5, <2>1, <2>4, <3>2 DEF HeadsFor
      <4>2. down[d][i].time \in Int
        BY <4>1, PacketTypes
      <4>3. QED BY <1>15, <3>2, <4>1, <4>2, SMT
    <3>3. QED BY <1>11, <2>4, <3>1, <3>2
  <2>5. \/ stamp'[d] = newest2
        \/ \E i \in 1 .. Len(down'[d]) : IsLast(down'[d][i]) /\ down'[d][i].time = newest2
    <3>1. CASE newest2 = newest
      BY <1>11, <2>1, <2>2, <3>1 DEF HeadsFor
    <3>2. CASE newest2 # newest
      <4>1. IsNewer(Server, p) /\ IsLast(p) /\ p.time = newest2
        BY <1>14, <3>2
      <4>2. QED BY <1>11, <4>1
    <3>3. QED BY <3>1, <3>2
  <2>6. \/ seen'[d] = text[stamp'[d]]
        \/ stamp'[d] < newest2
        \/ \E i \in 1 .. Len(up'[d]) : IsLast(up'[d][i]) /\ up'[d][i].time > stamp'[d]
    <3>1. CASE seen[d] = text[stamp[d]]
      BY <2>2, <3>1
    <3>2. CASE stamp[d] < newest
      BY <1>15, <2>2, <3>2, SMT
    <3>3. ASSUME NEW i \in 1 .. Len(up[d]), IsLast(up[d][i]), up[d][i].time > stamp[d]
          PROVE  \/ stamp'[d] < newest2
                 \/ \E j \in 1 .. Len(up'[d]) : IsLast(up'[d][j]) /\ up'[d][j].time > stamp'[d]
      <4>1. CASE \E j \in 1 .. Len(up'[d]) : up'[d][j] = up[d][i]
        BY <2>2, <3>3, <4>1
      <4>2. CASE up[d][i] = p
        <5>1. p.time <= newest2
          <6>1. CASE IsNewer(Server, p)
            BY <1>15, <3>3, <4>2, <6>1
          <6>2. CASE ~ IsNewer(Server, p)
            BY <1>4, <1>7, <1>8, <1>15, <6>2, SMT
          <6>3. QED BY <6>1, <6>2
        <5>2. QED BY <1>7, <2>2, <3>3, <4>2, <5>1, SMT
      <4>3. QED BY <1>13, <3>3, <4>1, <4>2
    <3>4. QED BY <2>1, <3>1, <3>2, <3>3 DEF HeadsFor
  <2>7. QED BY <2>3, <2>4, <2>5, <2>6 DEF HeadsFor, IsLast
<1>18. Agreement(text, newest2)'
  <2>1. \A m \in Nodes : stamp'[m] <= Latest'
    BY <1>2, <1>7, <1>9, <1>10 DEF Agreement
  <2>2. \/ text[newest2] \in served'
        \/ stamp'[Server] = newest2 /\ seen'[Server] = text[newest2]
    <3>1. CASE IsNewer(Server, p) /\ IsLast(p) /\ p.time > newest
      BY <1>7, <1>10, <1>14, <3>1
    <3>2. CASE IsNewer(Server, p) /\ IsLast(p) /\ ~ (p.time > newest)
      <4>1. stamp[Server] # newest
        BY <1>4, <1>7, <1>8, <3>2, SMT
      <4>2. QED BY <1>2, <1>3, <1>14, <3>2, <4>1 DEF Agreement
    <3>3. CASE ~ (IsNewer(Server, p) /\ IsLast(p))
      BY <1>2, <1>3, <1>10, <1>14, <3>3 DEF Agreement
    <3>4. QED BY <3>1, <3>2, <3>3
  <2>3. QED BY <1>9, <1>15, <1>16, <1>17, <2>1, <2>2 DEF Agreement
<1>19. CalmInv(text, newest2)'
  <2>1. SUFFICES ASSUME CalmKept PROVE CalmInv(text, newest2)'
    BY <1>3 DEF CalmInv, CalmKept, KeptByAll, ReadBack
  <2>2. PICK x \in Texts : calm = {x} /\ (AboutToSend(x) \/ Spreading(text, newest, x))
    BY <1>2, <2>1 DEF CalmInv
  <2>3. Spreading(text, newest, x)
    BY <1>3, <2>2 DEF AboutToSend
  <2>4. p.time = Latest /\ p.text = x
    <3>1. 1 \in 1 .. l
      BY <1>6, SMT
    <3>2. QED BY <1>6, <1>7, <2>3, <3>1 DEF Spreading, l
  <2>5. \A m \in Nodes : clip'[m] = seen'[m]
    <3>1. ReadBack(Server, x) = x
      BY <1>4, <2>1, <2>2 DEF CalmKept, KeptByAll
    <3>2. QED BY <1>10, <2>3, <2>4, <3>1 DEF Spreading
  <2>6. \A d \in Clients : \A i \in 1 .. Len(up'[d]) : up'[d][i].time = Latest'
    BY <1>9, <1>12, <2>3 DEF Spreading
  <2>7. \A d \in Clients : \A i \in 1 .. Len(down'[d]) : down'[d][i].time = Latest'
    BY <1>9, <1>11, <2>3, <2>4 DEF Spreading
  <2>8. \/ newest2 = Latest' /\ seen'[Server] = x
        \/ /\ stamp'[Server] < Latest'
           /\ \E d \in Clients : \E i \in 1 .. Len(up'[d]) : IsLast(up'[d][i])
    <3>1. CASE newest = Latest /\ seen[Server] = x
      <4>1. newest2 = Latest
        BY <1>7, <1>15, <3>1, SMT
      <4>2. QED BY <1>9, <1>10, <2>4, <3>1, <4>1
    <3>2. ASSUME stamp[Server] < Latest,
                 NEW d \in Clients, NEW i \in 1 .. Len(up[d]), IsLast(up[d][i])
          PROVE  \/ newest2 = Latest' /\ seen'[Server] = x
                 \/ /\ stamp'[Server] < Latest'
                    /\ \E e \in Clients : \E j \in 1 .. Len(up'[e]) : IsLast(up'[e][j])
      <4>1. IsNewer(Server, p)
        BY <1>4, <1>7, <1>8, <2>4, <3>2, SMT
      <4>2. CASE IsLast(p)
        <5>1. newest2 = Latest
          BY <1>7, <1>15, <2>4, <4>1, <4>2, SMT
        <5>2. QED BY <1>9, <1>10, <2>4, <4>1, <4>2, <5>1
      <4>3. CASE ~ IsLast(p)
        <5>1. \E j \in 1 .. Len(up'[d]) : up'[d][j] = up[d][i]
          BY <1>13, <3>2, <4>3
        <5>2. QED BY <1>9, <1>10, <3>2, <4>3, <5>1
      <4>4. QED BY <4>2, <4>3
    <3>3. QED BY <2>3, <3>1, <3>2 DEF Spreading
  <2>9. Spreading(text, newest2, x)'
    BY <1>9, <2>3, <2>5, <2>6, <2>8, <2>7 DEF Spreading, IsLast
  <2>10. QED BY <1>3, <2>2, <2>9 DEF CalmInv
<1>20. QED BY <1>18, <1>19 DEF Agreed
-----------------------------------------------------------------------------
(* The invariant holds at first and is kept by every step.                 *)

LEMMA InitInv == Init => IInv
<1> SUFFICES ASSUME Init PROVE IInv
  OBVIOUS
<1>1. /\ machine \in Machines /\ start \in Starts /\ measured \subseteq Clients
      /\ clip = [n \in Nodes |-> <<>>] /\ seen = [n \in Nodes |-> <<>>]
      /\ stamp = [n \in Nodes |-> 0]
      /\ buffer = [n \in Nodes |-> [p \in Nodes |-> <<>>]]
      /\ up = [c \in Clients |-> <<>>] /\ down = [c \in Clients |-> <<>>]
      /\ now = 1 + Max({start[n] : n \in Nodes}) /\ copies = 0 /\ altered = 0
      /\ faults = 0 /\ served = {} /\ spoiled = {} /\ calm = {}
  BY DEF Init
<1>2. start \in [Nodes -> Int] /\ Server \in Nodes /\ \A c \in Clients : c \in Nodes
  BY <1>1, StartsAssumption, NodesFinite DEF Nodes
<1>3. Max({start[n] : n \in Nodes}) \in Int
  BY <1>2, LastStart
<1>4. now \in Int
  BY <1>1, <1>3, SMT
<1>5. <<>> \in Seq(Payloads) /\ <<>> \in Seq(Packets) /\ <<>> \in Beginnings
  BY EmptySeq DEF Beginnings
<1>6. 0 \in 0 .. MaxCopies /\ 0 \in 0 .. MaxFaults /\ 0 \in Int /\ 0 \in Nat
  BY BoundsAssumption, SMT
<1>7. TypeOK
  BY <1>1, <1>4, <1>5, <1>6 DEF TypeOK
<1>8. UpFlow
  <2>1. \A c \in Clients : up[c] = <<>> /\ Len(up[c]) = 0
    BY <1>1, EmptySeq
  <2>2. QED BY <2>1, SMT DEF UpFlow
<1>9. DownFlow
  <2>1. \A c \in Clients : up[c] = <<>> /\ Len(down[c]) = 0
    BY <1>1, EmptySeq
  <2>2. 1 .. 0 = {}
    BY SMT
  <2>3. QED BY <2>1, <2>2 DEF DownFlow
<1>10. \A n \in Nodes : clip[n] = <<>> /\ seen[n] = <<>> /\ stamp[n] = 0
  BY <1>1
<1>11. Untorn /\ WholeTexts
  <2>1. \A c \in Clients : Len(up[c]) = 0 /\ Len(down[c]) = 0
    BY <1>1, EmptySeq
  <2>2. 1 .. 0 = {}
    BY SMT
  <2>3. QED BY <1>10, <2>1, <2>2, TextsAssumption DEF Untorn, Whole, WholeTexts
<1>12. Counted
  <2>1. Unpolled = {}
    BY <1>10 DEF Unpolled
  <2>2. Cardinality(Unpolled) = 0
    BY <2>1, FS_EmptySet
  <2> DEFINE last == Max({start[n] : n \in Nodes})
  <2>3. now = 1 + last /\ last \in Int
    BY <1>1, <1>3
  <2> HIDE DEF last
  <2>4. now + 0 <= 1 + last + 0 + 0
    BY <2>3, SMT
  <2>5. QED BY <1>1, <2>2, <2>4 DEF Counted, last
<1>13. Concord
  <2>1. SUFFICES ASSUME ClocksAgree
                 PROVE  \E text \in [Int -> Seq(Payloads)], newest \in Int :
                          Agreement(text, newest) /\ CalmInv(text, newest)
    BY DEF Concord
  <2>2. {start[n] : n \in Nodes} = {start[Server]} /\ start[Server] \in Int
    BY <1>2, <2>1 DEF ClocksAgree
  <2>3. Max({start[Server]}) = start[Server]
    <3>1. start[Server] >= start[Server]
      BY <2>2, SMT
    <3>2. \E x \in {start[Server]} : \A y \in {start[Server]} : x >= y
      BY <3>1
    <3>3. QED BY <3>2 DEF Max
  <2>4. Latest = 0
    <3>1. now = 1 + start[Server]
      BY <1>1, <2>2, <2>3
    <3>2. QED BY <2>2, <3>1, SMT DEF Latest
  <2>5. PICK text \in [Int -> Seq(Payloads)] : text[0] = <<>>
    <3>1. [t \in Int |-> <<>>] \in [Int -> Seq(Payloads)] /\ [t \in Int |-> <<>>][0] = <<>>
      BY <1>5, <1>6
    <3>2. QED BY <3>1
  <2>6. \A c \in Clients : Len(up[c]) = 0 /\ Len(down[c]) = 0
    BY <1>1, EmptySeq
  <2>7. 0 <= 0 /\ 1 .. 0 = {}
    BY SMT
  <2>8. \A c \in Clients : HeadsFor(text, 0, c)
    BY <1>2, <1>10, <2>5, <2>6, <2>7 DEF HeadsFor
  <2>9. Agreement(text, 0)
    BY <1>2, <1>10, <2>4, <2>5, <2>6, <2>7, <2>8 DEF Agreement
  <2>10. CalmInv(text, 0)
    BY <1>1 DEF CalmInv, CalmKept
  <2>11. QED BY <1>6, <2>9, <2>10
<1>14. QED BY <1>7, <1>8, <1>9, <1>11, <1>12, <1>13 DEF IInv

LEMMA BasisNext ==
  ASSUME Basis, [Next]_vars
  PROVE  Basis'
<1>1. CASE Next
  BY <1>1, CopyBasis, PollBasis, ServerBasis, ClientBasis, DropBasis, PruneBasis DEF Next
<1>2. CASE UNCHANGED vars
  BY <1>2 DEF Basis, TypeOK, UpFlow, DownFlow, Untorn, Whole, WholeTexts, Expected, Ready,
     IsNewer, AdjustedTimestamp, vars, setup, streams, counts, history
<1>3. QED BY <1>1, <1>2

(* No clock is set and nobody is ever unspoiled.                           *)
LEMMA NoClockSet ==
  ASSUME TypeOK, [Next]_vars
  PROVE  start' = start /\ spoiled \subseteq spoiled'
<1>1. ASSUME NEW n \in Nodes, Copy(n) \/ Poll(n)
      PROVE  start' = start /\ spoiled \subseteq spoiled'
  BY <1>1 DEF Copy, Poll, setup
<1>2. ASSUME NEW n, NEW p, Take(n, p) \/ Ignore
      PROVE  spoiled \subseteq spoiled'
  BY <1>2 DEF Take, SetText, Ignore, TypeOK
<1>3. ASSUME NEW c \in Clients, ServerReceives(c) \/ ClientReceives(c)
      PROVE  start' = start /\ spoiled \subseteq spoiled'
  BY <1>2, <1>3 DEF ServerReceives, ClientReceives, setup
<1>4. ASSUME NEW c \in Clients, DropChunk(c)
      PROVE  start' = start /\ spoiled \subseteq spoiled'
  BY <1>4 DEF DropChunk, Strikes, setup
<1>5. ASSUME NEW n \in Nodes, NEW p \in Nodes, Prune(n, p)
      PROVE  start' = start /\ spoiled \subseteq spoiled'
  BY <1>5 DEF Prune, Strikes, setup
<1>6. CASE UNCHANGED vars
  BY <1>6 DEF vars, setup, history
<1>7. QED BY <1>1, <1>3, <1>4, <1>5, <1>6 DEF Next

LEMMA ConcordNext ==
  ASSUME Basis, Concord, [Next]_vars
  PROVE  Concord'
<1>1. SUFFICES ASSUME ClocksAgree', Server \notin spoiled'
               PROVE  \E text \in Functions, newest \in Int : Agreed(text, newest)'
  BY DEF Concord, Functions, Agreed
<1>2. ClocksAgree /\ Server \notin spoiled
  BY <1>1, NoClockSet DEF ClocksAgree, Basis
<1>3. PICK text \in Functions, newest \in Int : Agreed(text, newest)
  BY <1>2 DEF Concord, Functions, Agreed
<1>4. TypeOK
  BY DEF Basis
<1>5. ASSUME NEW n \in Nodes, Copy(n)
      PROVE  Agreed(text, newest)'
  BY <1>3, <1>4, <1>5, CopyAgreed
<1>6. ASSUME NEW n \in Nodes, Poll(n)
      PROVE  \E text2 \in Functions, newest2 \in Int : Agreed(text2, newest2)'
  BY <1>2, <1>3, <1>6, PollAgreed
<1>7. ASSUME NEW c \in Clients, ServerReceives(c)
      PROVE  \E newest2 \in Int : Agreed(text, newest2)'
  BY <1>1, <1>2, <1>3, <1>7, ServerAgreed
<1>8. ASSUME NEW c \in Clients, ClientReceives(c)
      PROVE  Agreed(text, newest)'
  BY <1>1, <1>2, <1>3, <1>8, ClientAgreed
<1>9. ASSUME NEW c \in Clients, DropChunk(c)
      PROVE  Agreed(text, newest)'
  BY <1>3, <1>4, <1>9, DropAgreed
<1>10. ASSUME NEW n \in Nodes, NEW p \in Nodes, Prune(n, p)
       PROVE  Agreed(text, newest)'
  BY <1>3, <1>4, <1>10, PruneAgreed
<1>11. CASE UNCHANGED vars
  <2>1. UNCHANGED <<machine, start, now, clip, seen, stamp, up, down, served, spoiled, calm>>
    BY <1>11 DEF vars, setup, streams, history
  <2>2. Agreement(text, newest)'
    BY <1>3, <2>1 DEF Agreed, Agreement, HeadsFor, Known, Latest, IsLast
  <2>3. CalmKept' <=> CalmKept
    BY <2>1 DEF CalmKept, KeptByAll, ReadBack
  <2>4. CalmInv(text, newest)'
    BY <1>3, <2>1, <2>3 DEF Agreed, CalmInv, AboutToSend, Spreading, IsLast, Latest
  <2>5. QED BY <2>2, <2>4 DEF Agreed
<1>12. QED BY <1>3, <1>5, <1>6, <1>7, <1>8, <1>9, <1>10, <1>11 DEF Next

LEMMA NextInv == IInv /\ [Next]_vars => IInv'
<1> SUFFICES ASSUME IInv, [Next]_vars PROVE IInv'
  OBVIOUS
<1>1. Basis /\ Counted /\ Concord
  BY DEF IInv, Basis
<1>2. Basis'
  BY <1>1, BasisNext
<1>3. Counted'
  BY <1>1, CountedNext DEF Basis
<1>4. Concord'
  BY <1>1, ConcordNext
<1>5. QED BY <1>2, <1>3, <1>4 DEF IInv, Basis

LEMMA InvHolds == Spec => []IInv
BY InitInv, NextInv, PTL DEF Spec

-----------------------------------------------------------------------------
(* The clipboards, the texts known and under assembly, the streams and the *)
(* timestamps are of their types (src/include/ClipboardModule.h and the    *)
(* members m_clipboardReassembly and m_lastClipboardTimestamp of           *)
(* NetMuxFramework).                                                       *)
THEOREM ClipboardTypeCorrect == Spec => []TypeOK
<1>1. IInv => TypeOK
  BY DEF IInv
<1>2. QED BY <1>1, InvHolds, PTL

(* However the chunks of several texts interleave on their way, and        *)
(* whatever the machines make of them, no clipboard shows a torn text, but *)
(* on a machine whose framework has pruned a peer amid a text or has       *)
(* dropped a chunk of one, and where such a text goes when it is altered   *)
(* (NetMuxFramework.cpp:549-566).                                          *)
THEOREM NoTornTexts == Spec => []WholeTexts
<1>1. IInv => WholeTexts
  BY DEF IInv
<1>2. QED BY <1>1, InvHolds, PTL

(* An unspoiled client at rest shows the text of the greatest time the     *)
(* server has broadcast.                                                   *)
LEMMA ShowsNewest ==
  ASSUME AtRest, NEW text, NEW newest \in Int, Agreement(text, newest),
         NEW c \in Clients \ spoiled
  PROVE  clip[c] = text[newest]
<1>1. clip[c] = seen[c] /\ up[c] = <<>> /\ down[c] = <<>>
  BY DEF AtRest, Nodes
<1>2. 1 .. Len(up[c]) = {} /\ 1 .. Len(down[c]) = {}
  BY <1>1, EmptySeq, SMT
<1>3. stamp[c] = newest
  BY <1>2 DEF Agreement, HeadsFor
<1>4. ~ (newest < newest)
  BY SMT
<1>5. seen[c] = text[stamp[c]]
  BY <1>2, <1>3, <1>4 DEF Agreement, HeadsFor
<1>6. QED BY <1>1, <1>3, <1>5

(* With clocks that agree, the clients show one text when all is quiet,    *)
(* whatever was copied where and whatever order the texts came in: the     *)
(* server relays what it takes back to its sender, too                     *)
(* (NetMuxFramework.cpp:553, 565).                                         *)
THEOREM ClientsAlwaysAgree == Spec => []ClientsAgree
<1>1. IInv => ClientsAgree
  <2>1. SUFFICES ASSUME IInv, AtRest, ClocksAgree, Server \notin spoiled,
                        NEW c \in Clients \ spoiled, NEW d \in Clients \ spoiled
                 PROVE  clip[c] = clip[d]
    BY DEF ClientsAgree
  <2>2. PICK text \in [Int -> Seq(Payloads)], newest \in Int : Agreement(text, newest)
    BY <2>1 DEF IInv, Concord
  <2>3. QED BY <2>1, <2>2, ShowsNewest
<1>2. QED BY <1>1, InvHolds, PTL

(* ... and if the server shows another, theirs is one that the server has  *)
(* sent as its own, the time of which it does not remember                 *)
(* (NetMuxFramework.cpp:553, 561, 783-805).                                *)
THEOREM ServerOnlyLosesItsOwn == Spec => []ServerLosesOnlyItsOwn
<1>1. IInv => ServerLosesOnlyItsOwn
  <2>1. SUFFICES ASSUME IInv, AtRest, ClocksAgree, Server \notin spoiled,
                        NEW c \in Clients \ spoiled, clip[c] # clip[Server]
                 PROVE  clip[c] \in served
    BY DEF ServerLosesOnlyItsOwn
  <2>2. PICK text \in [Int -> Seq(Payloads)], newest \in Int : Agreement(text, newest)
    BY <2>1 DEF IInv, Concord
  <2>3. clip[c] = text[newest]
    BY <2>1, <2>2, ShowsNewest
  <2>4. clip[Server] = seen[Server]
    BY <2>1, NodesFinite DEF AtRest
  <2>5. QED BY <2>1, <2>2, <2>3, <2>4 DEF Agreement
<1>2. QED BY <1>1, InvHolds, PTL

(* With clocks that agree, a text that was copied while all was quiet, and *)
(* that every machine gives back as it was set, is shown by every          *)
(* unspoiled node once all is quiet again                                  *)
(* (NetMuxFramework.cpp:549-566, 783-805, ClipboardModule.cpp:94-109).     *)
THEOREM CalmCopyAlwaysSpreads == Spec => []CalmCopySpreads
<1>1. IInv => CalmCopySpreads
  <2>1. SUFFICES ASSUME IInv, Settled, NEW n \in Nodes \ spoiled,
                        NEW t \in calm, KeptByAll(t)
                 PROVE  clip[n] = t
    BY DEF CalmCopySpreads
  <2>2. AtRest /\ ClocksAgree /\ calm # {} /\ Server \notin spoiled
    BY <2>1 DEF Settled
  <2>3. PICK text \in [Int -> Seq(Payloads)], newest \in Int :
          Agreement(text, newest) /\ CalmInv(text, newest)
    BY <2>1, <2>2 DEF IInv, Concord
  <2>4. AboutToSend(t) \/ Spreading(text, newest, t)
    BY <2>1, <2>3 DEF CalmInv, CalmKept
  <2>5. Spreading(text, newest, t)
    BY <2>2, <2>4 DEF AboutToSend, AtRest
  <2>6. \A c \in Clients : 1 .. Len(up[c]) = {}
    BY <2>2, EmptySeq, SMT DEF AtRest
  <2>7. newest = Latest /\ seen[Server] = t /\ text[Latest] = t
    BY <2>5, <2>6 DEF Spreading
  <2>8. CASE n = Server
    BY <2>2, <2>7, <2>8, NodesFinite DEF AtRest
  <2>9. CASE n # Server
    <3>1. n \in Clients \ spoiled
      BY <2>9 DEF Nodes
    <3>2. QED BY <2>2, <2>3, <2>7, <3>1, ShowsNewest
  <2>10. QED BY <2>8, <2>9
<1>2. QED BY <1>1, InvHolds, PTL

(* Texts are sent for copies, and for texts that a machine has not kept as *)
(* they were set, and for nothing else: what a machine keeps is not taken  *)
(* for a change when it arrives, however often it comes                    *)
(* (ClipboardModule.cpp:94-100, 107-109, 146-147).                         *)
THEOREM SentForChangesOnly == Spec => []SentOncePerChange
<1>1. IInv => SentOncePerChange
  <2>1. SUFFICES ASSUME IInv PROVE SentOncePerChange
    OBVIOUS
  <2> DEFINE last == Max({start[n] : n \in Nodes})
             k == Cardinality(Unpolled)
  <2>2. last \in Int
    BY <2>1, StartsAssumption, LastStart DEF IInv, TypeOK
  <2>3. now \in Int /\ k \in Nat /\ now + k <= 1 + last + copies + altered
    BY <2>1 DEF IInv, TypeOK, Counted
  <2>4. copies \in Int /\ altered \in Int
    BY <2>1, BoundsAssumption, SMT DEF IInv, TypeOK
  <2> HIDE DEF last, k
  <2>5. now <= 1 + last + copies + altered
    BY <2>2, <2>3, <2>4, SMT
  <2>6. QED BY <2>5 DEF SentOncePerChange, last
<1>2. QED BY <1>1, InvHolds, PTL
=============================================================================
