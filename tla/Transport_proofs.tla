---------------------------- MODULE Transport_proofs ----------------------------
(***************************************************************************)
(* For any clients, any lengths of packets and any size of a read: the     *)
(* server takes every packet of a stream whole, in order and once, and     *)
(* loses none when a client closes its connection in order.                *)
(*                                                                         *)
(* What is left of a stream of packets s is a sequence of units <<k, j>>,  *)
(* the j-th of packet k, wherever on its way to the server a unit is.      *)
(***************************************************************************)
EXTENDS Transport, PacketCodec, TLAPS, FiniteSetTheorems, SequenceTheorems,
        NaturalsInduction, WellFoundedInduction

Unit == Nat \X Nat

Starts(u) == {i \in 1 .. Len(u) : u[i][2] = 1}

SizeAt(s, u, i) == s[u[i][1]].size

(* Where a packet begins, its other units follow, and then the next one.   *)
WellFormed(s, u) ==
  /\ \A i \in 1 .. Len(u) : u[i][1] \in 1 .. Len(s)
  /\ \A i \in Starts(u), m \in Nat :
       (m < SizeAt(s, u, i) /\ i + m <= Len(u)) => u[i + m] = <<u[i][1], m + 1>>
  /\ \A i \in Starts(u) :
       i + SizeAt(s, u, i) <= Len(u) => u[i + SizeAt(s, u, i)] = <<u[i][1] + 1, 1>>

(* The first packet of the stream is the one after the first n.            *)
BeginsAfter(u, n) == u # <<>> => u[1] = <<n + 1, 1>>

(* The stream goes on to the end of the last packet sent.                  *)
IsWhole(s, u, n) ==
  /\ u = <<>> => n = Len(s)
  /\ \A i \in Starts(u) :
       /\ i + SizeAt(s, u, i) - 1 <= Len(u)
       /\ i + SizeAt(s, u, i) - 1 = Len(u) => u[i][1] = Len(s)

(* What of c's stream the server has not taken.                            *)
Flow(c) == buffer[c] \o (arrived[c] \o flight[c])

FlowInv(c) ==
  /\ WellFormed(sent[c], Flow(c))
  /\ BeginsAfter(Flow(c), Len(taken[c]))
  /\ link[c] # "reset" => IsWhole(sent[c], Flow(c), Len(taken[c]))
  /\ link[c] = "reset" => arrived[c] = <<>> /\ flight[c] = <<>>

(* The packets taken are the first of those sent.                          *)
IsPrefix(t, s) == Len(t) <= Len(s) /\ \A i \in 1 .. Len(t) : t[i] = s[i]

(* A connection is in m_clients, or waits to be accepted, until it has     *)
(* failed or has been read to its end.                                     *)
Served(c) ==
  /\ buffer[c] # <<>> => Listed(c)
  /\ link[c] = "up" => Listed(c) \/ Waiting(c)
  /\ (link[c] = "ended" /\ ~ Listed(c) /\ ~ Waiting(c)) => taken[c] = sent[c]

(* Who greets is not connecting any more, and never again.                 *)
Greets(c) ==
  /\ link[c] = "none" =>
       /\ sent[c] = <<>>
       /\ tcpState[c] = "disconnected" /\ lastState[c] = "disconnected"
  /\ tcpState[c] = "connecting" => lastState[c] = "connecting"
  /\ lastState[c] = "connecting" => Places(c, "handshake") = {}
  /\ \A i, j \in Places(c, "handshake") : i = j

Shapes ==
  /\ tcpState \in [Clients -> {"disconnected", "connecting", "connected"}]
  /\ lastState \in [Clients -> {"disconnected", "connecting", "connected"}]
  /\ link \in [Clients -> {"none", "pending", "refused", "up", "ended", "reset"}]
  /\ flight \in [Clients -> Seq(Unit)]
  /\ arrived \in [Clients -> Seq(Unit)]
  /\ buffer \in [Clients -> Seq(Unit)]
  /\ sent \in [Clients -> Seq(Packets)]
  /\ taken \in [Clients -> Seq(Packets)]
  /\ conns \in Seq(Clients)
  /\ backlog \in Seq(Clients)
  /\ datagrams \in Nat /\ coming \in Nat /\ datagrams + coming <= MaxDatagrams

ClientInv(c) ==
  /\ FlowInv(c)
  /\ IsPrefix(taken[c], sent[c])
  /\ Served(c)
  /\ Greets(c)

IInv == Shapes /\ \A c \in Clients : ClientInv(c)
-----------------------------------------------------------------------------
(* Streams.                                                                *)

LEMMA SizeType == \A packet \in Packets : packet.size \in Nat \ {0}
<1> SUFFICES ASSUME NEW packet \in Packets
             PROVE  packet.size \in Nat \ {0}
  OBVIOUS
<1>1. packet.size \in Sizes \cup {1}
  BY DEF Packets
<1>2. \A x \in Sizes : x \in Nat \ {0}
  BY SizesAssumption
<1>3. 1 \in Nat \ {0}
  OBVIOUS
<1> QED BY <1>1, <1>2, <1>3

(* What a concatenation has where.                                         *)
LEMMA Joined ==
  ASSUME NEW S, NEW p \in Seq(S), NEW q \in Seq(S)
  PROVE  /\ p \o q \in Seq(S)
         /\ Len(p) \in Nat /\ Len(q) \in Nat
         /\ Len(p \o q) = Len(p) + Len(q)
         /\ \A i \in 1 .. Len(p) : (p \o q)[i] = p[i]
         /\ \A i \in Len(p) + 1 .. Len(p) + Len(q) : (p \o q)[i] = q[i - Len(p)]
<1>1. /\ p \o q \in Seq(S)
      /\ Len(p \o q) = Len(p) + Len(q)
      /\ Len(p) \in Nat /\ Len(q) \in Nat
      /\ \A i \in 1 .. Len(p) + Len(q) :
           (p \o q)[i] = IF i <= Len(p) THEN p[i] ELSE q[i - Len(p)]
  BY ConcatProperties, LenProperties
<1> QED BY <1>1

LEMMA HeadOfJoined ==
  ASSUME NEW S, NEW p \in Seq(S), NEW q \in Seq(S), p # <<>>
  PROVE  p \o q # <<>> /\ Head(p) = (p \o q)[1]
<1>1. Len(p) \in Nat \ {0} /\ Len(q) \in Nat
  BY EmptySeq, LenProperties
<1>2. Len(p \o q) = Len(p) + Len(q) /\ \A i \in 1 .. Len(p) : (p \o q)[i] = p[i]
  BY Joined
<1>3. 1 \in 1 .. Len(p) /\ Len(p \o q) # 0
  BY <1>1, <1>2
<1> QED BY <1>2, <1>3

LEMMA Regrouped ==
  ASSUME NEW S
  PROVE  \A p, q, r \in Seq(S) : (p \o q) \o r = p \o (q \o r)
BY ConcatAssociative

(* A sequence cut in two.                                                  *)
LEMMA Cut ==
  ASSUME NEW S, NEW s \in Seq(S), NEW n \in 0 .. Len(s)
  PROVE  /\ SubSeq(s, 1, n) \in Seq(S) /\ Len(SubSeq(s, 1, n)) = n
         /\ \A i \in 1 .. n : SubSeq(s, 1, n)[i] = s[i]
         /\ SubSeq(s, n + 1, Len(s)) \in Seq(S)
         /\ Len(SubSeq(s, n + 1, Len(s))) = Len(s) - n
         /\ \A i \in 1 .. Len(s) - n : SubSeq(s, n + 1, Len(s))[i] = s[n + i]
         /\ SubSeq(s, 1, n) \o SubSeq(s, n + 1, Len(s)) = s
<1>1. Len(s) \in Nat /\ n \in Nat /\ n <= Len(s)
      /\ \A i \in 1 .. Len(s) : s[i] \in S
  BY LenProperties, ElementOfSeq
<1>2. /\ SubSeq(s, 1, n) \in Seq(S) /\ Len(SubSeq(s, 1, n)) = n
      /\ \A i \in 1 .. n : SubSeq(s, 1, n)[i] = s[i]
  <2>1. \A i \in 1 .. n : s[i] \in S
    BY <1>1
  <2> HIDE <1>1
  <2>2. /\ SubSeq(s, 1, n) \in Seq(S)
        /\ Len(SubSeq(s, 1, n)) = IF 1 <= n THEN n - 1 + 1 ELSE 0
        /\ \A i \in 1 .. n - 1 + 1 : SubSeq(s, 1, n)[i] = s[1 + i - 1]
    BY <2>1, <1>1, SubSeqProperties
  <2> QED BY <2>2, <1>1
<1>3. /\ SubSeq(s, n + 1, Len(s)) \in Seq(S)
      /\ Len(SubSeq(s, n + 1, Len(s))) = Len(s) - n
      /\ \A i \in 1 .. Len(s) - n : SubSeq(s, n + 1, Len(s))[i] = s[n + i]
  <2> DEFINE m == n + 1
             l == Len(s)
  <2>1. \A i \in m .. l : s[i] \in S
    BY <1>1
  <2>2. m \in Int /\ l \in Int
    BY <1>1
  <2> HIDE DEF m, l
  <2>3. /\ SubSeq(s, m, l) \in Seq(S)
        /\ Len(SubSeq(s, m, l)) = IF m <= l THEN l - m + 1 ELSE 0
        /\ \A i \in 1 .. l - m + 1 : SubSeq(s, m, l)[i] = s[m + i - 1]
    BY <2>1, <2>2, SubSeqProperties
  <2> USE DEF m, l
  <2>4. IF m <= l THEN l - m + 1 = l - n ELSE 0 = l - n
    BY <1>1
  <2>5. \A i \in 1 .. l - n : i \in 1 .. l - m + 1 /\ m + i - 1 = n + i
    BY <1>1
  <2> QED BY <2>3, <2>4, <2>5
<1>4. SubSeq(s, 1, n) \o SubSeq(s, n + 1, Len(s)) = s
  <2> DEFINE p == SubSeq(s, 1, n)
             q == SubSeq(s, n + 1, Len(s))
  <2> HIDE DEF p, q
  <2>0. p \in Seq(S) /\ q \in Seq(S) /\ Len(p) = n /\ Len(q) = Len(s) - n
    BY <1>2, <1>3 DEF p, q
  <2>1. /\ p \o q \in Seq(S) /\ Len(p \o q) = Len(s)
        /\ \A i \in 1 .. n : (p \o q)[i] = p[i]
        /\ \A i \in n + 1 .. Len(s) : (p \o q)[i] = q[i - n]
    <3>1. /\ p \o q \in Seq(S) /\ Len(p \o q) = Len(p) + Len(q)
          /\ \A i \in 1 .. Len(p) : (p \o q)[i] = p[i]
          /\ \A i \in Len(p) + 1 .. Len(p) + Len(q) : (p \o q)[i] = q[i - Len(p)]
      BY <2>0, Joined
    <3> QED BY <3>1, <2>0, <1>1
  <2>2. \A i \in 1 .. n : p[i] = s[i]
    BY <1>2 DEF p
  <2>3. \A i \in n + 1 .. Len(s) : q[i - n] = s[i]
    BY <1>1, <1>3 DEF q
  <2>4. Len(p \o q) = Len(s) /\ \A i \in 1 .. Len(s) : (p \o q)[i] = s[i]
    BY <1>1, <2>1, <2>2, <2>3
  <2> QED BY <2>1, <2>4, SeqEqual DEF p, q
<1> QED BY <1>2, <1>3, <1>4
(* What the parts of WellFormed say of one place, with the types it needs. *)
LEMMA StreamTypes ==
  ASSUME NEW s \in Seq(Packets), NEW u \in Seq(Unit), WellFormed(s, u)
  PROVE  /\ Len(s) \in Nat /\ Len(u) \in Nat
         /\ \A i \in 1 .. Len(u) :
              /\ u[i] \in Unit /\ u[i][1] \in 1 .. Len(s) /\ u[i][2] \in Nat
              /\ SizeAt(s, u, i) \in Nat \ {0}
<1>1. Len(s) \in Nat /\ Len(u) \in Nat
  BY LenProperties
<1>2. ASSUME NEW i \in 1 .. Len(u)
      PROVE  /\ u[i] \in Unit /\ u[i][1] \in 1 .. Len(s) /\ u[i][2] \in Nat
             /\ SizeAt(s, u, i) \in Nat \ {0}
  <2>1. u[i] \in Unit
    BY ElementOfSeq
  <2>2. u[i][1] \in 1 .. Len(s)
    BY DEF WellFormed
  <2>3. s[u[i][1]] \in Packets
    BY <2>2, ElementOfSeq
  <2> QED BY <2>1, <2>2, <2>3, SizeType DEF SizeAt, Unit
<1> QED BY <1>1, <1>2

LEMMA UnitsOfPacket ==
  ASSUME NEW k \in Nat, NEW packet \in Packets
  PROVE  /\ Units(k, packet) \in Seq(Unit)
         /\ Len(Units(k, packet)) = packet.size
         /\ \A j \in 1 .. packet.size : Units(k, packet)[j] = <<k, j>>
<1>1. packet.size \in Nat
  BY SizeType
<1> HIDE DEF Packets
<1> DEFINE w == [j \in 1 .. packet.size |-> <<k, j>>]
<1>2. w \in [1 .. packet.size -> Unit]
  BY <1>1 DEF Unit
<1>3. w \in Seq(Unit) /\ Len(w) = packet.size
  BY <1>1, <1>2
<1>4. \A j \in 1 .. packet.size : w[j] = <<k, j>>
  OBVIOUS
<1> QED BY <1>3, <1>4 DEF Units

(* The stream with one more packet at its end.                             *)
LEMMA SendKeepsStream ==
  ASSUME NEW s \in Seq(Packets), NEW u \in Seq(Unit), NEW n \in Nat,
         NEW packet \in Packets,
         WellFormed(s, u), BeginsAfter(u, n), IsWhole(s, u, n)
  PROVE  LET t == Append(s, packet)
             v == u \o Units(Len(s) + 1, packet)
         IN WellFormed(t, v) /\ BeginsAfter(v, n) /\ IsWhole(t, v, n)
<1> DEFINE t == Append(s, packet)
           z == packet.size
           k == Len(s) + 1
           w == Units(k, packet)
           v == u \o w
           l == Len(u)
<1>1. /\ Len(s) \in Nat /\ l \in Nat
      /\ \A i \in 1 .. l :
           /\ u[i] \in Unit /\ u[i][1] \in 1 .. Len(s) /\ u[i][2] \in Nat
           /\ SizeAt(s, u, i) \in Nat \ {0}
  BY StreamTypes
<1>2. z \in Nat \ {0} /\ k \in Nat /\ k = Len(s) + 1
  BY <1>1, SizeType
<1>3. /\ Len(t) = k
      /\ \A i \in 1 .. Len(s) : t[i] = s[i]
      /\ t[k] = packet
  BY <1>1, AppendProperties
<1>4. /\ w \in Seq(Unit) /\ Len(w) = z
      /\ \A j \in 1 .. z : w[j] = <<k, j>>
  BY <1>2, UnitsOfPacket
<1> HIDE DEF t, z, k, w
<1>5. /\ v \in Seq(Unit) /\ Len(v) = l + z
      /\ \A i \in 1 .. l : v[i] = u[i]
      /\ \A i \in l + 1 .. l + z : v[i] = w[i - l]
  BY <1>4, Joined
<1> HIDE DEF v, l
<1>6. \A i \in l + 1 .. l + z : v[i] = <<k, i - l>>
  BY <1>1, <1>2, <1>4, <1>5
<1>7. \A i \in 1 .. l : v[i] = u[i] /\ SizeAt(t, v, i) = SizeAt(s, u, i)
  BY <1>1, <1>3, <1>5 DEF SizeAt
<1>8. v[l + 1] = <<k, 1>> /\ SizeAt(t, v, l + 1) = z
  <2>1. v[l + 1] = <<k, 1>>
    <3>1. l + 1 \in l + 1 .. l + z /\ (l + 1) - l = 1
      BY <1>1, <1>2
    <3>2. v[l + 1] = <<k, (l + 1) - l>>
      BY <3>1, <1>6
    <3> QED BY <3>1, <3>2
  <2>2. t[v[l + 1][1]] = packet
    BY <2>1, <1>3
  <2> QED BY <2>1, <2>2 DEF SizeAt, z
<1>9. Starts(v) = Starts(u) \cup {l + 1}
  <2>1. ASSUME NEW i \in 1 .. l + z PROVE i \in Starts(v) <=> i \in Starts(u) \cup {l + 1}
    <3>1. CASE i <= l
      BY <3>1, <1>1, <1>2, <1>5, <1>7 DEF Starts, l
    <3>2. CASE i > l
      <4>1. v[i] = <<k, i - l>>
        BY <3>2, <1>1, <1>2, <1>6
      <4>2. v[i][2] = i - l
        BY <4>1
      <4> QED BY <3>2, <4>2, <1>1, <1>2, <1>5 DEF Starts, l
    <3> QED BY <3>1, <3>2, <1>1, <1>2
  <2>2. Starts(v) \subseteq 1 .. l + z /\ Starts(u) \subseteq 1 .. l /\ l + 1 \in 1 .. l + z
    BY <1>1, <1>2, <1>5 DEF Starts, l
  <2>3. 1 .. l \subseteq 1 .. l + z
    BY <1>1, <1>2
  <2> QED BY <2>1, <2>2, <2>3
<1>10. \A i \in Starts(u) : i \in 1 .. l
  BY DEF Starts, l
<1>11. WellFormed(t, v)
  <2>1. \A i \in 1 .. Len(v) : v[i][1] \in 1 .. Len(t)
    <3> SUFFICES ASSUME NEW i \in 1 .. l + z
                 PROVE  v[i][1] \in 1 .. k
      BY <1>3, <1>5
    <3>1. CASE i <= l
      BY <3>1, <1>1, <1>2, <1>7
    <3>2. CASE i > l
      <4>1. v[i] = <<k, i - l>>
        BY <3>2, <1>1, <1>2, <1>6
      <4> QED BY <4>1, <1>1, <1>2
    <3> QED BY <3>1, <3>2, <1>1, <1>2
  <2>2. ASSUME NEW i \in Starts(v), NEW m \in Nat, m < SizeAt(t, v, i), i + m <= Len(v)
        PROVE  v[i + m] = <<v[i][1], m + 1>>
    <3>1. CASE i \in Starts(u)
      <4>1. i + SizeAt(s, u, i) - 1 <= l
        BY <3>1 DEF IsWhole, l
      <4>2. i \in 1 .. l /\ SizeAt(s, u, i) \in Nat /\ m < SizeAt(s, u, i)
        BY <3>1, <2>2, <1>1, <1>7, <1>10
      <4>3. i + m \in 1 .. l
        BY <4>1, <4>2, <1>1
      <4>4. u[i + m] = <<u[i][1], m + 1>>
        BY <3>1, <4>2, <4>3 DEF WellFormed, l
      <4> QED BY <4>2, <4>3, <4>4, <1>5
    <3>2. CASE i = l + 1
      <4>1. m < z /\ i + m \in l + 1 .. l + z
        BY <3>2, <2>2, <1>1, <1>2, <1>8
      <4>2. v[i + m] = <<k, i + m - l>> /\ i + m - l = m + 1
        BY <4>1, <3>2, <1>6, <1>1
      <4> QED BY <4>2, <3>2, <1>8
    <3> QED BY <3>1, <3>2, <1>9
  <2>3. ASSUME NEW i \in Starts(v), i + SizeAt(t, v, i) <= Len(v)
        PROVE  v[i + SizeAt(t, v, i)] = <<v[i][1] + 1, 1>>
    <3>1. CASE i \in Starts(u)
      <4> DEFINE a == SizeAt(s, u, i)
      <4>1. i \in 1 .. l /\ a \in Nat \ {0} /\ a = SizeAt(t, v, i) /\ v[i] = u[i]
        BY <3>1, <1>1, <1>7, <1>10
      <4>2. i + a - 1 <= l /\ (i + a - 1 = l => u[i][1] = Len(s))
        BY <3>1 DEF IsWhole, l
      <4>3. i + a <= l => u[i + a] = <<u[i][1] + 1, 1>>
        BY <3>1 DEF WellFormed, l
      <4> HIDE DEF a
      <4>6. i \in Int /\ a \in Int /\ l \in Int
        BY <4>1, <1>1
      <4>4. CASE i + a <= l
        <5>1. i + a \in 1 .. l
          BY <4>1, <4>4, <1>1
        <5> QED BY <5>1, <4>1, <4>3, <4>4, <1>5
      <4>5. CASE i + a = l + 1
        <5>1. i + a - 1 = l
          BY <4>5, <4>6
        <5>2. u[i][1] + 1 = k
          BY <5>1, <4>2, <1>2
        <5> QED BY <5>2, <4>1, <4>5, <1>8
      <4>7. i + a <= l \/ i + a = l + 1
        BY <4>2, <4>6
      <4> QED BY <4>4, <4>5, <4>7 DEF a
    <3>2. CASE i = l + 1
      BY <3>2, <2>3, <1>1, <1>2, <1>5, <1>8
    <3> QED BY <3>1, <3>2, <1>9
  <2> QED BY <2>1, <2>2, <2>3 DEF WellFormed
<1>12. BeginsAfter(v, n)
  <2>1. CASE u = <<>>
    <3>1. l = 0 /\ n = Len(s)
      BY <2>1 DEF IsWhole, l
    <3> QED BY <3>1, <1>2, <1>8 DEF BeginsAfter
  <2>2. CASE u # <<>>
    <3>1. l # 0
      BY <2>2, EmptySeq DEF l
    <3>2. v[1] = u[1]
      BY <3>1, <1>1, <1>5
    <3> QED BY <2>2, <3>2 DEF BeginsAfter
  <2> QED BY <2>1, <2>2
<1>13. IsWhole(t, v, n)
  <2>1. v # <<>>
    <3>1. Len(v) # 0
      BY <1>1, <1>2, <1>5
    <3> QED BY <3>1
  <2>2. ASSUME NEW i \in Starts(v)
        PROVE  /\ i + SizeAt(t, v, i) - 1 <= Len(v)
               /\ i + SizeAt(t, v, i) - 1 = Len(v) => v[i][1] = Len(t)
    <3>1. CASE i \in Starts(u)
      <4>1. i \in 1 .. l /\ SizeAt(s, u, i) \in Nat /\ SizeAt(t, v, i) = SizeAt(s, u, i)
        BY <3>1, <1>1, <1>7, <1>10
      <4>2. i + SizeAt(s, u, i) - 1 <= l
        BY <3>1 DEF IsWhole, l
      <4> QED BY <4>1, <4>2, <1>1, <1>2, <1>5
    <3>2. CASE i = l + 1
      BY <3>2, <1>1, <1>2, <1>3, <1>5, <1>8
    <3> QED BY <3>1, <3>2, <1>9
  <2> QED BY <2>1, <2>2 DEF IsWhole
<1> QED BY <1>11, <1>12, <1>13 DEF t, v, w, k

(* What is left of a stream when its end is lost.                          *)
LEMMA LossKeepsStream ==
  ASSUME NEW s \in Seq(Packets), NEW p \in Seq(Unit), NEW q \in Seq(Unit), NEW n \in Nat,
         WellFormed(s, p \o q), BeginsAfter(p \o q, n)
  PROVE  WellFormed(s, p) /\ BeginsAfter(p, n)
<1> DEFINE u == p \o q
<1>1. /\ u \in Seq(Unit)
      /\ Len(p) \in Nat /\ Len(q) \in Nat /\ Len(u) = Len(p) + Len(q)
      /\ \A i \in 1 .. Len(p) : u[i] = p[i]
  BY Joined
<1>2. \A i \in 1 .. Len(u) : u[i][1] \in 1 .. Len(s) /\ SizeAt(s, u, i) \in Nat \ {0}
  BY <1>1, StreamTypes
<1>3. WellFormed(s, u) /\ BeginsAfter(u, n)
  OBVIOUS
<1> HIDE DEF u
<1>4. \A i \in 1 .. Len(p) : i \in 1 .. Len(u) /\ SizeAt(s, u, i) = SizeAt(s, p, i)
  BY <1>1 DEF SizeAt
<1>5. \A i \in Starts(p) : i \in 1 .. Len(p) /\ i \in Starts(u)
  BY <1>1, <1>4 DEF Starts
<1>6. \A i \in 1 .. Len(p) : p[i][1] \in 1 .. Len(s)
  BY <1>1, <1>2, <1>4
<1>7. ASSUME NEW i \in Starts(p), NEW m \in Nat, m < SizeAt(s, p, i), i + m <= Len(p)
      PROVE  p[i + m] = <<p[i][1], m + 1>>
  <2>1. i \in 1 .. Len(p) /\ i \in Starts(u) /\ i + m \in 1 .. Len(p) /\ m < SizeAt(s, u, i)
    BY <1>1, <1>4, <1>5, <1>7
  <2>2. i + m <= Len(u)
    BY <2>1, <1>1
  <2>3. u[i + m] = <<u[i][1], m + 1>>
    BY <2>1, <2>2, <1>3 DEF WellFormed
  <2> QED BY <2>1, <2>3, <1>1
<1>8. ASSUME NEW i \in Starts(p), i + SizeAt(s, p, i) <= Len(p)
      PROVE  p[i + SizeAt(s, p, i)] = <<p[i][1] + 1, 1>>
  <2> DEFINE a == SizeAt(s, p, i)
  <2>1. i \in 1 .. Len(p) /\ i \in Starts(u) /\ a = SizeAt(s, u, i) /\ a \in Nat
    BY <1>2, <1>4, <1>5
  <2> HIDE DEF a
  <2>2. i + a \in 1 .. Len(p) /\ i + a <= Len(u)
    BY <2>1, <1>1, <1>8 DEF a
  <2>3. u[i + a] = <<u[i][1] + 1, 1>>
    BY <2>1, <2>2, <1>3 DEF WellFormed
  <2> QED BY <2>1, <2>2, <2>3, <1>1 DEF a
<1>9. BeginsAfter(p, n)
  <2> SUFFICES ASSUME p # <<>>
               PROVE  p[1] = <<n + 1, 1>>
    BY DEF BeginsAfter
  <2>1. Len(p) # 0
    BY EmptySeq
  <2>2. 1 \in 1 .. Len(p) /\ Len(u) # 0
    BY <2>1, <1>1
  <2>3. u # <<>>
    BY <2>2
  <2> QED BY <2>2, <2>3, <1>1, <1>3 DEF BeginsAfter
<1> QED BY <1>6, <1>7, <1>8, <1>9 DEF WellFormed
(* What is left of a stream when its first packet is taken.                *)
LEMMA TakeKeepsStream ==
  ASSUME NEW s \in Seq(Packets), NEW u \in Seq(Unit), NEW v \in Seq(Unit), NEW n \in Nat,
         WellFormed(s, u), BeginsAfter(u, n), u # <<>>, SizeAt(s, u, 1) <= Len(u),
         Len(v) = Len(u) - SizeAt(s, u, 1),
         \A i \in 1 .. Len(v) : v[i] = u[i + SizeAt(s, u, 1)]
  PROVE  /\ n + 1 \in 1 .. Len(s) /\ u[1][1] = n + 1
         /\ WellFormed(s, v) /\ BeginsAfter(v, n + 1)
         /\ IsWhole(s, u, n) => IsWhole(s, v, n + 1)
<1> DEFINE z == SizeAt(s, u, 1)
           l == Len(u)
<1>1. /\ Len(s) \in Nat /\ l \in Nat
      /\ \A i \in 1 .. l :
           /\ u[i][1] \in 1 .. Len(s) /\ u[i][2] \in Nat
           /\ SizeAt(s, u, i) \in Nat \ {0}
  BY StreamTypes
<1>2. 1 \in 1 .. l
  <2>1. l # 0
    BY EmptySeq
  <2> QED BY <2>1, <1>1
<1>3. u[1] = <<n + 1, 1>> /\ 1 \in Starts(u)
  BY <1>2 DEF BeginsAfter, Starts
<1>4. z \in Nat \ {0} /\ z <= l /\ Len(v) = l - z /\ \A i \in 1 .. l - z : v[i] = u[i + z]
  BY <1>1, <1>2
<1>5. n + 1 \in 1 .. Len(s) /\ u[1][1] = n + 1
  BY <1>1, <1>2, <1>3
<1>6. 1 + z - 1 = l => n + 1 = Len(s) \/ ~ IsWhole(s, u, n)
  BY <1>3, <1>5 DEF IsWhole, z, l
<1>7. 1 + z <= l => u[1 + z] = <<n + 1 + 1, 1>>
  <2>1. 1 + z <= l => u[1 + z] = <<u[1][1] + 1, 1>>
    BY <1>3 DEF WellFormed, z, l
  <2> QED BY <2>1, <1>5
<1> HIDE DEF z, l
<1>8. ASSUME NEW i \in 1 .. l - z
      PROVE  /\ i + z \in 1 .. l /\ i \in Int /\ z \in Int /\ l \in Int
             /\ v[i] = u[i + z] /\ SizeAt(s, v, i) = SizeAt(s, u, i + z)
             /\ SizeAt(s, v, i) \in Nat
  <2>1. i + z \in 1 .. l /\ v[i] = u[i + z] /\ i \in Int /\ z \in Int /\ l \in Int
    BY <1>1, <1>4
  <2>2. SizeAt(s, v, i) = SizeAt(s, u, i + z)
    BY <2>1 DEF SizeAt
  <2> QED BY <2>1, <2>2, <1>1
<1>9. \A i \in Starts(v) : i \in 1 .. l - z /\ i + z \in Starts(u)
  <2> SUFFICES ASSUME NEW i \in Starts(v)
               PROVE  i \in 1 .. l - z /\ i + z \in Starts(u)
    OBVIOUS
  <2>1. i \in 1 .. l - z /\ v[i][2] = 1
    BY <1>4 DEF Starts
  <2>2. i + z \in 1 .. l /\ v[i] = u[i + z]
    BY <2>1, <1>8
  <2> QED BY <2>1, <2>2 DEF Starts, l
<1>10. \A i \in 1 .. Len(v) : v[i][1] \in 1 .. Len(s)
  BY <1>1, <1>4, <1>8
<1>11. ASSUME NEW i \in Starts(v), NEW m \in Nat, m < SizeAt(s, v, i), i + m <= Len(v)
       PROVE  v[i + m] = <<v[i][1], m + 1>>
  <2>1. i \in 1 .. l - z /\ i + z \in Starts(u)
    BY <1>9
  <2>2. i + m \in 1 .. l - z /\ i + z + m <= l
    BY <2>1, <1>4, <1>8, <1>11
  <2>3. u[i + z + m] = <<u[i + z][1], m + 1>>
    BY <2>1, <2>2, <1>8, <1>11 DEF WellFormed, l
  <2>4. v[i + m] = u[i + m + z] /\ i + m + z = i + z + m
    BY <2>1, <2>2, <1>8
  <2> QED BY <2>1, <2>3, <2>4, <1>8
<1>12. ASSUME NEW i \in Starts(v), i + SizeAt(s, v, i) <= Len(v)
       PROVE  v[i + SizeAt(s, v, i)] = <<v[i][1] + 1, 1>>
  <2> DEFINE a == SizeAt(s, v, i)
             j == i + z
  <2>1. i \in 1 .. l - z /\ j \in Starts(u)
    BY <1>9
  <2>2. a \in Nat /\ i \in Int /\ z \in Int /\ l \in Int /\ a = SizeAt(s, u, j) /\ v[i] = u[j]
    BY <2>1, <1>8
  <2>3. i + a \in 1 .. l - z /\ j + a <= l
    BY <2>1, <2>2, <1>4, <1>12
  <2>4. u[j + a] = <<u[j][1] + 1, 1>>
    <3> HIDE DEF a, j
    <3> QED BY <2>1, <2>2, <2>3 DEF WellFormed, l
  <2>5. v[i + a] = u[i + a + z]
    <3> HIDE DEF a
    <3> QED BY <2>3, <1>8
  <2>6. i + a + z = j + a
    <3> HIDE DEF a
    <3> QED BY <2>2
  <2> QED BY <2>2, <2>4, <2>5, <2>6
<1>13. BeginsAfter(v, n + 1)
  <2> SUFFICES ASSUME v # <<>>
               PROVE  v[1] = <<n + 1 + 1, 1>>
    BY DEF BeginsAfter
  <2>1. l - z # 0
    BY <1>4, EmptySeq
  <2>2. 1 \in 1 .. l - z /\ 1 + z <= l
    BY <2>1, <1>1, <1>4
  <2> QED BY <2>2, <1>7, <1>8
<1>14. ASSUME IsWhole(s, u, n) PROVE IsWhole(s, v, n + 1)
  <2>1. v = <<>> => n + 1 = Len(s)
    <3> SUFFICES ASSUME v = <<>> PROVE n + 1 = Len(s)
      OBVIOUS
    <3>1. l - z = 0
      BY <1>4
    <3>2. 1 + z - 1 = l
      BY <3>1, <1>1, <1>4
    <3> QED BY <3>2, <1>6, <1>14
  <2>2. ASSUME NEW i \in Starts(v)
        PROVE  /\ i + SizeAt(s, v, i) - 1 <= Len(v)
               /\ i + SizeAt(s, v, i) - 1 = Len(v) => v[i][1] = Len(s)
    <3> DEFINE a == SizeAt(s, v, i)
               j == i + z
    <3>1. i \in 1 .. l - z /\ j \in Starts(u)
      BY <1>9
    <3>2. a \in Nat /\ i \in Int /\ z \in Int /\ l \in Int /\ a = SizeAt(s, u, j) /\ v[i] = u[j]
      BY <3>1, <1>8
    <3>3. j + a - 1 <= l /\ (j + a - 1 = l => u[j][1] = Len(s))
      <4> HIDE DEF a, j
      <4> QED BY <3>1, <3>2, <1>14 DEF IsWhole, l
    <3>4. i + a - 1 <= l - z /\ (i + a - 1 = l - z => j + a - 1 = l)
      <4>1. a \in Int /\ i \in Int /\ z \in Int /\ l \in Int /\ i + z + a - 1 <= l
        BY <3>2, <3>3
      <4> HIDE DEF a
      <4> QED BY <4>1
    <3> QED BY <3>2, <3>3, <3>4, <1>4
  <2> QED BY <2>1, <2>2 DEF IsWhole
<1> QED BY <1>5, <1>10, <1>11, <1>12, <1>13, <1>14 DEF WellFormed
-----------------------------------------------------------------------------
(* The walk through m_clients.                                             *)

LEMMA Smallest ==
  ASSUME NEW T \in SUBSET Nat, T # {}
  PROVE  \E x \in T : \A y \in T : x <= y
<1> DEFINE R == OpToRel(<, Nat)
<1>1. IsWellFoundedOn(R, Nat)
  BY NatLessThanWellFounded
<1>2. \A x, y \in Nat : <<y, x>> \in R <=> y < x
  BY DEF OpToRel
<1> HIDE DEF R
<1>3. PICK x \in T : \A y \in T : ~ (<<y, x>> \in R)
  BY <1>1, WFMin
<1>4. ASSUME NEW y \in T PROVE x <= y
  <2>1. ~ (y < x) /\ x \in Nat /\ y \in Nat
    BY <1>2, <1>3
  <2> QED BY <2>1
<1> QED BY <1>4

(* Who is in a list.                                                       *)
In(c, list) == \E i \in 1 .. Len(list) : list[i] = c

LEMMA InAppend ==
  ASSUME NEW S, NEW list \in Seq(S), NEW d \in S, NEW c
  PROVE  In(c, Append(list, d)) <=> In(c, list) \/ c = d
<1>1. /\ Len(list) \in Nat /\ Len(Append(list, d)) = Len(list) + 1
      /\ \A i \in 1 .. Len(list) : Append(list, d)[i] = list[i]
      /\ Append(list, d)[Len(list) + 1] = d
  BY AppendProperties, LenProperties
<1>2. 1 .. Len(list) + 1 = 1 .. Len(list) \cup {Len(list) + 1}
  BY <1>1
<1> QED BY <1>1, <1>2 DEF In

LEMMA WithoutKeeps ==
  ASSUME NEW S, NEW list \in Seq(S), NEW lost
  PROVE  /\ Without(list, lost) \in Seq(S)
         /\ \A c : In(c, Without(list, lost)) <=> In(c, list) /\ c \notin lost
<1> DEFINE l == Len(list)
           Step(f, i) == IF i = 0 THEN <<>>
                         ELSE IF list[i] \in lost THEN f[i - 1] ELSE Append(f[i - 1], list[i])
           Is(f, n) == f = [i \in 0 .. n |-> Step(f, i)]
           kept == CHOOSE f : Is(f, l)
<1>1. l \in Nat /\ \A i \in 1 .. l : list[i] \in S
  BY LenProperties, ElementOfSeq
<1>2. Without(list, lost) = kept[l]
  BY DEF Without
<1>3. \E f : Is(f, l)
  <2> DEFINE Bad == {n \in Nat : ~ \E f : Is(f, n)}
  <2> SUFFICES ASSUME Bad # {} PROVE FALSE
    BY <1>1
  <2>1. PICK n \in Bad : \A m \in Bad : n <= m
    BY Smallest
  <2>2. n # 0
    <3>1. Is([i \in 0 .. 0 |-> <<>>], 0)
      OBVIOUS
    <3> QED BY <3>1
  <2>3. n - 1 \in Nat /\ n - 1 \notin Bad
    <3>1. n \in Nat
      BY <2>1
    <3>2. n - 1 \in Nat /\ ~ (n <= n - 1)
      BY <2>2, <3>1
    <3> HIDE DEF Bad
    <3> QED BY <2>1, <3>2
  <2>4. PICK f : Is(f, n - 1)
    BY <2>3
  <2> DEFINE g == [i \in 0 .. n |-> IF i = n THEN Step(f, n) ELSE f[i]]
  <2>5. ASSUME NEW i \in 0 .. n PROVE g[i] = Step(g, i)
    <3>1. CASE i = 0
      <4>1. 0 \in 0 .. n - 1 /\ 0 # n
        BY <2>2, <2>3
      <4>2. f[0] = <<>>
        BY <2>4, <4>1
      <4> QED BY <3>1, <4>1, <4>2
    <3>2. CASE i \in 1 .. n - 1
      <4>1. i \in 0 .. n - 1 /\ i # n /\ i # 0 /\ i - 1 \in 0 .. n /\ i - 1 # n
        BY <3>2, <2>3
      <4>2. f[i] = Step(f, i)
        BY <2>4, <4>1
      <4>3. g[i] = f[i] /\ g[i - 1] = f[i - 1]
        BY <4>1
      <4> QED BY <4>1, <4>2, <4>3
    <3>3. CASE i = n
      <4>1. n - 1 \in 0 .. n /\ n - 1 # n
        BY <2>3
      <4>2. g[n - 1] = f[n - 1] /\ g[n] = Step(f, n)
        BY <4>1
      <4> QED BY <3>3, <4>2, <2>2
    <3> QED BY <3>1, <3>2, <3>3, <2>3
  <2>6. g = [i \in 0 .. n |-> g[i]]
    OBVIOUS
  <2>7. Is(g, n)
    <3> HIDE DEF g
    <3> QED BY <2>5, <2>6
  <2> QED BY <2>1, <2>7
<1>4. Is(kept, l)
  BY <1>3
<1>5. kept[0] = <<>> /\ \A i \in 1 .. l : kept[i] = Step(kept, i)
  <2> HIDE DEF kept
  <2>1. \A i \in 0 .. l : kept[i] = Step(kept, i)
    BY <1>4
  <2>2. 0 \in 0 .. l /\ \A i \in 1 .. l : i \in 0 .. l
    BY <1>1
  <2> QED BY <2>1, <2>2
<1> HIDE DEF kept, Is
<1> DEFINE Good(n) ==
             /\ kept[n] \in Seq(S)
             /\ \A c : In(c, kept[n]) <=> (\E i \in 1 .. n : list[i] = c) /\ c \notin lost
           Bad == {n \in 0 .. l : ~ Good(n)}
<1>6. Bad = {}
  <2> SUFFICES ASSUME Bad # {} PROVE FALSE
    OBVIOUS
  <2>1. PICK n \in Bad : \A m \in Bad : n <= m
    <3>1. Bad \subseteq Nat
      <4> HIDE DEF Good
      <4> QED BY <1>1
    <3> HIDE DEF Bad
    <3> QED BY <3>1, Smallest
  <2>2. n \in 0 .. l /\ ~ Good(n)
    BY <2>1
  <2>3. n # 0
    <3>1. kept[0] \in Seq(S) /\ Len(kept[0]) = 0
      BY <1>5, EmptySeq
    <3>2. Good(0)
      BY <3>1 DEF In
    <3> QED BY <2>2, <3>2
  <2>4. n - 1 \in 0 .. l /\ n \in 1 .. l /\ ~ (n <= n - 1)
    BY <1>1, <2>2, <2>3
  <2>5. Good(n - 1)
    <3>1. n - 1 \notin Bad
      BY <2>1, <2>4
    <3> QED BY <3>1, <2>4
  <2>6. \A c : (\E i \in 1 .. n : list[i] = c) <=> (\E i \in 1 .. n - 1 : list[i] = c) \/ c = list[n]
    <3>1. 1 .. n = 1 .. n - 1 \cup {n}
      BY <2>4, <1>1
    <3> QED BY <3>1
  <2>7. CASE list[n] \in lost
    <3>1. kept[n] = kept[n - 1]
      BY <1>5, <2>3, <2>4, <2>7
    <3> QED BY <3>1, <2>2, <2>5, <2>6, <2>7
  <2>8. CASE list[n] \notin lost
    <3>1. kept[n] = Append(kept[n - 1], list[n]) /\ list[n] \in S
      BY <1>1, <1>5, <2>3, <2>4, <2>8
    <3>2. kept[n] \in Seq(S)
      BY <3>1, <2>5, AppendProperties
    <3>3. \A c : In(c, kept[n]) <=> In(c, kept[n - 1]) \/ c = list[n]
      BY <3>1, <2>5, InAppend
    <3> QED BY <3>2, <3>3, <2>2, <2>5, <2>6, <2>8
  <2> QED BY <2>7, <2>8
<1>7. Good(l)
  <2>1. l \in 0 .. l
    BY <1>1
  <2> HIDE DEF Good
  <2> QED BY <2>1, <1>6
<1> QED BY <1>2, <1>7 DEF In
-----------------------------------------------------------------------------
(* One client.                                                             *)

LEMMA FlowType ==
  ASSUME Shapes, NEW c \in Clients
  PROVE  /\ flight[c] \in Seq(Unit) /\ arrived[c] \in Seq(Unit) /\ buffer[c] \in Seq(Unit)
         /\ sent[c] \in Seq(Packets) /\ taken[c] \in Seq(Packets)
         /\ Len(taken[c]) \in Nat /\ Len(sent[c]) \in Nat
         /\ arrived[c] \o flight[c] \in Seq(Unit)
         /\ Flow(c) \in Seq(Unit)
<1>1. /\ flight[c] \in Seq(Unit) /\ arrived[c] \in Seq(Unit) /\ buffer[c] \in Seq(Unit)
      /\ sent[c] \in Seq(Packets) /\ taken[c] \in Seq(Packets)
  BY DEF Shapes
<1> HIDE DEF Packets, Unit
<1>2. arrived[c] \o flight[c] \in Seq(Unit)
  BY <1>1, Joined
<1>3. Flow(c) \in Seq(Unit)
  BY <1>1, <1>2, Joined DEF Flow
<1> QED BY <1>1, <1>2, <1>3, LenProperties

(* Nothing that concerns d has changed, except that it may have been       *)
(* accepted.                                                               *)
LEMMA OthersKept ==
  ASSUME NEW d \in Clients, ClientInv(d),
         tcpState'[d] = tcpState[d], lastState'[d] = lastState[d], link'[d] = link[d],
         flight'[d] = flight[d], arrived'[d] = arrived[d], buffer'[d] = buffer[d],
         sent'[d] = sent[d], taken'[d] = taken[d],
         Listed(d) => Listed(d)',
         Listed(d) \/ Waiting(d) => Listed(d)' \/ Waiting(d)'
  PROVE  ClientInv(d)'
<1>1. Flow(d)' = Flow(d)
  BY DEF Flow
<1>2. FlowInv(d)'
  BY <1>1 DEF ClientInv, FlowInv
<1>3. IsPrefix(taken[d], sent[d])'
  BY DEF ClientInv, IsPrefix
<1>4. Served(d)'
  BY DEF ClientInv, Served
<1>5. Places(d, "handshake")' = Places(d, "handshake")
  BY DEF Places
<1>6. Greets(d)'
  BY <1>5 DEF ClientInv, Greets
<1> QED BY <1>2, <1>3, <1>4, <1>6 DEF ClientInv

LEMMA PlacesOfAppend ==
  ASSUME NEW c \in Clients, NEW packet \in Packets, sent[c] \in Seq(Packets),
         sent'[c] = Append(sent[c], packet), NEW kind
  PROVE  Places(c, kind)' = IF packet.kind = kind THEN Places(c, kind) \cup {Len(sent[c]) + 1}
                            ELSE Places(c, kind)
<1> DEFINE l == Len(sent[c])
<1>1. /\ l \in Nat /\ Len(sent'[c]) = l + 1
      /\ \A i \in 1 .. l : sent'[c][i] = sent[c][i]
      /\ sent'[c][l + 1] = packet
  BY AppendProperties, LenProperties
<1>2. 1 .. l + 1 = 1 .. l \cup {l + 1} /\ l + 1 \notin 1 .. l
  BY <1>1
<1>3. Places(c, kind)' = {i \in 1 .. l + 1 : sent'[c][i].kind = kind}
  BY <1>1 DEF Places
<1>4. Places(c, kind) = {i \in 1 .. l : sent[c][i].kind = kind}
  BY DEF Places
<1> QED BY <1>1, <1>2, <1>3, <1>4

(* A packet is sent on a connection that has not been reset.               *)
LEMMA SendKeepsFlow ==
  ASSUME Shapes, NEW c \in Clients, ClientInv(c), link[c] # "reset", link'[c] # "reset",
         NEW packet \in Packets, SendPacket(c, packet),
         UNCHANGED <<buffer, arrived, taken>>
  PROVE  /\ sent' \in [Clients -> Seq(Packets)] /\ flight' \in [Clients -> Seq(Unit)]
         /\ sent'[c] = Append(sent[c], packet)
         /\ \A d \in Clients : d # c => sent'[d] = sent[d] /\ flight'[d] = flight[d]
         /\ FlowInv(c)' /\ IsPrefix(taken[c], sent[c])'
<1> DEFINE s == sent[c]
           w == Units(Len(s) + 1, packet)
<1>1. /\ flight[c] \in Seq(Unit) /\ arrived[c] \in Seq(Unit) /\ buffer[c] \in Seq(Unit)
      /\ s \in Seq(Packets) /\ Len(s) \in Nat /\ Len(taken[c]) \in Nat
      /\ arrived[c] \o flight[c] \in Seq(Unit) /\ Flow(c) \in Seq(Unit)
  BY FlowType
<1>2. sent \in [Clients -> Seq(Packets)] /\ flight \in [Clients -> Seq(Unit)]
  BY DEF Shapes
<1>3. w \in Seq(Unit)
  <2>1. Len(s) + 1 \in Nat
    BY <1>1
  <2> QED BY <2>1, UnitsOfPacket
<1>4. /\ sent'[c] = Append(s, packet)
      /\ flight'[c] = flight[c] \o w
      /\ \A d \in Clients : d # c => sent'[d] = sent[d] /\ flight'[d] = flight[d]
  BY <1>2 DEF SendPacket
<1>5. sent' \in [Clients -> Seq(Packets)] /\ flight' \in [Clients -> Seq(Unit)]
  <2>1. Append(s, packet) \in Seq(Packets)
    BY <1>1, AppendProperties
  <2>2. flight[c] \o w \in Seq(Unit)
    BY <1>1, <1>3, Joined
  <2> HIDE DEF Packets, Unit, w
  <2> QED BY <1>2, <2>1, <2>2 DEF SendPacket, w
<1> HIDE DEF Packets, Unit, w
<1>6. Flow(c)' = Flow(c) \o w
  <2>3. \A p, q, r \in Seq(Unit) : (p \o q) \o r = p \o (q \o r)
    BY Regrouped
  <2>1. (arrived[c] \o flight[c]) \o w = arrived[c] \o (flight[c] \o w)
    BY <1>1, <1>3, <2>3
  <2>2. (buffer[c] \o (arrived[c] \o flight[c])) \o w
          = buffer[c] \o ((arrived[c] \o flight[c]) \o w)
    BY <1>1, <1>3, <2>3
  <2> QED BY <1>4, <2>1, <2>2 DEF Flow
<1>7. FlowInv(c)'
  <2>1. /\ WellFormed(s, Flow(c)) /\ BeginsAfter(Flow(c), Len(taken[c]))
        /\ IsWhole(s, Flow(c), Len(taken[c]))
    BY DEF ClientInv, FlowInv
  <2>2. /\ WellFormed(Append(s, packet), Flow(c) \o w)
        /\ BeginsAfter(Flow(c) \o w, Len(taken[c]))
        /\ IsWhole(Append(s, packet), Flow(c) \o w, Len(taken[c]))
    BY <1>1, <2>1, SendKeepsStream DEF w
  <2> HIDE DEF s
  <2> QED BY <1>4, <1>6, <2>2 DEF FlowInv
<1>8. IsPrefix(taken[c], sent[c])'
  <2>1. /\ Len(Append(s, packet)) = Len(s) + 1
        /\ \A i \in 1 .. Len(s) : Append(s, packet)[i] = s[i]
    BY <1>1, AppendProperties
  <2>2. Len(taken[c]) <= Len(s) /\ \A i \in 1 .. Len(taken[c]) : taken[c][i] = s[i]
    BY DEF ClientInv, IsPrefix
  <2> HIDE DEF s
  <2>3. Len(taken[c]) <= Len(s) + 1 /\ \A i \in 1 .. Len(taken[c]) : i \in 1 .. Len(s)
    BY <1>1, <2>2
  <2> QED BY <1>4, <2>1, <2>2, <2>3 DEF IsPrefix
<1> QED BY <1>4, <1>5, <1>7, <1>8

LEMMA WaitingAfter ==
  ASSUME Shapes, NEW c \in Clients, NEW d \in Clients, backlog' = Append(backlog, c)
  PROVE  Waiting(d)' <=> Waiting(d) \/ d = c
<1>1. backlog \in Seq(Clients)
  BY DEF Shapes
<1>2. In(d, Append(backlog, c)) <=> In(d, backlog) \/ d = c
  BY <1>1, InAppend
<1> QED BY <1>2 DEF In, Waiting
LEMMA PacketTypes ==
  /\ Handshake \in Packets /\ Handshake.kind = "handshake"
  /\ Disconnect \in Packets /\ Disconnect.kind = "disconnect"
  /\ \A size \in Sizes : [kind |-> "other", size |-> size] \in Packets
BY DEF Packets, Kinds, Handshake, Disconnect

-----------------------------------------------------------------------------
(* The clients' steps.                                                     *)

LEMMA ConnectInv ==
  ASSUME IInv, NEW c \in Clients, Connect(c)
  PROVE  IInv'
<1>1. /\ Shapes /\ \A d \in Clients : ClientInv(d)
      /\ tcpState \in [Clients -> {"disconnected", "connecting", "connected"}]
      /\ lastState \in [Clients -> {"disconnected", "connecting", "connected"}]
      /\ link \in [Clients -> {"none", "pending", "refused", "up", "ended", "reset"}]
  BY DEF IInv, Shapes
<1>2. /\ UNCHANGED <<flight, arrived, backlog, conns, buffer, datagrams, coming, sent, taken>>
      /\ link[c] = "none" /\ link' = [link EXCEPT ![c] = "pending"]
      /\ tcpState' = [tcpState EXCEPT ![c] = "connecting"]
      /\ lastState' = [lastState EXCEPT ![c] = "connecting"]
  BY DEF Connect, serverVars, udpVars
<1>3. Shapes'
  BY <1>1, <1>2 DEF Shapes
<1>4. ASSUME NEW d \in Clients, d # c PROVE ClientInv(d)'
  BY <1>1, <1>2, <1>4, OthersKept DEF Listed, Waiting
<1>5. ClientInv(c)'
  <2>1. ClientInv(c)
    BY <1>1
  <2>2. Flow(c)' = Flow(c) /\ link'[c] = "pending"
    BY <1>1, <1>2 DEF Flow
  <2>3. FlowInv(c)'
    BY <1>2, <2>1, <2>2 DEF ClientInv, FlowInv
  <2>4. IsPrefix(taken[c], sent[c])'
    BY <1>2, <2>1 DEF ClientInv, IsPrefix
  <2>5. Served(c)'
    BY <1>2, <2>1, <2>2 DEF ClientInv, Served, Listed
  <2>6. sent[c] = <<>>
    BY <1>2, <2>1 DEF ClientInv, Greets
  <2>7. Places(c, "handshake")' = {}
    BY <1>2, <2>6 DEF Places
  <2>8. Greets(c)'
    BY <1>1, <1>2, <2>2, <2>7 DEF Greets
  <2> QED BY <2>3, <2>4, <2>5, <2>8 DEF ClientInv
<1> QED BY <1>3, <1>4, <1>5 DEF IInv

LEMMA ConnectAtOnceInv ==
  ASSUME IInv, NEW c \in Clients, ConnectAtOnce(c)
  PROVE  IInv'
<1>1. /\ Shapes /\ \A d \in Clients : ClientInv(d)
      /\ tcpState \in [Clients -> {"disconnected", "connecting", "connected"}]
      /\ lastState \in [Clients -> {"disconnected", "connecting", "connected"}]
      /\ link \in [Clients -> {"none", "pending", "refused", "up", "ended", "reset"}]
      /\ backlog \in Seq(Clients)
  BY DEF IInv, Shapes
<1>2. /\ UNCHANGED <<arrived, conns, buffer, datagrams, coming, taken>>
      /\ link[c] = "none" /\ link' = [link EXCEPT ![c] = "up"]
      /\ tcpState' = [tcpState EXCEPT ![c] = "connected"]
      /\ lastState' = [lastState EXCEPT ![c] = "connected"]
      /\ SendPacket(c, Handshake)
      /\ backlog' = Append(backlog, c)
  BY DEF ConnectAtOnce, udpVars
<1>3. /\ sent' \in [Clients -> Seq(Packets)] /\ flight' \in [Clients -> Seq(Unit)]
      /\ sent'[c] = Append(sent[c], Handshake)
      /\ \A d \in Clients : d # c => sent'[d] = sent[d] /\ flight'[d] = flight[d]
      /\ FlowInv(c)' /\ IsPrefix(taken[c], sent[c])'
  <2>1. link'[c] # "reset"
    BY <1>1, <1>2
  <2> QED BY <1>1, <1>2, <2>1, SendKeepsFlow, PacketTypes
<1>4. \A d \in Clients : Waiting(d)' <=> Waiting(d) \/ d = c
  BY <1>1, <1>2, WaitingAfter
<1>5. Shapes'
  <2>1. backlog' \in Seq(Clients)
    BY <1>1, <1>2, AppendProperties
  <2> HIDE DEF Packets, Unit
  <2> QED BY <1>1, <1>2, <1>3, <2>1 DEF Shapes
<1>6. ASSUME NEW d \in Clients, d # c PROVE ClientInv(d)'
  BY <1>1, <1>2, <1>3, <1>4, <1>6, OthersKept DEF Listed
<1>7. ClientInv(c)'
  <2>1. link'[c] = "up" /\ tcpState'[c] = "connected" /\ lastState'[c] = "connected"
    BY <1>1, <1>2
  <2>2. ClientInv(c)
    BY <1>1
  <2>3. Served(c)'
    BY <1>2, <1>4, <2>1, <2>2 DEF ClientInv, Served, Listed
  <2>4. Places(c, "handshake")' = Places(c, "handshake") \cup {Len(sent[c]) + 1}
    <3>1. sent[c] \in Seq(Packets)
      BY <1>1, FlowType
    <3> QED BY <3>1, <1>3, PacketTypes, PlacesOfAppend
  <2>5. Places(c, "handshake") = {}
    <3>1. sent[c] = <<>>
      BY <1>2, <2>2 DEF ClientInv, Greets
    <3> QED BY <3>1 DEF Places
  <2>6. Greets(c)'
    BY <2>1, <2>4, <2>5 DEF Greets
  <2> QED BY <1>3, <2>3, <2>6 DEF ClientInv
<1> QED BY <1>5, <1>6, <1>7 DEF IInv

LEMMA WatchInv ==
  ASSUME IInv, NEW c \in Clients, Watch(c)
  PROVE  IInv'
<1>1. /\ Shapes /\ \A d \in Clients : ClientInv(d)
      /\ tcpState \in [Clients -> {"disconnected", "connecting", "connected"}]
      /\ lastState \in [Clients -> {"disconnected", "connecting", "connected"}]
  BY DEF IInv, Shapes
<1>2. /\ UNCHANGED <<tcpState, link, arrived, conns, backlog, buffer, datagrams, coming, taken>>
      /\ lastState[c] # tcpState[c]
      /\ lastState' = [lastState EXCEPT ![c] = tcpState[c]]
  BY DEF Watch, serverVars, udpVars
<1>3. tcpState[c] # "connecting" /\ lastState'[c] = tcpState[c]
      /\ link[c] # "none"
  BY <1>1, <1>2 DEF ClientInv, Greets
<1>4. CASE Noticed(lastState[c], tcpState[c]) /\ link[c] = "up"
  <2>1. SendPacket(c, Handshake)
    BY <1>4 DEF Watch
  <2>2. /\ sent' \in [Clients -> Seq(Packets)] /\ flight' \in [Clients -> Seq(Unit)]
        /\ sent'[c] = Append(sent[c], Handshake)
        /\ \A d \in Clients : d # c => sent'[d] = sent[d] /\ flight'[d] = flight[d]
        /\ FlowInv(c)' /\ IsPrefix(taken[c], sent[c])'
    BY <1>1, <1>2, <1>4, <2>1, SendKeepsFlow, PacketTypes
  <2>3. Shapes'
    <3> HIDE DEF Packets, Unit
    <3> QED BY <1>1, <1>2, <2>2 DEF Shapes
  <2>4. ASSUME NEW d \in Clients, d # c PROVE ClientInv(d)'
    BY <1>1, <1>2, <2>2, <2>4, OthersKept DEF Listed, Waiting
  <2>5. ClientInv(c)'
    <3>1. Served(c)'
      BY <1>1, <1>2, <1>4 DEF ClientInv, Served, Listed, Waiting
    <3>2. Places(c, "handshake")' = Places(c, "handshake") \cup {Len(sent[c]) + 1}
      <4>1. sent[c] \in Seq(Packets)
        BY <1>1, FlowType
      <4> QED BY <4>1, <2>2, PacketTypes, PlacesOfAppend
    <3>3. Places(c, "handshake") = {}
      BY <1>1, <1>4 DEF ClientInv, Greets, Noticed
    <3>4. Greets(c)'
      BY <1>2, <1>3, <3>2, <3>3 DEF Greets
    <3> QED BY <2>2, <3>1, <3>4 DEF ClientInv
  <2> QED BY <2>3, <2>4, <2>5 DEF IInv
<1>5. CASE ~ (Noticed(lastState[c], tcpState[c]) /\ link[c] = "up")
  <2>1. UNCHANGED <<sent, flight>>
    BY <1>5 DEF Watch
  <2>2. Shapes'
    BY <1>1, <1>2, <2>1 DEF Shapes
  <2>3. ASSUME NEW d \in Clients, d # c PROVE ClientInv(d)'
    BY <1>1, <1>2, <2>1, <2>3, OthersKept DEF Listed, Waiting
  <2>4. ClientInv(c)'
    <3>1. ClientInv(c)
      BY <1>1
    <3>2. FlowInv(c)'
      BY <1>2, <2>1, <3>1 DEF ClientInv, FlowInv, Flow
    <3>3. IsPrefix(taken[c], sent[c])'
      BY <1>2, <2>1, <3>1 DEF ClientInv, IsPrefix
    <3>4. Served(c)'
      BY <1>2, <2>1, <3>1 DEF ClientInv, Served, Listed, Waiting
    <3>5. Places(c, "handshake")' = Places(c, "handshake")
      BY <2>1 DEF Places
    <3>6. Greets(c)'
      BY <1>2, <1>3, <3>1, <3>5 DEF ClientInv, Greets
    <3> QED BY <3>2, <3>3, <3>4, <3>6 DEF ClientInv
  <2> QED BY <2>2, <2>3, <2>4 DEF IInv
<1> QED BY <1>4, <1>5

LEMMA ClientPollInv ==
  ASSUME IInv, NEW c \in Clients, ClientPoll(c)
  PROVE  IInv'
<1>1. /\ Shapes /\ \A d \in Clients : ClientInv(d)
      /\ tcpState \in [Clients -> {"disconnected", "connecting", "connected"}]
  BY DEF IInv, Shapes
<1>2. /\ UNCHANGED <<lastState, link, flight, arrived, conns, backlog, buffer, datagrams,
                    coming, sent, taken>>
      /\ tcpState[c] # "disconnected"
      /\ \E state \in {"disconnected", "connected"} : tcpState' = [tcpState EXCEPT ![c] = state]
  BY DEF ClientPoll, netVars, serverVars, udpVars
<1>3. Shapes'
  BY <1>1, <1>2 DEF Shapes
<1>4. ASSUME NEW d \in Clients, d # c PROVE ClientInv(d)'
  BY <1>1, <1>2, <1>4, OthersKept DEF Listed, Waiting
<1>5. ClientInv(c)'
  <2>1. ClientInv(c)
    BY <1>1
  <2>2. FlowInv(c)'
    BY <1>2, <2>1 DEF ClientInv, FlowInv, Flow
  <2>3. IsPrefix(taken[c], sent[c])'
    BY <1>2, <2>1 DEF ClientInv, IsPrefix
  <2>4. Served(c)'
    BY <1>2, <2>1 DEF ClientInv, Served, Listed, Waiting
  <2>5. Places(c, "handshake")' = Places(c, "handshake")
    BY <1>2 DEF Places
  <2>6. tcpState'[c] # "connecting" /\ link[c] # "none"
    BY <1>1, <1>2, <2>1 DEF ClientInv, Greets
  <2>7. Greets(c)'
    BY <1>2, <2>1, <2>5, <2>6 DEF ClientInv, Greets
  <2> QED BY <2>2, <2>3, <2>4, <2>7 DEF ClientInv
<1> QED BY <1>3, <1>4, <1>5 DEF IInv
(* A packet that is no greeting leaves the greetings as they are.          *)
LEMMA SendKeepsGreetings ==
  ASSUME Shapes, NEW c \in Clients, NEW packet \in Packets, packet.kind # "handshake",
         sent'[c] = Append(sent[c], packet)
  PROVE  Places(c, "handshake")' = Places(c, "handshake")
<1>1. sent[c] \in Seq(Packets)
  BY FlowType
<1> QED BY <1>1, PlacesOfAppend

LEMMA SendOtherInv ==
  ASSUME IInv, NEW c \in Clients, SendOther(c)
  PROVE  IInv'
<1>1. Shapes /\ \A d \in Clients : ClientInv(d)
  BY DEF IInv
<1>2. /\ UNCHANGED <<tcpState, lastState, link, arrived, conns, backlog, buffer, datagrams,
                    coming, taken>>
      /\ link[c] = "up"
  BY DEF SendOther, clientVars, serverVars, udpVars
<1>3. PICK packet \in Packets : packet.kind = "other" /\ SendPacket(c, packet)
  BY PacketTypes DEF SendOther
<1>4. /\ sent' \in [Clients -> Seq(Packets)] /\ flight' \in [Clients -> Seq(Unit)]
      /\ sent'[c] = Append(sent[c], packet)
      /\ \A d \in Clients : d # c => sent'[d] = sent[d] /\ flight'[d] = flight[d]
      /\ FlowInv(c)' /\ IsPrefix(taken[c], sent[c])'
  BY <1>1, <1>2, <1>3, SendKeepsFlow
<1>5. Shapes'
  <2> HIDE DEF Packets, Unit
  <2> QED BY <1>1, <1>2, <1>4 DEF Shapes
<1>6. ASSUME NEW d \in Clients, d # c PROVE ClientInv(d)'
  BY <1>1, <1>2, <1>4, <1>6, OthersKept DEF Listed, Waiting
<1>7. ClientInv(c)'
  <2>1. ClientInv(c)
    BY <1>1
  <2>2. Served(c)'
    BY <1>2, <2>1 DEF ClientInv, Served, Listed, Waiting
  <2>3. Places(c, "handshake")' = Places(c, "handshake")
    BY <1>1, <1>3, <1>4, SendKeepsGreetings
  <2>4. Greets(c)'
    BY <1>2, <2>1, <2>3 DEF ClientInv, Greets
  <2> QED BY <1>4, <2>2, <2>4 DEF ClientInv
<1> QED BY <1>5, <1>6, <1>7 DEF IInv

LEMMA LeaveInv ==
  ASSUME IInv, NEW c \in Clients, Leave(c)
  PROVE  IInv'
<1>1. /\ Shapes /\ \A d \in Clients : ClientInv(d)
      /\ tcpState \in [Clients -> {"disconnected", "connecting", "connected"}]
      /\ lastState \in [Clients -> {"disconnected", "connecting", "connected"}]
      /\ link \in [Clients -> {"none", "pending", "refused", "up", "ended", "reset"}]
  BY DEF IInv, Shapes
<1>2. /\ UNCHANGED <<arrived, conns, backlog, buffer, datagrams, coming, taken>>
      /\ link[c] = "up" /\ link' = [link EXCEPT ![c] = "ended"]
      /\ tcpState' = [tcpState EXCEPT ![c] = "disconnected"]
      /\ lastState' = [lastState EXCEPT ![c] = "disconnected"]
      /\ SendPacket(c, Disconnect)
  BY DEF Leave, serverVars, udpVars
<1>3. /\ sent' \in [Clients -> Seq(Packets)] /\ flight' \in [Clients -> Seq(Unit)]
      /\ sent'[c] = Append(sent[c], Disconnect)
      /\ \A d \in Clients : d # c => sent'[d] = sent[d] /\ flight'[d] = flight[d]
      /\ FlowInv(c)' /\ IsPrefix(taken[c], sent[c])'
  <2>1. link'[c] # "reset"
    BY <1>1, <1>2
  <2> QED BY <1>1, <1>2, <2>1, SendKeepsFlow, PacketTypes
<1>4. Shapes'
  <2> HIDE DEF Packets, Unit
  <2> QED BY <1>1, <1>2, <1>3 DEF Shapes
<1>5. ASSUME NEW d \in Clients, d # c PROVE ClientInv(d)'
  BY <1>1, <1>2, <1>3, <1>5, OthersKept DEF Listed, Waiting
<1>6. ClientInv(c)'
  <2>1. ClientInv(c)
    BY <1>1
  <2>2. /\ link'[c] = "ended" /\ tcpState'[c] = "disconnected" /\ lastState'[c] = "disconnected"
        /\ link[c] = "up"
    BY <1>1, <1>2
  <2>3. Served(c)'
    BY <1>2, <2>1, <2>2 DEF ClientInv, Served, Listed, Waiting
  <2>4. Places(c, "handshake")' = Places(c, "handshake")
    BY <1>1, <1>3, PacketTypes, SendKeepsGreetings
  <2>5. Greets(c)'
    BY <2>1, <2>2, <2>4 DEF ClientInv, Greets
  <2> QED BY <1>3, <2>3, <2>5 DEF ClientInv
<1> QED BY <1>4, <1>5, <1>6 DEF IInv

-----------------------------------------------------------------------------
(* The network's steps.                                                    *)

LEMMA EstablishInv ==
  ASSUME IInv, NEW c \in Clients, Establish(c)
  PROVE  IInv'
<1>1. /\ Shapes /\ \A d \in Clients : ClientInv(d)
      /\ link \in [Clients -> {"none", "pending", "refused", "up", "ended", "reset"}]
      /\ backlog \in Seq(Clients)
  BY DEF IInv, Shapes
<1>2. /\ UNCHANGED <<tcpState, lastState, flight, arrived, conns, buffer, datagrams, coming,
                    sent, taken>>
      /\ link[c] = "pending" /\ link' = [link EXCEPT ![c] = "up"]
      /\ backlog' = Append(backlog, c)
  BY DEF Establish, clientVars, udpVars
<1>3. \A d \in Clients : Waiting(d)' <=> Waiting(d) \/ d = c
  BY <1>1, <1>2, WaitingAfter
<1>4. Shapes'
  <2>1. backlog' \in Seq(Clients)
    BY <1>1, <1>2, AppendProperties
  <2> HIDE DEF Packets, Unit
  <2> QED BY <1>1, <1>2, <2>1 DEF Shapes
<1>5. ASSUME NEW d \in Clients, d # c PROVE ClientInv(d)'
  BY <1>1, <1>2, <1>3, <1>5, OthersKept DEF Listed
<1>6. ClientInv(c)'
  <2>1. ClientInv(c) /\ link'[c] = "up"
    BY <1>1, <1>2
  <2>2. FlowInv(c)'
    BY <1>2, <2>1 DEF ClientInv, FlowInv, Flow
  <2>3. IsPrefix(taken[c], sent[c])'
    BY <1>2, <2>1 DEF ClientInv, IsPrefix
  <2>4. Served(c)'
    BY <1>2, <1>3, <2>1 DEF ClientInv, Served, Listed
  <2>5. Places(c, "handshake")' = Places(c, "handshake")
    BY <1>2 DEF Places
  <2>6. Greets(c)'
    BY <1>2, <2>1, <2>5 DEF ClientInv, Greets
  <2> QED BY <2>2, <2>3, <2>4, <2>6 DEF ClientInv
<1> QED BY <1>4, <1>5, <1>6 DEF IInv

LEMMA RefuseInv ==
  ASSUME IInv, NEW c \in Clients, Refuse(c)
  PROVE  IInv'
<1>1. /\ Shapes /\ \A d \in Clients : ClientInv(d)
      /\ link \in [Clients -> {"none", "pending", "refused", "up", "ended", "reset"}]
  BY DEF IInv, Shapes
<1>2. /\ UNCHANGED <<tcpState, lastState, flight, arrived, conns, backlog, buffer, datagrams,
                    coming, sent, taken>>
      /\ link[c] = "pending" /\ link' = [link EXCEPT ![c] = "refused"]
  BY DEF Refuse, clientVars, serverVars, udpVars
<1>3. Shapes'
  BY <1>1, <1>2 DEF Shapes
<1>4. ASSUME NEW d \in Clients, d # c PROVE ClientInv(d)'
  BY <1>1, <1>2, <1>4, OthersKept DEF Listed, Waiting
<1>5. ClientInv(c)'
  <2>1. ClientInv(c) /\ link'[c] = "refused"
    BY <1>1, <1>2
  <2>2. FlowInv(c)'
    BY <1>2, <2>1 DEF ClientInv, FlowInv, Flow
  <2>3. IsPrefix(taken[c], sent[c])'
    BY <1>2, <2>1 DEF ClientInv, IsPrefix
  <2>4. Served(c)'
    BY <1>2, <2>1 DEF ClientInv, Served, Listed
  <2>5. Places(c, "handshake")' = Places(c, "handshake")
    BY <1>2 DEF Places
  <2>6. Greets(c)'
    BY <1>2, <2>1, <2>5 DEF ClientInv, Greets
  <2> QED BY <2>2, <2>3, <2>4, <2>6 DEF ClientInv
<1> QED BY <1>3, <1>4, <1>5 DEF IInv

LEMMA ArriveInv ==
  ASSUME IInv, NEW c \in Clients, Arrive(c)
  PROVE  IInv'
<1>1. /\ Shapes /\ \A d \in Clients : ClientInv(d)
      /\ flight \in [Clients -> Seq(Unit)] /\ arrived \in [Clients -> Seq(Unit)]
  BY DEF IInv, Shapes
<1>2. /\ UNCHANGED <<tcpState, lastState, link, conns, backlog, buffer, datagrams, coming,
                    sent, taken>>
  BY DEF Arrive, clientVars, serverVars, udpVars
<1>3. PICK n \in 1 .. Len(flight[c]) :
        /\ arrived' = [arrived EXCEPT ![c] = arrived[c] \o SubSeq(flight[c], 1, n)]
        /\ flight' = [flight EXCEPT ![c] = SubSeq(flight[c], n + 1, Len(flight[c]))]
  BY DEF Arrive
<1> DEFINE p == SubSeq(flight[c], 1, n)
           q == SubSeq(flight[c], n + 1, Len(flight[c]))
<1>4. flight[c] \in Seq(Unit) /\ arrived[c] \in Seq(Unit) /\ Len(flight[c]) \in Nat
  BY <1>1, LenProperties
<1>5. p \in Seq(Unit) /\ q \in Seq(Unit) /\ p \o q = flight[c]
  <2>1. n \in 0 .. Len(flight[c])
    BY <1>4
  <2> QED BY <1>4, <2>1, Cut
<1>6. arrived[c] \o p \in Seq(Unit)
  BY <1>4, <1>5, Joined
<1> HIDE DEF p, q, Unit, Packets
<1>7. /\ arrived'[c] = arrived[c] \o p /\ flight'[c] = q
      /\ \A d \in Clients : d # c => arrived'[d] = arrived[d] /\ flight'[d] = flight[d]
      /\ arrived' \in [Clients -> Seq(Unit)] /\ flight' \in [Clients -> Seq(Unit)]
  <2>1. /\ arrived' = [arrived EXCEPT ![c] = arrived[c] \o p]
        /\ flight' = [flight EXCEPT ![c] = q]
    BY <1>3 DEF p, q
  <2> QED BY <1>1, <1>5, <1>6, <2>1
<1>8. Shapes'
  BY <1>1, <1>2, <1>7 DEF Shapes
<1>9. ASSUME NEW d \in Clients, d # c PROVE ClientInv(d)'
  BY <1>1, <1>2, <1>7, <1>9, OthersKept DEF Listed, Waiting
<1>10. ClientInv(c)'
  <2>1. ClientInv(c)
    BY <1>1
  <2>2. (arrived[c] \o p) \o q = arrived[c] \o (p \o q)
    <3>1. \A x, y, z \in Seq(Unit) : (x \o y) \o z = x \o (y \o z)
      BY Regrouped
    <3> QED BY <3>1, <1>4, <1>5
  <2>3. Flow(c)' = Flow(c)
    BY <1>2, <1>5, <1>7, <2>2 DEF Flow
  <2>9. link[c] # "reset"
    <3>1. flight[c] # <<>>
      BY <1>4
    <3> QED BY <2>1, <3>1 DEF ClientInv, FlowInv
  <2>4. FlowInv(c)'
    BY <1>2, <2>1, <2>3, <2>9 DEF ClientInv, FlowInv
  <2>5. IsPrefix(taken[c], sent[c])'
    BY <1>2, <2>1 DEF ClientInv, IsPrefix
  <2>6. Served(c)'
    BY <1>2, <2>1 DEF ClientInv, Served, Listed, Waiting
  <2>7. Places(c, "handshake")' = Places(c, "handshake")
    BY <1>2 DEF Places
  <2>8. Greets(c)'
    BY <1>2, <2>1, <2>7 DEF ClientInv, Greets
  <2> QED BY <2>4, <2>5, <2>6, <2>8 DEF ClientInv
<1> QED BY <1>8, <1>9, <1>10 DEF IInv

LEMMA BreakInv ==
  ASSUME IInv, NEW c \in Clients, Break(c)
  PROVE  IInv'
<1>1. /\ Shapes /\ \A d \in Clients : ClientInv(d)
      /\ flight \in [Clients -> Seq(Unit)] /\ arrived \in [Clients -> Seq(Unit)]
      /\ link \in [Clients -> {"none", "pending", "refused", "up", "ended", "reset"}]
  BY DEF IInv, Shapes
<1>2. /\ UNCHANGED <<tcpState, lastState, conns, backlog, buffer, datagrams, coming, sent,
                    taken>>
      /\ link[c] \in {"up", "ended"} /\ link' = [link EXCEPT ![c] = "reset"]
      /\ flight' = [flight EXCEPT ![c] = <<>>]
      /\ arrived' = [arrived EXCEPT ![c] = <<>>]
  BY DEF Break, clientVars, serverVars, udpVars
<1>3. <<>> \in Seq(Unit)
  BY EmptySeq
<1> HIDE DEF Unit, Packets
<1>4. Shapes'
  BY <1>1, <1>2, <1>3 DEF Shapes
<1>5. ASSUME NEW d \in Clients, d # c PROVE ClientInv(d)'
  BY <1>1, <1>2, <1>5, OthersKept DEF Listed, Waiting
<1>6. ClientInv(c)'
  <2>1. ClientInv(c) /\ link'[c] = "reset" /\ flight'[c] = <<>> /\ arrived'[c] = <<>>
    BY <1>1, <1>2
  <2>2. /\ buffer[c] \in Seq(Unit) /\ arrived[c] \o flight[c] \in Seq(Unit)
        /\ sent[c] \in Seq(Packets) /\ Len(taken[c]) \in Nat
    BY <1>1, FlowType
  <2>3. Flow(c)' = buffer[c]
    BY <1>2, <1>3, <2>1, <2>2, ConcatEmptySeq DEF Flow
  <2>4. WellFormed(sent[c], buffer[c]) /\ BeginsAfter(buffer[c], Len(taken[c]))
    <3>1. /\ WellFormed(sent[c], buffer[c] \o (arrived[c] \o flight[c]))
          /\ BeginsAfter(buffer[c] \o (arrived[c] \o flight[c]), Len(taken[c]))
      BY <2>1 DEF ClientInv, FlowInv, Flow
    <3> QED BY <2>2, <3>1, LossKeepsStream
  <2>5. FlowInv(c)'
    BY <1>2, <2>1, <2>3, <2>4 DEF FlowInv
  <2>6. IsPrefix(taken[c], sent[c])'
    BY <1>2, <2>1 DEF ClientInv, IsPrefix
  <2>7. Served(c)'
    BY <1>2, <2>1 DEF ClientInv, Served, Listed
  <2>8. Places(c, "handshake")' = Places(c, "handshake")
    BY <1>2 DEF Places
  <2>9. Greets(c)'
    BY <1>2, <2>1, <2>8 DEF ClientInv, Greets
  <2> QED BY <2>5, <2>6, <2>7, <2>9 DEF ClientInv
<1> QED BY <1>4, <1>5, <1>6 DEF IInv

LEMMA DatagramComesInv ==
  ASSUME IInv, DatagramComes
  PROVE  IInv'
<1>1. Shapes /\ \A d \in Clients : ClientInv(d)
  BY DEF IInv
<1>2. /\ UNCHANGED <<tcpState, lastState, link, flight, arrived, conns, backlog, buffer,
                    sent, taken>>
      /\ coming > 0 /\ coming' = coming - 1 /\ datagrams' = datagrams + 1
  BY DEF DatagramComes, clientVars, netVars, serverVars
<1>3. datagrams' \in Nat /\ coming' \in Nat /\ datagrams' + coming' <= MaxDatagrams
  BY <1>1, <1>2, BoundsAssumption DEF Shapes
<1>4. Shapes'
  BY <1>1, <1>2, <1>3 DEF Shapes
<1>5. ASSUME NEW d \in Clients PROVE ClientInv(d)'
  BY <1>1, <1>2, OthersKept DEF Listed, Waiting
<1> QED BY <1>4, <1>5 DEF IInv
-----------------------------------------------------------------------------
(* The server's steps.                                                     *)

LeftInBacklog == IF backlog = <<>> THEN <<>> ELSE Tail(backlog)

LEMMA AcceptKeeps ==
  ASSUME Shapes
  PROVE  /\ Accepted \in Seq(Clients) /\ LeftInBacklog \in Seq(Clients)
         /\ \A d \in Clients : Listed(d) => In(d, Accepted)
         /\ \A d \in Clients : In(d, Accepted) \/ In(d, LeftInBacklog) <=> Listed(d) \/ Waiting(d)
<1>1. conns \in Seq(Clients) /\ backlog \in Seq(Clients)
  BY DEF Shapes
<1>2. CASE backlog = <<>>
  BY <1>1, <1>2 DEF Accepted, LeftInBacklog, In, Listed, Waiting
<1>3. CASE backlog # <<>>
  <2> DEFINE h == Head(backlog)
             r == Tail(backlog)
             l == Len(backlog)
  <2>1. /\ h \in Clients /\ r \in Seq(Clients) /\ Len(r) = l - 1
        /\ \A i \in 1 .. Len(r) : r[i] = backlog[i + 1]
        /\ l \in Nat \ {0} /\ h = backlog[1]
    BY <1>1, <1>3, HeadTailProperties, EmptySeq
  <2>2. Accepted = Append(conns, h) /\ LeftInBacklog = r
    BY <1>3 DEF Accepted, LeftInBacklog
  <2> HIDE DEF h, r
  <2>3. \A d \in Clients : In(d, Accepted) <=> Listed(d) \/ d = h
    <3>1. \A d \in Clients : In(d, Append(conns, h)) <=> In(d, conns) \/ d = h
      BY <1>1, <2>1, InAppend
    <3> QED BY <2>2, <3>1 DEF In, Listed
  <2>4. ASSUME NEW d \in Clients PROVE Waiting(d) <=> d = h \/ In(d, r)
    <3>1. ASSUME NEW i \in 1 .. l, backlog[i] = d PROVE d = h \/ In(d, r)
      <4>1. CASE i = 1
        BY <2>1, <3>1, <4>1
      <4>2. CASE i # 1
        <5>1. i - 1 \in 1 .. Len(r) /\ i - 1 + 1 = i
          BY <2>1, <4>2
        <5> QED BY <2>1, <3>1, <5>1 DEF In
      <4> QED BY <4>1, <4>2
    <3>2. ASSUME NEW i \in 1 .. Len(r), r[i] = d PROVE Waiting(d)
      <4>1. i + 1 \in 1 .. l /\ backlog[i + 1] = d
        BY <2>1, <3>2
      <4> QED BY <4>1 DEF Waiting
    <3>3. d = h => Waiting(d)
      <4>1. 1 \in 1 .. l
        BY <2>1
      <4> QED BY <2>1, <4>1 DEF Waiting
    <3> QED BY <3>1, <3>2, <3>3 DEF Waiting, In
  <2>5. Accepted \in Seq(Clients)
    BY <1>1, <2>1, <2>2, AppendProperties
  <2> QED BY <2>1, <2>2, <2>3, <2>4, <2>5
<1> QED BY <1>2, <1>3

LEMMA ReceiveDatagramInv ==
  ASSUME IInv, ReceiveDatagram, backlog' = LeftInBacklog
  PROVE  IInv'
<1>1. Shapes /\ \A d \in Clients : ClientInv(d)
  BY DEF IInv
<1>2. /\ UNCHANGED <<tcpState, lastState, link, flight, arrived, buffer, coming, sent, taken>>
      /\ datagrams > 0 /\ datagrams' = datagrams - 1 /\ conns' = Accepted
  BY DEF ReceiveDatagram, clientVars, netVars
<1>3. datagrams' \in Nat /\ datagrams' + coming <= MaxDatagrams
  BY <1>1, <1>2, BoundsAssumption DEF Shapes
<1>4. Shapes'
  <2>1. Accepted \in Seq(Clients) /\ LeftInBacklog \in Seq(Clients)
    BY <1>1, AcceptKeeps
  <2> QED BY <1>1, <1>2, <1>3, <2>1 DEF Shapes
<1>5. ASSUME NEW d \in Clients PROVE ClientInv(d)'
  <2>1. /\ Listed(d)' <=> In(d, Accepted)
        /\ Waiting(d)' <=> In(d, LeftInBacklog)
    BY <1>2 DEF Listed, Waiting, In
  <2>2. Listed(d) => Listed(d)'
    BY <1>1, <2>1, AcceptKeeps
  <2>3. Listed(d) \/ Waiting(d) => Listed(d)' \/ Waiting(d)'
    BY <1>1, <2>1, AcceptKeeps
  <2> QED BY <1>1, <1>2, <2>2, <2>3, OthersKept
<1> QED BY <1>4, <1>5 DEF IInv

(* The walk ends within the list, and at most one of those it has met      *)
(* yields a packet.                                                        *)
LEMMA WalkStops ==
  ASSUME NEW list \in Seq(Clients)
  PROVE  /\ Walk(list) \in 0 .. Len(list)
         /\ \A i, j \in 1 .. Walk(list) :
              (Outcome(list[i]) = "packet" /\ Outcome(list[j]) = "packet") => i = j
<1> DEFINE stops == {i \in 1 .. Len(list) : Outcome(list[i]) = "packet"}
<1>1. Len(list) \in Nat
  BY LenProperties
<1>2. CASE stops = {}
  <2>1. Walk(list) = Len(list)
    BY <1>2 DEF Walk
  <2> QED BY <1>1, <1>2, <2>1
<1>3. CASE stops # {}
  <2>1. stops \subseteq Nat
    BY <1>1
  <2>2. \E i \in stops : \A j \in stops : i <= j
    <3> HIDE DEF stops
    <3> QED BY <1>3, <2>1, Smallest
  <2>3. Walk(list) = CHOOSE i \in stops : \A j \in stops : i <= j
    BY <1>3 DEF Walk
  <2>4. Walk(list) \in stops /\ \A j \in stops : Walk(list) <= j
    <3> HIDE DEF stops
    <3> QED BY <2>2, <2>3
  <2>5. Walk(list) \in 1 .. Len(list)
    BY <2>4
  <2>6. ASSUME NEW i \in 1 .. Walk(list), Outcome(list[i]) = "packet"
        PROVE  i = Walk(list)
    <3>1. i \in 1 .. Len(list)
      BY <1>1, <2>5
    <3>2. Walk(list) <= i
      BY <2>4, <2>6, <3>1
    <3> QED BY <2>5, <3>1, <3>2, <1>1
  <2> QED BY <1>1, <2>5, <2>6
<1> QED BY <1>2, <1>3

(* What a recv moves stays in the flow.                                    *)
LEMMA ReadKeepsFlow ==
  ASSUME Shapes, NEW c \in Clients
  PROVE  LET rest == SubSeq(arrived[c], ReadSize(c) + 1, Len(arrived[c]))
         IN /\ Filled(c) \in Seq(Unit) /\ rest \in Seq(Unit)
            /\ rest \o flight[c] \in Seq(Unit)
            /\ Flow(c) = Filled(c) \o (rest \o flight[c])
            /\ arrived[c] = <<>> => Filled(c) = buffer[c] /\ rest = <<>>
<1> DEFINE n == ReadSize(c)
           p == SubSeq(arrived[c], 1, n)
           q == SubSeq(arrived[c], n + 1, Len(arrived[c]))
<1>1. flight[c] \in Seq(Unit) /\ arrived[c] \in Seq(Unit) /\ buffer[c] \in Seq(Unit)
  BY FlowType
<1>2. n \in 0 .. Len(arrived[c])
  <2>1. Len(arrived[c]) \in Nat /\ ReadMax \in Nat
    BY <1>1, LenProperties, ReadAssumption
  <2> QED BY <2>1 DEF ReadSize
<1> HIDE DEF n, Unit
<1>3. p \in Seq(Unit) /\ q \in Seq(Unit) /\ p \o q = arrived[c]
  BY <1>1, <1>2, Cut
<1>4. Filled(c) = buffer[c] \o p
  BY DEF Filled, n
<1> HIDE DEF p, q
<1>5. Filled(c) \in Seq(Unit) /\ q \o flight[c] \in Seq(Unit)
  BY <1>1, <1>3, <1>4, Joined
<1>6. \A x, y, z \in Seq(Unit) : (x \o y) \o z = x \o (y \o z)
  BY Regrouped
<1>7. Flow(c) = Filled(c) \o (q \o flight[c])
  <2>1. (p \o q) \o flight[c] = p \o (q \o flight[c])
    BY <1>1, <1>3, <1>6
  <2>2. buffer[c] \o (p \o (q \o flight[c])) = (buffer[c] \o p) \o (q \o flight[c])
    BY <1>1, <1>3, <1>5, <1>6
  <2> QED BY <1>3, <1>4, <2>1, <2>2 DEF Flow
<1>8. ASSUME arrived[c] = <<>> PROVE Filled(c) = buffer[c] /\ q = <<>>
  <2>1. p = <<>> /\ q = <<>>
    BY <1>3, <1>8, ConcatEqualIffEmpty
  <2> QED BY <1>1, <1>4, <2>1, ConcatEmptySeq
<1> QED BY <1>3, <1>5, <1>7, <1>8 DEF q, n
(* A packet that is in the buffer as a whole is the next of those sent.    *)
LEMMA TakeFromFlow ==
  ASSUME Shapes, NEW c \in Clients, ClientInv(c), HasPacket(c, Filled(c))
  PROVE  LET rest == SubSeq(arrived[c], ReadSize(c) + 1, Len(arrived[c]))
             n == Len(taken[c])
             v == Rest(c, Filled(c)) \o (rest \o flight[c])
         IN /\ n + 1 \in 1 .. Len(sent[c])
            /\ FirstPacket(c, Filled(c)) = sent[c][n + 1]
            /\ Rest(c, Filled(c)) \in Seq(Unit)
            /\ WellFormed(sent[c], v) /\ BeginsAfter(v, n + 1)
            /\ IsWhole(sent[c], Flow(c), n) => IsWhole(sent[c], v, n + 1)
<1> DEFINE rest == SubSeq(arrived[c], ReadSize(c) + 1, Len(arrived[c]))
           n == Len(taken[c])
           s == sent[c]
           p == Filled(c)
           q == rest \o flight[c]
           u == Flow(c)
           r == Rest(c, p)
           v == r \o q
           z == SizeAt(s, u, 1)
<1>1. /\ s \in Seq(Packets) /\ n \in Nat /\ u \in Seq(Unit)
      /\ p \in Seq(Unit) /\ q \in Seq(Unit) /\ u = p \o q
  BY FlowType, ReadKeepsFlow
<1>2. WellFormed(s, u) /\ BeginsAfter(u, n) /\ p # <<>> /\ Len(p) >= FirstPacket(c, p).size
  BY DEF ClientInv, FlowInv, HasPacket
<1> HIDE DEF Unit, Packets
<1>3. FirstPacket(c, p) = s[Head(p)[1]] /\ r = SubSeq(p, FirstPacket(c, p).size + 1, Len(p))
  BY DEF FirstPacket, Rest
<1> HIDE DEF n, s, p, q, u, r
<1>4. /\ Len(p) \in Nat \ {0} /\ Len(q) \in Nat /\ Len(u) = Len(p) + Len(q)
      /\ \A i \in 1 .. Len(p) : u[i] = p[i]
      /\ \A i \in Len(p) + 1 .. Len(p) + Len(q) : u[i] = q[i - Len(p)]
  <2>1. Len(p) # 0
    BY <1>1, <1>2, EmptySeq
  <2> QED BY <1>1, <2>1, Joined
<1>5. u # <<>> /\ Head(p) = u[1] /\ 1 \in 1 .. Len(u)
  <2>1. 1 \in 1 .. Len(p) /\ Len(u) # 0
    BY <1>4
  <2>2. Head(p) = p[1]
    BY <1>1, <1>2
  <2> QED BY <1>4, <2>1, <2>2
<1>6. FirstPacket(c, p) = s[u[1][1]] /\ FirstPacket(c, p).size = z
  BY <1>3, <1>5 DEF SizeAt
<1>7. z \in Nat /\ z <= Len(p)
  <2>1. z \in Nat
    BY <1>1, <1>2, <1>5, StreamTypes
  <2> QED BY <1>2, <1>6, <2>1
<1> HIDE DEF z
<1>8. /\ r \in Seq(Unit) /\ Len(r) = Len(p) - z
      /\ \A i \in 1 .. Len(p) - z : r[i] = p[z + i]
  <2>1. z \in 0 .. Len(p)
    BY <1>4, <1>7
  <2> QED BY <1>1, <1>3, <1>6, <2>1, Cut
<1>9. v \in Seq(Unit) /\ Len(v) = Len(u) - z /\ z <= Len(u) /\ \A i \in 1 .. Len(v) : v[i] = u[i + z]
  <2>1. /\ v \in Seq(Unit) /\ Len(v) = Len(r) + Len(q)
        /\ \A i \in 1 .. Len(r) : v[i] = r[i]
        /\ \A i \in Len(r) + 1 .. Len(r) + Len(q) : v[i] = q[i - Len(r)]
    BY <1>1, <1>8, Joined
  <2> HIDE DEF v
  <2>2. Len(v) = Len(u) - z /\ z <= Len(u)
    BY <1>4, <1>7, <1>8, <2>1
  <2>3. ASSUME NEW i \in 1 .. Len(v) PROVE v[i] = u[i + z]
    <3>1. CASE i <= Len(r)
      <4>1. i \in 1 .. Len(r) /\ i \in 1 .. Len(p) - z /\ z + i \in 1 .. Len(p) /\ z + i = i + z
        BY <3>1, <1>4, <1>7, <1>8
      <4>2. v[i] = p[z + i]
        BY <4>1, <1>8, <2>1
      <4> QED BY <4>1, <4>2, <1>4
    <3>2. CASE i > Len(r)
      <4>1. /\ i \in Len(r) + 1 .. Len(r) + Len(q) /\ i + z \in Len(p) + 1 .. Len(p) + Len(q)
            /\ (i + z) - Len(p) = i - Len(r)
        BY <3>2, <1>4, <1>7, <1>8, <2>1
      <4>2. v[i] = q[i - Len(r)]
        BY <4>1, <2>1
      <4>3. u[i + z] = q[(i + z) - Len(p)]
        BY <4>1, <1>4
      <4> QED BY <4>1, <4>2, <4>3
    <3>3. i <= Len(r) \/ i > Len(r)
      BY <1>4, <1>7, <1>8
    <3> QED BY <3>1, <3>2, <3>3
  <2> QED BY <2>1, <2>2, <2>3
<1>10. /\ n + 1 \in 1 .. Len(s) /\ u[1][1] = n + 1
       /\ WellFormed(s, v) /\ BeginsAfter(v, n + 1)
       /\ IsWhole(s, u, n) => IsWhole(s, v, n + 1)
  <2>1. /\ SizeAt(s, u, 1) <= Len(u) /\ Len(v) = Len(u) - SizeAt(s, u, 1)
        /\ \A i \in 1 .. Len(v) : v[i] = u[i + SizeAt(s, u, 1)]
        /\ v \in Seq(Unit)
    BY <1>9 DEF z
  <2> HIDE DEF v
  <2>2. /\ s \in Seq(Packets) /\ u \in Seq(Unit) /\ n \in Nat
        /\ WellFormed(s, u) /\ BeginsAfter(u, n) /\ u # <<>>
    BY <1>1, <1>2, <1>5
  <2> QED BY <2>1, <2>2, TakeKeepsStream
<1> QED BY <1>6, <1>8, <1>10 DEF n, s, p, q, u, r
(* A connection that has been read to its end has had all of its packets   *)
(* taken.                                                                  *)
LEMMA EndedIsDone ==
  ASSUME Shapes, NEW c \in Clients, ClientInv(c), Ended(c), ~ HasPacket(c, Filled(c))
  PROVE  /\ arrived[c] = <<>> /\ flight[c] = <<>>
         /\ link[c] # "reset" => Flow(c) = <<>> /\ taken[c] = sent[c]
<1> DEFINE s == sent[c]
           n == Len(taken[c])
           u == Flow(c)
<1>1. arrived[c] = <<>> /\ flight[c] = <<>>
  BY DEF ClientInv, FlowInv, Ended
<1>2. ASSUME link[c] # "reset" PROVE u = <<>> /\ taken[c] = sent[c]
  <2>1. /\ buffer[c] \in Seq(Unit) /\ s \in Seq(Packets) /\ u \in Seq(Unit)
        /\ taken[c] \in Seq(Packets) /\ n \in Nat /\ Len(s) \in Nat
    BY FlowType
  <2>2. Filled(c) = buffer[c]
    BY <1>1, ReadKeepsFlow
  <2>3. u = buffer[c]
    <3>1. <<>> \in Seq(Unit)
      BY EmptySeq
    <3> QED BY <1>1, <2>1, <3>1, ConcatEmptySeq DEF Flow
  <2>4. WellFormed(s, u) /\ BeginsAfter(u, n) /\ IsWhole(s, u, n)
    BY <1>2 DEF ClientInv, FlowInv
  <2>5. u = <<>>
    <3> SUFFICES ASSUME u # <<>> PROVE FALSE
      OBVIOUS
    <3>1. Len(u) \in Nat \ {0} /\ Head(u) = u[1] /\ 1 \in 1 .. Len(u)
      <4>1. Len(u) \in Nat \ {0}
        BY <2>1, EmptySeq
      <4> QED BY <2>1, <4>1
    <3>2. SizeAt(s, u, 1) \in Nat
      BY <2>1, <2>4, <3>1, StreamTypes
    <3>3. 1 \in Starts(u)
      BY <2>4, <3>1 DEF BeginsAfter, Starts
    <3>4. 1 + SizeAt(s, u, 1) - 1 <= Len(u)
      BY <2>4, <3>3 DEF IsWhole
    <3>5. SizeAt(s, u, 1) <= Len(u)
      BY <3>1, <3>2, <3>4
    <3>6. FirstPacket(c, u).size = SizeAt(s, u, 1)
      BY <3>1 DEF FirstPacket, SizeAt
    <3>7. Len(u) >= FirstPacket(c, u).size
      BY <3>1, <3>2, <3>5, <3>6
    <3>8. HasPacket(c, u)
      BY <3>7 DEF HasPacket
    <3> QED BY <2>2, <2>3, <3>8
  <2>6. n = Len(s)
    BY <2>4, <2>5 DEF IsWhole
  <2>7. \A i \in 1 .. n : taken[c][i] = s[i]
    BY DEF ClientInv, IsPrefix
  <2>8. taken[c] = s
    BY <2>1, <2>6, <2>7, SeqEqual
  <2> QED BY <2>5, <2>8
<1> QED BY <1>1, <1>2

(* What a turn of ReceivePacket over the TCP sockets does to one client.   *)
Unread(c) == SubSeq(arrived[c], ReadSize(c) + 1, Len(arrived[c]))

Walked == {Accepted[i] : i \in 1 .. Walk(Accepted)}

Lost == {c \in Walked : Outcome(c) = "ended"}

LEMMA TcpOutcomes ==
  ASSUME Shapes, ReceiveTcp, backlog' = LeftInBacklog
  PROVE  /\ UNCHANGED <<tcpState, lastState, link, flight, datagrams, coming, sent>>
         /\ conns' \in Seq(Clients) /\ backlog' \in Seq(Clients)
         /\ arrived' = [c \in Clients |-> IF c \in Walked THEN Unread(c) ELSE arrived[c]]
         /\ buffer' = [c \in Clients |->
                        IF c \in Walked /\ HasPacket(c, Filled(c)) THEN Rest(c, Filled(c))
                        ELSE IF c \in Lost THEN <<>>
                        ELSE IF c \in Walked THEN Filled(c) ELSE buffer[c]]
         /\ taken' = [c \in Clients |->
                       IF c \in Walked /\ HasPacket(c, Filled(c))
                       THEN Append(taken[c], FirstPacket(c, Filled(c))) ELSE taken[c]]
         /\ \A c \in Lost : Ended(c) /\ ~ HasPacket(c, Filled(c))
         /\ \A c, d \in Walked : HasPacket(c, Filled(c)) /\ HasPacket(d, Filled(d)) => c = d
         /\ \A c \in Clients :
              /\ Listed(c)' <=> In(c, Accepted) /\ c \notin Lost
              /\ Waiting(c)' <=> In(c, LeftInBacklog)
              /\ c \in Walked => In(c, Accepted)
<1> DEFINE last == Walk(Accepted)
           by == {c \in Walked : Outcome(c) = "packet"}
<1>1. Accepted \in Seq(Clients) /\ LeftInBacklog \in Seq(Clients)
  BY AcceptKeeps
<1>2. /\ Walk(Accepted) \in 0 .. Len(Accepted) /\ Len(Accepted) \in Nat
      /\ \A i, j \in 1 .. Walk(Accepted) :
           (Outcome(Accepted[i]) = "packet" /\ Outcome(Accepted[j]) = "packet") => i = j
  BY <1>1, WalkStops, LenProperties
<1>3. /\ UNCHANGED <<tcpState, lastState, link, flight, datagrams, coming, sent>>
      /\ conns' = Without(Accepted, Lost)
      /\ arrived' = [c \in Clients |-> IF c \in Walked THEN Unread(c) ELSE arrived[c]]
      /\ buffer' = [c \in Clients |->
                     IF c \in by THEN Rest(c, Filled(c))
                     ELSE IF c \in Lost THEN <<>>
                     ELSE IF c \in Walked THEN Filled(c) ELSE buffer[c]]
      /\ taken' = [c \in Clients |->
                    IF c \in by THEN Append(taken[c], FirstPacket(c, Filled(c))) ELSE taken[c]]
  BY DEF ReceiveTcp, clientVars, udpVars, Walked, Lost, Unread
<1>4. \A c : Outcome(c) = "packet" <=> HasPacket(c, Filled(c))
  BY DEF Outcome
<1>5. \A c : Outcome(c) = "ended" => Ended(c) /\ ~ HasPacket(c, Filled(c))
  BY DEF Outcome
<1>6. \A c : c \in by <=> c \in Walked /\ HasPacket(c, Filled(c))
  BY <1>4
<1>7. \A c \in Lost : Ended(c) /\ ~ HasPacket(c, Filled(c))
  BY <1>5 DEF Lost
<1>8. \A c, d \in Walked : HasPacket(c, Filled(c)) /\ HasPacket(d, Filled(d)) => c = d
  BY <1>2, <1>4 DEF Walked
<1>9. /\ conns' \in Seq(Clients)
      /\ \A c : In(c, conns') <=> In(c, Accepted) /\ c \notin Lost
  BY <1>1, <1>3, WithoutKeeps
<1>10. \A c \in Walked : In(c, Accepted)
  <2>1. \A i \in 1 .. Walk(Accepted) : i \in 1 .. Len(Accepted)
    BY <1>2
  <2> QED BY <2>1 DEF Walked, In
<1>11. \A c : (Listed(c)' <=> In(c, conns')) /\ (Waiting(c)' <=> In(c, backlog'))
  BY DEF Listed, Waiting, In
<1> HIDE DEF by
<1> QED BY <1>1, <1>3, <1>6, <1>7, <1>8, <1>9, <1>10, <1>11
LEMMA TcpTypes ==
  ASSUME IInv, ReceiveTcp, backlog' = LeftInBacklog
  PROVE  Shapes'
<1>1. Shapes /\ \A c \in Clients : ClientInv(c)
  BY DEF IInv
<1>2. /\ UNCHANGED <<tcpState, lastState, link, flight, datagrams, coming, sent>>
      /\ conns' \in Seq(Clients) /\ backlog' \in Seq(Clients)
      /\ arrived' = [c \in Clients |-> IF c \in Walked THEN Unread(c) ELSE arrived[c]]
      /\ buffer' = [c \in Clients |->
                     IF c \in Walked /\ HasPacket(c, Filled(c)) THEN Rest(c, Filled(c))
                     ELSE IF c \in Lost THEN <<>>
                     ELSE IF c \in Walked THEN Filled(c) ELSE buffer[c]]
      /\ taken' = [c \in Clients |->
                    IF c \in Walked /\ HasPacket(c, Filled(c))
                    THEN Append(taken[c], FirstPacket(c, Filled(c))) ELSE taken[c]]
  BY <1>1, TcpOutcomes
<1>3. ASSUME NEW c \in Clients
      PROVE  /\ Unread(c) \in Seq(Unit) /\ Filled(c) \in Seq(Unit) /\ <<>> \in Seq(Unit)
             /\ arrived[c] \in Seq(Unit) /\ buffer[c] \in Seq(Unit) /\ taken[c] \in Seq(Packets)
             /\ HasPacket(c, Filled(c)) =>
                  /\ Rest(c, Filled(c)) \in Seq(Unit)
                  /\ Append(taken[c], FirstPacket(c, Filled(c))) \in Seq(Packets)
  <2>1. Unread(c) \in Seq(Unit) /\ Filled(c) \in Seq(Unit)
    BY <1>1, ReadKeepsFlow DEF Unread
  <2>2. /\ arrived[c] \in Seq(Unit) /\ buffer[c] \in Seq(Unit) /\ taken[c] \in Seq(Packets)
        /\ sent[c] \in Seq(Packets)
    BY <1>1, FlowType
  <2>3. ASSUME HasPacket(c, Filled(c))
        PROVE  /\ Rest(c, Filled(c)) \in Seq(Unit)
               /\ Append(taken[c], FirstPacket(c, Filled(c))) \in Seq(Packets)
    <3>1. /\ Len(taken[c]) + 1 \in 1 .. Len(sent[c])
          /\ FirstPacket(c, Filled(c)) = sent[c][Len(taken[c]) + 1]
          /\ Rest(c, Filled(c)) \in Seq(Unit)
      BY <1>1, <2>3, TakeFromFlow
    <3>2. FirstPacket(c, Filled(c)) \in Packets
      BY <2>2, <3>1, ElementOfSeq
    <3> QED BY <2>2, <3>1, <3>2, AppendProperties
  <2> QED BY <2>1, <2>2, <2>3, EmptySeq
<1> HIDE DEF Unit, Packets
<1>4. arrived' \in [Clients -> Seq(Unit)]
  BY <1>2, <1>3
<1>5. buffer' \in [Clients -> Seq(Unit)]
  BY <1>2, <1>3
<1>6. taken' \in [Clients -> Seq(Packets)]
  BY <1>2, <1>3
<1> QED BY <1>1, <1>2, <1>4, <1>5, <1>6 DEF Shapes

LEMMA ReceiveTcpInv ==
  ASSUME IInv, ReceiveTcp, backlog' = LeftInBacklog
  PROVE  IInv'
<1>1. Shapes /\ \A c \in Clients : ClientInv(c)
  BY DEF IInv
<1>2. /\ UNCHANGED <<tcpState, lastState, link, flight, datagrams, coming, sent>>
      /\ arrived' = [c \in Clients |-> IF c \in Walked THEN Unread(c) ELSE arrived[c]]
      /\ buffer' = [c \in Clients |->
                     IF c \in Walked /\ HasPacket(c, Filled(c)) THEN Rest(c, Filled(c))
                     ELSE IF c \in Lost THEN <<>>
                     ELSE IF c \in Walked THEN Filled(c) ELSE buffer[c]]
      /\ taken' = [c \in Clients |->
                    IF c \in Walked /\ HasPacket(c, Filled(c))
                    THEN Append(taken[c], FirstPacket(c, Filled(c))) ELSE taken[c]]
      /\ \A c \in Lost : Ended(c) /\ ~ HasPacket(c, Filled(c))
      /\ \A c \in Clients :
           /\ Listed(c)' <=> In(c, Accepted) /\ c \notin Lost
           /\ Waiting(c)' <=> In(c, LeftInBacklog)
           /\ c \in Walked => In(c, Accepted)
  BY <1>1, TcpOutcomes
<1>3. Lost \subseteq Walked
  BY DEF Lost
<1>4. ASSUME NEW c \in Clients PROVE ClientInv(c)'
  <2>1. /\ ClientInv(c) /\ link'[c] = link[c] /\ flight'[c] = flight[c] /\ sent'[c] = sent[c]
        /\ tcpState'[c] = tcpState[c] /\ lastState'[c] = lastState[c]
    BY <1>1, <1>2
  <2>2. /\ Listed(c) => In(c, Accepted)
        /\ In(c, Accepted) \/ In(c, LeftInBacklog) <=> Listed(c) \/ Waiting(c)
    BY <1>1, AcceptKeeps
  <2>3. Greets(c)'
    <3>1. Places(c, "handshake")' = Places(c, "handshake")
      BY <2>1 DEF Places
    <3> QED BY <2>1, <3>1 DEF ClientInv, Greets
  <2>4. /\ Filled(c) \in Seq(Unit) /\ Unread(c) \o flight[c] \in Seq(Unit)
        /\ Flow(c) = Filled(c) \o (Unread(c) \o flight[c])
        /\ arrived[c] = <<>> => Unread(c) = <<>>
    BY <1>1, ReadKeepsFlow DEF Unread
  <2>5. link[c] = "reset" => Unread(c) = <<>> /\ flight[c] = <<>>
    BY <2>1, <2>4 DEF ClientInv, FlowInv
  <2>6. CASE c \notin Walked
    <3>1. arrived'[c] = arrived[c] /\ buffer'[c] = buffer[c] /\ taken'[c] = taken[c]
      BY <1>2, <1>3, <2>6
    <3>2. Listed(c)' <=> In(c, Accepted)
      BY <1>2, <1>3, <2>6
    <3> QED BY <1>2, <2>1, <2>2, <3>1, <3>2, OthersKept
  <2>7. CASE c \in Walked /\ HasPacket(c, Filled(c))
    <3>1. c \notin Lost
      BY <1>2, <2>7
    <3>2. /\ arrived'[c] = Unread(c) /\ buffer'[c] = Rest(c, Filled(c))
          /\ taken'[c] = Append(taken[c], FirstPacket(c, Filled(c)))
          /\ Listed(c)'
      BY <1>2, <2>7, <3>1
    <3> DEFINE n == Len(taken[c])
               v == Rest(c, Filled(c)) \o (Unread(c) \o flight[c])
    <3>3. /\ n + 1 \in 1 .. Len(sent[c])
          /\ FirstPacket(c, Filled(c)) = sent[c][n + 1]
          /\ WellFormed(sent[c], v) /\ BeginsAfter(v, n + 1)
          /\ IsWhole(sent[c], Flow(c), n) => IsWhole(sent[c], v, n + 1)
      BY <1>1, <2>7, TakeFromFlow DEF Unread
    <3>4. /\ n \in Nat /\ Len(taken'[c]) = n + 1 /\ taken'[c][n + 1] = sent[c][n + 1]
          /\ \A i \in 1 .. n : taken'[c][i] = taken[c][i]
      <4>1. taken[c] \in Seq(Packets) /\ sent[c] \in Seq(Packets) /\ n \in Nat
        BY <1>1, FlowType
      <4>2. sent[c][n + 1] \in Packets
        BY <3>3, <4>1, ElementOfSeq
      <4> QED BY <3>2, <3>3, <4>1, <4>2, AppendProperties
    <3>5. Flow(c)' = v
      BY <2>1, <3>2 DEF Flow
    <3> HIDE DEF v
    <3>6. FlowInv(c)'
      BY <2>1, <2>5, <3>2, <3>3, <3>4, <3>5 DEF FlowInv, ClientInv
    <3>7. IsPrefix(taken[c], sent[c])'
      <4>1. \A i \in 1 .. n : taken[c][i] = sent[c][i]
        BY <2>1 DEF ClientInv, IsPrefix
      <4>2. \A i \in 1 .. n + 1 : i \in 1 .. n \/ i = n + 1
        BY <3>4
      <4>3. n + 1 <= Len(sent[c])
        BY <3>3
      <4> HIDE DEF n
      <4> QED BY <2>1, <3>4, <4>1, <4>2, <4>3 DEF IsPrefix
    <3>8. Served(c)'
      BY <3>2 DEF Served
    <3> QED BY <2>3, <3>6, <3>7, <3>8 DEF ClientInv
  <2>8. CASE c \in Lost
    <3>1. Ended(c) /\ ~ HasPacket(c, Filled(c)) /\ c \in Walked
      BY <1>2, <1>3, <2>8
    <3>2. /\ arrived'[c] = Unread(c) /\ buffer'[c] = <<>> /\ taken'[c] = taken[c]
      BY <1>2, <2>8, <3>1
    <3>3. /\ arrived[c] = <<>> /\ flight[c] = <<>>
          /\ link[c] # "reset" => Flow(c) = <<>> /\ taken[c] = sent[c]
      BY <1>1, <3>1, EndedIsDone
    <3>4. Flow(c)' = <<>> /\ arrived'[c] = <<>> /\ flight'[c] = <<>>
      <4>1. <<>> \in Seq(Unit)
        BY EmptySeq
      <4>2. <<>> \o (<<>> \o <<>>) = <<>>
        BY <4>1, ConcatEmptySeq
      <4> QED BY <2>1, <2>4, <3>2, <3>3, <4>2 DEF Flow
    <3>5. FlowInv(c)'
      <4>1. WellFormed(sent[c], <<>>) /\ BeginsAfter(<<>>, Len(taken[c]))
        <5>1. Len(<<>>) = 0 /\ 1 .. 0 = {}
          BY EmptySeq
        <5>2. Starts(<<>>) = {}
          BY <5>1 DEF Starts
        <5> QED BY <5>1, <5>2 DEF WellFormed, BeginsAfter
      <4>2. link[c] # "reset" => IsWhole(sent[c], <<>>, Len(taken[c]))
        BY <2>1, <3>3 DEF ClientInv, FlowInv
      <4> QED BY <2>1, <3>2, <3>4, <4>1, <4>2 DEF FlowInv
    <3>6. IsPrefix(taken[c], sent[c])'
      BY <2>1, <3>2 DEF ClientInv, IsPrefix
    <3>7. Served(c)'
      BY <2>1, <3>1, <3>2, <3>3 DEF Served, Ended
    <3> QED BY <2>3, <3>5, <3>6, <3>7 DEF ClientInv
  <2>9. CASE c \in Walked /\ ~ HasPacket(c, Filled(c)) /\ c \notin Lost
    <3>1. /\ arrived'[c] = Unread(c) /\ buffer'[c] = Filled(c) /\ taken'[c] = taken[c]
          /\ Listed(c)'
      BY <1>2, <2>9
    <3>2. Flow(c)' = Flow(c)
      BY <2>1, <2>4, <3>1 DEF Flow
    <3>3. FlowInv(c)'
      BY <2>1, <2>5, <3>1, <3>2 DEF ClientInv, FlowInv
    <3>4. IsPrefix(taken[c], sent[c])'
      BY <2>1, <3>1 DEF ClientInv, IsPrefix
    <3>5. Served(c)'
      BY <3>1 DEF Served
    <3> QED BY <2>3, <3>3, <3>4, <3>5 DEF ClientInv
  <2> QED BY <1>3, <2>6, <2>7, <2>8, <2>9
<1>5. Shapes'
  BY TcpTypes
<1> QED BY <1>4, <1>5 DEF IInv
-----------------------------------------------------------------------------
(* Every step.                                                             *)

LEMMA InitInv == Init => IInv
<1> SUFFICES ASSUME Init PROVE IInv
  OBVIOUS
<1>1. <<>> \in Seq(Unit) /\ <<>> \in Seq(Packets) /\ <<>> \in Seq(Clients)
  BY EmptySeq
<1>2. Shapes
  <2> HIDE DEF Unit, Packets
  <2> QED BY <1>1, BoundsAssumption DEF Init, Shapes
<1>3. ASSUME NEW c \in Clients PROVE ClientInv(c)
  <2>1. /\ link[c] = "none" /\ tcpState[c] = "disconnected" /\ lastState[c] = "disconnected"
        /\ flight[c] = <<>> /\ arrived[c] = <<>> /\ buffer[c] = <<>>
        /\ sent[c] = <<>> /\ taken[c] = <<>>
    BY DEF Init
  <2>2. Flow(c) = <<>>
    <3>1. <<>> \o (<<>> \o <<>>) = <<>>
      BY <1>1, ConcatEmptySeq
    <3> QED BY <2>1, <3>1 DEF Flow
  <2>3. Len(<<>>) = 0 /\ 1 .. 0 = {}
    OBVIOUS
  <2>4. Starts(<<>>) = {} /\ Places(c, "handshake") = {}
    BY <2>1, <2>3 DEF Starts, Places
  <2>5. FlowInv(c)
    BY <2>1, <2>2, <2>3, <2>4 DEF FlowInv, WellFormed, BeginsAfter, IsWhole
  <2>6. IsPrefix(taken[c], sent[c]) /\ Served(c) /\ Greets(c)
    BY <2>1, <2>3, <2>4 DEF IsPrefix, Served, Greets
  <2> QED BY <2>5, <2>6 DEF ClientInv
<1> QED BY <1>2, <1>3 DEF IInv

LEMMA NextInv == IInv /\ [Next]_vars => IInv'
<1> SUFFICES ASSUME IInv, [Next]_vars PROVE IInv'
  OBVIOUS
<1>1. ASSUME NEW c \in Clients, Client(c) PROVE IInv'
  BY <1>1, ConnectInv, ConnectAtOnceInv, WatchInv, ClientPollInv, SendOtherInv, LeaveInv
     DEF Client
<1>2. ASSUME NEW c \in Clients, Network(c) PROVE IInv'
  BY <1>2, EstablishInv, RefuseInv, ArriveInv, BreakInv DEF Network
<1>3. CASE ReceivePacket
  <2>1. backlog' = LeftInBacklog /\ (ReceiveDatagram \/ ReceiveTcp)
    BY <1>3 DEF ReceivePacket, LeftInBacklog
  <2> QED BY <2>1, ReceiveDatagramInv, ReceiveTcpInv
<1>4. CASE UNCHANGED vars
  <2>1. /\ UNCHANGED <<tcpState, lastState, link, flight, arrived, backlog, conns, buffer>>
        /\ UNCHANGED <<datagrams, coming, sent, taken>>
    BY <1>4 DEF vars, clientVars, netVars, serverVars, udpVars
  <2>2. Shapes /\ \A c \in Clients : ClientInv(c)
    BY DEF IInv
  <2>3. Shapes'
    BY <2>1, <2>2 DEF Shapes
  <2>4. ASSUME NEW c \in Clients PROVE ClientInv(c)'
    BY <2>1, <2>2, OthersKept DEF Listed, Waiting
  <2> QED BY <2>3, <2>4 DEF IInv
<1> QED BY <1>1, <1>2, <1>3, <1>4, DatagramComesInv DEF Next

LEMMA InvHolds == Spec => []IInv
<1>1. Init => IInv
  BY InitInv
<1>2. IInv /\ [Next]_vars => IInv'
  BY NextInv
<1> QED BY <1>1, <1>2, PTL DEF Spec

-----------------------------------------------------------------------------
(* The states, buffers and lists of NetworkManager keep their types, and a *)
(* buffer that is not empty belongs to a listed connection and begins with *)
(* the header of a packet (NetworkManager.cpp:283-307).                    *)
THEOREM TransportTypeCorrect == Spec => []TypeOK
<1>1. ASSUME IInv PROVE TypeOK
  <2>1. Shapes /\ \A c \in Clients : ClientInv(c)
    BY <1>1 DEF IInv
  <2>2. ASSUME NEW c \in Clients, buffer[c] # <<>>
        PROVE  Listed(c) /\ Head(buffer[c])[2] = 1
    <3>1. Listed(c) /\ BeginsAfter(Flow(c), Len(taken[c]))
      BY <2>1, <2>2 DEF ClientInv, Served, FlowInv
    <3>2. /\ buffer[c] \in Seq(Unit) /\ arrived[c] \o flight[c] \in Seq(Unit)
      BY <2>1, FlowType
    <3>3. Flow(c) # <<>> /\ Head(buffer[c]) = Flow(c)[1]
      <4> HIDE DEF Unit
      <4> QED BY <2>2, <3>2, HeadOfJoined DEF Flow
    <3>4. Flow(c)[1] = <<Len(taken[c]) + 1, 1>>
      BY <3>1, <3>3 DEF BeginsAfter
    <3> QED BY <3>1, <3>3, <3>4
  <2>3. \A c \in Clients : sent[c] \in Seq(Packets) /\ taken[c] \in Seq(Packets)
    BY <2>1, FlowType
  <2>4. datagrams + coming \in 0 .. MaxDatagrams
    BY <2>1, BoundsAssumption DEF Shapes
  <2> QED BY <2>1, <2>2, <2>3, <2>4 DEF TypeOK, Shapes
<1> QED BY <1>1, InvHolds, PTL

(* A connection that a client has closed in order is forgotten only when   *)
(* every packet of it has been returned (NetworkManager.cpp:288-306).      *)
THEOREM NothingEverLostAtClose == Spec => []NothingLostAtClose
<1>1. IInv => NothingLostAtClose
  BY DEF IInv, ClientInv, Served, NothingLostAtClose
<1> QED BY <1>1, InvHolds, PTL

(* No connection is greeted by both Initialize and Run                     *)
(* (NetMuxFramework.cpp:66-72, 164-173).                                   *)
THEOREM NeverGreetedTwice == Spec => []GreetedOnce
<1>1. ASSUME IInv PROVE GreetedOnce
  <2> SUFFICES ASSUME NEW c \in Clients
               PROVE  Cardinality(Places(c, "handshake")) <= 1
    BY DEF GreetedOnce
  <2>1. \A i, j \in Places(c, "handshake") : i = j
    BY <1>1 DEF IInv, ClientInv, Greets
  <2>2. CASE Places(c, "handshake") = {}
    BY <2>2, FS_EmptySet
  <2>3. CASE Places(c, "handshake") # {}
    <3>1. PICK i : Places(c, "handshake") = {i}
      BY <2>1, <2>3
    <3>2. Cardinality({i}) = 1
      BY FS_Singleton
    <3> QED BY <3>1, <3>2
  <2> QED BY <2>2, <2>3
<1> QED BY <1>1, InvHolds, PTL

-----------------------------------------------------------------------------
(* A step of the transport is a step of the abstract channel, or none.     *)

LEMMA SendIsSend ==
  ASSUME Shapes, NEW c \in Clients, NEW packet \in Packets, SendPacket(c, packet),
         taken' = taken
  PROVE  Channel!Next
<1>1. sent' = [sent EXCEPT ![c] = Append(sent[c], packet)]
  BY DEF SendPacket
<1>2. Channel!Send(c)
  BY <1>1 DEF Channel!Send
<1> QED BY <1>2 DEF Channel!Next

LEMMA ReceiveIsTake ==
  ASSUME IInv, ReceiveTcp, backlog' = LeftInBacklog
  PROVE  Channel!Next \/ UNCHANGED Channel!vars
<1>1. Shapes /\ \A c \in Clients : ClientInv(c)
  BY DEF IInv
<1>2. /\ sent' = sent
      /\ taken' = [c \in Clients |->
                    IF c \in Walked /\ HasPacket(c, Filled(c))
                    THEN Append(taken[c], FirstPacket(c, Filled(c))) ELSE taken[c]]
      /\ \A c, d \in Walked : HasPacket(c, Filled(c)) /\ HasPacket(d, Filled(d)) => c = d
  BY <1>1, TcpOutcomes
<1>3. taken \in [Clients -> Seq(Packets)]
  BY <1>1 DEF Shapes
<1> HIDE DEF Packets
<1>4. CASE \E c \in Clients : c \in Walked /\ HasPacket(c, Filled(c))
  <2>1. PICK c \in Clients : c \in Walked /\ HasPacket(c, Filled(c))
    BY <1>4
  <2>2. /\ Len(taken[c]) + 1 \in 1 .. Len(sent[c])
        /\ FirstPacket(c, Filled(c)) = sent[c][Len(taken[c]) + 1]
    BY <1>1, <2>1, TakeFromFlow
  <2>3. Len(taken[c]) < Len(sent[c])
    <3>1. Len(taken[c]) \in Nat /\ Len(sent[c]) \in Nat
      BY <1>1, FlowType
    <3> QED BY <2>2, <3>1
  <2>4. taken' = [taken EXCEPT ![c] = Append(taken[c], sent[c][Len(taken[c]) + 1])]
    BY <1>2, <1>3, <2>1, <2>2
  <2>5. Channel!Take(c)
    BY <1>2, <2>3, <2>4 DEF Channel!Take
  <2> QED BY <2>5 DEF Channel!Next
<1>5. CASE ~ \E c \in Clients : c \in Walked /\ HasPacket(c, Filled(c))
  <2>1. taken' = taken
    BY <1>2, <1>3, <1>5
  <2> QED BY <1>2, <2>1 DEF Channel!vars
<1> QED BY <1>4, <1>5

(* However the streams are cut and in whatever pieces they are read, every *)
(* client's packets are returned whole, in order and once: the transport   *)
(* implements the abstract channel (NetworkManager.cpp:283-307).           *)
THEOREM TransportRefinesChannel == Spec => ImplementsChannel
<1>1. Init => Channel!Init
  BY DEF Init, Channel!Init
<1>2. IInv /\ [Next]_vars => [Channel!Next]_(Channel!vars)
  <2> SUFFICES ASSUME IInv, [Next]_vars
               PROVE  Channel!Next \/ UNCHANGED Channel!vars
    OBVIOUS
  <2>1. Shapes
    BY DEF IInv
  <2>2. ASSUME NEW c \in Clients, Client(c)
        PROVE  Channel!Next \/ UNCHANGED Channel!vars
    <3>1. CASE UNCHANGED <<sent, taken>>
      BY <3>1 DEF Channel!vars
    <3>2. CASE \E packet \in Packets : SendPacket(c, packet) /\ taken' = taken
      BY <2>1, <3>2, SendIsSend
    <3>3. Connect(c) \/ ClientPoll(c) => UNCHANGED <<sent, taken>>
      BY DEF Connect, ClientPoll
    <3>4. ConnectAtOnce(c) \/ Leave(c) => \E packet \in Packets : SendPacket(c, packet) /\ taken' = taken
      BY PacketTypes DEF ConnectAtOnce, Leave
    <3>5. SendOther(c) => \E packet \in Packets : SendPacket(c, packet) /\ taken' = taken
      BY PacketTypes DEF SendOther
    <3>6. Watch(c) => \/ UNCHANGED <<sent, taken>>
                      \/ \E packet \in Packets : SendPacket(c, packet) /\ taken' = taken
      BY PacketTypes DEF Watch
    <3> QED BY <2>2, <3>1, <3>2, <3>3, <3>4, <3>5, <3>6 DEF Client
  <2>3. ASSUME NEW c \in Clients, Network(c)
        PROVE  UNCHANGED Channel!vars
    BY <2>3 DEF Network, Establish, Refuse, Arrive, Break, Channel!vars
  <2>4. CASE DatagramComes
    BY <2>4 DEF DatagramComes, Channel!vars
  <2>5. CASE ReceivePacket
    <3>1. CASE ReceiveDatagram
      BY <3>1 DEF ReceiveDatagram, Channel!vars
    <3>2. CASE ReceiveTcp
      BY <2>5, <3>2, ReceiveIsTake DEF ReceivePacket, LeftInBacklog
    <3> QED BY <2>5, <3>1, <3>2 DEF ReceivePacket
  <2>6. CASE UNCHANGED vars
    BY <2>6 DEF vars, Channel!vars
  <2> QED BY <2>2, <2>3, <2>4, <2>5, <2>6 DEF Next
<1> QED BY <1>1, <1>2, InvHolds, PTL DEF Spec, ImplementsChannel, Channel!Spec

-----------------------------------------------------------------------------
(* What the serializer keeps of a packet.                                   *)

(* Two fields of one type have two slots.                                  *)
LEMMA SlotsApart ==
  ASSUME NEW type, NEW f \in Fields, NEW g \in Fields,
         Written(type, f), Written(type, g), SlotOf(f) = SlotOf(g)
  PROVE  f = g
BY SMT DEF Written, Restored, SlotOf

(* A field that is read back is what was written.                          *)
LEMMA RestoredArrives ==
  ASSUME NEW packet, NEW f \in Fields, Restored(packet.type, f)
  PROVE  Arrived(packet).fields[f] = FromSlot(f, ToSlot(f, packet.fields[f]))
<1>1. InSlot(packet, SlotOf(f)) = {f}
  BY SlotsApart DEF InSlot, Written
<1>2. SlotOf(f) \in 1 .. 3
  BY SMT DEF SlotOf
<1>3. Serialize(packet).d[SlotOf(f)] = ToSlot(f, packet.fields[f])
  BY <1>1, <1>2, Zenon DEF Serialize
<1>4. Serialize(packet).type = packet.type
  BY DEF Serialize
<1>5. QED BY <1>3, <1>4, Zenon DEF Arrived, Deserialize

LEMMA OthersReset ==
  ASSUME NEW packet, NEW f \in Fields, ~ Restored(packet.type, f)
  PROVE  Arrived(packet).fields[f] = Default(f)
<1>1. Serialize(packet).type = packet.type
  BY DEF Serialize
<1>2. QED BY <1>1, Zenon DEF Arrived, Deserialize

(* A flag or a number comes out of its slot as it was put in.              *)
LEMMA SlotKeeps ==
  ASSUME NEW f, NEW v, f \in Flags => v \in BOOLEAN
  PROVE  FromSlot(f, ToSlot(f, v)) = v
<1>1. CASE f \notin Flags
  BY <1>1 DEF FromSlot, ToSlot
<1>2. CASE f \in Flags /\ v = TRUE
  BY <1>2, 1 # 0 DEF FromSlot, ToSlot
<1>3. CASE f \in Flags /\ v = FALSE
  BY <1>3 DEF FromSlot, ToSlot
<1>4. QED BY <1>1, <1>2, <1>3

LEMMA SlotIdempotent ==
  ASSUME NEW f, NEW v
  PROVE  FromSlot(f, ToSlot(f, FromSlot(f, ToSlot(f, v)))) = FromSlot(f, ToSlot(f, v))
<1> DEFINE w == FromSlot(f, ToSlot(f, v))
<1>1. f \in Flags => w \in BOOLEAN
  BY DEF FromSlot
<1> HIDE DEF w
<1>2. FromSlot(f, ToSlot(f, w)) = w
  BY <1>1, SlotKeeps
<1>3. QED BY <1>2 DEF w

LEMMA PayloadArrives ==
  ASSUME NEW packet
  PROVE  /\ Arrived(packet).type = packet.type
         /\ Arrived(packet).payload = IF IsHeaderOnly(packet.type) THEN 0 ELSE packet.payload
BY DEF Arrived, Deserialize, Serialize

(* What a handler reads of a packet is what the sender wrote, for every    *)
(* type but the FocusUpdate (PacketSerializer.cpp:53-86, 135-167, 170).    *)
THEOREM UsedAlwaysArrives ==
  ASSUME NEW packet, packet.type \in Types,
         \A f \in Flags : packet.fields[f] \in BOOLEAN
  PROVE  UsedArrives(packet)
<1>1. ASSUME packet.type # "FocusUpdate", NEW f \in Fields, Used(packet.type, f)
      PROVE  Arrived(packet).fields[f] = packet.fields[f]
  <2>1. Restored(packet.type, f)
    BY <1>1 DEF Used, Restored
  <2>2. FromSlot(f, ToSlot(f, packet.fields[f])) = packet.fields[f]
    BY SlotKeeps
  <2>3. QED BY <2>1, <2>2, RestoredArrives
<1>2. UsesPayload(packet.type) => Arrived(packet).payload = packet.payload
  <2>1. UsesPayload(packet.type) => ~ IsHeaderOnly(packet.type)
    BY DEF UsesPayload, IsHeaderOnly
  <2>2. QED BY <2>1, PayloadArrives
<1>3. QED BY <1>1, <1>2 DEF UsedArrives

(* No FocusUpdate carries its owner (PacketSerializer.cpp:83, 122).        *)
THEOREM FocusAlwaysNamesNobody ==
  ASSUME NEW packet
  PROVE  FocusNamesNobody(packet)
<1>1. ASSUME packet.type = "FocusUpdate"
      PROVE  Arrived(packet).fields["button"] = 0
  <2>1. "button" \in Fields /\ ~ Restored(packet.type, "button") /\ Default("button") = 0
    BY <1>1 DEF Fields, Numbers, Flags, Restored, Default
  <2>2. QED BY <2>1, OthersReset
<1>2. QED BY <1>1 DEF FocusNamesNobody

(* However often a packet is relayed, it arrives as after the first        *)
(* passage (PacketSerializer.cpp:28-184).                                  *)
THEOREM RelayLosesNothing ==
  ASSUME NEW packet
  PROVE  RelayedAsReceived(packet)
<1> DEFINE once == Arrived(packet)
           twice == Arrived(once)
<1>1. once.type = packet.type /\ twice.type = once.type /\ twice.payload = once.payload
  BY PayloadArrives
<1>2. ASSUME NEW f \in Fields PROVE twice.fields[f] = once.fields[f]
  <2>1. CASE Restored(packet.type, f)
    <3>1. once.fields[f] = FromSlot(f, ToSlot(f, packet.fields[f]))
      BY <2>1, RestoredArrives
    <3>2. twice.fields[f] = FromSlot(f, ToSlot(f, once.fields[f]))
      BY <1>1, <2>1, RestoredArrives
    <3>3. QED BY <3>1, <3>2, SlotIdempotent
  <2>2. CASE ~ Restored(packet.type, f)
    <3>1. once.fields[f] = Default(f) /\ twice.fields[f] = Default(f)
      BY <1>1, <2>2, OthersReset
    <3>2. QED BY <3>1
  <2>3. QED BY <2>1, <2>2
<1>3. ASSUME NEW p
      PROVE  /\ Arrived(p) = [type |-> Arrived(p).type, fields |-> Arrived(p).fields,
                              payload |-> Arrived(p).payload]
             /\ Arrived(p).fields = [f \in Fields |-> Arrived(p).fields[f]]
  BY DEF Arrived, Deserialize
<1> HIDE DEF once, twice
<1>4. once.fields = [f \in Fields |-> once.fields[f]]
      /\ twice.fields = [f \in Fields |-> twice.fields[f]]
  BY <1>3 DEF once, twice
<1>5. twice.fields = once.fields
  BY <1>2, <1>4
<1>6. twice = [type |-> twice.type, fields |-> twice.fields, payload |-> twice.payload]
      /\ once = [type |-> once.type, fields |-> once.fields, payload |-> once.payload]
  BY <1>3 DEF once, twice
<1>7. twice = once
  BY <1>1, <1>5, <1>6
<1>8. QED BY <1>7 DEF RelayedAsReceived, once, twice
=============================================================================
