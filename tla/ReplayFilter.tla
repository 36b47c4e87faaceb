----------------------------- MODULE ReplayFilter -----------------------------
(***************************************************************************)
(* The replay protection at the head of ProcessIncomingPackets             *)
(* (src/src/NetMuxFramework.cpp:438-479), for the packets that arrive      *)
(* under one sender id.                                                    *)
(*                                                                         *)
(* Every machine numbers all its packets, of every type, with one 32-bit   *)
(* m_sequenceCounter.  The filter has two halves.  Five types (movement,   *)
(* heartbeat, sync check), here "datagram", must carry increasing numbers; *)
(* any other type, here "cached", must carry a number that is not in a     *)
(* cache kept for sixty seconds.  A Handshake is cached and also resets    *)
(* the number the datagrams are compared with (line 581).                  *)
(*                                                                         *)
(* A client meets two counters under one id: PerformMasterStateSync (line  *)
(* 696) sends the position of a peer under the PEER's id with the SERVER's *)
(* counter.  Origins says whose numbers arrive.                            *)
(*                                                                         *)
(* A packet carries its true number n; the wire has n modulo Modulus.      *)
(***************************************************************************)
EXTENDS Integers

CONSTANTS
  Origins,    \* machines that write under this id: {"peer"}, {"peer", "server"}
  Starts,     \* numbers the counters may be at when this node starts
  Modulus,    \* 2^32
  Window,     \* 100000: a larger step back counts as a wrap-around
  Retention,  \* 60000 ms, in ticks
  MaxLag,     \* no packet is overtaken by more than this many later ones
  Lifetime,   \* no datagram lives longer than this many ticks
  MaxSent,    \* bound: packets sent by each machine
  MaxTime     \* bound: the clock stops here

ASSUME OriginsAssumption == "peer" \in Origins /\ Origins \subseteq {"peer", "server"}
ASSUME NumbersAssumption ==
  /\ Modulus \in Nat \ {0} /\ Window \in Nat /\ MaxLag \in Nat
  /\ Starts \subseteq Nat
  /\ MaxLag < Window /\ 2 * Window <= Modulus
  /\ MaxSent \in Nat /\ 2 * MaxSent <= Modulus
ASSUME TimeAssumption ==
  Retention \in Nat /\ Lifetime \in 0 .. Retention /\ MaxTime \in Nat

None == -1

VARIABLES
  now,      \* m_loopTimer
  start,    \* start[o]: counter[o] when this node started; fixed
  counter,  \* counter[o]: m_sequenceCounter of machine o, not reduced
  greeted,  \* has the peer sent its Handshake?
  net,      \* packets on their way to this node
  last,     \* m_lastSequence[id], or None
  cache,    \* m_tcpReplayCache[id]: numbers with the time of their arrival
  taken,    \* history: the packets the filter has let pass, <<origin, n>>
  newest,   \* history: the newest datagram let pass since the Handshake,
            \* which counts as one, or None
  verdict   \* history: the latest packet and what became of it

vars == <<now, start, counter, greeted, net, last, cache, taken, newest, verdict>>

(* A packet of the wire.  The types of Packet::IsHeaderOnly travel by UDP, *)
(* and so does what a server relays to a group; everything else by TCP.    *)
Routes ==
  [origin : {"peer"}, kind : {"datagram"}, path : {"udp"}]
  \cup [origin : {"peer"}, kind : {"cached"}, path : {"udp", "tcp"}]
  \cup [origin : {"peer"}, kind : {"handshake"}, path : {"tcp"}]
  \cup [origin : {"server"}, kind : {"cached"}, path : {"tcp"}]

(* Seeded fault: the number is kept in a wider integer.                    *)
NumberUnreduced(k) == k.n

(* What the wire carries of the number.                                    *)
Number(k) == k.n % Modulus

Id(k) == <<k.route.origin, k.n>>

TypeOK ==
  /\ now \in 0 .. MaxTime
  /\ start \in [Origins -> Starts]
  /\ counter \in [Origins -> Nat]
  /\ \A o \in Origins : counter[o] \in start[o] .. start[o] + MaxSent
  /\ greeted \in BOOLEAN
  /\ net \subseteq [route : Routes, n : Nat, sent : 0 .. now]
  /\ last \in {None} \cup 0 .. Modulus - 1
  /\ cache \subseteq [number : 0 .. Modulus - 1, at : 0 .. now]
  /\ taken \subseteq Origins \X Nat
  /\ newest \in Nat \cup {None}
  /\ verdict \in [kind : {"none", "datagram", "cached"}, passed : BOOLEAN,
                  due : BOOLEAN]

Init ==
  /\ now = 0
  /\ start \in [Origins -> Starts]
  /\ counter = start
  /\ greeted = FALSE
  /\ net = {}
  /\ last = None
  /\ cache = {}
  /\ taken = {}
  /\ newest = None
  /\ verdict = [kind |-> "none", passed |-> TRUE, due |-> TRUE]

-----------------------------------------------------------------------------
(* The other machines and the network.                                     *)

Lag(k) == counter[k.route.origin] - k.n

(* A machine sends its next packet.  A peer greets a server once, when TCP *)
(* is connected (Run, lines 164-173).  A datagram that is too late by now  *)
(* is gone; TCP never lags that much.                                      *)
Send(route) ==
  /\ route.origin \in Origins
  /\ counter[route.origin] < start[route.origin] + MaxSent
  /\ route.kind = "handshake" => ~ greeted /\ Origins = {"peer"}
  /\ greeted' = (greeted \/ route.kind = "handshake")
  /\ LET inTime == {k \in net : k.route.origin = route.origin => Lag(k) < MaxLag}
     IN /\ \A k \in net \ inTime : k.route.path = "udp"
        /\ net' = inTime \cup
                  {[route |-> route, n |-> counter[route.origin], sent |-> now]}
  /\ counter' = [counter EXCEPT ![route.origin] = @ + 1]
  /\ UNCHANGED <<now, start, last, cache, taken, newest, verdict>>

Tick ==
  /\ now < MaxTime
  /\ now' = now + 1
  /\ net' = {k \in net : k.route.path = "udp" => now' - k.sent <= Lifetime}
  /\ UNCHANGED <<start, counter, greeted, last, cache, taken, newest, verdict>>

(* UDP delivers in any order and as often as it likes; TCP delivers what a *)
(* machine sent in order, once.                                            *)
Deliver(k) ==
  /\ k.route.path = "tcp" =>
       \A j \in net : j.route.path = "tcp" /\ j.route.origin = k.route.origin
                        => k.n <= j.n
  /\ net' = IF k.route.path = "tcp" THEN net \ {k} ELSE net
  /\ UNCHANGED <<now, start, counter, greeted>>

-----------------------------------------------------------------------------
(* The filter.                                                             *)

(* (int)(a - b) on 32-bit unsigned numbers.                                *)
Difference(a, b) ==
  LET d == (a - b) % Modulus
  IN IF 2 * d < Modulus THEN d ELSE d - Modulus

(* Seeded fault: a number seen before is not old.                          *)
IsOlder(number) ==
  last # None /\ Difference(number, last) \in (1 - Window) .. -1

IsOld(number) ==
  last # None /\ Difference(number, last) \in (1 - Window) .. 0

ReceiveDatagram(k) ==
  /\ k.route.kind = "datagram"
  /\ Deliver(k)
  /\ verdict' = [kind |-> "datagram", passed |-> ~ IsOld(Number(k)),
                 due |-> k.n > newest]
  /\ IF IsOld(Number(k))
     THEN UNCHANGED <<last, taken, newest>>
     ELSE /\ last' = Number(k)
          /\ newest' = k.n
          /\ taken' = taken \cup {Id(k)}
  /\ UNCHANGED cache

(* Seeded fault: an entry expires when its time is just reached.           *)
ExpiredEarly == {e \in cache : now - e.at >= Retention}

Expired == {e \in cache : now - e.at > Retention}

(* Seeded fault: the rule for datagrams is applied to every packet.        *)
IsReplayOrOld(kept, number) ==
  (\E e \in kept : e.number = number) \/ IsOld(number)

IsReplay(kept, number) == \E e \in kept : e.number = number

(* At most every ten seconds a cached packet first purges the cache.       *)
ReceiveCached(k) ==
  /\ k.route.kind \in {"cached", "handshake"}
  /\ Deliver(k)
  /\ \E purged \in {{}, Expired} :
       LET kept == cache \ purged
           passed == ~ IsReplay(kept, Number(k))
       IN /\ verdict' = [kind |-> "cached", passed |-> passed,
                         due |-> Id(k) \notin taken]
          /\ cache' = IF passed
                      THEN kept \cup {[number |-> Number(k), at |-> now]}
                      ELSE kept
          /\ taken' = IF passed THEN taken \cup {Id(k)} ELSE taken
          /\ IF passed /\ k.route.kind = "handshake"
             THEN last' = Number(k) /\ newest' = k.n
             ELSE UNCHANGED <<last, newest>>

Next ==
  \/ \E route \in Routes : Send(route)
  \/ Tick
  \/ \E k \in net : ReceiveDatagram(k)
  \/ \E k \in net : ReceiveCached(k)

Spec == Init /\ [][Next]_vars

-----------------------------------------------------------------------------
(* The comparison of two 32-bit numbers agrees with the true order, across *)
(* the wrap-around and for every reordering: a datagram passes exactly if  *)
(* it is newer than all that passed since the Handshake.                   *)
OnlyNewerDatagramsPass ==
  verdict.kind = "datagram" => (verdict.passed <=> verdict.due)

(* Nothing passes the cache twice: an entry outlives every duplicate of    *)
(* its packet (NetMuxFramework.cpp:457-477).                               *)
CachedAtMostOnce ==
  verdict.kind = "cached" /\ verdict.passed => verdict.due

(* The other half of the "strict exactly-once semantics" claimed at        *)
(* NetMuxFramework.cpp:457: only a packet that has passed before is        *)
(* dropped.                                                                *)
OnlyReplaysDropped ==
  verdict.kind = "cached" /\ verdict.due => verdict.passed
=============================================================================
