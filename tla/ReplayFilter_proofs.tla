-------------------------- MODULE ReplayFilter_proofs --------------------------
(***************************************************************************)
(* For numbers of any width, any window, any reordering that the window    *)
(* allows and any retention that outlives a datagram: the filter of        *)
(* ReplayFilter lets pass what it should, and nothing else.                *)
(***************************************************************************)
EXTENDS ReplayFilter, TLAPS

(* The remainder of a natural, and of the negative of one.                 *)
LEMMA Remainder ==
  ASSUME NEW a \in Int, NEW m \in Nat \ {0}
  PROVE  /\ a % m \in 0 .. m - 1
         /\ \E q \in Int : a = m * q + (a % m)
<1>1. a % m \in 0 .. m - 1
  BY SMT
<1>2. a \div m \in Int /\ a = m * (a \div m) + (a % m)
  BY SMT
<1> QED BY <1>1, <1>2

(* There is one multiple of m that leaves a remainder.                     *)
LEMMA OneQuotient ==
  ASSUME NEW m \in Nat \ {0}, NEW q \in Int, m * q < m, - m < m * q
  PROVE  q = 0
<1>1. ASSUME q >= 1 PROVE FALSE
  <2>1. m * q >= m
    BY <1>1, SMT
  <2> QED BY <2>1, SMT
<1>2. ASSUME q <= -1 PROVE FALSE
  <2>1. m * q <= - m
    BY <1>2, SMT
  <2> QED BY <2>1, SMT
<1> QED BY <1>1, <1>2, SMT

LEMMA RemainderIs ==
  ASSUME NEW m \in Nat \ {0}, NEW a \in Int, NEW q \in Int, NEW r \in 0 .. m - 1,
         a = m * q + r
  PROVE  a % m = r
<1>1. PICK p \in Int : a = m * p + (a % m)
  BY Remainder
<1>2. a % m \in 0 .. m - 1
  BY Remainder
<1>3. m * (p - q) = m * p - m * q
  BY SMT
<1>4. m * (p - q) < m /\ - m < m * (p - q)
  BY <1>1, <1>2, <1>3, SMT
<1>5. p - q = 0
  BY <1>4, OneQuotient, SMT
<1> QED BY <1>1, <1>5, SMT

(* What the remainders of two numbers that are less than m apart differ    *)
(* by, modulo m.                                                           *)
LEMMA RemainderOfDifference ==
  ASSUME NEW m \in Nat \ {0}, NEW a \in Int, NEW b \in Int,
         a - b < m, - m < a - b
  PROVE  ((a % m) - (b % m)) % m = IF a >= b THEN a - b ELSE a - b + m
<1>1. PICK p \in Int : a = m * p + (a % m)
  BY Remainder
<1>2. PICK q \in Int : b = m * q + (b % m)
  BY Remainder
<1> DEFINE x == (a % m) - (b % m)
           r == IF a >= b THEN a - b ELSE a - b + m
           k == IF a >= b THEN q - p ELSE q - p - 1
           mp == m * p
           mq == m * q
<1>3. x \in Int /\ r \in 0 .. m - 1 /\ k \in Int
  BY Remainder, SMT
<1>4. mp \in Int /\ mq \in Int /\ m * (q - p) = mq - mp
  BY SMT
<1>5. m * (q - p - 1) = mq - mp - m
  BY SMT
<1>6. x = m * k + r
  <2>1. x = (mq - mp) + (a - b)
    <3>1. a % m \in Int /\ b % m \in Int /\ a = mp + (a % m) /\ b = mq + (b % m)
      BY <1>1, <1>2, Remainder
    <3> HIDE DEF mp, mq
    <3> QED BY <1>4, <3>1
  <2> HIDE DEF mp, mq, x
  <2>2. CASE a >= b
    <3>1. k = q - p /\ r = a - b
      BY <2>2
    <3>2. x = m * (q - p) + (a - b)
      BY <1>4, <2>1
    <3> QED BY <3>1, <3>2
  <2>3. CASE ~ a >= b
    <3>1. k = q - p - 1 /\ r = a - b + m
      BY <2>3
    <3>2. x = m * (q - p - 1) + (a - b + m)
      BY <1>4, <1>5, <2>1
    <3> QED BY <3>1, <3>2
  <2> QED BY <2>2, <2>3
<1> HIDE DEF x, r, k
<1>7. x % m = r
  BY <1>3, <1>6, RemainderIs
<1> QED BY <1>7 DEF x, r
(* The signed difference of two numbers of the wire is the true one, as    *)
(* long as neither is more than a window ahead, or half of all behind.     *)
LEMMA DifferenceIsTrue ==
  ASSUME NEW a \in Nat, NEW b \in Nat, 1 - Window <= a - b, a - b < MaxSent
  PROVE  Difference(a % Modulus, b % Modulus) = a - b
<1> DEFINE d == ((a % Modulus) - (b % Modulus)) % Modulus
<1>1. /\ Modulus \in Nat \ {0} /\ Window \in Nat /\ MaxSent \in Nat
      /\ 2 * Window <= Modulus /\ 2 * MaxSent <= Modulus
  BY NumbersAssumption
<1>2. a \in Int /\ b \in Int /\ a - b < Modulus /\ - Modulus < a - b
  BY <1>1
<1>3. d = IF a >= b THEN a - b ELSE a - b + Modulus
  BY <1>1, <1>2, RemainderOfDifference, Zenon
<1>4. Difference(a % Modulus, b % Modulus) = IF 2 * d < Modulus THEN d ELSE d - Modulus
  BY DEF Difference
<1> HIDE DEF d
<1> QED BY <1>1, <1>3, <1>4

(* No two of the numbers that a machine may have sent look alike.          *)
LEMMA NumbersDiffer ==
  ASSUME NEW a \in Nat, NEW b \in Nat, a - b < MaxSent, b - a < MaxSent,
         a % Modulus = b % Modulus
  PROVE  a = b
<1>1. /\ Modulus \in Nat \ {0} /\ MaxSent \in Nat /\ 2 * MaxSent <= Modulus
  BY NumbersAssumption
<1>2. a \in Int /\ b \in Int /\ a - b < Modulus /\ - Modulus < a - b
  BY <1>1
<1>3. ((a % Modulus) - (b % Modulus)) % Modulus
        = IF a >= b THEN a - b ELSE a - b + Modulus
  BY <1>1, <1>2, RemainderOfDifference, Zenon
<1>4. (a % Modulus) - (b % Modulus) = 0
  BY <1>1, Remainder
<1>5. 0 % Modulus = 0
  BY <1>1, RemainderIs
<1> QED BY <1>1, <1>2, <1>3, <1>4, <1>5

-----------------------------------------------------------------------------
(* Every number is sent once, and no packet arrives too late.              *)
InFlight ==
  /\ \A k \in net :
       /\ k.route.origin \in Origins
       /\ k.n \in start[k.route.origin] .. counter[k.route.origin] - 1
       /\ Lag(k) <= 1 \/ Lag(k) <= MaxLag
       /\ k.route.path = "udp" => now - k.sent <= Lifetime
       /\ k.route.kind = "handshake" => Origins = {"peer"}
  /\ \A j, k \in net : Id(j) = Id(k) => j = k

(* What has been taken had been sent.                                      *)
TakenWasSent ==
  \A o \in Origins : \A n \in Nat : <<o, n>> \in taken => n \in start[o] .. counter[o] - 1

(* The number that datagrams are compared with is that of the newest.      *)
LastIsNewest ==
  \/ last = None /\ newest = None
  \/ /\ newest \in start["peer"] .. counter["peer"] - 1
     /\ last = newest % Modulus

(* A packet of which another copy is to come is in the cache.              *)
CopiesAreCached ==
  \A k \in net :
    (k.route.kind # "datagram" /\ Id(k) \in taken) =>
      /\ k.route.path = "udp"
      /\ \E e \in cache : e.number = Number(k) /\ e.at >= k.sent

(* What is in the cache has been taken.                                    *)
CacheWasTaken == \A e \in cache : \E id \in taken : e.number = id[2] % Modulus

IInv ==
  /\ TypeOK /\ InFlight /\ TakenWasSent /\ LastIsNewest /\ CopiesAreCached /\ CacheWasTaken
  /\ OnlyNewerDatagramsPass /\ CachedAtMostOnce
-----------------------------------------------------------------------------
LEMMA InitInv == Init => IInv
<1> SUFFICES ASSUME Init PROVE IInv
  OBVIOUS
<1>1. TypeOK
  <2>1. start \in [Origins -> Nat] /\ MaxSent \in Nat
    BY NumbersAssumption DEF Init
  <2>2. /\ counter \in [Origins -> Nat]
        /\ \A o \in Origins : counter[o] \in start[o] .. start[o] + MaxSent
    BY <2>1 DEF Init
  <2>3. greeted \in BOOLEAN
    BY Zenon DEF Init
  <2>4. verdict \in [kind : {"none", "datagram", "cached"}, passed : BOOLEAN, due : BOOLEAN]
    BY DEF Init
  <2> QED BY <2>2, <2>3, <2>4, TimeAssumption DEF Init, TypeOK
<1>2. /\ InFlight /\ TakenWasSent /\ LastIsNewest /\ CopiesAreCached /\ CacheWasTaken
      /\ OnlyNewerDatagramsPass /\ CachedAtMostOnce
  BY DEF Init, InFlight, TakenWasSent, LastIsNewest, CopiesAreCached, CacheWasTaken,
         OnlyNewerDatagramsPass, CachedAtMostOnce
<1> QED BY <1>1, <1>2 DEF IInv

(* What the types and the assumptions say of numbers and times.            *)
LEMMA Ranges ==
  ASSUME IInv
  PROVE  /\ counter \in [Origins -> Nat] /\ start \in [Origins -> Nat]
         /\ \A p \in Origins : start[p] <= counter[p] /\ counter[p] <= start[p] + MaxSent
         /\ now \in Nat /\ MaxSent \in Nat /\ MaxLag \in Nat /\ Window \in Nat
         /\ MaxLag < Window /\ Lifetime \in Nat /\ Retention \in Nat /\ Lifetime <= Retention
         /\ Modulus \in Nat \ {0} /\ MaxTime \in Nat /\ "peer" \in Origins
         /\ net \subseteq [route : Routes, n : Nat, sent : 0 .. now]
<1>1. start \in [Origins -> Nat]
  BY NumbersAssumption DEF IInv, TypeOK
<1>2. MaxSent \in Nat /\ MaxLag \in Nat /\ Window \in Nat /\ MaxLag < Window
      /\ Modulus \in Nat \ {0}
  BY NumbersAssumption
<1>3. /\ Lifetime \in Nat /\ Retention \in Nat /\ Lifetime <= Retention /\ MaxTime \in Nat
  BY TimeAssumption
<1>4. \A p \in Origins : start[p] <= counter[p] /\ counter[p] <= start[p] + MaxSent
  <2> SUFFICES ASSUME NEW p \in Origins
               PROVE  start[p] <= counter[p] /\ counter[p] <= start[p] + MaxSent
    OBVIOUS
  <2>1. counter[p] \in start[p] .. start[p] + MaxSent /\ start[p] \in Nat
    BY <1>1 DEF IInv, TypeOK
  <2> QED BY <1>2, <2>1
<1>5. /\ counter \in [Origins -> Nat] /\ now \in Nat
      /\ net \subseteq [route : Routes, n : Nat, sent : 0 .. now]
  BY <1>3 DEF IInv, TypeOK
<1> QED BY <1>1, <1>2, <1>3, <1>4, <1>5, OriginsAssumption

(* The number of a machine's next packet is new.                           *)
LEMMA SendInv ==
  ASSUME IInv, NEW route \in Routes, Send(route)
  PROVE  IInv'
<1> DEFINE o == route.origin
           new == [route |-> route, n |-> counter[o], sent |-> now]
<1>1. /\ o \in Origins /\ counter[o] < start[o] + MaxSent
      /\ route.kind = "handshake" => Origins = {"peer"}
      /\ greeted' = (greeted \/ route.kind = "handshake")
      /\ counter' = [counter EXCEPT ![o] = @ + 1]
      /\ UNCHANGED <<now, start, last, cache, taken, newest, verdict>>
  BY DEF Send
<1>2. \A k \in net' : k = new \/ (k \in net /\ (k.route.origin = o => Lag(k) < MaxLag))
  BY DEF Send
<1>3. /\ counter \in [Origins -> Nat] /\ start \in [Origins -> Nat]
      /\ \A p \in Origins : start[p] <= counter[p] /\ counter[p] <= start[p] + MaxSent
      /\ now \in Nat /\ MaxSent \in Nat /\ MaxLag \in Nat
      /\ net \subseteq [route : Routes, n : Nat, sent : 0 .. now]
  BY Ranges
<1>4. /\ counter' \in [Origins -> Nat] /\ counter'[o] = counter[o] + 1
      /\ \A p \in Origins : p # o => counter'[p] = counter[p]
      /\ \A p \in Origins : counter'[p] \in start[p] .. start[p] + MaxSent
  BY <1>1, <1>3
<1>5. new \in [route : Routes, n : Nat, sent : 0 .. now]
  BY <1>1, <1>3
<1>6. TypeOK'
  <2>1. greeted' \in BOOLEAN
    <3>1. (greeted \/ route.kind = "handshake") \in BOOLEAN
      OBVIOUS
    <3> QED BY <1>1, <3>1, Zenon
  <2>2. net' \subseteq [route : Routes, n : Nat, sent : 0 .. now]
    BY <1>2, <1>3, <1>5
  <2> QED BY <1>1, <1>4, <2>1, <2>2 DEF IInv, TypeOK
<1>7. ASSUME NEW k \in net
      PROVE  /\ k.route.origin \in Origins /\ k.n \in Nat
             /\ k.n < counter[k.route.origin] /\ start[k.route.origin] <= k.n
             /\ k.n < counter'[k.route.origin]
             /\ Id(k) # <<o, counter[o]>>
  <2>1. k.route.origin \in Origins /\ k.n \in Nat
        /\ k.n < counter[k.route.origin] /\ start[k.route.origin] <= k.n
    BY <1>3 DEF IInv, InFlight
  <2> QED BY <1>3, <1>4, <2>1 DEF Id
<1>8. InFlight'
  <2>1. ASSUME NEW k \in net'
        PROVE  /\ k.route.origin \in Origins
               /\ k.n \in start[k.route.origin] .. counter'[k.route.origin] - 1
               /\ Lag(k)' <= 1 \/ Lag(k)' <= MaxLag
               /\ k.route.path = "udp" => now - k.sent <= Lifetime
               /\ k.route.kind = "handshake" => Origins = {"peer"}
    <3>1. CASE k = new
      <4>1. k.route.origin = o /\ k.n = counter[o] /\ k.sent = now /\ k.route = route
        BY <3>1
      <4>2. Lag(k)' = 1 /\ now - now = 0 /\ 0 <= Lifetime
        BY <1>1, <1>3, <1>4, <4>1, Ranges DEF Lag
      <4>3. k.n \in start[o] .. counter'[o] - 1
        BY <1>1, <1>3, <1>4, <4>1
      <4> QED BY <1>1, <4>1, <4>2, <4>3
    <3>2. CASE k # new
      <4>1. k \in net /\ (k.route.origin = o => Lag(k) < MaxLag) 
        BY <1>2, <3>2 DEF IInv, InFlight
      <4> QED BY <1>3, <1>4, <1>7, <4>1 DEF IInv, InFlight, Lag
    <3> QED BY <3>1, <3>2
  <2>2. ASSUME NEW j \in net', NEW k \in net', Id(j) = Id(k) PROVE j = k
    <3>1. Id(new) = <<o, counter[o]>>
      BY DEF Id
    <3> QED BY <1>2, <1>7, <2>2, <3>1 DEF IInv, InFlight
  <2> QED BY <1>1, <2>1, <2>2 DEF InFlight, Id
<1>9. <<o, counter[o]>> \notin taken
  BY <1>1, <1>3 DEF IInv, TakenWasSent
<1>10. TakenWasSent' /\ LastIsNewest' /\ CacheWasTaken'
  <2>1. \A p \in Origins : start[p] \in Nat /\ counter[p] \in Nat /\ counter'[p] \in Nat
                           /\ counter[p] <= counter'[p]
    BY <1>1, <1>3, <1>4
  <2>2. "peer" \in Origins
    BY OriginsAssumption
  <2> QED BY <1>1, <2>1, <2>2 DEF IInv, TakenWasSent, LastIsNewest, CacheWasTaken
<1>11. CopiesAreCached'
  <2>1. ASSUME NEW k \in net', k.route.kind # "datagram", Id(k) \in taken
        PROVE  k \in net
    BY <1>2, <1>9, <2>1 DEF Id
  <2> QED BY <1>1, <2>1 DEF IInv, CopiesAreCached, Number, Id
<1>12. OnlyNewerDatagramsPass' /\ CachedAtMostOnce'
  BY <1>1 DEF IInv, OnlyNewerDatagramsPass, CachedAtMostOnce
<1> QED BY <1>6, <1>8, <1>10, <1>11, <1>12 DEF IInv

LEMMA TickInv ==
  ASSUME IInv, Tick
  PROVE  IInv'
<1>1. /\ now' = now + 1 /\ now' <= MaxTime
      /\ net' = {k \in net : k.route.path = "udp" => now' - k.sent <= Lifetime}
      /\ UNCHANGED <<start, counter, greeted, last, cache, taken, newest, verdict>>
      /\ now \in Nat /\ MaxTime \in Nat
  BY TimeAssumption DEF Tick, IInv, TypeOK
<1>2. TypeOK'
  BY <1>1 DEF IInv, TypeOK
<1>3. InFlight' /\ CopiesAreCached'
  BY <1>1 DEF IInv, InFlight, CopiesAreCached, Id, Lag, Number
<1>4. /\ TakenWasSent' /\ LastIsNewest' /\ CacheWasTaken'
      /\ OnlyNewerDatagramsPass' /\ CachedAtMostOnce'
  BY <1>1 DEF IInv, TakenWasSent, LastIsNewest, CacheWasTaken, OnlyNewerDatagramsPass,
              CachedAtMostOnce
<1> QED BY <1>2, <1>3, <1>4 DEF IInv

(* A datagram is old exactly if it is not newer than the newest.           *)
LEMMA OldIsNotNewer ==
  ASSUME IInv, NEW k \in net, k.route.kind = "datagram"
  PROVE  IsOld(Number(k)) <=> ~ k.n > newest
<1>1. k.n \in Nat /\ k.route.origin = "peer" /\ "peer" \in Origins
  BY OriginsAssumption DEF IInv, TypeOK, Routes
<1>2. /\ counter["peer"] \in Nat /\ start["peer"] \in Nat /\ MaxSent \in Nat
      /\ counter["peer"] <= start["peer"] + MaxSent
      /\ MaxLag \in Nat /\ Window \in Nat /\ MaxLag < Window
  BY <1>1, Ranges
<1>3. k.n \in start["peer"] .. counter["peer"] - 1 /\ (counter["peer"] - k.n <= 1 \/ counter["peer"] - k.n <= MaxLag)
  BY <1>1 DEF IInv, InFlight, Lag
<1>4. CASE last = None /\ newest = None
  BY <1>1, <1>4 DEF IsOld, None
<1>5. CASE newest \in start["peer"] .. counter["peer"] - 1 /\ last = newest % Modulus
  <2>1. newest \in Nat /\ 1 - Window <= k.n - newest /\ k.n - newest < MaxSent
    BY <1>1, <1>2, <1>3, <1>5
  <2>2. Difference(Number(k), last) = k.n - newest
    BY <1>1, <1>5, <2>1, DifferenceIsTrue DEF Number
  <2>3. last # None
    <3>1. newest % Modulus \in 0 .. Modulus - 1
      BY <2>1, Remainder, NumbersAssumption
    <3> QED BY <1>5, <3>1, NumbersAssumption DEF None
  <2> QED BY <1>1, <1>2, <2>1, <2>2, <2>3 DEF IsOld
<1> QED BY <1>4, <1>5 DEF IInv, LastIsNewest
(* Delivery takes nothing from the wire but a packet of TCP.               *)
LEMMA DeliverKeeps ==
  ASSUME IInv, NEW k \in net, Deliver(k)
  PROVE  /\ UNCHANGED <<now, start, counter, greeted>>
         /\ net' \subseteq net
         /\ k.route.path = "tcp" => k \notin net'
         /\ InFlight'
         /\ k.route.origin \in Origins /\ k.n \in Nat
         /\ k.n \in start[k.route.origin] .. counter[k.route.origin] - 1
<1>1. /\ UNCHANGED <<now, start, counter, greeted>>
      /\ net' \subseteq net
      /\ k.route.path = "tcp" => k \notin net'
  BY DEF Deliver
<1>2. InFlight'
  BY <1>1 DEF IInv, InFlight, Id, Lag
<1>3. /\ k.route.origin \in Origins /\ k.n \in Nat
      /\ k.n \in start[k.route.origin] .. counter[k.route.origin] - 1
  BY Ranges DEF IInv, InFlight
<1> QED BY <1>1, <1>2, <1>3

LEMMA ReceiveDatagramInv ==
  ASSUME IInv, NEW k \in net, ReceiveDatagram(k)
  PROVE  IInv'
<1> DEFINE passes == ~ IsOld(Number(k))
<1>1. /\ k.route.kind = "datagram" /\ Deliver(k)
      /\ verdict' = [kind |-> "datagram", passed |-> passes, due |-> k.n > newest]
      /\ passes => last' = Number(k) /\ newest' = k.n /\ taken' = taken \cup {Id(k)}
      /\ ~ passes => UNCHANGED <<last, newest, taken>>
      /\ cache' = cache
  BY DEF ReceiveDatagram
<1>2. /\ UNCHANGED <<now, start, counter, greeted>> /\ net' \subseteq net /\ InFlight'
      /\ k.route.origin = "peer" /\ "peer" \in Origins /\ k.n \in Nat
      /\ k.n \in start["peer"] .. counter["peer"] - 1
  <2>1. k.route.origin = "peer"
    BY <1>1, Ranges DEF Routes
  <2> QED BY <1>1, <2>1, DeliverKeeps
<1>3. passes <=> k.n > newest
  BY <1>1, OldIsNotNewer
<1>4. Number(k) \in 0 .. Modulus - 1 /\ Id(k) = <<"peer", k.n>>
  <2>1. k.n \in Int /\ Modulus \in Nat \ {0}
    BY <1>2, Ranges
  <2>2. k.n % Modulus \in 0 .. Modulus - 1
    BY <2>1, Remainder
  <2> QED BY <1>2, <2>2 DEF Number, Id
<1>5. TypeOK'
  <2>1. last' \in {None} \cup 0 .. Modulus - 1 /\ newest' \in Nat \cup {None}
    BY <1>1, <1>2, <1>4 DEF IInv, TypeOK
  <2>2. taken' \subseteq Origins \X Nat
    BY <1>1, <1>2, <1>4 DEF IInv, TypeOK
  <2>3. verdict' \in [kind : {"none", "datagram", "cached"}, passed : BOOLEAN, due : BOOLEAN]
    <3>1. passes \in BOOLEAN /\ (k.n > newest) \in BOOLEAN
      BY DEF IsOld
    <3> HIDE DEF passes
    <3> QED BY <1>1, <3>1
  <2> QED BY <1>1, <1>2, <2>1, <2>2, <2>3 DEF IInv, TypeOK
<1>6. TakenWasSent'
  BY <1>1, <1>2, <1>4 DEF IInv, TakenWasSent
<1>7. LastIsNewest'
  BY <1>1, <1>2 DEF IInv, LastIsNewest, Number
<1>8. CopiesAreCached'
  <2> SUFFICES ASSUME NEW j \in net', j.route.kind # "datagram", Id(j) \in taken'
               PROVE  /\ j.route.path = "udp"
                      /\ \E e \in cache : e.number = Number(j) /\ e.at >= j.sent
    BY <1>1 DEF CopiesAreCached, Id, Number
  <2>1. j \in net /\ Id(j) # Id(k)
    BY <1>1, <1>2 DEF IInv, InFlight
  <2>2. Id(j) \in taken
    BY <1>1, <2>1
  <2> QED BY <2>1, <2>2 DEF IInv, CopiesAreCached
<1>9. CacheWasTaken'
  BY <1>1 DEF IInv, CacheWasTaken
<1>10. OnlyNewerDatagramsPass' /\ CachedAtMostOnce'
  <2>1. verdict'.passed <=> verdict'.due
    BY <1>1, <1>3
  <2>2. verdict'.kind = "datagram"
    BY <1>1
  <2> QED BY <2>1, <2>2 DEF OnlyNewerDatagramsPass, CachedAtMostOnce
<1> QED BY <1>2, <1>5, <1>6, <1>7, <1>8, <1>9, <1>10 DEF IInv

(* What a cached packet's copies rest on is not purged while they last.    *)
LEMMA PurgeSpares ==
  ASSUME IInv, NEW purged \in {{}, Expired}, NEW j \in net,
         j.route.kind # "datagram", Id(j) \in taken
  PROVE  /\ j.route.path = "udp"
         /\ \E e \in cache \ purged : e.number = Number(j) /\ e.at >= j.sent
<1>1. PICK e \in cache : e.number = Number(j) /\ e.at >= j.sent
  BY DEF IInv, CopiesAreCached
<1>2. j.route.path = "udp" /\ now - j.sent <= Lifetime
  BY DEF IInv, CopiesAreCached, InFlight
<1>3. /\ e.at \in Int /\ j.sent \in Int /\ now \in Nat
      /\ Lifetime \in Nat /\ Retention \in Nat /\ Lifetime <= Retention
  BY Ranges DEF IInv, TypeOK
<1>4. e \notin Expired
  BY <1>1, <1>2, <1>3 DEF Expired
<1> QED BY <1>1, <1>2, <1>4

LEMMA ReceiveCachedInv ==
  ASSUME IInv, NEW k \in net, ReceiveCached(k)
  PROVE  IInv'
<1>1. PICK purged \in {{}, Expired} :
        LET kept == cache \ purged
            passed == ~ IsReplay(kept, Number(k))
        IN /\ verdict' = [kind |-> "cached", passed |-> passed, due |-> Id(k) \notin taken]
           /\ cache' = IF passed THEN kept \cup {[number |-> Number(k), at |-> now]} ELSE kept
           /\ taken' = IF passed THEN taken \cup {Id(k)} ELSE taken
           /\ IF passed /\ k.route.kind = "handshake"
              THEN last' = Number(k) /\ newest' = k.n
              ELSE UNCHANGED <<last, newest>>
  BY DEF ReceiveCached
<1> DEFINE kept == cache \ purged
           passes == ~ IsReplay(kept, Number(k))
           entry == [number |-> Number(k), at |-> now]
<1>2. /\ verdict' = [kind |-> "cached", passed |-> passes, due |-> Id(k) \notin taken]
      /\ cache' = IF passes THEN kept \cup {entry} ELSE kept
      /\ taken' = IF passes THEN taken \cup {Id(k)} ELSE taken
      /\ passes /\ k.route.kind = "handshake" => last' = Number(k) /\ newest' = k.n
      /\ ~ (passes /\ k.route.kind = "handshake") => UNCHANGED <<last, newest>>
      /\ passes \in BOOLEAN
  BY <1>1
<1>3. kept \subseteq cache
  OBVIOUS
<1>4. /\ k.route.kind # "datagram" /\ Deliver(k)
  BY DEF ReceiveCached
<1>5. /\ UNCHANGED <<now, start, counter, greeted>> /\ net' \subseteq net /\ InFlight'
      /\ k.route.path = "tcp" => k \notin net'
      /\ k.route.origin \in Origins /\ k.n \in Nat
      /\ k.n \in start[k.route.origin] .. counter[k.route.origin] - 1
  BY <1>4, DeliverKeeps
<1>6. /\ Number(k) \in 0 .. Modulus - 1 /\ Number(k) = k.n % Modulus
      /\ Id(k) = <<k.route.origin, k.n>> /\ now \in Nat
      /\ k.sent \in 0 .. now /\ k.route \in Routes
  BY <1>5, Remainder, Ranges DEF Number, Id
<1>7. k.route.kind = "handshake" => k.route.origin = "peer"
  BY <1>6 DEF Routes
<1>8. passes => Id(k) \notin taken
  BY <1>4, PurgeSpares DEF IsReplay
<1> HIDE DEF passes
<1>9. TypeOK'
  <2>1. last' \in {None} \cup 0 .. Modulus - 1 /\ newest' \in Nat \cup {None}
    BY <1>2, <1>5, <1>6 DEF IInv, TypeOK
  <2>2. taken' \subseteq Origins \X Nat
    BY <1>2, <1>5, <1>6 DEF IInv, TypeOK
  <2>3. cache' \subseteq [number : 0 .. Modulus - 1, at : 0 .. now]
    <3>1. entry \in [number : 0 .. Modulus - 1, at : 0 .. now]
      BY <1>6
    <3> HIDE DEF entry
    <3> QED BY <1>2, <1>3, <3>1 DEF IInv, TypeOK
  <2>4. verdict' \in [kind : {"none", "datagram", "cached"}, passed : BOOLEAN, due : BOOLEAN]
    <3>1. (Id(k) \notin taken) \in BOOLEAN
      OBVIOUS
    <3> QED BY <1>2, <3>1
  <2> QED BY <1>5, <2>1, <2>2, <2>3, <2>4 DEF IInv, TypeOK
<1>10. TakenWasSent'
  BY <1>2, <1>5, <1>6 DEF IInv, TakenWasSent
<1>11. LastIsNewest'
  BY <1>2, <1>5, <1>6, <1>7 DEF IInv, LastIsNewest
<1>12. CopiesAreCached'
  <2> SUFFICES ASSUME NEW j \in net', j.route.kind # "datagram", Id(j) \in taken'
               PROVE  /\ j.route.path = "udp"
                      /\ \E e \in cache' : e.number = Number(j) /\ e.at >= j.sent
    BY DEF CopiesAreCached, Id, Number
  <2>1. CASE Id(j) \in taken
    <3>1. /\ j.route.path = "udp"
          /\ \E e \in kept : e.number = Number(j) /\ e.at >= j.sent
      BY <1>5, <2>1, PurgeSpares
    <3> QED BY <1>2, <3>1
  <2>2. CASE Id(j) \notin taken
    <3>1. passes /\ Id(j) = Id(k) /\ j = k
      BY <1>2, <1>5, <2>2 DEF IInv, InFlight
    <3>2. k.route.path = "udp"
      BY <1>5, <1>6, <3>1 DEF Routes
    <3>3. entry \in cache' /\ entry.number = Number(k) /\ entry.at >= k.sent
      BY <1>2, <1>6, <3>1
    <3> QED BY <3>1, <3>2, <3>3
  <2> QED BY <2>1, <2>2
<1>13. CacheWasTaken'
  <2> SUFFICES ASSUME NEW e \in cache'
               PROVE  \E id \in taken' : e.number = id[2] % Modulus
    BY DEF CacheWasTaken
  <2>1. CASE e \in kept
    BY <1>2, <1>3, <2>1 DEF IInv, CacheWasTaken
  <2>2. CASE e \notin kept
    <3>1. passes /\ e = entry
      BY <1>2, <2>2
    <3>2. Id(k) \in taken' /\ e.number = Id(k)[2] % Modulus
      BY <1>2, <1>6, <3>1
    <3> QED BY <3>2
  <2> QED BY <2>1, <2>2
<1>14. OnlyNewerDatagramsPass' /\ CachedAtMostOnce'
  BY <1>2, <1>8 DEF OnlyNewerDatagramsPass, CachedAtMostOnce
<1> QED BY <1>5, <1>9, <1>10, <1>11, <1>12, <1>13, <1>14 DEF IInv

LEMMA NextInv == IInv /\ [Next]_vars => IInv'
<1> SUFFICES ASSUME IInv, [Next]_vars PROVE IInv'
  OBVIOUS
<1>1. CASE \E route \in Routes : Send(route)
  BY <1>1, SendInv
<1>2. CASE Tick
  BY <1>2, TickInv
<1>3. CASE \E k \in net : ReceiveDatagram(k)
  BY <1>3, ReceiveDatagramInv
<1>4. CASE \E k \in net : ReceiveCached(k)
  BY <1>4, ReceiveCachedInv
<1>5. CASE UNCHANGED vars
  BY <1>5 DEF vars, IInv, TypeOK, InFlight, TakenWasSent, LastIsNewest, CopiesAreCached,
              CacheWasTaken, OnlyNewerDatagramsPass, CachedAtMostOnce, Id, Lag, Number
<1> QED BY <1>1, <1>2, <1>3, <1>4, <1>5 DEF Next

LEMMA InvHolds == Spec => []IInv
BY InitInv, NextInv, PTL DEF Spec

-----------------------------------------------------------------------------
(* Every variable of the filter and of the wire keeps its type.            *)
THEOREM FilterTypeCorrect == Spec => []TypeOK
<1>1. IInv => TypeOK
  BY DEF IInv
<1> QED BY <1>1, InvHolds, PTL

(* A datagram passes exactly if it is newer than all before it, across the *)
(* wrap-around of the numbers (NetMuxFramework.cpp:438-455).               *)
THEOREM OnlyNewerEverPass == Spec => []OnlyNewerDatagramsPass
<1>1. IInv => OnlyNewerDatagramsPass
  BY DEF IInv
<1> QED BY <1>1, InvHolds, PTL

(* No packet passes the cache twice (NetMuxFramework.cpp:457-477).         *)
THEOREM NothingCachedTwice == Spec => []CachedAtMostOnce
<1>1. IInv => CachedAtMostOnce
  BY DEF IInv
<1> QED BY <1>1, InvHolds, PTL

(* The cache drops a packet only if it has passed before, as long as one   *)
(* machine writes under an id (NetMuxFramework.cpp:457-477).               *)
THEOREM OnlyReplaysEverDropped ==
  ASSUME Origins = {"peer"}
  PROVE  Spec => []OnlyReplaysDropped
<1>1. Init => OnlyReplaysDropped
  BY DEF Init, OnlyReplaysDropped
<1>2. IInv /\ OnlyReplaysDropped /\ [Next]_vars => OnlyReplaysDropped'
  <2> SUFFICES ASSUME IInv, OnlyReplaysDropped, [Next]_vars PROVE OnlyReplaysDropped'
    OBVIOUS
  <2>1. ASSUME NEW k \in net, ReceiveCached(k) PROVE OnlyReplaysDropped'
    <3>1. PICK purged \in {{}, Expired} :
            verdict' = [kind |-> "cached",
                        passed |-> ~ IsReplay(cache \ purged, Number(k)),
                        due |-> Id(k) \notin taken]
      BY <2>1 DEF ReceiveCached
    <3>2. ASSUME IsReplay(cache \ purged, Number(k)) PROVE Id(k) \in taken
      <4>1. PICK e \in cache : e.number = Number(k)
        BY <3>2 DEF IsReplay
      <4>2. PICK id \in taken : e.number = id[2] % Modulus
        BY DEF IInv, CacheWasTaken
      <4>3. id \in Origins \X Nat
        BY DEF IInv, TypeOK
      <4>4. PICK n \in Nat : id = <<"peer", n>>
        BY <4>3
      <4>5. n \in start["peer"] .. counter["peer"] - 1
        BY <4>2, <4>4, Ranges DEF IInv, TakenWasSent
      <4>6. k.route.origin = "peer" /\ k.n \in start["peer"] .. counter["peer"] - 1 /\ k.n \in Nat
        BY <2>1, DeliverKeeps DEF ReceiveCached
      <4>7. n % Modulus = k.n % Modulus
        BY <4>1, <4>2, <4>4 DEF Number
      <4>8. n - k.n < MaxSent /\ k.n - n < MaxSent
        BY <4>5, <4>6, Ranges
      <4>9. n = k.n
        BY <4>6, <4>7, <4>8, NumbersDiffer
      <4> QED BY <4>2, <4>4, <4>6, <4>9 DEF Id
    <3> QED BY <3>1, <3>2 DEF OnlyReplaysDropped
  <2>2. ASSUME NEW k \in net, ReceiveDatagram(k) PROVE OnlyReplaysDropped'
    BY <2>2 DEF ReceiveDatagram, OnlyReplaysDropped
  <2>3. CASE UNCHANGED verdict
    BY <2>3 DEF OnlyReplaysDropped
  <2> QED BY <2>1, <2>2, <2>3 DEF Next, Send, Tick, vars
<1> QED BY <1>1, <1>2, InvHolds, PTL DEF Spec
=============================================================================
