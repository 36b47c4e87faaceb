--------------------------- MODULE UserInput_proofs ---------------------------
(***************************************************************************)
(* What users do with their mice and keyboards.                            *)
(*                                                                         *)
(* InputCapture: for every keyboard, threshold and number of raw messages  *)
(* that wait, what is held down is down on the machine the capture leads   *)
(* to, and a key sticks on one side at most.                               *)
(*                                                                         *)
(* ClickRace: for every set of peers, every Timeout and every set of       *)
(* presses that lie within one Timeout of each other, the earliest press   *)
(* wins, whatever the order in which the presses arrive, and the race      *)
(* implements EarliestClaim.                                               *)
(***************************************************************************)
EXTENDS InputCapture, ClickRace, FiniteSetTheorems, SequenceTheorems, TLAPS

(* What is down at the end of a queue of strokes if "set" is down at its   *)
(* start: for every input its last stroke decides, and if there is none it *)
(* stays as it is.                                                         *)
DownAfter(queue, set) ==
  {input \in Inputs :
     \/ \E n \in DOMAIN queue :
          /\ queue[n].input = input /\ queue[n].down
          /\ \A m \in DOMAIN queue : m > n => queue[m].input # input
     \/ /\ input \in set
        /\ \A n \in DOMAIN queue : queue[n].input # input}

(* What will be down at the peer's when everything under way has arrived,  *)
(* if its driver injects everything.                                       *)
Arriving == DownAfter(posted, DownAfter(pending, DownAfter(wire, there)))

(* No stroke of this input has been lost, added or swallowed.  A change of *)
(* capture harms the strokes of no key, though it parts them.              *)
Unharmed(input) == input \notin torn \/ (input \in Keys /\ faults = 0)

(* WM_INPUT messages in a queue that will add to m_accumulatedX.           *)
ForthsAt(queue) == {n \in DOMAIN queue : queue[n].input = "forth"}
Forths(queue) == Cardinality(ForthsAt(queue))

(* m_accumulatedX and the messages that will still add to it stem from     *)
(* moves the user has made.                                                *)
TravelBound == Forths(posted) <= acts /\ travelled + Forths(posted) <= acts

(* Whatever parts the peer from this machine harms every input, and a      *)
(* server never hears itself.                                              *)
FaultsSeen == ~ present => torn = Inputs /\ faults > 0
ServerSilent == role = "server" => echo = {}

(* A driver that does not inject an input leaves it up.                    *)
NotInjected ==
  \A input \in Inputs : Unharmed(input) /\ ~ Injects(input) => input \notin there

(* What is held down will be down where the capture leads.                 *)
Followed ==
  \A input \in Inputs \ torn : Injects(input) =>
    (input \in Arriving <=> input \in held /\ (captured \/ input = Button))

KeptHere ==
  role = "server" =>
    \A input \in Inputs \ torn : input \in here <=> input \in held /\ ~ captured

(* A key that is not held has been released on one side at least.          *)
OneSided ==
  role = "server" /\ faults = 0 =>
    \A key \in Keys \ held : Injects(key) => ~ (key \in here /\ key \in Arriving)

(* Neither invariant of InputCapture is inductive: both speak of a moment  *)
(* when nothing is under way, so that what is on its way must be followed  *)
(* through the four queues.                                                *)
CaptureInv ==
  /\ TypeOK /\ TravelBound
  /\ FaultsSeen /\ ServerSilent
  /\ NotInjected /\ Followed
  /\ KeptHere /\ OneSided

-----------------------------------------------------------------------------
(* Queues of strokes.                                                      *)

LEMMA AtMember ==
  ASSUME NEW queue, NEW set, NEW input \in Inputs
  PROVE  input \in DownAfter(queue, set) <=>
           \/ \E n \in DOMAIN queue :
                /\ queue[n].input = input /\ queue[n].down
                /\ \A m \in DOMAIN queue : m > n => queue[m].input # input
           \/ /\ input \in set
              /\ \A n \in DOMAIN queue : queue[n].input # input
BY DEF DownAfter

LEMMA DownAfterSubset ==
  ASSUME NEW queue, NEW set
  PROVE  DownAfter(queue, set) \subseteq Inputs
BY DEF DownAfter

(* What a queue makes of an input depends on that input only.              *)
LEMMA DownAfterLocal ==
  ASSUME NEW queue, NEW set, NEW other, NEW input \in Inputs,
         input \in set <=> input \in other
  PROVE  input \in DownAfter(queue, set) <=> input \in DownAfter(queue, other)
BY DEF DownAfter

(* A queue that does not mention an input leaves it as it was.             *)
LEMMA Unmentioned ==
  ASSUME NEW queue, NEW set, NEW input \in Inputs,
         \A n \in DOMAIN queue : queue[n].input # input
  PROVE  input \in DownAfter(queue, set) <=> input \in set
BY DEF DownAfter

LEMMA DownAfterEmpty ==
  ASSUME NEW set, NEW input \in Inputs
  PROVE  input \in DownAfter(<<>>, set) <=> input \in set
<1>1. DOMAIN << >> = {}
  OBVIOUS
<1> QED BY <1>1, Unmentioned

(* The last stroke of a queue decides its input, and no other.             *)
LEMMA DownAfterAppend ==
  ASSUME NEW S, NEW queue \in Seq(S), NEW stroke \in S, NEW set, NEW input \in Inputs
  PROVE  /\ stroke.input = input =>
              (input \in DownAfter(Append(queue, stroke), set) <=> stroke.down)
         /\ stroke.input # input =>
              (input \in DownAfter(Append(queue, stroke), set) <=>
                 input \in DownAfter(queue, set))
<1> DEFINE longer == Append(queue, stroke)
           last == Len(queue) + 1
<1>1. /\ Len(queue) \in Nat
      /\ DOMAIN queue = 1 .. Len(queue)
  BY LenProperties
<1>2. /\ longer \in Seq(S)
      /\ Len(longer) = last
      /\ \A n \in 1 .. Len(queue) : longer[n] = queue[n]
      /\ longer[last] = stroke
  BY AppendProperties
<1>3. DOMAIN longer = 1 .. last
  BY <1>2, LenProperties
<1> HIDE DEF longer
<1>4. ASSUME stroke.input = input
      PROVE  input \in DownAfter(longer, set) <=> stroke.down
  <2>1. last \in DOMAIN longer /\ longer[last].input = input
    BY <1>1, <1>2, <1>3, <1>4
  <2>2. \A m \in DOMAIN longer : ~ (m > last)
    BY <1>1, <1>3
  <2>3. \A n \in DOMAIN longer : n # last => last > n
    BY <1>1, <1>3
  <2> HIDE DEF last
  <2> QED BY <1>2, <2>1, <2>2, <2>3, AtMember
<1>5. ASSUME stroke.input # input
      PROVE  input \in DownAfter(longer, set) <=> input \in DownAfter(queue, set)
  <2>1. \A n \in DOMAIN queue : n \in DOMAIN longer /\ longer[n] = queue[n]
    BY <1>1, <1>2, <1>3
  <2>2. \A n \in DOMAIN longer : longer[n].input = input => n \in DOMAIN queue
    BY <1>1, <1>2, <1>3, <1>5
  <2> QED BY <2>1, <2>2, AtMember
<1> QED BY <1>4, <1>5 DEF longer

(* To take the oldest stroke from a queue and let it act is to wait for    *)
(* the whole queue.                                                        *)
LEMMA DownAfterTail ==
  ASSUME NEW S, NEW queue \in Seq(S), queue # <<>>,
         NEW set, NEW other, NEW input \in Inputs,
         Head(queue).input = input => (input \in other <=> Head(queue).down),
         Head(queue).input # input => (input \in other <=> input \in set)
  PROVE  input \in DownAfter(Tail(queue), other) <=> input \in DownAfter(queue, set)
<1> DEFINE rest == Tail(queue)
<1>1. /\ Len(queue) \in Nat \ {0}
      /\ DOMAIN queue = 1 .. Len(queue)
      /\ Head(queue) = queue[1]
  BY LenProperties, EmptySeq
<1>2. /\ rest \in Seq(S)
      /\ Len(rest) = Len(queue) - 1
      /\ \A n \in 1 .. Len(rest) : rest[n] = queue[n + 1]
  BY HeadTailProperties
<1>3. DOMAIN rest = 1 .. (Len(queue) - 1)
  BY <1>2, LenProperties
<1> HIDE DEF rest
<1>4. \A n \in DOMAIN rest : n \in Nat /\ n + 1 \in DOMAIN queue /\ rest[n] = queue[n + 1]
  BY <1>1, <1>2, <1>3
<1>5. \A n \in DOMAIN queue : n = 1 \/ \E m \in DOMAIN rest : n = m + 1
  <2> TAKE n \in DOMAIN queue
  <2>1. n # 1 => n - 1 \in DOMAIN rest /\ n = (n - 1) + 1
    BY <1>1, <1>3
  <2> QED BY <2>1
<1>6. 1 \in DOMAIN queue /\ \A n \in DOMAIN queue : n \in Nat /\ ~ (1 > n)
  BY <1>1
<1>7. CASE \E n \in DOMAIN rest : rest[n].input = input
  <2>1. input \in DownAfter(rest, other) <=>
          \E n \in DOMAIN rest :
            /\ rest[n].input = input /\ rest[n].down
            /\ \A m \in DOMAIN rest : m > n => rest[m].input # input
    BY <1>7, AtMember
  <2>2. input \in DownAfter(queue, set) <=>
          \E n \in DOMAIN queue :
            /\ queue[n].input = input /\ queue[n].down
            /\ \A m \in DOMAIN queue : m > n => queue[m].input # input
    BY <1>7, <1>4, AtMember
  <2>3. ASSUME NEW n \in DOMAIN rest, rest[n].input = input, rest[n].down,
               \A m \in DOMAIN rest : m > n => rest[m].input # input
        PROVE  input \in DownAfter(queue, set)
    <3>1. n + 1 \in DOMAIN queue /\ queue[n + 1].input = input /\ queue[n + 1].down
      BY <2>3, <1>4
    <3>2. ASSUME NEW m \in DOMAIN queue, m > n + 1 PROVE queue[m].input # input
      <4>1. m # 1
        BY <3>2, <1>4, <1>6
      <4>2. PICK k \in DOMAIN rest : m = k + 1
        BY <4>1, <1>5
      <4>3. k > n
        BY <3>2, <4>2, <1>4
      <4> QED BY <4>2, <4>3, <2>3, <1>4
    <3> QED BY <2>2, <3>1, <3>2
  <2>4. ASSUME NEW n \in DOMAIN queue, queue[n].input = input, queue[n].down,
               \A m \in DOMAIN queue : m > n => queue[m].input # input
        PROVE  input \in DownAfter(rest, other)
    <3>1. n # 1
      <4>1. PICK k \in DOMAIN rest : rest[k].input = input
        BY <1>7
      <4>2. k + 1 \in DOMAIN queue /\ queue[k + 1].input = input /\ k + 1 > 1
        BY <4>1, <1>3, <1>4
      <4> QED BY <4>2, <2>4
    <3>2. PICK k \in DOMAIN rest : n = k + 1
      BY <3>1, <1>5
    <3>3. rest[k].input = input /\ rest[k].down
      BY <3>2, <2>4, <1>4
    <3>4. ASSUME NEW m \in DOMAIN rest, m > k PROVE rest[m].input # input
      <4>1. m + 1 \in DOMAIN queue /\ m + 1 > n /\ rest[m] = queue[m + 1]
        BY <3>2, <3>4, <1>4
      <4> QED BY <4>1, <2>4
    <3> QED BY <2>1, <3>3, <3>4
  <2> QED BY <2>1, <2>2, <2>3, <2>4 DEF rest
<1>8. CASE \A n \in DOMAIN rest : rest[n].input # input
  <2>1. input \in DownAfter(rest, other) <=> input \in other
    BY <1>8, Unmentioned
  <2>2. \A n \in DOMAIN queue : n # 1 => queue[n].input # input
    BY <1>8, <1>4, <1>5
  <2>3. CASE Head(queue).input = input
    <3>1. input \in DownAfter(queue, set) <=> Head(queue).down
      BY <1>1, <1>6, <2>2, <2>3, AtMember
    <3> QED BY <2>1, <2>3, <3>1 DEF rest
  <2>4. CASE Head(queue).input # input
    <3>1. \A n \in DOMAIN queue : queue[n].input # input
      BY <1>1, <2>2, <2>4
    <3>2. input \in DownAfter(queue, set) <=> input \in set
      BY <3>1, Unmentioned
    <3> QED BY <2>1, <2>4, <3>2 DEF rest
  <2> QED BY <2>3, <2>4
<1> QED BY <1>7, <1>8 DEF rest

(* A stroke put before the others changes nothing for another input.       *)
LEMMA DownAfterPrefix ==
  ASSUME NEW S, NEW queue \in Seq(S), NEW stroke \in S, NEW set, NEW input \in Inputs,
         stroke.input # input
  PROVE  input \in DownAfter(<<stroke>> \o queue, set) <=> input \in DownAfter(queue, set)
<1> DEFINE longer == <<stroke>> \o queue
<1>1. /\ longer \in Seq(S) /\ longer # <<>>
      /\ Head(longer) = stroke /\ Tail(longer) = queue
  <2>1. <<stroke>> \in Seq(S) /\ Len(<<stroke>>) = 1 /\ <<stroke>>[1] = stroke
    OBVIOUS
  <2>2. /\ longer \in Seq(S) /\ Len(longer) = 1 + Len(queue)
        /\ \A n \in 1 .. Len(longer) :
             longer[n] = IF n <= 1 THEN <<stroke>>[n] ELSE queue[n - 1]
    BY <2>1, ConcatProperties
  <2>3. Len(queue) \in Nat
    BY LenProperties
  <2> HIDE DEF longer
  <2>4. longer # <<>> /\ longer[1] = stroke
    BY <2>1, <2>2, <2>3, EmptySeq
  <2>5. /\ Tail(longer) \in Seq(S) /\ Len(Tail(longer)) = Len(queue)
        /\ \A n \in 1 .. Len(queue) : Tail(longer)[n] = longer[n + 1]
    BY <2>2, <2>3, <2>4, HeadTailProperties
  <2>6. \A n \in 1 .. Len(queue) : longer[n + 1] = queue[n]
    BY <2>2, <2>3
  <2>7. Tail(longer) = queue
    BY <2>5, <2>6, SeqEqual
  <2> QED BY <2>2, <2>4, <2>7, HeadTailProperties
<1> HIDE DEF longer
<1>2. input \in DownAfter(Tail(longer), set) <=> input \in DownAfter(longer, set)
  BY <1>1, DownAfterTail
<1> QED BY <1>1, <1>2 DEF longer

(* The moves forth that wait: one more when one is posted, one less when   *)
(* one is taken.                                                           *)
LEMMA ForthsType ==
  ASSUME NEW S, NEW queue \in Seq(S)
  PROVE  IsFiniteSet(ForthsAt(queue)) /\ Forths(queue) \in Nat
<1>1. Len(queue) \in Nat /\ DOMAIN queue = 1 .. Len(queue)
  BY LenProperties
<1>2. IsFiniteSet(1 .. Len(queue))
  BY <1>1, FS_Interval
<1>3. ForthsAt(queue) \subseteq 1 .. Len(queue)
  BY <1>1 DEF ForthsAt
<1>4. IsFiniteSet(ForthsAt(queue))
  BY <1>2, <1>3, FS_Subset
<1>5. Forths(queue) = Cardinality(ForthsAt(queue))
  BY DEF Forths
<1> QED BY <1>4, <1>5, FS_CardinalityType

LEMMA ForthsAppend ==
  ASSUME NEW S, NEW queue \in Seq(S), NEW message \in S
  PROVE  Forths(Append(queue, message)) =
           IF message.input = "forth" THEN Forths(queue) + 1 ELSE Forths(queue)
<1> DEFINE longer == Append(queue, message)
<1>1. Len(queue) \in Nat /\ DOMAIN queue = 1 .. Len(queue)
  BY LenProperties
<1>2. /\ longer \in Seq(S)
      /\ Len(longer) = Len(queue) + 1
      /\ \A n \in 1 .. Len(queue) : longer[n] = queue[n]
      /\ longer[Len(queue) + 1] = message
  BY AppendProperties
<1>3. DOMAIN longer = 1 .. (Len(queue) + 1)
  BY <1>2, LenProperties
<1> HIDE DEF longer
<1>4. ForthsAt(longer) =
        IF message.input = "forth" THEN ForthsAt(queue) \cup {Len(queue) + 1}
        ELSE ForthsAt(queue)
  <2>1. \A n \in DOMAIN longer : n \in DOMAIN queue \/ n = Len(queue) + 1
    BY <1>1, <1>3
  <2>2. Len(queue) + 1 \in DOMAIN longer /\ \A n \in DOMAIN queue : n \in DOMAIN longer
    BY <1>1, <1>3
  <2>3. \A n \in DOMAIN queue : longer[n] = queue[n]
    BY <1>1, <1>2
  <2> QED BY <1>2, <2>1, <2>2, <2>3 DEF ForthsAt
<1>5. Len(queue) + 1 \notin ForthsAt(queue)
  BY <1>1 DEF ForthsAt
<1>6. /\ Forths(longer) = Cardinality(ForthsAt(longer))
      /\ Forths(queue) = Cardinality(ForthsAt(queue))
  BY DEF Forths
<1>7. Cardinality(ForthsAt(queue) \cup {Len(queue) + 1}) = Cardinality(ForthsAt(queue)) + 1
  BY <1>5, ForthsType, FS_AddElement
<1> QED BY <1>4, <1>6, <1>7 DEF longer

LEMMA ForthsTail ==
  ASSUME NEW S, NEW queue \in Seq(S), queue # <<>>
  PROVE  Forths(queue) =
           IF Head(queue).input = "forth" THEN Forths(Tail(queue)) + 1
           ELSE Forths(Tail(queue))
<1> DEFINE rest == Tail(queue)
           shift == [n \in ForthsAt(rest) |-> n + 1]
<1>1. /\ Len(queue) \in Nat \ {0}
      /\ DOMAIN queue = 1 .. Len(queue)
      /\ Head(queue) = queue[1]
  BY LenProperties, EmptySeq
<1>2. /\ rest \in Seq(S)
      /\ Len(rest) = Len(queue) - 1
      /\ \A n \in 1 .. Len(rest) : rest[n] = queue[n + 1]
  BY HeadTailProperties
<1>3. DOMAIN rest = 1 .. (Len(queue) - 1)
  BY <1>2, LenProperties
<1> HIDE DEF rest
<1>4. \A n \in ForthsAt(rest) : n \in Nat \ {0} /\ n + 1 \in ForthsAt(queue)
  BY <1>1, <1>2, <1>3 DEF ForthsAt
<1>5. ASSUME NEW n \in ForthsAt(queue) \ {1}
      PROVE  n \in Nat /\ n - 1 \in ForthsAt(rest)
  <2>1. n \in 1 .. Len(queue) /\ n # 1 /\ queue[n].input = "forth"
    BY <1>1, <1>5 DEF ForthsAt
  <2>2. n - 1 \in 1 .. (Len(queue) - 1) /\ (n - 1) + 1 = n
    BY <1>1, <2>1
  <2>3. rest[n - 1] = queue[n]
    BY <1>2, <2>2
  <2> QED BY <1>3, <2>1, <2>2, <2>3 DEF ForthsAt
<1>6. shift \in Bijection(ForthsAt(rest), ForthsAt(queue) \ {1})
  <2>1. shift \in [ForthsAt(rest) -> ForthsAt(queue) \ {1}]
    BY <1>4
  <2>2. \A m, n \in ForthsAt(rest) : shift[m] = shift[n] => m = n
    BY <1>4
  <2>3. \A n \in ForthsAt(queue) \ {1} : \E m \in ForthsAt(rest) : shift[m] = n
    <3> TAKE n \in ForthsAt(queue) \ {1}
    <3>1. n - 1 \in ForthsAt(rest) /\ shift[n - 1] = n
      BY <1>5
    <3> QED BY <3>1
  <2> HIDE DEF shift
  <2> QED BY <2>1, <2>2, <2>3 DEF Bijection, Injection, Surjection, IsInjective
<1>7. Cardinality(ForthsAt(queue) \ {1}) = Cardinality(ForthsAt(rest))
  <2>1. ExistsBijection(ForthsAt(rest), ForthsAt(queue) \ {1})
    BY <1>6 DEF ExistsBijection
  <2>2. IsFiniteSet(ForthsAt(rest))
    BY <1>2, ForthsType
  <2> QED BY <2>1, <2>2, FS_Bijection
<1>8. /\ Forths(queue) = Cardinality(ForthsAt(queue))
      /\ Forths(rest) = Cardinality(ForthsAt(rest))
      /\ Forths(queue) \in Nat
  BY ForthsType DEF Forths
<1>9. Cardinality(ForthsAt(queue) \ {1}) =
        IF 1 \in ForthsAt(queue) THEN Cardinality(ForthsAt(queue)) - 1
        ELSE Cardinality(ForthsAt(queue))
  BY ForthsType, FS_RemoveElement
<1>10. 1 \in ForthsAt(queue) <=> Head(queue).input = "forth"
  BY <1>1 DEF ForthsAt
<1> QED BY <1>7, <1>8, <1>9, <1>10 DEF rest

-----------------------------------------------------------------------------
(* Types, and how far the mouse has travelled.                             *)

LEMMA BoundsOfTravel == Lowest \in Int /\ Lowest <= 0
BY InputAssumption DEF Lowest

LEMMA NoneWaits ==
  ASSUME NEW set
  PROVE  Forths(<<>>) = 0 /\ <<>> \in Seq(set) /\ Len(<<>>) = 0
<1>1. ForthsAt(<<>>) = {}
  BY DEF ForthsAt
<1> QED BY <1>1, FS_EmptySet DEF Forths

LEMMA CaptureTypeBegins == Init => TypeOK /\ TravelBound
<1> SUFFICES ASSUME Init PROVE TypeOK /\ TravelBound
  OBVIOUS
<1>1. posted \in Seq(RawMessage) /\ pending \in Seq(Event) /\ wire \in Seq(Event)
  BY NoneWaits DEF Init
<1>2. travelled \in Lowest .. MaxActs
  BY BoundsOfTravel, InputAssumption DEF Init
<1>3. Len(posted) <= MaxPosted
  BY NoneWaits, InputAssumption DEF Init
<1>4. acts \in 0 .. MaxActs /\ faults \in 0 .. MaxFaults
  BY InputAssumption DEF Init
<1>5. TypeOK
  BY <1>1, <1>2, <1>3, <1>4 DEF Init, TypeOK
<1>6. TravelBound
  BY NoneWaits DEF Init, TravelBound
<1> QED BY <1>5, <1>6

(* What a move and a button do through the mouse hook: a change of capture *)
(* parts the strokes of whatever is held.                                  *)
LEMMA MoveOutcome ==
  ASSUME NEW direction, Move(direction)
  PROVE  /\ UNCHANGED <<role, held, here, there, pending, wire, echo, main, peer, faults>>
         /\ cursor' \in {cursor, "edge", "inside"}
         /\ travelled' \in {travelled, 0}
         /\ Len(posted) < MaxPosted
         /\ posted' = Append(posted, [input |-> direction, down |-> FALSE])
         /\ \/ captured' = captured /\ torn' = torn
            \/ captured' \in BOOLEAN /\ torn' = torn \cup held
BY DEF Move, MouseHookProc, Post

LEMMA PressOutcome ==
  ASSUME NEW down \in BOOLEAN, Press(down)
  PROVE  /\ UNCHANGED <<role, there, cursor, pending, wire, echo, main, peer, faults>>
         /\ Acts
         /\ held' = After(down, Button, held) /\ Button \in held \cup held'
         /\ travelled' \in {travelled, 0}
         /\ Len(posted) < MaxPosted
         /\ posted' = Append(posted, [input |-> Button, down |-> down])
         /\ \/ /\ captured' = captured /\ torn' = torn
               /\ here' = IF captured THEN here ELSE After(down, Button, here)
            \/ /\ captured' \in BOOLEAN /\ torn' = torn \cup held \cup held'
               /\ here' \in {here, After(down, Button, here)}
<1>1. Button \in held \cup held'
  BY DEF Press, After
<1>2. held' = After(down, Button, held) /\ Acts
  BY DEF Press
<1>3. posted' = Append(posted, [input |-> Button, down |-> down]) /\ Len(posted) < MaxPosted
  BY DEF Press, Post
<1>4. UNCHANGED <<role, there, cursor, pending, wire, echo, main, peer, faults>>
  BY DEF Press
<1>5. /\ travelled' \in {travelled, 0}
      /\ \/ /\ captured' = captured /\ torn' = torn
            /\ here' = IF captured THEN here ELSE After(down, Button, here)
         \/ /\ captured' \in BOOLEAN /\ torn' = torn \cup held \cup held'
            /\ here' \in {here, After(down, Button, here)}
  BY DEF Press, MouseHookProc
<1> QED BY <1>1, <1>2, <1>3, <1>4, <1>5

(* The types of what no queue holds.                                       *)
Plain ==
  /\ role \in {"server", "client"}
  /\ held \subseteq Inputs /\ here \subseteq Inputs /\ there \subseteq Inputs
  /\ cursor \in {"inside", "edge"}
  /\ captured \in BOOLEAN /\ connected \in BOOLEAN /\ present \in BOOLEAN
  /\ echo \subseteq Event
  /\ main \in {"peek", "update"} /\ driver \in Drivers
  /\ acts \in 0 .. MaxActs /\ faults \in 0 .. MaxFaults
  /\ torn \subseteq Inputs

Queues ==
  /\ posted \in Seq(RawMessage) /\ Len(posted) <= MaxPosted
  /\ pending \in Seq(Event) /\ wire \in Seq(Event)

LEMMA TypeParts == TypeOK <=> Plain /\ Queues /\ travelled \in Lowest .. MaxActs
BY DEF TypeOK, Plain, Queues

LEMMA AfterType ==
  ASSUME NEW down \in BOOLEAN, NEW input \in Inputs, NEW set \in SUBSET Inputs
  PROVE  After(down, input, set) \subseteq Inputs
BY DEF After

LEMMA PlainStep == TypeOK /\ [Next]_vars => Plain'
<1> SUFFICES ASSUME TypeOK, [Next]_vars PROVE Plain'
  OBVIOUS
<1> USE InputAssumption
<1>t. Plain /\ Queues
  BY TypeParts
<1>a. ASSUME Acts PROVE acts' \in 0 .. MaxActs
  BY <1>a, <1>t DEF Plain, Acts
<1>f. ASSUME faults < MaxFaults, faults' = faults + 1 PROVE faults' \in 0 .. MaxFaults
  BY <1>f, <1>t DEF Plain
<1>b. Button \in Inputs /\ Keys \subseteq Inputs
  BY DEF Inputs
<1>1. ASSUME NEW key \in Keys, NEW down \in BOOLEAN, Key(key, down) PROVE Plain'
  <2>1. After(down, key, held) \subseteq Inputs /\ After(down, key, here) \subseteq Inputs
    BY <1>b, <1>t, AfterType DEF Plain
  <2>2. here' \in {here, After(down, key, here)} /\ held' = After(down, key, held)
    BY <1>1 DEF Key, KeyboardHookProc
  <2>3. acts' \in 0 .. MaxActs
    BY <1>1, <1>a DEF Key
  <2> QED BY <1>1, <1>t, <2>1, <2>2, <2>3 DEF Plain, Key, capture, peer
<1>2. ASSUME NEW direction, Move(direction), acts' \in 0 .. MaxActs PROVE Plain'
  BY <1>2, <1>t, MoveOutcome DEF Plain, peer
<1>3. ASSUME NEW down \in BOOLEAN, Press(down) PROVE Plain'
  <2>1. After(down, Button, held) \subseteq Inputs /\ After(down, Button, here) \subseteq Inputs
    BY <1>b, <1>t, AfterType DEF Plain
  <2>2. acts' \in 0 .. MaxActs
    BY <1>3, <1>a, PressOutcome
  <2> QED BY <1>3, <1>t, <2>1, <2>2, PressOutcome DEF Plain, peer
<1>4. CASE PeekMessage
  BY <1>4, <1>t, <1>b DEF Plain, PeekMessage, user, machines, capture, peer
<1>5. CASE Update
  BY <1>5, <1>t DEF Plain, Update, user, machines, peer
<1>6. CASE ProcessOutgoingPackets \/ CheckPeers
  BY <1>6, <1>t DEF Plain, ProcessOutgoingPackets, CheckPeers, user, machines, capture,
     packets, peer
<1>7. CASE Race
  <2>1. Head(pending) \in Event
    BY <1>7, <1>t, HeadTailProperties DEF Queues, Race
  <2>2. Head(pending).input \in Inputs
    BY <2>1 DEF Event
  <2> QED BY <1>7, <1>t, <1>f, <2>2 DEF Plain, Race, user, machines, capture, peer
<1>8. CASE Receive
  <2>1. Head(wire) \in Event
    BY <1>8, <1>t, HeadTailProperties DEF Queues, Receive
  <2>2. Head(wire).input \in Inputs /\ Head(wire).down \in BOOLEAN
    BY <2>1 DEF Event
  <2>3. After(Head(wire).down, Head(wire).input, there) \subseteq Inputs
    BY <1>t, <2>2, AfterType DEF Plain
  <2> QED BY <1>8, <1>t, <2>1, <2>3 DEF Plain, Receive, user, capture, peer
<1>9. CASE ReceiveEcho
  <2>1. PICK packet \in echo :
          /\ echo' = echo \ {packet}
          /\ here' \in {here, After(packet.down, packet.input, here)}
    BY <1>9 DEF ReceiveEcho
  <2>2. packet.input \in Inputs /\ packet.down \in BOOLEAN
    BY <1>t DEF Plain, Event
  <2>3. here' \subseteq Inputs
    BY <1>t, <2>1, <2>2, AfterType DEF Plain
  <2> QED BY <1>9, <1>t, <2>1, <2>3 DEF Plain, ReceiveEcho, user, capture, peer
<1>10. CASE PeerChanges
  BY <1>10, <1>t, <1>f DEF Plain, PeerChanges, user, machines, capture
<1>11. CASE UNCHANGED vars
  BY <1>11, <1>t DEF Plain, vars, user, machines, capture, packets, peer
<1>12. ASSUME MoveForth PROVE Plain'
  BY <1>12, <1>2, <1>a DEF MoveForth
<1>13. ASSUME MoveBack PROVE Plain'
  BY <1>13, <1>2, <1>t DEF MoveBack, Plain
<1> QED BY <1>1, <1>3, <1>4, <1>5, <1>6, <1>7, <1>8, <1>9, <1>10, <1>11, <1>12, <1>13 DEF Next

(* A message taken from a queue is of its type, and so is what is left.    *)
LEMMA Taken ==
  ASSUME NEW S, NEW queue \in Seq(S), queue # <<>>
  PROVE  /\ Head(queue) \in S /\ Tail(queue) \in Seq(S)
         /\ Len(queue) \in Nat /\ Len(Tail(queue)) = Len(queue) - 1
BY HeadTailProperties, LenProperties

LEMMA Added ==
  ASSUME NEW S, NEW queue \in Seq(S), NEW e \in S
  PROVE  /\ Append(queue, e) \in Seq(S)
         /\ Len(queue) \in Nat /\ Len(Append(queue, e)) = Len(queue) + 1
BY AppendProperties, LenProperties

LEMMA QueuesStep == TypeOK /\ [Next]_vars => Queues'
<1> SUFFICES ASSUME TypeOK, [Next]_vars PROVE Queues'
  OBVIOUS
<1> USE InputAssumption
<1>t. Plain /\ Queues
  BY TypeParts
<1>q. /\ posted \in Seq(RawMessage) /\ pending \in Seq(Event) /\ wire \in Seq(Event)
      /\ Len(posted) <= MaxPosted /\ Len(posted) \in Nat
  BY <1>t, LenProperties DEF Queues
<1>p. ASSUME NEW message \in RawMessage, Len(posted) < MaxPosted,
             posted' = Append(posted, message)
      PROVE  posted' \in Seq(RawMessage) /\ Len(posted') <= MaxPosted
  BY <1>p, <1>q, Added
<1>m. ASSUME posted # <<>>, posted' = Tail(posted)
      PROVE  posted' \in Seq(RawMessage) /\ Len(posted') <= MaxPosted
  BY <1>m, <1>q, Taken
<1>1. ASSUME NEW key \in Keys, NEW down \in BOOLEAN, Key(key, down) PROVE Queues'
  <2>1. [input |-> key, down |-> down] \in Event
    BY DEF Event, Inputs
  <2>2. pending' \in {pending, Append(pending, [input |-> key, down |-> down])}
    BY <1>1 DEF Key, KeyboardHookProc
  <2>3. pending' \in Seq(Event)
    BY <1>q, <2>1, <2>2, Added
  <2> QED BY <1>1, <1>q, <2>3 DEF Queues, Key
<1>2. ASSUME NEW direction \in Moves, Move(direction) PROVE Queues'
  <2>1. [input |-> direction, down |-> FALSE] \in RawMessage
    BY DEF RawMessage
  <2>2. posted' = Append(posted, [input |-> direction, down |-> FALSE])
        /\ Len(posted) < MaxPosted /\ UNCHANGED <<pending, wire>>
    BY <1>2, MoveOutcome
  <2> QED BY <1>p, <1>q, <2>1, <2>2 DEF Queues
<1>3. ASSUME NEW down \in BOOLEAN, Press(down) PROVE Queues'
  <2>1. [input |-> Button, down |-> down] \in RawMessage
    BY DEF RawMessage
  <2>2. posted' = Append(posted, [input |-> Button, down |-> down])
        /\ Len(posted) < MaxPosted /\ UNCHANGED <<pending, wire>>
    BY <1>3, PressOutcome
  <2> QED BY <1>p, <1>q, <2>1, <2>2 DEF Queues
<1>4. CASE PeekMessage
  BY <1>4, <1>q, <1>m DEF Queues, PeekMessage
<1>5. CASE Update
  <2>1. posted # <<>> /\ Head(posted).input \notin Moves => Head(posted) \in Event
    <3> SUFFICES ASSUME posted # <<>>, Head(posted).input \notin Moves
                 PROVE  Head(posted) \in Event
      OBVIOUS
    <3>1. Head(posted) \in RawMessage
      BY <1>q, Taken
    <3> QED BY <3>1 DEF RawMessage, Event, Inputs
  <2>2. pending' \in Seq(Event)
    <3>1. pending' = pending \/ /\ posted # <<>> /\ Head(posted).input \notin Moves
                                /\ pending' = Append(pending, Head(posted))
      BY <1>5 DEF Update
    <3> QED BY <1>q, <2>1, <3>1, Added
  <2> QED BY <1>5, <1>q, <1>m, <2>2 DEF Queues, Update
<1>6. CASE ProcessOutgoingPackets
  <2>1. Head(pending) \in Event /\ Tail(pending) \in Seq(Event)
    BY <1>6, <1>q, Taken DEF ProcessOutgoingPackets
  <2>2. Append(wire, Head(pending)) \in Seq(Event)
    BY <1>q, <2>1, Added
  <2> QED BY <1>6, <1>q, <2>1, <2>2 DEF Queues, ProcessOutgoingPackets
<1>7. CASE Race
  <2>1. Head(pending) \in Event /\ Tail(pending) \in Seq(Event)
    BY <1>7, <1>q, Taken DEF Race
  <2>2. <<Head(pending)>> \in Seq(Event)
    BY <2>1
  <2>3. <<Head(pending)>> \o pending \in Seq(Event)
    BY <1>q, <2>2, ConcatProperties
  <2> QED BY <1>7, <1>q, <2>1, <2>3 DEF Queues, Race
<1>8. CASE Receive
  <2>1. Tail(wire) \in Seq(Event)
    BY <1>8, <1>q, Taken DEF Receive
  <2> QED BY <1>8, <1>q, <2>1 DEF Queues, Receive
<1>9. CASE PeerChanges
  BY <1>9, <1>q, NoneWaits DEF Queues, PeerChanges
<1>10. CASE CheckPeers \/ ReceiveEcho \/ UNCHANGED vars
  BY <1>10, <1>q DEF Queues, CheckPeers, ReceiveEcho, vars, packets
<1>11. CASE MoveForth \/ MoveBack
  BY <1>2, <1>11 DEF MoveForth, MoveBack, Moves
<1> QED BY <1>1, <1>3, <1>4, <1>5, <1>6, <1>7, <1>8, <1>9, <1>10, <1>11 DEF Next

(* m_accumulatedX stays within its bounds: it falls below the threshold by *)
(* as many messages as wait, and rises with the moves forth.               *)
LEMMA TravelStep ==
  TypeOK /\ TravelBound /\ [Next]_vars => travelled' \in Lowest .. MaxActs /\ TravelBound'
<1> SUFFICES ASSUME TypeOK, TravelBound, [Next]_vars
             PROVE  travelled' \in Lowest .. MaxActs /\ TravelBound'
  OBVIOUS
<1> USE InputAssumption
<1>t. Plain /\ Queues /\ travelled \in Lowest .. MaxActs
  BY TypeParts
<1>q. posted \in Seq(RawMessage) /\ Forths(posted) \in Nat
  BY <1>t, ForthsType DEF Queues
<1>b. Lowest \in Int /\ Lowest <= 0 /\ MaxActs \in Nat
  BY BoundsOfTravel
<1>i. travelled \in Int /\ Lowest <= travelled /\ travelled <= MaxActs /\ acts \in Nat
  BY <1>t, <1>b DEF Plain
<1>v. Forths(posted) <= acts /\ travelled + Forths(posted) <= acts
  BY DEF TravelBound
<1>s. acts' \in 0 .. MaxActs /\ posted' \in Seq(RawMessage)
  BY PlainStep, QueuesStep DEF Plain, Queues
<1>n. Forths(posted') \in Nat
  BY <1>s, ForthsType
(* It is enough that the second half holds, with the lower bound.          *)
<1>g. ASSUME travelled' \in Int, Lowest <= travelled',
             Forths(posted') <= acts', travelled' + Forths(posted') <= acts'
      PROVE  travelled' \in Lowest .. MaxActs /\ TravelBound'
  <2>1. \A x \in Int, f \in Nat, a \in 0 .. MaxActs :
          Lowest <= x /\ x + f <= a => x \in Lowest .. MaxActs
    BY <1>b
  <2>2. travelled' \in Lowest .. MaxActs
    BY <1>g, <1>n, <1>s, <2>1
  <2> QED BY <1>g, <2>2 DEF TravelBound
<1>1. ASSUME UNCHANGED <<posted, travelled>>, acts' \in {acts, acts + 1}
      PROVE  travelled' \in Lowest .. MaxActs /\ TravelBound'
  BY <1>1, <1>g, <1>i, <1>q, <1>v
<1>2. ASSUME NEW message \in RawMessage, posted' = Append(posted, message),
             travelled' \in {travelled, 0}, acts' \in {acts, acts + 1},
             message.input = "forth" => acts' = acts + 1
      PROVE  travelled' \in Lowest .. MaxActs /\ TravelBound'
  <2>1. Forths(posted') = IF message.input = "forth" THEN Forths(posted) + 1 ELSE Forths(posted)
    BY <1>2, <1>q, ForthsAppend
  <2>2. /\ travelled' \in Int /\ Lowest <= travelled'
        /\ Forths(posted') <= acts' /\ travelled' + Forths(posted') <= acts'
    BY <1>2, <1>i, <1>b, <1>q, <1>v, <2>1
  <2> QED BY <1>g, <2>2
<1>3. ASSUME posted # <<>>, posted' = Tail(posted), acts' = acts,
             \/ travelled' = travelled
             \/ Head(posted).input = "forth" /\ travelled' = travelled + 1
             \/ travelled > Lowest /\ travelled' = travelled - 1
      PROVE  travelled' \in Lowest .. MaxActs /\ TravelBound'
  <2>1. Forths(posted) = IF Head(posted).input = "forth" THEN Forths(posted') + 1
                         ELSE Forths(posted')
    BY <1>3, <1>q, ForthsTail
  <2>2. /\ travelled' \in Int /\ Lowest <= travelled'
        /\ Forths(posted') <= acts' /\ travelled' + Forths(posted') <= acts'
    BY <1>3, <1>i, <1>b, <1>q, <1>n, <1>v, <2>1
  <2> QED BY <1>g, <2>2
<1>4. CASE MoveForth
  <2>1. acts' = acts + 1 /\ Move("forth")
    BY <1>4 DEF MoveForth, Acts
  <2>2. [input |-> "forth", down |-> FALSE] \in RawMessage
    BY DEF RawMessage, Moves
  <2> QED BY <1>2, <2>1, <2>2, MoveOutcome
<1>5. CASE MoveBack
  <2>1. acts' = acts /\ Move("back")
    BY <1>5 DEF MoveBack
  <2>2. [input |-> "back", down |-> FALSE] \in RawMessage
        /\ [input |-> "back", down |-> FALSE].input # "forth"
    BY DEF RawMessage, Moves
  <2> QED BY <1>2, <2>1, <2>2, MoveOutcome
<1>6. ASSUME NEW down \in BOOLEAN, Press(down)
      PROVE  travelled' \in Lowest .. MaxActs /\ TravelBound'
  <2>1. acts' = acts + 1
    BY <1>6, PressOutcome DEF Acts
  <2>2. [input |-> Button, down |-> down] \in RawMessage
    BY DEF RawMessage
  <2> QED BY <1>2, <1>6, <2>1, <2>2, PressOutcome
<1>7. CASE PeekMessage
  BY <1>1, <1>3, <1>7 DEF PeekMessage, user, capture
<1>8. CASE Update
  BY <1>1, <1>3, <1>8 DEF Update, Accumulate, user
<1>9. ASSUME NEW key \in Keys, NEW down \in BOOLEAN, Key(key, down)
      PROVE  travelled' \in Lowest .. MaxActs /\ TravelBound'
  BY <1>1, <1>9 DEF Key, Acts, capture
<1>10. CASE ProcessOutgoingPackets \/ CheckPeers \/ Race \/ Receive \/ ReceiveEcho
            \/ PeerChanges \/ UNCHANGED vars
  BY <1>1, <1>10 DEF ProcessOutgoingPackets, CheckPeers, Race, Receive, ReceiveEcho,
     PeerChanges, vars, user, capture, packets
<1> QED BY <1>4, <1>5, <1>6, <1>7, <1>8, <1>9, <1>10 DEF Next

LEMMA CaptureTypeStep ==
  TypeOK /\ TravelBound /\ [Next]_vars => (TypeOK /\ TravelBound)'
<1> SUFFICES ASSUME TypeOK, TravelBound, [Next]_vars PROVE TypeOK' /\ TravelBound'
  OBVIOUS
<1>1. Plain' /\ Queues' /\ travelled' \in Lowest' .. MaxActs /\ TravelBound'
  BY PlainStep, QueuesStep, TravelStep DEF Lowest
<1> QED BY <1>1 DEF TypeOK, Plain, Queues

-----------------------------------------------------------------------------
(* What each step does to the strokes under way.                           *)

LEMMA QueueTypes ==
  ASSUME TypeOK
  PROVE  posted \in Seq(RawMessage) /\ pending \in Seq(Event) /\ wire \in Seq(Event)
BY DEF TypeOK

LEMMA ArrivingUnchanged ==
  ASSUME UNCHANGED <<posted, pending, wire, there>>
  PROVE  Arriving' = Arriving
BY DEF Arriving

(* A button, or a move, that is posted.                                    *)
LEMMA PostArrives ==
  ASSUME TypeOK, NEW message \in RawMessage, posted' = Append(posted, message),
         UNCHANGED <<pending, wire, there>>, NEW input \in Inputs
  PROVE  /\ message.input = input => (input \in Arriving' <=> message.down)
         /\ message.input # input => (input \in Arriving' <=> input \in Arriving)
<1> DEFINE before == DownAfter(pending, DownAfter(wire, there))
<1>1. Arriving' = DownAfter(Append(posted, message), before)
  BY DEF Arriving
<1>2. Arriving = DownAfter(posted, before)
  BY DEF Arriving
<1> HIDE DEF before
<1> QED BY <1>1, <1>2, QueueTypes, DownAfterAppend

(* A stroke of the keyboard overtakes the buttons, and no other key.       *)
LEMMA KeyArrives ==
  ASSUME TypeOK, NEW key \in Keys, NEW down \in BOOLEAN, Key(key, down), NEW input \in Inputs
  PROVE  /\ captured /\ input = key => (input \in Arriving' <=> down)
         /\ ~ (captured /\ input = key) => (input \in Arriving' <=> input \in Arriving)
<1>1. CASE ~ captured
  <2>1. UNCHANGED <<posted, pending, wire, there>>
    BY <1>1 DEF Key, KeyboardHookProc
  <2> QED BY <1>1, <2>1, ArrivingUnchanged
<1>2. CASE captured
  <2> DEFINE stroke == [input |-> key, down |-> down]
             before == DownAfter(wire, there)
             old == DownAfter(pending, before)
             new == DownAfter(Append(pending, stroke), before)
  <2>1. pending' = Append(pending, stroke) /\ UNCHANGED <<posted, wire, there>>
    BY <1>2 DEF Key, KeyboardHookProc
  <2>2. Arriving' = DownAfter(posted, new) /\ Arriving = DownAfter(posted, old)
    BY <2>1 DEF Arriving
  <2>3. stroke \in Event /\ stroke.input = key /\ stroke.down = down
    BY DEF Event, Inputs
  <2> HIDE DEF stroke, before
  <2>4. /\ key = input => (input \in new <=> down)
        /\ key # input => (input \in new <=> input \in old)
    BY <2>3, QueueTypes, DownAfterAppend
  <2> HIDE DEF new, old
  <2>5. CASE input = key
    <3>1. \A n \in DOMAIN posted : posted[n].input # input
      <4> TAKE n \in DOMAIN posted
      <4>1. posted[n] \in RawMessage
        BY QueueTypes, ElementOfSeq, LenProperties
      <4> QED BY <2>5, <4>1, InputAssumption DEF RawMessage
    <3>2. input \in Arriving' <=> input \in new
      BY <2>2, <3>1, Unmentioned
    <3> QED BY <1>2, <2>4, <2>5, <3>2
  <2>6. CASE input # key
    <3>1. input \in new <=> input \in old
      BY <2>4, <2>6
    <3> QED BY <2>2, <2>6, <3>1, DownAfterLocal
  <2> QED BY <2>5, <2>6
<1> QED BY <1>1, <1>2

(* The PeekMessage of main loses the button it finds, and nothing else.    *)
LEMMA PeekArrives ==
  ASSUME TypeOK, PeekMessage, NEW input \in Inputs, input \notin torn' \/ input \in Keys
  PROVE  input \in Arriving' <=> input \in Arriving
<1>1. UNCHANGED <<pending, wire, there>>
  BY DEF PeekMessage, machines
<1>2. CASE posted = <<>>
  <2>1. posted' = posted
    BY <1>2 DEF PeekMessage
  <2> QED BY <1>1, <2>1, ArrivingUnchanged
<1>3. CASE posted # <<>>
  <2> DEFINE before == DownAfter(pending, DownAfter(wire, there))
  <2>1. posted' = Tail(posted)
    BY <1>3 DEF PeekMessage
  <2>2. Head(posted) \in RawMessage
    BY <1>3, QueueTypes, Taken
  <2>3. Head(posted).input # input
    <3>1. CASE Head(posted).input \in Moves
      BY <3>1, InputAssumption DEF Inputs
    <3>2. CASE Head(posted).input \notin Moves
      <4>1. Head(posted).input = Button /\ torn' = torn \cup {Button}
        BY <1>3, <2>2, <3>2 DEF RawMessage, PeekMessage
      <4> QED BY <4>1, InputAssumption
    <3> QED BY <3>1, <3>2
  <2>4. Arriving' = DownAfter(Tail(posted), before) /\ Arriving = DownAfter(posted, before)
    BY <1>1, <2>1 DEF Arriving
  <2> HIDE DEF before
  <2> QED BY <1>3, <2>3, <2>4, QueueTypes, DownAfterTail
<1> QED BY <1>2, <1>3

(* Update moves a button from one queue to the next.                       *)
LEMMA UpdateArrives ==
  ASSUME TypeOK, Update, NEW input \in Inputs
  PROVE  input \in Arriving' <=> input \in Arriving
<1>1. UNCHANGED <<wire, there>>
  BY DEF Update, machines
<1>2. CASE posted = <<>>
  <2>1. UNCHANGED <<posted, pending>>
    BY <1>2 DEF Update
  <2> QED BY <1>1, <2>1, ArrivingUnchanged
<1>3. CASE posted # <<>>
  <2> DEFINE message == Head(posted)
             before == DownAfter(wire, there)
             old == DownAfter(pending, before)
             new == DownAfter(pending', before)
  <2>1. posted' = Tail(posted)
    BY <1>3 DEF Update
  <2>2. message \in RawMessage
    BY <1>3, QueueTypes, Taken
  <2>3. /\ message.input = input => (input \in new <=> message.down)
        /\ message.input # input => (input \in new <=> input \in old)
    <3>1. CASE message.input \in Moves
      <4>1. message.input # input
        BY <3>1, InputAssumption DEF Inputs
      <4>2. pending' = pending
        BY <1>3, <3>1 DEF Update
      <4> QED BY <4>1, <4>2
    <3>2. CASE message.input \notin Moves
      <4>1. message \in Event
        BY <2>2, <3>2 DEF RawMessage, Event, Inputs
      <4>2. pending' = Append(pending, message)
        BY <1>3, <3>2 DEF Update
      <4> HIDE DEF message, before
      <4> QED BY <4>1, <4>2, QueueTypes, DownAfterAppend
    <3> QED BY <3>1, <3>2
  <2>4. Arriving' = DownAfter(Tail(posted), new) /\ Arriving = DownAfter(posted, old)
    BY <1>1, <2>1 DEF Arriving
  <2> HIDE DEF old, new
  <2> QED BY <1>3, <2>3, <2>4, QueueTypes, DownAfterTail DEF message
<1> QED BY <1>2, <1>3

(* What reaches the wire was next in m_pendingPackets.                     *)
LEMMA OutgoingArrives ==
  ASSUME TypeOK, ProcessOutgoingPackets, present, NEW input \in Inputs
  PROVE  input \in Arriving' <=> input \in Arriving
<1> DEFINE packet == Head(pending)
           old == DownAfter(wire, there)
           new == DownAfter(Append(wire, packet), there)
<1>1. /\ pending # <<>> /\ pending' = Tail(pending)
      /\ wire' = Append(wire, packet) /\ UNCHANGED <<posted, there>>
  BY DEF ProcessOutgoingPackets, machines
<1>2. packet \in Event
  BY <1>1, QueueTypes, Taken
<1>3. /\ Arriving' = DownAfter(posted, DownAfter(Tail(pending), new))
      /\ Arriving = DownAfter(posted, DownAfter(pending, old))
  BY <1>1 DEF Arriving
<1> HIDE DEF packet
<1>4. /\ packet.input = input => (input \in new <=> packet.down)
      /\ packet.input # input => (input \in new <=> input \in old)
  BY <1>2, QueueTypes, DownAfterAppend
<1> HIDE DEF old, new
<1>5. input \in DownAfter(Tail(pending), new) <=> input \in DownAfter(pending, old)
  BY <1>1, <1>4, QueueTypes, DownAfterTail DEF packet
<1> QED BY <1>3, <1>5, DownAfterLocal

(* A packet acts when it is received, if its input is injected at all.     *)
LEMMA ReceiveArrives ==
  ASSUME TypeOK, Receive, NEW input \in Inputs, Injects(input)
  PROVE  input \in Arriving' <=> input \in Arriving
<1> DEFINE packet == Head(wire)
           old == DownAfter(wire, there)
           new == DownAfter(Tail(wire), there')
<1>1. /\ wire # <<>> /\ wire' = Tail(wire) /\ UNCHANGED <<posted, pending>>
      /\ there' = IF Injects(packet.input) THEN After(packet.down, packet.input, there)
                  ELSE there
  BY DEF Receive
<1>2. packet \in Event
  BY <1>1, QueueTypes, Taken
<1>3. packet.down \in BOOLEAN
  BY <1>2 DEF Event
<1>4. /\ Arriving' = DownAfter(posted, DownAfter(pending, new))
      /\ Arriving = DownAfter(posted, DownAfter(pending, old))
  BY <1>1 DEF Arriving
<1>5. /\ packet.input = input => (input \in there' <=> packet.down)
      /\ packet.input # input => (input \in there' <=> input \in there)
  <2>1. CASE packet.input = input
    <3>1. there' = After(packet.down, input, there)
      BY <1>1, <2>1
    <3> HIDE DEF packet
    <3> QED BY <1>3, <2>1, <3>1 DEF After
  <2>2. CASE packet.input # input
    <3>1. there' \in {there, After(packet.down, packet.input, there)}
      BY <1>1
    <3> HIDE DEF packet
    <3> QED BY <1>3, <2>2, <3>1 DEF After
  <2> QED BY <2>1, <2>2
<1>6. input \in new <=> input \in old
  BY <1>1, <1>5, QueueTypes, DownAfterTail
<1> HIDE DEF old, new
<1>7. input \in DownAfter(pending, new) <=> input \in DownAfter(pending, old)
  BY <1>6, DownAfterLocal
<1> QED BY <1>4, <1>7, DownAfterLocal

(* The race on the queue touches the strokes of one input.                 *)
LEMMA RaceArrives ==
  ASSUME TypeOK, Race, NEW input \in Inputs, input \notin torn'
  PROVE  input \in Arriving' <=> input \in Arriving
<1> DEFINE packet == Head(pending)
           before == DownAfter(wire, there)
<1>1. /\ pending # <<>> /\ UNCHANGED <<posted, wire, there>>
      /\ pending' = Tail(pending) \/ pending' = <<packet>> \o pending
  BY DEF Race, machines
<1>2. packet \in Event /\ packet.input # input
  BY <1>1, QueueTypes, Taken DEF Race
<1>3. /\ Arriving' = DownAfter(posted, DownAfter(pending', before))
      /\ Arriving = DownAfter(posted, DownAfter(pending, before))
  BY <1>1 DEF Arriving
<1> HIDE DEF before
<1>4. input \in DownAfter(Tail(pending), before) <=> input \in DownAfter(pending, before)
  BY <1>1, <1>2, QueueTypes, DownAfterTail
<1> HIDE DEF packet
<1>5. input \in DownAfter(<<packet>> \o pending, before) <=> input \in DownAfter(pending, before)
  BY <1>2, QueueTypes, DownAfterPrefix
<1>6. input \in DownAfter(pending', before) <=> input \in DownAfter(pending, before)
  BY <1>1, <1>4, <1>5
<1> QED BY <1>3, <1>6, DownAfterLocal

-----------------------------------------------------------------------------
(* Where the strokes end.                                                  *)

(* What has been harmed stays harmed, and the driver changes with the peer *)
(* only, which harms every input.                                          *)
LEMMA HarmStays ==
  ASSUME TypeOK, [Next]_vars
  PROVE  /\ role' = role /\ torn \subseteq torn' /\ faults <= faults'
         /\ driver' = driver \/ (torn' = Inputs /\ faults' > 0)
<1> USE DEF capture, packets, peer, user, machines
<1>f. faults \in Nat
  BY InputAssumption DEF TypeOK
<1>1. CASE PeerChanges
  BY <1>f, <1>1 DEF PeerChanges, TypeOK
<1>2. CASE Race
  BY <1>f, <1>2 DEF Race
<1>3. CASE MoveForth \/ MoveBack
  <2>1. PICK direction : Move(direction)
    BY <1>3 DEF MoveForth, MoveBack
  <2>2. UNCHANGED <<role, peer, faults>> /\ (torn' = torn \/ torn' = torn \cup held)
    BY <2>1, MoveOutcome
  <2> QED BY <1>f, <2>2
<1>4. ASSUME NEW down \in BOOLEAN, Press(down)
      PROVE  role' = role /\ torn \subseteq torn' /\ faults <= faults' /\ driver' = driver
  <2>1. UNCHANGED <<role, peer, faults>> /\ (torn' = torn \/ torn' = torn \cup held \cup held')
    BY <1>4, PressOutcome
  <2> QED BY <1>f, <2>1
<1>5. ASSUME NEW key \in Keys, NEW down \in BOOLEAN, Key(key, down)
      PROVE  role' = role /\ torn \subseteq torn' /\ faults <= faults' /\ driver' = driver
  BY <1>f, <1>5 DEF Key
<1>6. CASE PeekMessage \/ Update \/ ProcessOutgoingPackets \/ CheckPeers \/ Receive
           \/ ReceiveEcho \/ UNCHANGED vars
  BY <1>f, <1>6 DEF PeekMessage, Update, ProcessOutgoingPackets, CheckPeers, Receive,
     ReceiveEcho, vars
<1> QED BY <1>1, <1>2, <1>3, <1>4, <1>5, <1>6 DEF Next

LEMMA StillInjected ==
  ASSUME TypeOK, [Next]_vars, NEW input \in Inputs, Unharmed(input)'
  PROVE  Unharmed(input) /\ driver' = driver /\ (Injects(input)' <=> Injects(input))
<1>1. faults \in Nat /\ faults' \in Int
  BY InputAssumption, PlainStep DEF TypeOK, Plain
<1>2. input \notin torn' \/ (input \in Keys /\ faults' = 0)
  BY DEF Unharmed
<1>3. torn \subseteq torn' /\ faults <= faults' /\ (driver' = driver \/ (torn' = Inputs /\ faults' > 0))
  BY HarmStays
<1>4. Unharmed(input)
  BY <1>1, <1>2, <1>3 DEF Unharmed
<1>5. driver' = driver
  BY <1>1, <1>2, <1>3
<1> QED BY <1>4, <1>5 DEF Injects, SendKeyboardKey, SendMouseButton, PerformWarpClickRestore

(* All other steps leave the strokes to end where they would have ended.   *)
LEMMA ArrivingKept ==
  ASSUME TypeOK, FaultsSeen, [Next]_vars,
         \A key \in Keys, down \in BOOLEAN : ~ Key(key, down),
         \A down \in BOOLEAN : ~ Press(down),
         NEW input \in Inputs, Unharmed(input)', Injects(input)
  PROVE  input \in Arriving' <=> input \in Arriving
<1> USE DEF capture, packets, peer, user, machines
<1>u. /\ input \notin torn' \/ (input \in Keys /\ faults' = 0)
      /\ input \notin torn \/ (input \in Keys /\ faults = 0)
  BY StillInjected DEF Unharmed
<1>f. faults \in Nat
  BY InputAssumption DEF TypeOK
<1>1. ASSUME NEW direction \in Moves, Move(direction)
      PROVE  input \in Arriving' <=> input \in Arriving
  <2> DEFINE message == [input |-> direction, down |-> FALSE]
  <2>1. message \in RawMessage /\ message.input # input
    BY InputAssumption DEF RawMessage, Inputs
  <2>2. posted' = Append(posted, message) /\ UNCHANGED <<pending, wire, there>>
    BY <1>1, MoveOutcome
  <2> HIDE DEF message
  <2> QED BY <2>1, <2>2, PostArrives
<1>2. CASE MoveForth \/ MoveBack
  BY <1>1, <1>2 DEF MoveForth, MoveBack, Moves
<1>3. CASE PeekMessage
  BY <1>3, <1>u, PeekArrives
<1>4. CASE Update
  BY <1>4, UpdateArrives
<1>5. CASE ProcessOutgoingPackets
  <2>1. present
    BY <1>u, <1>f DEF FaultsSeen
  <2> QED BY <1>5, <2>1, OutgoingArrives
<1>6. CASE Receive
  BY <1>6, ReceiveArrives
<1>7. CASE Race
  <2>1. faults' # 0
    BY <1>7, <1>f DEF Race
  <2> QED BY <1>7, <1>u, <2>1, RaceArrives
<1>8. CASE PeerChanges
  BY <1>8, <1>u, <1>f DEF PeerChanges
<1>9. CASE CheckPeers \/ ReceiveEcho \/ UNCHANGED vars
  BY <1>9, ArrivingUnchanged DEF CheckPeers, ReceiveEcho, vars
<1> QED BY <1>2, <1>3, <1>4, <1>5, <1>6, <1>7, <1>8, <1>9 DEF Next

LEMMA BasicsStep ==
  ASSUME TypeOK, [Next]_vars, FaultsSeen, ServerSilent
  PROVE  FaultsSeen' /\ ServerSilent'
<1> USE DEF capture, packets, peer, user, machines
<1>f. faults \in Nat /\ faults' \in Nat /\ torn' \subseteq Inputs
  BY InputAssumption, PlainStep DEF TypeOK, Plain
<1>h. role' = role /\ torn \subseteq torn' /\ faults <= faults'
  BY HarmStays
<1>1. present' = present \/ (torn' = Inputs /\ faults' > 0)
  <2>1. CASE PeerChanges
    BY <1>f, <2>1 DEF PeerChanges
  <2>2. CASE MoveForth \/ MoveBack
    BY <2>2, MoveOutcome DEF MoveForth, MoveBack
  <2>3. ASSUME NEW down \in BOOLEAN, Press(down) PROVE present' = present
    BY <2>3, PressOutcome
  <2>4. ASSUME NEW key \in Keys, NEW down \in BOOLEAN, Key(key, down) PROVE present' = present
    BY <2>4 DEF Key
  <2>5. CASE PeekMessage \/ Update \/ ProcessOutgoingPackets \/ CheckPeers \/ Race \/ Receive
             \/ ReceiveEcho \/ UNCHANGED vars
    BY <2>5 DEF PeekMessage, Update, ProcessOutgoingPackets, CheckPeers, Race, Receive,
       ReceiveEcho, vars
  <2> QED BY <2>1, <2>2, <2>3, <2>4, <2>5 DEF Next
<1>2. FaultsSeen'
  <2> SUFFICES ASSUME ~ present' PROVE torn' = Inputs /\ faults' > 0
    BY DEF FaultsSeen
  <2>1. CASE torn' = Inputs /\ faults' > 0
    BY <2>1
  <2>2. CASE present' = present
    <3>1. torn = Inputs /\ faults > 0
      BY <2>2 DEF FaultsSeen
    <3>2. torn' = Inputs
      BY <1>f, <1>h, <3>1
    <3>3. faults' > 0
      BY <1>f, <1>h, <3>1
    <3> QED BY <3>2, <3>3
  <2> QED BY <1>1, <2>1, <2>2
<1>3. role = "server" => echo' \subseteq echo
  <2>1. CASE MoveForth \/ MoveBack
    BY <2>1, MoveOutcome DEF MoveForth, MoveBack
  <2>2. ASSUME NEW down \in BOOLEAN, Press(down) PROVE echo' = echo
    BY <2>2, PressOutcome
  <2>3. ASSUME NEW key \in Keys, NEW down \in BOOLEAN, Key(key, down) PROVE echo' = echo
    BY <2>3 DEF Key
  <2>4. CASE PeekMessage \/ Update \/ ProcessOutgoingPackets \/ CheckPeers \/ Race
             \/ PeerChanges \/ UNCHANGED vars
    BY <2>4 DEF PeekMessage, Update, ProcessOutgoingPackets, CheckPeers, Race, PeerChanges,
       vars
  <2>5. CASE Receive \/ ReceiveEcho
    BY <2>5 DEF Receive, ReceiveEcho
  <2> QED BY <2>1, <2>2, <2>3, <2>4, <2>5 DEF Next
<1> QED BY <1>h, <1>2, <1>3 DEF ServerSilent

LEMMA NotInjectedStep ==
  ASSUME TypeOK, [Next]_vars, NotInjected
  PROVE  NotInjected'
<1> USE DEF capture, packets, peer, user, machines
<1> SUFFICES ASSUME NEW input \in Inputs, Unharmed(input)', ~ Injects(input)'
             PROVE  input \notin there'
  BY DEF NotInjected
<1>1. Unharmed(input) /\ ~ Injects(input)
  BY StillInjected
<1>2. input \notin there
  BY <1>1 DEF NotInjected
<1>3. CASE Receive
  <2>1. there' = there
          \/ /\ Injects(Head(wire).input)
             /\ there' = After(Head(wire).down, Head(wire).input, there)
    BY <1>3 DEF Receive
  <2> QED BY <1>1, <1>2, <2>1 DEF After
<1>4. CASE MoveForth \/ MoveBack
  BY <1>2, <1>4, MoveOutcome DEF MoveForth, MoveBack
<1>5. ASSUME NEW down \in BOOLEAN, Press(down) PROVE there' = there
  BY <1>5, PressOutcome
<1>6. ASSUME NEW key \in Keys, NEW down \in BOOLEAN, Key(key, down) PROVE there' = there
  BY <1>6 DEF Key
<1>7. CASE PeekMessage \/ Update \/ ProcessOutgoingPackets \/ CheckPeers \/ Race
           \/ ReceiveEcho \/ PeerChanges \/ UNCHANGED vars
  BY <1>2, <1>7 DEF PeekMessage, Update, ProcessOutgoingPackets, CheckPeers, Race,
     ReceiveEcho, PeerChanges, vars
<1> QED BY <1>2, <1>3, <1>4, <1>5, <1>6, <1>7 DEF Next

(* A stroke is sent where the capture leads at the moment, and a change of *)
(* capture parts the strokes of what is held.                              *)
LEMMA FollowedStep ==
  ASSUME TypeOK, [Next]_vars, FaultsSeen, Followed
  PROVE  Followed'
<1> DEFINE Target(input) == input \in held /\ (captured \/ input = Button)
<1> SUFFICES ASSUME NEW input \in Inputs, input \notin torn', Injects(input)'
             PROVE  input \in Arriving' <=> Target(input)'
  BY DEF Followed
<1>1. Unharmed(input)' /\ input \notin torn
  BY HarmStays DEF Unharmed
<1>2. Injects(input)
  BY <1>1, StillInjected
<1>3. input \in Arriving <=> Target(input)
  BY <1>1, <1>2 DEF Followed
<1>k. Button \notin Keys /\ captured \in BOOLEAN
  BY InputAssumption DEF TypeOK
<1>4. ASSUME NEW key \in Keys, NEW down \in BOOLEAN, Key(key, down)
      PROVE  input \in Arriving' <=> Target(input)'
  <2>1. captured' = captured /\ held' = After(down, key, held)
    BY <1>4 DEF Key, capture
  <2>2. CASE input = key
    <3>1. input \in held' <=> down
      BY <2>1, <2>2 DEF After
    <3>2. CASE captured
      <4>1. input \in Arriving' <=> down
        BY <1>4, <2>2, <3>2, KeyArrives
      <4> QED BY <2>1, <3>1, <3>2, <4>1
    <3>3. CASE ~ captured
      <4>1. input \in Arriving' <=> input \in Arriving
        BY <1>4, <3>3, KeyArrives
      <4> QED BY <1>3, <1>k, <2>1, <2>2, <3>3, <4>1
    <3> QED BY <3>2, <3>3
  <2>3. CASE input # key
    <3>1. input \in held' <=> input \in held
      BY <2>1, <2>3 DEF After
    <3>2. input \in Arriving' <=> input \in Arriving
      BY <1>4, <2>3, KeyArrives
    <3> QED BY <1>3, <2>1, <3>1, <3>2
  <2> QED BY <2>2, <2>3
<1>5. ASSUME NEW down \in BOOLEAN, Press(down)
      PROVE  input \in Arriving' <=> Target(input)'
  <2> DEFINE message == [input |-> Button, down |-> down]
  <2>1. /\ message \in RawMessage /\ message.input = Button /\ message.down = down
        /\ posted' = Append(posted, message) /\ UNCHANGED <<pending, wire, there>>
        /\ held' = After(down, Button, held)
        /\ captured' = captured \/ torn' = torn \cup held \cup held'
    BY <1>5, PressOutcome DEF RawMessage
  <2> HIDE DEF message
  <2>2. /\ Button = input => (input \in Arriving' <=> down)
        /\ Button # input => (input \in Arriving' <=> input \in Arriving)
    BY <2>1, PostArrives
  <2>3. CASE input = Button
    <3>1. input \in held' <=> down
      BY <2>1, <2>3 DEF After
    <3> QED BY <2>2, <2>3, <3>1
  <2>4. CASE input # Button
    <3>1. input \in held' <=> input \in held
      BY <2>1, <2>4 DEF After
    <3>2. captured' = captured \/ input \notin held
      BY <2>1
    <3>3. input \in Arriving' <=> input \in Arriving
      BY <2>2, <2>4
    <3> QED BY <1>3, <2>4, <3>1, <3>2, <3>3
  <2> QED BY <2>3, <2>4
<1>6. ASSUME \A key \in Keys, down \in BOOLEAN : ~ Key(key, down),
             \A down \in BOOLEAN : ~ Press(down)
      PROVE  input \in Arriving' <=> Target(input)'
  <2>1. input \in Arriving' <=> input \in Arriving
    BY <1>1, <1>2, <1>6, ArrivingKept
  <2>2. held' = held /\ (captured' = captured \/ torn' = torn \cup held)
    <3> USE DEF capture, user
    <3>1. CASE MoveForth \/ MoveBack
      <4>1. PICK direction : Move(direction)
        BY <3>1 DEF MoveForth, MoveBack
      <4> QED BY <4>1, MoveOutcome
    <3>2. CASE PeekMessage \/ Update \/ ProcessOutgoingPackets \/ CheckPeers \/ Race \/ Receive
               \/ ReceiveEcho \/ PeerChanges \/ UNCHANGED vars
      BY <3>2 DEF PeekMessage, Update, ProcessOutgoingPackets, CheckPeers, Race, Receive,
         ReceiveEcho, PeerChanges, vars
    <3> QED BY <1>6, <3>1, <3>2 DEF Next
  <2>3. captured' = captured \/ input \notin held
    BY <2>2
  <2> QED BY <1>3, <2>1, <2>2, <2>3
<1> QED BY <1>4, <1>5, <1>6

(* On a server only the hooks decide what acts on this machine.            *)
LEMMA KeptHereStep ==
  ASSUME TypeOK, [Next]_vars, ServerSilent, KeptHere
  PROVE  KeptHere'
<1> SUFFICES ASSUME role' = "server", NEW input \in Inputs, input \notin torn'
             PROVE  input \in here' <=> input \in held' /\ ~ captured'
  BY DEF KeptHere
<1>1. role = "server" /\ input \notin torn /\ echo = {}
  BY HarmStays DEF ServerSilent
<1>2. input \in here <=> input \in held /\ ~ captured
  BY <1>1 DEF KeptHere
<1>3. ASSUME NEW key \in Keys, NEW down \in BOOLEAN, Key(key, down)
      PROVE  input \in here' <=> input \in held' /\ ~ captured'
  <2>1. /\ captured' = captured /\ held' = After(down, key, held)
        /\ here' = IF captured THEN here ELSE After(down, key, here)
    BY <1>3 DEF Key, KeyboardHookProc, capture
  <2> QED BY <1>2, <2>1 DEF After
<1>4. ASSUME NEW down \in BOOLEAN, Press(down)
      PROVE  input \in here' <=> input \in held' /\ ~ captured'
  <2>1. /\ held' = After(down, Button, held) /\ Button \in held \cup held'
        /\ \/ /\ captured' = captured /\ torn' = torn
              /\ here' = IF captured THEN here ELSE After(down, Button, here)
           \/ /\ torn' = torn \cup held \cup held'
              /\ here' \in {here, After(down, Button, here)}
    BY <1>4, PressOutcome
  <2>2. CASE captured' = captured /\ torn' = torn
             /\ here' = IF captured THEN here ELSE After(down, Button, here)
    BY <1>2, <2>1, <2>2 DEF After
  <2>3. CASE torn' = torn \cup held \cup held' /\ here' \in {here, After(down, Button, here)}
    <3>1. input \notin held /\ input \notin held' /\ input # Button
      BY <2>1, <2>3
    <3>2. input \notin here'
      BY <1>2, <2>3, <3>1 DEF After
    <3> QED BY <3>1, <3>2
  <2> QED BY <2>1, <2>2, <2>3
<1>5. CASE MoveForth \/ MoveBack
  <2>1. PICK direction : Move(direction)
    BY <1>5 DEF MoveForth, MoveBack
  <2>2. UNCHANGED <<held, here>> /\ (captured' = captured \/ torn' = torn \cup held)
    BY <2>1, MoveOutcome
  <2> QED BY <1>2, <2>2
<1>6. CASE PeekMessage \/ Update \/ ProcessOutgoingPackets \/ CheckPeers \/ Race \/ Receive
           \/ ReceiveEcho \/ PeerChanges \/ UNCHANGED vars
  <2>1. UNCHANGED <<held, here, captured>>
    BY <1>1, <1>6 DEF PeekMessage, Update, ProcessOutgoingPackets, CheckPeers, Race, Receive,
       ReceiveEcho, PeerChanges, vars, capture, user, machines
  <2> QED BY <1>2, <2>1
<1> QED BY <1>3, <1>4, <1>5, <1>6 DEF Next

(* The release of a key reaches one of the two sides, and there is none    *)
(* but the last release of a key that is not held.                         *)
LEMMA OneSidedStep ==
  ASSUME TypeOK, [Next]_vars, FaultsSeen, ServerSilent, OneSided
  PROVE  OneSided'
<1> SUFFICES ASSUME role' = "server", faults' = 0,
                    NEW key \in Keys, key \notin held', Injects(key)',
                    key \in here', key \in Arriving'
             PROVE  FALSE
  BY DEF OneSided
<1>i. key \in Inputs /\ key # Button
  BY InputAssumption DEF Inputs
<1>1. Unharmed(key)'
  BY DEF Unharmed
<1>2. Injects(key)
  BY <1>1, <1>i, StillInjected
<1>3. role = "server" /\ faults = 0 /\ echo = {}
  <2>1. faults \in Nat /\ faults <= faults' /\ role = "server"
    BY HarmStays, InputAssumption DEF TypeOK
  <2> QED BY <2>1 DEF ServerSilent
<1>4. key \notin held => ~ (key \in here /\ key \in Arriving)
  BY <1>2, <1>3 DEF OneSided
<1>5. ASSUME NEW k \in Keys, NEW down \in BOOLEAN, Key(k, down) PROVE FALSE
  <2>1. /\ held' = After(down, k, held)
        /\ here' = IF captured THEN here ELSE After(down, k, here)
    BY <1>5 DEF Key, KeyboardHookProc
  <2>2. CASE k = key
    <3>1. down = FALSE
      BY <2>1, <2>2 DEF After
    <3>2. captured
      BY <2>1, <2>2, <3>1 DEF After
    <3> QED BY <1>5, <1>i, <2>2, <3>1, <3>2, KeyArrives
  <2>3. CASE k # key
    <3>1. key \in Arriving
      BY <1>5, <1>i, <2>3, KeyArrives
    <3>2. key \notin held /\ key \in here
      BY <2>1, <2>3 DEF After
    <3> QED BY <1>4, <3>1, <3>2
  <2> QED BY <2>2, <2>3
<1>6. ASSUME NEW down \in BOOLEAN, Press(down) PROVE FALSE
  <2> DEFINE message == [input |-> Button, down |-> down]
  <2>1. /\ message \in RawMessage /\ message.input # key
        /\ posted' = Append(posted, message) /\ UNCHANGED <<pending, wire, there>>
        /\ held' = After(down, Button, held)
        /\ here' \in {here, After(down, Button, here)}
    BY <1>6, <1>i, PressOutcome DEF RawMessage
  <2> HIDE DEF message
  <2>2. key \in Arriving
    BY <1>i, <2>1, PostArrives
  <2>3. key \notin held /\ key \in here
    BY <1>i, <2>1 DEF After
  <2> QED BY <1>4, <2>2, <2>3
<1>7. ASSUME \A k \in Keys, down \in BOOLEAN : ~ Key(k, down),
             \A down \in BOOLEAN : ~ Press(down)
      PROVE  FALSE
  <2>1. key \in Arriving
    BY <1>1, <1>2, <1>7, <1>i, ArrivingKept
  <2>2. UNCHANGED <<held, here>>
    <3>1. CASE MoveForth \/ MoveBack
      <4>1. PICK direction : Move(direction)
        BY <3>1 DEF MoveForth, MoveBack
      <4> QED BY <4>1, MoveOutcome
    <3>2. CASE PeekMessage \/ Update \/ ProcessOutgoingPackets \/ CheckPeers \/ Race \/ Receive
               \/ ReceiveEcho \/ PeerChanges \/ UNCHANGED vars
      BY <1>3, <3>2 DEF PeekMessage, Update, ProcessOutgoingPackets, CheckPeers, Race, Receive,
         ReceiveEcho, PeerChanges, vars, user, machines
    <3> QED BY <1>7, <3>1, <3>2 DEF Next
  <2> QED BY <1>4, <2>1, <2>2
<1> QED BY <1>5, <1>6, <1>7

-----------------------------------------------------------------------------
LEMMA NothingInQueues ==
  ASSUME posted = <<>>, pending = <<>>, wire = <<>>, NEW input \in Inputs
  PROVE  input \in Arriving <=> input \in there
<1> DEFINE first == DownAfter(<<>>, there)
           second == DownAfter(<<>>, first)
<1>1. Arriving = DownAfter(<<>>, second)
  BY DEF Arriving
<1> HIDE DEF first, second
<1>2. input \in DownAfter(<<>>, second) <=> input \in second
  BY DownAfterEmpty
<1>3. input \in second <=> input \in first
  BY DownAfterEmpty DEF second
<1>4. input \in first <=> input \in there
  BY DownAfterEmpty DEF first
<1> QED BY <1>1, <1>2, <1>3, <1>4

LEMMA CaptureBegins == Init => CaptureInv
<1> SUFFICES ASSUME Init PROVE CaptureInv
  OBVIOUS
<1>1. TypeOK /\ TravelBound
  BY CaptureTypeBegins
<1>2. /\ held = {} /\ here = {} /\ there = {} /\ captured = FALSE /\ present = TRUE
      /\ posted = <<>> /\ pending = <<>> /\ wire = <<>> /\ echo = {}
  BY DEF Init
<1>3. \A input \in Inputs : input \notin Arriving
  BY <1>2, NothingInQueues
<1>4. FaultsSeen /\ ServerSilent /\ NotInjected
  BY <1>2 DEF FaultsSeen, ServerSilent, NotInjected
<1>5. Followed
  BY <1>2, <1>3 DEF Followed
<1>6. KeptHere /\ OneSided
  BY <1>2 DEF KeptHere, OneSided
<1> QED BY <1>1, <1>4, <1>5, <1>6 DEF CaptureInv

LEMMA CaptureStep == CaptureInv /\ [Next]_vars => CaptureInv'
<1> SUFFICES ASSUME CaptureInv, [Next]_vars PROVE CaptureInv'
  OBVIOUS
<1>1. /\ TypeOK /\ TravelBound /\ FaultsSeen /\ ServerSilent
      /\ NotInjected /\ Followed /\ KeptHere /\ OneSided
  BY DEF CaptureInv
<1>2. TypeOK' /\ TravelBound'
  BY <1>1, CaptureTypeStep
<1>3. FaultsSeen' /\ ServerSilent'
  BY <1>1, BasicsStep
<1>4. NotInjected'
  BY <1>1, NotInjectedStep
<1>5. Followed'
  BY <1>1, FollowedStep
<1>6. KeptHere'
  BY <1>1, KeptHereStep
<1>7. OneSided'
  BY <1>1, OneSidedStep
<1> QED BY <1>2, <1>3, <1>4, <1>5, <1>6, <1>7 DEF CaptureInv

(* The queues keep their types, and m_accumulatedX its bounds, between the *)
(* two hooks, the two readers of the message queue and the framework's     *)
(* thread.                                                                 *)
THEOREM CaptureTypeCorrect == Spec => []TypeOK
<1>1. CaptureInv => TypeOK
  BY DEF CaptureInv
<1> QED BY <1>1, CaptureBegins, CaptureStep, PTL DEF Spec

(* Once nothing is under way, what is held down is down on the machine the *)
(* capture leads to and up on the other, but for inputs that met a change  *)
(* of capture, a fault or the PeekMessage of main.                         *)
THEOREM HeldIsDownWhereCaptured == Spec => []DownWhereCaptured
<1>1. CaptureInv => DownWhereCaptured
  <2> SUFFICES ASSUME CaptureInv, Quiet, NEW input \in Inputs \ torn
               PROVE  /\ input \in there <=>
                           Injects(input) /\ input \in held /\ (captured \/ input = Button)
                      /\ role = "server" => (input \in here <=> input \in held /\ ~ captured)
    BY DEF DownWhereCaptured
  <2>1. input \in Arriving <=> input \in there
    BY NothingInQueues DEF Quiet
  <2>2. Injects(input) =>
          (input \in there <=> input \in held /\ (captured \/ input = Button))
    BY <2>1 DEF CaptureInv, Followed
  <2>3. ~ Injects(input) => input \notin there
    BY DEF CaptureInv, NotInjected, Unharmed
  <2>4. role = "server" => (input \in here <=> input \in held /\ ~ captured)
    BY DEF CaptureInv, KeptHere
  <2> QED BY <2>2, <2>3, <2>4
<1> QED BY <1>1, CaptureBegins, CaptureStep, PTL DEF Spec

(* However often the user crosses the edge with keys held down: without a  *)
(* fault, a key that he has let go of is down on one of the two machines   *)
(* at most.                                                                *)
THEOREM KeySticksOnOneSide == Spec => []StuckOnOneSide
<1>1. CaptureInv => StuckOnOneSide
  <2> SUFFICES ASSUME CaptureInv, Quiet, faults = 0, role = "server", NEW key \in Keys \ held
               PROVE  ~ (key \in here /\ key \in there)
    BY DEF StuckOnOneSide
  <2>1. key \in Inputs
    BY DEF Inputs
  <2>2. key \in Arriving <=> key \in there
    BY <2>1, NothingInQueues DEF Quiet
  <2>3. CASE Injects(key)
    BY <2>2, <2>3 DEF CaptureInv, OneSided
  <2>4. CASE ~ Injects(key)
    BY <2>1, <2>4 DEF CaptureInv, NotInjected, Unharmed
  <2> QED BY <2>3, <2>4
<1> QED BY <1>1, CaptureBegins, CaptureStep, PTL DEF Spec

-----------------------------------------------------------------------------
(* The race of clicks.                                                     *)

(* EarliestWins alone is not inductive.  Before the first decision nobody  *)
(* owns the focus, so the first press claims it; afterwards the owner is a *)
(* decided peer, so an undecided p is never the owner; and because the     *)
(* presses lie within one Timeout, no later press displaces the owner by   *)
(* the timeout.                                                            *)
RaceInv ==
  /\ RaceTypeOK
  /\ WithinOneTimeout
  /\ decided = {} => focus.owner = Nobody
  /\ EarliestWins
  /\ BlockedHasLost

LEMMA RaceBegins == RaceInit => RaceInv
<1> USE StampsAssumption DEF RaceInit, RaceTypeOK
<1> SUFFICES ASSUME RaceInit PROVE RaceInv
  OBVIOUS
<1>1. RaceTypeOK
  OBVIOUS
<1>2. focus.owner = Nobody
  OBVIOUS
<1>3. EarliestWins /\ BlockedHasLost
  BY DEF EarliestWins, BlockedHasLost
<1> QED BY <1>1, <1>2, <1>3 DEF RaceInv

(* What one decision does to the focus: an undecided press takes it        *)
(* exactly if nobody owns it or the press is earlier than the owner's.     *)
LEMMA DecisionOutcome ==
  ASSUME RaceInv, NEW p \in Peers, DecidePress(p)
  PROVE  /\ decided = {} \/ stamp[p] < focus.since
              => focus' = [owner |-> p, since |-> stamp[p]]
         /\ ~ (decided = {} \/ stamp[p] < focus.since) => focus' = focus
<1> USE TimeoutAssumption, StampsAssumption, PeersAssumption
<1>1. stamp[p] \in Int /\ focus.since \in Int
  BY DEF RaceInv, RaceTypeOK
<1>2. focus.owner # p
  BY DEF RaceInv, RaceTypeOK, EarliestWins, DecidePress
<1>3. decided # {} => focus.owner # Nobody /\ stamp[p] - focus.since <= Timeout
  BY DEF RaceInv, RaceTypeOK, EarliestWins, WithinOneTimeout
<1>4. CASE decided = {}
  BY <1>1, <1>4 DEF RaceInv, DecidePress, Claim, MayClaim
<1>5. CASE decided # {}
  <2>1. ~ TimedOut(focus, stamp[p])
    BY <1>1, <1>3, <1>5 DEF TimedOut
  <2> QED
    BY <1>1, <1>2, <1>3, <1>5, <2>1 DEF DecidePress, Claim, MayClaim, MayPreempt
<1> QED BY <1>4, <1>5

LEMMA RaceStep == RaceInv /\ [RaceNext]_raceVars => RaceInv'
<1> SUFFICES ASSUME RaceInv, [RaceNext]_raceVars PROVE RaceInv'
  OBVIOUS
<1> USE TimeoutAssumption, StampsAssumption, PeersAssumption
<1>1. CASE UNCHANGED raceVars
  BY <1>1 DEF raceVars, RaceInv, RaceTypeOK, WithinOneTimeout, EarliestWins, BlockedHasLost
<1>2. ASSUME NEW p \in Peers, DecidePress(p) PROVE RaceInv'
  <2>1. /\ stamp \in [Peers -> Int]
        /\ focus.since \in Int
        /\ stamp' = stamp
        /\ p \notin decided
        /\ decided' = decided \cup {p}
    BY <1>2 DEF RaceInv, RaceTypeOK, DecidePress
  <2>2. /\ decided = {} \/ stamp[p] < focus.since
             => focus' = [owner |-> p, since |-> stamp[p]]
        /\ ~ (decided = {} \/ stamp[p] < focus.since) => focus' = focus
    BY <1>2, DecisionOutcome
  <2>3. blocked' \subseteq blocked \cup {p}
    BY <1>2 DEF DecidePress
  <2>4. p \in blocked' => decided # {} /\ ~ (stamp[p] < focus.since)
    <3>1. p \notin blocked
      BY <2>1 DEF RaceInv, BlockedHasLost
    <3>2. SUFFICES ASSUME RaisesBlock(focus, {}, p, stamp[p])
                   PROVE  decided # {} /\ ~ (stamp[p] < focus.since)
      BY <1>2, <3>1 DEF DecidePress
    <3> QED BY <2>1, <3>2 DEF RaisesBlock, MayClaim, RaceInv
  <2>5. RaceTypeOK'
    BY <2>1, <2>2, <2>3, <1>2 DEF RaceInv, RaceTypeOK
  <2>6. WithinOneTimeout'
    BY <2>1 DEF RaceInv, WithinOneTimeout
  <2>7. EarliestWins'
    <3>1. CASE decided = {} \/ stamp[p] < focus.since
      BY <2>1, <2>2, <3>1 DEF EarliestWins, RaceInv, RaceTypeOK
    <3>2. CASE ~ (decided = {} \/ stamp[p] < focus.since)
      BY <2>1, <2>2, <3>2 DEF EarliestWins, RaceInv, RaceTypeOK
    <3> QED BY <3>1, <3>2
  <2>8. BlockedHasLost'
    <3> SUFFICES ASSUME NEW b \in blocked'
                 PROVE  b \in decided' /\ focus'.owner # b /\ focus'.since <= stamp[b]
      BY <2>1 DEF BlockedHasLost
    <3>1. CASE b = p
      BY <2>1, <2>2, <2>4, <3>1 DEF RaceInv, RaceTypeOK, EarliestWins
    <3>2. CASE b # p
      <4>1. b \in blocked /\ b \in Peers
        BY <2>3, <3>2 DEF RaceInv, RaceTypeOK
      <4>2. b \in decided /\ focus.owner # b /\ focus.since <= stamp[b]
        BY <4>1 DEF RaceInv, BlockedHasLost
      <4> QED BY <2>1, <2>2, <3>2, <4>1, <4>2
    <3> QED BY <3>1, <3>2
  <2> QED BY <2>1, <2>5, <2>6, <2>7, <2>8 DEF RaceInv
<1> QED BY <1>1, <1>2 DEF RaceNext

(* m_activePeerId, m_lastActiveSwitch and the marks keep their types.      *)
THEOREM RaceTypeCorrect == RaceSpec => []RaceTypeOK
<1>1. RaceInv => RaceTypeOK
  BY DEF RaceInv
<1> QED BY <1>1, RaceBegins, RaceStep, PTL DEF RaceSpec

(* The arrival order of the clicks does not matter: the earliest of the    *)
(* presses decided so far owns the focus.                                  *)
THEOREM EarliestAlwaysWins == RaceSpec => []EarliestWins
<1>1. RaceInv => EarliestWins
  BY DEF RaceInv
<1> QED BY <1>1, RaceBegins, RaceStep, PTL DEF RaceSpec

(* A peer marked as blocked has lost to a press no later than its own.     *)
THEOREM BlockedHasAlwaysLost == RaceSpec => []BlockedHasLost
<1>1. RaceInv => BlockedHasLost
  BY DEF RaceInv
<1> QED BY <1>1, RaceBegins, RaceStep, PTL DEF RaceSpec

(* ResolveInteraction implements the abstract arbiter: every decision is a *)
(* decision of EarliestClaim.                                              *)
THEOREM RaceRefinesEarliestClaim == RaceSpec => ImplementsEarliestClaim
<1>1. RaceInit => Promise!Init
  BY StampsAssumption DEF RaceInit, Promise!Init
<1>2. RaceInv /\ RaceInv' /\ [RaceNext]_raceVars => [Promise!Next]_Promise!vars
  <2> SUFFICES ASSUME RaceInv, RaceInv', [RaceNext]_raceVars
               PROVE  [Promise!Next]_Promise!vars
    OBVIOUS
  <2>1. CASE UNCHANGED raceVars
    BY <2>1 DEF raceVars, Promise!vars
  <2>2. ASSUME NEW p \in Peers, DecidePress(p) PROVE Promise!Decide(p)
    <3>1. p \notin decided /\ decided' = decided \cup {p} /\ stamp' = stamp
      BY <2>2 DEF DecidePress
    <3>2. focus'.owner \in Promise!Earliest(decided \cup {p})
      BY <3>1 DEF RaceInv, EarliestWins, Promise!Earliest
    <3> QED BY <3>1, <3>2 DEF Promise!Decide
  <2> QED BY <2>1, <2>2 DEF RaceNext, Promise!Next
<1> QED BY <1>1, <1>2, RaceBegins, RaceStep, PTL DEF RaceSpec, ImplementsEarliestClaim, Promise!Spec
=============================================================================
