-------------------------- MODULE FileTransfer_proofs --------------------------
(***************************************************************************)
(* For any machines, files, starts and clean-ups: only two machines that   *)
(* use one number can make a complete file differ from what was sent.      *)
(***************************************************************************)
EXTENDS FileTransfer, TLAPS, FiniteSetTheorems, SequenceTheorems

(* A machine that has used a number, or puts it on a packet, has counted   *)
(* past it, and no machine has counted further than transfers were         *)
(* started.                                                                *)
OwnInv ==
  /\ \A m \in Machines : next[m] <= starts + 1
  /\ \A c \in Clients :
       /\ \A i \in 1 .. Len(toServer[c]) : next[c] > toServer[c][i].id
       /\ \A i \in 1 .. Len(fromServer[c]) : next[Server] > fromServer[c][i].id
       /\ \A p \in relayed[c] : \E d \in Clients : next[d] > p.id
  /\ \A m \in Machines, id \in Ids :
       transfers[m][id] # None =>
         /\ \E n \in Machines : next[n] > id
         /\ transfers[m][id].out => next[m] > id

(* A file that is not complete lacks a chunk, unless it is empty.          *)
Unfinished(t) ==
  (~ t.out /\ ~ t.complete) => t.done < Chunks[t.file] \/ Chunks[t.file] = 0

Good(t) ==
  t # None =>
    t \in Entries /\ t.done \in 0 .. Chunks[t.file] /\ BufferFits(t) /\ Unfinished(t)

(* The chunk at a place of the buffer has come.                            *)
Has(t, i) ==
  t # None /\ ~ t.out /\ ~ t.complete /\ i \in 1 .. Chunks[t.file] /\ t.buffer[i] # Blank

(* An entry for file f, with what has come of it in its place and counted  *)
(* once.                                                                   *)
EntryInv(t, f, files) ==
  t # None =>
    /\ t.file = f
    /\ (~ t.out /\ t.complete) => f \in files
    /\ (~ t.out /\ ~ t.complete) =>
         /\ \A i \in 1 .. Chunks[f] : t.buffer[i] \in {Blank, Chunk(f, i)}
         /\ t.done = Cardinality({i \in 1 .. Chunks[f] : t.buffer[i] # Blank})

IsData(p, id) == p.kind = "data" /\ p.id = id

Increasing(s, id) ==
  \A i, j \in 1 .. Len(s) :
    (i < j /\ IsData(s[i], id) /\ IsData(s[j], id)) => s[i].index < s[j].index

(* Every packet of the number is about file f.                             *)
OneFile(id, f) ==
  \A c \in Clients :
    /\ \A i \in 1 .. Len(toServer[c]) : toServer[c][i].id = id => toServer[c][i].file = f
    /\ \A i \in 1 .. Len(fromServer[c]) : fromServer[c][i].id = id => fromServer[c][i].file = f
    /\ \A p \in relayed[c] : p.id = id => p.file = f

(* A chunk on its way to a machine has not come there before.              *)
InOrder(id) ==
  \A c \in Clients :
    /\ Increasing(toServer[c], id) /\ Increasing(fromServer[c], id)
    /\ \A i \in 1 .. Len(toServer[c]) :
         IsData(toServer[c][i], id) =>
           /\ \A m \in Machines : \A k \in Nat :
                Has(transfers[m][id], k) => k < toServer[c][i].index
           /\ \A d \in Clients : \A p \in relayed[d] :
                IsData(p, id) => p.index < toServer[c][i].index
    /\ \A i \in 1 .. Len(fromServer[c]) :
         IsData(fromServer[c][i], id) =>
           \A k \in Nat : Has(transfers[c][id], k) => k < fromServer[c][i].index
    /\ \A p \in relayed[c] : IsData(p, id) => ~ Has(transfers[c][id], p.index)

(* No chunk is anywhere that the sender has not counted.                   *)
Behind(id, n) ==
  (transfers[n][id] # None /\ transfers[n][id].out) =>
    /\ \A m \in Machines : \A k \in Nat :
         Has(transfers[m][id], k) => k <= transfers[n][id].done
    /\ \A c \in Clients :
         /\ \A i \in 1 .. Len(toServer[c]) :
              IsData(toServer[c][i], id) => toServer[c][i].index <= transfers[n][id].done
         /\ \A i \in 1 .. Len(fromServer[c]) :
              IsData(fromServer[c][i], id) => fromServer[c][i].index <= transfers[n][id].done
         /\ \A p \in relayed[c] :
              IsData(p, id) => p.index <= transfers[n][id].done

LoneInv(id, f) ==
  /\ OneFile(id, f)
  /\ \A m \in Machines : EntryInv(transfers[m][id], f, saved[m])
  /\ InOrder(id)
  /\ \A n \in Machines : Behind(id, n)

Used(id) == \E n \in Machines : next[n] > id

IInv ==
  /\ TypeOK /\ OwnInv
  /\ \A m \in Machines, id \in Ids : Good(transfers[m][id])
  /\ \A id \in Ids : (Used(id) /\ ~ Collision(id)) => \E f \in Files : LoneInv(id, f)
-----------------------------------------------------------------------------
(* Entries.                                                                *)

LEMMA PacketTypes ==
  ASSUME NEW p \in Packets
  PROVE  /\ p.kind \in {"header", "data"} /\ p.id \in Ids /\ p.file \in Files
         /\ Chunks[p.file] \in Nat
         /\ p.kind = "data" => p.index \in 1 .. Chunks[p.file] /\ p.index \in Nat \ {0}
BY ChunksAssumption, SMT DEF Packets

LEMMA Places ==
  ASSUME NEW f \in Files, NEW i \in Nat \ {0}
  PROVE  /\ Blank \in (Files \cup {None}) \X Nat
         /\ Chunk(f, i) \in (Files \cup {None}) \X Nat
         /\ Chunk(f, i) # Blank
  BY DEF Blank, Chunk

LEMMA EmptyBuffers ==
  ASSUME NEW f \in Files
  PROVE  /\ EmptyBuffer(f) \in Buffers
         /\ DOMAIN EmptyBuffer(f) = 1 .. Chunks[f]
         /\ \A i \in 1 .. Chunks[f] : EmptyBuffer(f)[i] = Blank
<1>1. Chunks[f] \in Nat
  BY ChunksAssumption
<1>2. \A i \in 1 .. Chunks[f] : Blank \in (Files \cup {None}) \X Nat
  BY DEF Blank
<1>3. QED BY <1>1, <1>2, SMT DEF EmptyBuffer, Buffers

(* A header keeps an entry for its file, and makes an empty one otherwise. *)
LEMMA HeaderEntry ==
  ASSUME NEW t, Good(t), NEW p \in Packets
  PROVE  /\ Good(AfterHeader(t, p)) /\ AfterHeader(t, p) # None
         /\ \A k : Has(AfterHeader(t, p), k) => Has(t, k)
         /\ AfterHeader(t, p).out => AfterHeader(t, p) = t
         /\ \A files : EntryInv(t, p.file, files) =>
                         EntryInv(AfterHeader(t, p), p.file, files)
<1>1. CASE t # None /\ t.file = p.file
  BY <1>1 DEF AfterHeader
<1>2. CASE ~ (t # None /\ t.file = p.file)
  <2> DEFINE f == p.file
             e == Transfer(FALSE, f, 0, FALSE, EmptyBuffer(f))
  <2>1. AfterHeader(t, p) = e
    BY <1>2 DEF AfterHeader
  <2>2. f \in Files /\ Chunks[f] \in Nat
    BY PacketTypes
  <2>3. /\ e \in Entries /\ e # None /\ ~ e.out /\ e.file = f /\ e.done = 0
        /\ ~ e.complete /\ e.buffer = EmptyBuffer(f)
    <3> HIDE DEF f
    <3>1. EmptyBuffer(f) \in Buffers /\ 0 \in Nat
      BY <2>2, EmptyBuffers
    <3>2. e \in Entries
      BY <2>2, <3>1 DEF Transfer, Entries
    <3>3. /\ ~ e.out /\ e.file = f /\ e.done = 0
          /\ ~ e.complete /\ e.buffer = EmptyBuffer(f)
      BY DEF Transfer
    <3> HIDE DEF e
    <3>4. QED BY <3>2, <3>3, NoneAssumption
  <2> HIDE DEF e, f
  <2>4. 0 \in 0 .. Chunks[f] /\ (0 < Chunks[f] \/ Chunks[f] = 0)
    BY <2>2, SMT
  <2>5. Good(e)
    BY <2>2, <2>3, <2>4, EmptyBuffers DEF Good, BufferFits, Unfinished
  <2>6. \A k : ~ Has(e, k)
    BY <2>2, <2>3, EmptyBuffers DEF Has
  <2>7. ASSUME NEW files PROVE EntryInv(e, f, files)
    <3>1. {i \in 1 .. Chunks[f] : e.buffer[i] # Blank} = {}
      BY <2>2, <2>3, EmptyBuffers
    <3>2. Cardinality({i \in 1 .. Chunks[f] : e.buffer[i] # Blank}) = 0
      BY <3>1, FS_EmptySet
    <3>3. QED BY <2>2, <2>3, <3>2, EmptyBuffers DEF EntryInv
  <2>8. QED BY <2>1, <2>3, <2>5, <2>6, <2>7 DEF f
<1>3. QED BY <1>1, <1>2

(* A chunk that fits fills its place.                                      *)
LEMMA WrittenTypes ==
  ASSUME NEW t, Good(t), NEW p \in Packets, p.kind = "data", Awaits(t), Fits(t, p)
  PROVE  /\ t.file \in Files /\ Chunks[t.file] \in Nat
         /\ p.index \in 1 .. Chunks[t.file]
         /\ t.done \in Nat /\ t.done < Chunks[t.file]
         /\ t.done + 1 \in 0 .. Chunks[t.file]
         /\ Written(t, p) \in Buffers
         /\ DOMAIN Written(t, p) = 1 .. Chunks[t.file]
         /\ \A i \in 1 .. Chunks[t.file] :
              Written(t, p)[i] = IF i = p.index THEN Chunk(p.file, p.index) ELSE t.buffer[i]
<1>1. /\ t \in Entries /\ t.done \in 0 .. Chunks[t.file] /\ DOMAIN t.buffer = 1 .. Chunks[t.file]
      /\ t.done < Chunks[t.file] \/ Chunks[t.file] = 0
  BY DEF Awaits, Good, BufferFits, Unfinished
<1>2. t.file \in Files /\ t.buffer \in Buffers
  BY <1>1 DEF Entries
<1>3. Chunks[t.file] \in Nat
  BY <1>2, ChunksAssumption
<1>4. p.index \in 1 .. Chunks[t.file] /\ p.index \in Nat \ {0} /\ p.file \in Files
  BY <1>1, PacketTypes DEF Fits
<1> DEFINE n == Chunks[t.file]
           S == (Files \cup {None}) \X Nat
<1>5. Written(t, p) = [i \in 1 .. n |-> IF i = p.index THEN Chunk(p.file, p.index) ELSE t.buffer[i]]
  <2>1. DOMAIN t.buffer \cup {p.index} = 1 .. n
    BY <1>1, <1>4
  <2>2. QED BY <2>1 DEF Written
<1>6. \A i \in 1 .. n : t.buffer[i] \in S
  <2>1. DOMAIN t.buffer = 1 .. n /\ t.buffer \in Seq(S)
    BY <1>1, <1>2 DEF Buffers
  <2> HIDE DEF S
  <2>2. n \in Nat
    BY <1>3
  <2>3. QED BY <2>1, ElementOfSeq, LenProperties
<1>7. Chunk(p.file, p.index) \in S
  BY <1>4, Places
<1>8. Written(t, p) \in Seq(S)
  <2> HIDE DEF S, n
  <2>1. n \in Nat
    BY <1>3 DEF n
  <2>2. [i \in 1 .. n |-> IF i = p.index THEN Chunk(p.file, p.index) ELSE t.buffer[i]] \in [1 .. n -> S]
    BY <1>6, <1>7
  <2>3. QED BY <1>5, <2>1, <2>2, SMT
<1>9. t.done \in Nat /\ t.done < n /\ t.done + 1 \in 0 .. n
  <2>1. n \in Nat /\ t.done \in 0 .. n /\ p.index \in 1 .. n /\ (t.done < n \/ n = 0)
    BY <1>1, <1>3, <1>4
  <2> HIDE DEF n
  <2>2. QED BY <2>1, SMT
<1>10. Written(t, p) \in Buffers
  BY <1>8 DEF Buffers
<1>11. QED BY <1>2, <1>3, <1>4, <1>5, <1>9, <1>10
LEMMA DataGood ==
  ASSUME NEW t, Good(t), NEW p \in Packets, p.kind = "data"
  PROVE  Good(AfterData(t, p))
<1>1. CASE ~ (Awaits(t) /\ Fits(t, p))
  BY <1>1 DEF AfterData
<1>2. CASE Awaits(t) /\ Fits(t, p)
  <2> DEFINE n == Chunks[t.file]
  <2>1. /\ t.file \in Files /\ n \in Nat /\ t.done \in Nat /\ t.done + 1 \in 0 .. n
        /\ t.done + 1 \in Nat
        /\ Written(t, p) \in Buffers
        /\ DOMAIN Written(t, p) = 1 .. n
    BY <1>2, WrittenTypes
  <2>2. CASE t.done + 1 >= n
    <3> DEFINE e == Transfer(FALSE, t.file, t.done + 1, TRUE, <<>>)
    <3>1. AfterData(t, p) = e
      BY <1>2, <2>2 DEF AfterData
    <3>3. /\ e \in Entries /\ ~ e.out /\ e.file = t.file /\ e.done = t.done + 1
          /\ e.complete /\ e.buffer = <<>>
      <4>1. <<>> \in Buffers
        BY EmptySeq DEF Buffers
      <4>2. e \in Entries
        BY <2>1, <4>1 DEF Transfer, Entries
      <4>3. QED BY <4>2 DEF Transfer
    <3> HIDE DEF e
    <3>4. QED BY <2>1, <3>1, <3>3 DEF Good, BufferFits, Unfinished
  <2>3. CASE ~ (t.done + 1 >= n)
    <3> DEFINE e == Transfer(FALSE, t.file, t.done + 1, FALSE, Written(t, p))
    <3>1. AfterData(t, p) = e
      BY <1>2, <2>3 DEF AfterData
    <3>2. /\ e \in Entries /\ ~ e.out /\ e.file = t.file /\ e.done = t.done + 1
          /\ ~ e.complete /\ e.buffer = Written(t, p)
      <4>1. e \in Entries
        BY <2>1 DEF Transfer, Entries
      <4>2. QED BY <4>1 DEF Transfer
    <3>3. t.done + 1 < n
      BY <2>1, <2>3, SMT
    <3> HIDE DEF e
    <3>4. QED BY <2>1, <3>1, <3>2, <3>3 DEF Good, BufferFits, Unfinished
  <2>4. QED BY <2>2, <2>3
<1>3. QED BY <1>1, <1>2

(* A chunk that has not come yet is counted, and when all are counted all  *)
(* have come.                                                              *)
LEMMA Counting ==
  ASSUME NEW n \in Nat, NEW T \in SUBSET (1 .. n), NEW i \in 1 .. n, i \notin T
  PROVE  /\ Cardinality(T \cup {i}) = Cardinality(T) + 1
         /\ Cardinality(T) + 1 >= n => T \cup {i} = 1 .. n
<1>1. IsFiniteSet(1 .. n) /\ Cardinality(1 .. n) = n
  BY FS_Interval, SMT
<1>2. /\ IsFiniteSet(T) /\ T \cup {i} \subseteq 1 .. n
      /\ Cardinality(T \cup {i}) = Cardinality(T) + 1
  BY <1>1, FS_Subset, FS_AddElement
<1>3. Cardinality(T \cup {i}) <= n /\ Cardinality(T) \in Nat
  BY <1>1, <1>2, FS_Subset, FS_CardinalityType
<1>4. Cardinality(T) + 1 >= n => Cardinality(T \cup {i}) = Cardinality(1 .. n)
  BY <1>1, <1>2, <1>3, SMT
<1>5. QED BY <1>1, <1>2, <1>4, FS_Subset

LEMMA DataEntry ==
  ASSUME NEW t, Good(t), NEW p \in Packets, p.kind = "data",
         NEW files, EntryInv(t, p.file, files), ~ Has(t, p.index)
  PROVE  /\ EntryInv(AfterData(t, p), p.file, files \cup SavedBy(t, p))
         /\ AfterData(t, p) # None => t # None
         /\ AfterData(t, p).out => AfterData(t, p) = t
         /\ \A k : Has(AfterData(t, p), k) => Has(t, k) \/ k = p.index
<1>1. CASE ~ (Awaits(t) /\ Fits(t, p))
  BY <1>1 DEF AfterData, EntryInv
<1>2. CASE Awaits(t) /\ Fits(t, p)
  <2> DEFINE f == p.file
             n == Chunks[f]
             i == p.index
             w == Written(t, p)
             T == {k \in 1 .. n : t.buffer[k] # Blank}
  <2>1. /\ t # None /\ ~ t.out /\ ~ t.complete /\ t.file = f
        /\ \A k \in 1 .. n : t.buffer[k] \in {Blank, Chunk(f, k)}
        /\ t.done = Cardinality(T)
    BY <1>2 DEF Awaits, EntryInv
  <2>2. /\ f \in Files /\ n \in Nat /\ i \in 1 .. n
        /\ t.done \in Nat /\ t.done + 1 \in 0 .. n /\ t.done + 1 \in Nat
        /\ w \in Buffers /\ DOMAIN w = 1 .. n
        /\ \A k \in 1 .. n : w[k] = IF k = i THEN Chunk(f, i) ELSE t.buffer[k]
    BY <1>2, <2>1, WrittenTypes
  <2>3. i \notin T
    BY <2>1, <2>2 DEF Has
  <2>4. Chunk(f, i) # Blank
    BY <2>2, PacketTypes, Places
  <2>5. {k \in 1 .. n : w[k] # Blank} = T \cup {i}
    BY <2>2, <2>4
  <2>6. /\ T \in SUBSET (1 .. n) /\ t.done + 1 = Cardinality(T \cup {i})
        /\ t.done + 1 >= n => T \cup {i} = 1 .. n
    <3>1. T \subseteq 1 .. n
      OBVIOUS
    <3>2. n \in Nat /\ i \in 1 .. n /\ t.done = Cardinality(T)
      BY <2>1, <2>2
    <3> HIDE DEF T, n, i
    <3>3. T \in SUBSET (1 .. n)
      BY <3>1
    <3>4. /\ Cardinality(T \cup {i}) = Cardinality(T) + 1
          /\ Cardinality(T) + 1 >= n => T \cup {i} = 1 .. n
      BY <2>3, <3>2, <3>3, Counting
    <3>5. QED BY <3>2, <3>3, <3>4
  <2>7. \A k \in 1 .. n : w[k] \in {Blank, Chunk(f, k)}
    BY <2>1, <2>2
  <2>8. CASE t.done + 1 >= n
    <3> DEFINE e == Transfer(FALSE, t.file, t.done + 1, TRUE, <<>>)
    <3>1. AfterData(t, p) = e
      BY <1>2, <2>1, <2>8 DEF AfterData
    <3>3. e # None /\ ~ e.out /\ e.file = f /\ e.complete
      <4>1. <<>> \in Buffers
        BY EmptySeq DEF Buffers
      <4>2. e \in Entries
        BY <2>1, <2>2, <4>1 DEF Transfer, Entries
      <4>3. ~ e.out /\ e.file = f /\ e.complete
        BY <2>1 DEF Transfer
      <4> HIDE DEF e
      <4>4. QED BY <4>2, <4>3, NoneAssumption
    <3>4. \A k \in 1 .. n : w[k] = Chunk(f, k)
      BY <2>5, <2>6, <2>7, <2>8
    <3>5. w = Content(f)
      <4>1. w = [k \in 1 .. n |-> w[k]]
        BY <2>2 DEF Written
      <4>2. [k \in 1 .. n |-> w[k]] = Content(f)
        BY <3>4 DEF Content
      <4>3. QED BY <4>1, <4>2
    <3>6. SavedBy(t, p) = {f}
      BY <1>2, <2>1, <2>8, <3>5 DEF SavedBy
    <3> HIDE DEF e, f, n, i, w, T
    <3>7. EntryInv(e, f, files \cup SavedBy(t, p))
      BY <3>3, <3>6 DEF EntryInv
    <3>8. QED BY <2>1, <3>1, <3>3, <3>7 DEF Has, f
  <2>9. CASE ~ (t.done + 1 >= n)
    <3> DEFINE e == Transfer(FALSE, t.file, t.done + 1, FALSE, w)
    <3>1. AfterData(t, p) = e
      BY <1>2, <2>1, <2>9 DEF AfterData
    <3>2. /\ e # None /\ ~ e.out /\ e.file = f /\ ~ e.complete
          /\ e.buffer = w /\ e.done = t.done + 1
      <4> HIDE DEF w
      <4>1. e \in Entries
        BY <2>1, <2>2 DEF Transfer, Entries
      <4>2. ~ e.out /\ e.file = f /\ ~ e.complete /\ e.buffer = w /\ e.done = t.done + 1
        BY <2>1 DEF Transfer
      <4> HIDE DEF e
      <4>3. QED BY <4>1, <4>2, NoneAssumption
    <3> HIDE DEF e, w, T
    <3>3. EntryInv(e, f, files \cup SavedBy(t, p))
      BY <2>5, <2>6, <2>7, <3>2 DEF EntryInv
    <3>4. \A k : Has(e, k) => Has(t, k) \/ k = i
      BY <2>1, <2>2, <3>2 DEF Has
    <3>5. QED BY <2>1, <3>1, <3>2, <3>3, <3>4
  <2>10. QED BY <2>8, <2>9
<1>3. QED BY <1>1, <1>2
-----------------------------------------------------------------------------
(* What a handler does to the entries.                                     *)

Basis == TypeOK /\ OwnInv /\ \A m \in Machines, id \in Ids : Good(transfers[m][id])

LEMMA HandleOutcome ==
  ASSUME TypeOK, \A m \in Machines, id \in Ids : Good(transfers[m][id]),
         NEW m \in Machines, NEW p \in Packets, Handle(m, p)
  PROVE  /\ transfers' \in [Machines -> [Ids -> Entries \cup {None}]]
         /\ saved' \in [Machines -> SUBSET Files]
         /\ \A k \in Machines, id \in Ids : Good(transfers'[k][id])
         /\ \A k \in Machines, id \in Ids :
              (k # m \/ id # p.id) => transfers'[k][id] = transfers[k][id]
         /\ \A k \in Machines : saved[k] \subseteq saved'[k]
         /\ p.id \in Ids /\ p.file \in Files
         /\ IF p.kind = "header"
            THEN transfers'[m][p.id] = AfterHeader(transfers[m][p.id], p)
            ELSE /\ p.kind = "data"
                 /\ transfers'[m][p.id] = AfterData(transfers[m][p.id], p)
                 /\ saved'[m] = saved[m] \cup SavedBy(transfers[m][p.id], p)
<1> DEFINE t == transfers[m][p.id]
           e == IF p.kind = "header" THEN AfterHeader(t, p) ELSE AfterData(t, p)
<1>1. p.kind \in {"header", "data"} /\ p.id \in Ids /\ p.file \in Files
  BY PacketTypes
<1>2. /\ transfers \in [Machines -> [Ids -> Entries \cup {None}]]
      /\ saved \in [Machines -> SUBSET Files] /\ Good(t)
  BY <1>1 DEF TypeOK
<1>3. transfers' = [transfers EXCEPT ![m][p.id] = e]
  BY DEF Handle
<1>4. Good(e)
  BY <1>1, <1>2, HeaderEntry, DataGood
<1>5. e \in Entries \cup {None}
  BY <1>4 DEF Good
<1>6. SavedBy(t, p) \subseteq Files
  <2>1. t # None => t.file \in Files
    BY <1>2 DEF Good, Entries
  <2>2. QED BY <2>1 DEF SavedBy, Awaits
<1>7. \/ p.kind = "header" /\ saved' = saved
      \/ p.kind = "data" /\ saved' = [saved EXCEPT ![m] = @ \cup SavedBy(t, p)]
  BY <1>1 DEF Handle
<1> HIDE DEF e
<1>8. /\ transfers'[m][p.id] = e
      /\ \A k \in Machines, id \in Ids :
           (k # m \/ id # p.id) => transfers'[k][id] = transfers[k][id]
      /\ transfers' \in [Machines -> [Ids -> Entries \cup {None}]]
  BY <1>1, <1>2, <1>3, <1>5
<1>9. \A k \in Machines, id \in Ids : Good(transfers'[k][id])
  BY <1>4, <1>8
<1> HIDE DEF t
<1>10. /\ saved' \in [Machines -> SUBSET Files]
       /\ \A k \in Machines : saved[k] \subseteq saved'[k]
       /\ p.kind = "data" => saved'[m] = saved[m] \cup SavedBy(t, p)
  BY <1>2, <1>6, <1>7
<1>11. QED BY <1>1, <1>8, <1>9, <1>10 DEF e, t

Handled(m, p, id, f) ==
  /\ \A k \in Machines : EntryInv(transfers'[k][id], f, saved'[k])
  /\ \A k \in Machines : \A j :
       Has(transfers'[k][id], j) =>
         \/ Has(transfers[k][id], j)
         \/ k = m /\ IsData(p, id) /\ j = p.index
  /\ \A k \in Machines :
       (transfers'[k][id] # None /\ transfers'[k][id].out) =>
          transfers'[k][id] = transfers[k][id]

LEMMA LoneHandle ==
  ASSUME TypeOK, \A m \in Machines, id \in Ids : Good(transfers[m][id]),
         NEW m \in Machines, NEW p \in Packets, Handle(m, p),
         NEW id \in Ids, NEW f,
         \A k \in Machines : EntryInv(transfers[k][id], f, saved[k]),
         p.id = id => p.file = f,
         IsData(p, id) => ~ Has(transfers[m][id], p.index)
  PROVE  Handled(m, p, id, f)
<1> SUFFICES /\ \A k \in Machines : EntryInv(transfers'[k][id], f, saved'[k])
             /\ \A k \in Machines : \A j :
                  Has(transfers'[k][id], j) =>
                    \/ Has(transfers[k][id], j)
                    \/ k = m /\ IsData(p, id) /\ j = p.index
             /\ \A k \in Machines :
                  (transfers'[k][id] # None /\ transfers'[k][id].out) =>
                     transfers'[k][id] = transfers[k][id]
  BY DEF Handled
<1>1. /\ \A k \in Machines :
           (k # m \/ id # p.id) => transfers'[k][id] = transfers[k][id]
      /\ \A k \in Machines : saved[k] \subseteq saved'[k]
      /\ IF p.kind = "header"
         THEN transfers'[m][p.id] = AfterHeader(transfers[m][p.id], p)
         ELSE /\ p.kind = "data"
              /\ transfers'[m][p.id] = AfterData(transfers[m][p.id], p)
              /\ saved'[m] = saved[m] \cup SavedBy(transfers[m][p.id], p)
  BY HandleOutcome
<1>2. \A k \in Machines : EntryInv(transfers[k][id], f, saved'[k])
  BY <1>1 DEF EntryInv
<1>3. CASE id # p.id
  BY <1>1, <1>2, <1>3
<1>4. CASE id = p.id /\ p.kind = "header"
  <2> DEFINE t == transfers[m][id]
  <2>1. Good(t) /\ EntryInv(t, p.file, saved'[m]) /\ f = p.file
        /\ transfers'[m][id] = AfterHeader(t, p)
    BY <1>1, <1>2, <1>4
  <2> HIDE DEF t
  <2>2. /\ EntryInv(transfers'[m][id], f, saved'[m])
        /\ \A j : Has(transfers'[m][id], j) => Has(t, j)
        /\ transfers'[m][id].out => transfers'[m][id] = t
    BY <2>1, HeaderEntry
  <2>3. QED BY <1>1, <1>2, <1>4, <2>2 DEF t
<1>5. CASE id = p.id /\ p.kind = "data"
  <2> DEFINE t == transfers[m][id]
  <2>1. /\ Good(t) /\ EntryInv(t, p.file, saved[m]) /\ f = p.file
        /\ transfers'[m][id] = AfterData(t, p) /\ saved'[m] = saved[m] \cup SavedBy(t, p)
        /\ ~ Has(t, p.index)
    BY <1>1, <1>5 DEF IsData
  <2> HIDE DEF t
  <2>2. /\ EntryInv(transfers'[m][id], f, saved'[m])
        /\ \A j : Has(transfers'[m][id], j) => Has(t, j) \/ j = p.index
        /\ transfers'[m][id].out => transfers'[m][id] = t
    BY <1>5, <2>1, DataEntry
  <2>3. QED BY <1>1, <1>2, <1>5, <2>2 DEF t, IsData
<1>6. QED BY <1>1, <1>3, <1>4, <1>5

-----------------------------------------------------------------------------
(* Streams.                                                                *)

LEMMA Shortened ==
  ASSUME NEW s \in Seq(Packets), s # <<>>
  PROVE  /\ Head(s) \in Packets /\ Head(s) = s[1] /\ 1 \in 1 .. Len(s)
         /\ Tail(s) \in Seq(Packets)
         /\ \A i \in 1 .. Len(Tail(s)) : i + 1 \in 1 .. Len(s) /\ Tail(s)[i] = s[i + 1]
         /\ \A id : Increasing(s, id) =>
              /\ Increasing(Tail(s), id)
              /\ \A i \in 1 .. Len(Tail(s)) :
                   (IsData(s[1], id) /\ IsData(Tail(s)[i], id)) =>
                      s[1].index < Tail(s)[i].index
<1>1. /\ Head(s) \in Packets /\ Head(s) = s[1] /\ Tail(s) \in Seq(Packets)
      /\ Len(s) \in Nat \ {0} /\ Len(Tail(s)) = Len(s) - 1
      /\ \A i \in 1 .. Len(s) - 1 : Tail(s)[i] = s[i + 1]
  BY HeadTailProperties, EmptySeq, SMT
<1>2. /\ 1 \in 1 .. Len(s)
      /\ \A i \in 1 .. Len(Tail(s)) : i + 1 \in 1 .. Len(s) /\ Tail(s)[i] = s[i + 1] /\ 1 < i + 1
      /\ \A i, j \in 1 .. Len(Tail(s)) : i < j => i + 1 < j + 1
  BY <1>1, SMT
<1>3. QED BY <1>1, <1>2 DEF Increasing

LEMMA Lengthened ==
  ASSUME NEW s \in Seq(Packets), NEW e \in Packets
  PROVE  /\ Append(s, e) \in Seq(Packets)
         /\ \A i \in 1 .. Len(Append(s, e)) :
              (i \in 1 .. Len(s) /\ Append(s, e)[i] = s[i]) \/ Append(s, e)[i] = e
         /\ \A id : (/\ Increasing(s, id)
                     /\ \A i \in 1 .. Len(s) :
                          (IsData(e, id) /\ IsData(s[i], id)) => s[i].index < e.index)
                    => Increasing(Append(s, e), id)
<1> DEFINE l == Len(s)
           a == Append(s, e)
<1>1. /\ a \in Seq(Packets) /\ l \in Nat /\ Len(a) = l + 1
      /\ \A i \in 1 .. l : a[i] = s[i]
      /\ a[l + 1] = e
  BY AppendProperties, SMT
<1> HIDE DEF l, a
<1>2. /\ \A i \in 1 .. l + 1 : i \in 1 .. l \/ i = l + 1
      /\ \A i, j \in 1 .. l + 1 : i < j => i \in 1 .. l
  BY <1>1, SMT
<1>3. QED BY <1>1, <1>2 DEF Increasing, l, a

(* Nobody else has used the number of a lone transfer.                     *)
LEMMA OneOwner ==
  ASSUME NEW id \in Ids, ~ Collision(id), NEW m \in Machines, NEW n \in Machines,
         next[m] > id, next[n] > id
  PROVE  m = n
BY DEF Collision

LEMMA ServerNoClient == Server \in Machines /\ \A c \in Clients : c \in Machines /\ c # Server
BY MachinesAssumption DEF Machines
-----------------------------------------------------------------------------
(* A lone transfer through every kind of step.                             *)

LEMMA QuietLone ==
  ASSUME NEW id \in Ids, NEW f, LoneInv(id, f),
         UNCHANGED <<toServer, fromServer, relayed, saved>>,
         \A k \in Machines :
           transfers'[k][id] = transfers[k][id] \/ transfers'[k][id] = None
  PROVE  LoneInv(id, f)'
<1>1. /\ OneFile(id, f) /\ InOrder(id)
      /\ \A k \in Machines : EntryInv(transfers[k][id], f, saved[k]) /\ Behind(id, k)
  BY DEF LoneInv
<1>2. OneFile(id, f)'
  BY <1>1 DEF OneFile
<1>3. \A k \in Machines : EntryInv(transfers[k][id], f, saved[k])'
  BY <1>1 DEF EntryInv
<1>4. \A k \in Machines : \A j : Has(transfers'[k][id], j) => Has(transfers[k][id], j)
  BY DEF Has
<1>5. InOrder(id)'
  BY <1>1, <1>4, ServerNoClient DEF InOrder, Increasing
<1>6. ASSUME NEW n \in Machines PROVE Behind(id, n)'
  BY <1>1, <1>4 DEF Behind
<1>7. QED BY <1>2, <1>3, <1>5, <1>6 DEF LoneInv

LEMMA SendLone ==
  ASSUME TypeOK, NEW id \in Ids, NEW f, LoneInv(id, f),
         NEW m \in Machines, NEW p \in Packets, SendPacket(m, p),
         UNCHANGED <<relayed, saved>>,
         p.id = id => p.file = f,
         \A k \in Machines : EntryInv(transfers'[k][id], f, saved[k]),
         \A k \in Machines : \A j : Has(transfers'[k][id], j) => Has(transfers[k][id], j),
         IsData(p, id) =>
           /\ \A k \in Machines : \A j \in Nat : Has(transfers[k][id], j) => j < p.index
           /\ \A c \in Clients :
                /\ \A i \in 1 .. Len(toServer[c]) :
                     IsData(toServer[c][i], id) => toServer[c][i].index < p.index
                /\ \A i \in 1 .. Len(fromServer[c]) :
                     IsData(fromServer[c][i], id) => fromServer[c][i].index < p.index
                /\ \A q \in relayed[c] : IsData(q, id) => q.index < p.index,
         \A n \in Machines : Behind(id, n) =>
           ((transfers'[n][id] # None /\ transfers'[n][id].out) =>
              /\ \A k \in Machines : \A j \in Nat :
                   Has(transfers[k][id], j) => j <= transfers'[n][id].done
              /\ \A c \in Clients :
                   /\ \A i \in 1 .. Len(toServer[c]) :
                        IsData(toServer[c][i], id) => toServer[c][i].index <= transfers'[n][id].done
                   /\ \A i \in 1 .. Len(fromServer[c]) :
                        IsData(fromServer[c][i], id) => fromServer[c][i].index <= transfers'[n][id].done
                   /\ \A q \in relayed[c] :
                        IsData(q, id) => q.index <= transfers'[n][id].done
              /\ IsData(p, id) => p.index <= transfers'[n][id].done)
  PROVE  LoneInv(id, f)'
<1>1. /\ OneFile(id, f) /\ InOrder(id)
      /\ \A k \in Machines : Behind(id, k)
  BY DEF LoneInv
<1>2. ASSUME NEW c \in Clients
      PROVE  /\ \A i \in 1 .. Len(toServer'[c]) :
                  \/ i \in 1 .. Len(toServer[c]) /\ toServer'[c][i] = toServer[c][i]
                  \/ toServer'[c][i] = p
             /\ \A i \in 1 .. Len(fromServer'[c]) :
                  \/ i \in 1 .. Len(fromServer[c]) /\ fromServer'[c][i] = fromServer[c][i]
                  \/ fromServer'[c][i] = p
             /\ Increasing(toServer'[c], id) /\ Increasing(fromServer'[c], id)
  <2>1. /\ toServer \in [Clients -> Seq(Packets)] /\ toServer[c] \in Seq(Packets)
        /\ fromServer[c] \in Seq(Packets)
    BY DEF TypeOK
  <2>2. /\ toServer'[c] = toServer[c] \/ toServer'[c] = Append(toServer[c], p)
        /\ fromServer'[c] = fromServer[c] \/ fromServer'[c] = Append(fromServer[c], p)
    BY <2>1 DEF SendPacket
  <2>3. Increasing(toServer[c], id) /\ Increasing(fromServer[c], id)
    BY <1>1 DEF InOrder
  <2>4. /\ Increasing(Append(toServer[c], p), id) /\ Increasing(Append(fromServer[c], p), id)
        /\ \A i \in 1 .. Len(Append(toServer[c], p)) :
             \/ i \in 1 .. Len(toServer[c]) /\ Append(toServer[c], p)[i] = toServer[c][i]
             \/ Append(toServer[c], p)[i] = p
        /\ \A i \in 1 .. Len(Append(fromServer[c], p)) :
             \/ i \in 1 .. Len(fromServer[c]) /\ Append(fromServer[c], p)[i] = fromServer[c][i]
             \/ Append(fromServer[c], p)[i] = p
    BY <2>1, <2>3, Lengthened
  <2>5. QED BY <2>2, <2>3, <2>4
<1>3. OneFile(id, f)'
  BY <1>1, <1>2 DEF OneFile
<1>4. InOrder(id)'
  BY <1>1, <1>2, ServerNoClient DEF InOrder
<1>5. ASSUME NEW n \in Machines PROVE Behind(id, n)'
  <2>1. SUFFICES ASSUME transfers'[n][id] # None, transfers'[n][id].out
                 PROVE  Behind(id, n)'
    BY DEF Behind
  <2> DEFINE done == transfers'[n][id].done
  <2>2. /\ \A k \in Machines : \A j \in Nat : Has(transfers[k][id], j) => j <= done
        /\ \A c \in Clients :
             /\ \A i \in 1 .. Len(toServer[c]) :
                  IsData(toServer[c][i], id) => toServer[c][i].index <= done
             /\ \A i \in 1 .. Len(fromServer[c]) :
                  IsData(fromServer[c][i], id) => fromServer[c][i].index <= done
             /\ \A q \in relayed[c] : IsData(q, id) => q.index <= done
        /\ IsData(p, id) => p.index <= done
    BY <1>1, <2>1
  <2> HIDE DEF done
  <2>3. \A k \in Machines : \A j \in Nat : Has(transfers'[k][id], j) => j <= done
    BY <2>2
  <2>4. ASSUME NEW c \in Clients
        PROVE  /\ \A i \in 1 .. Len(toServer'[c]) :
                    IsData(toServer'[c][i], id) => toServer'[c][i].index <= done
               /\ \A i \in 1 .. Len(fromServer'[c]) :
                    IsData(fromServer'[c][i], id) => fromServer'[c][i].index <= done
               /\ \A q \in relayed'[c] : IsData(q, id) => q.index <= done
    BY <1>2, <2>2
  <2>5. QED BY <2>3, <2>4 DEF Behind, done, IsData
<1>6. QED BY <1>3, <1>4, <1>5 DEF LoneInv

LEMMA ServerLone ==
  ASSUME Basis, NEW id \in Ids, NEW f, LoneInv(id, f), ~ Collision(id),
         NEW c \in Clients, ServerReceive(c)
  PROVE  LoneInv(id, f)'
<1>1. PICK p : p = Head(toServer[c])
  OBVIOUS
<1>2. /\ OneFile(id, f) /\ InOrder(id) /\ TypeOK /\ OwnInv
      /\ \A k \in Machines : EntryInv(transfers[k][id], f, saved[k]) /\ Behind(id, k)
      /\ \A k \in Machines, j \in Ids : Good(transfers[k][j])
  BY DEF LoneInv, Basis
<1>3. /\ toServer[c] # <<>> /\ toServer' = [toServer EXCEPT ![c] = Tail(@)]
      /\ Handle(Server, p)
      /\ relayed' = [d \in Clients |-> relayed[d] \cup {p}]
      /\ UNCHANGED <<next, fromServer>>
  BY <1>1 DEF ServerReceive
<1>4. /\ toServer[c] \in Seq(Packets) /\ toServer'[c] = Tail(toServer[c])
      /\ \A d \in Clients : d # c => toServer'[d] = toServer[d]
  BY <1>2, <1>3 DEF TypeOK
<1>5. /\ p \in Packets /\ p = toServer[c][1] /\ 1 \in 1 .. Len(toServer[c])
      /\ \A i \in 1 .. Len(toServer'[c]) :
           i + 1 \in 1 .. Len(toServer[c]) /\ toServer'[c][i] = toServer[c][i + 1]
      /\ Increasing(toServer'[c], id)
      /\ \A i \in 1 .. Len(toServer'[c]) :
           (IsData(p, id) /\ IsData(toServer'[c][i], id)) => p.index < toServer'[c][i].index
  BY <1>1, <1>2, <1>3, <1>4, Shortened DEF InOrder
<1>6. \A d \in Clients : \A i \in 1 .. Len(toServer'[d]) :
        \E j \in 1 .. Len(toServer[d]) : toServer'[d][i] = toServer[d][j]
  BY <1>4, <1>5
<1>7. /\ p.id = id => p.file = f
      /\ p.index \in Nat /\ ~ (p.index < p.index)
  <2>1. p.index \in Nat
    BY <1>5 DEF Packets
  <2>2. ~ (p.index < p.index)
    BY <2>1, SMT
  <2>3. QED BY <1>2, <1>5, <2>1, <2>2 DEF OneFile
<1>8. IsData(p, id) =>
        /\ \A m \in Machines : \A k \in Nat : Has(transfers[m][id], k) => k < p.index
        /\ \A d \in Clients : \A q \in relayed[d] : IsData(q, id) => q.index < p.index
        /\ \A n \in Machines : (transfers[n][id] # None /\ transfers[n][id].out) =>
             p.index <= transfers[n][id].done
  BY <1>2, <1>5 DEF InOrder, Behind
<1>9. /\ \A k \in Machines : EntryInv(transfers'[k][id], f, saved'[k])
      /\ \A k \in Machines : \A j :
           Has(transfers'[k][id], j) =>
             \/ Has(transfers[k][id], j)
             \/ k = Server /\ IsData(p, id) /\ j = p.index
      /\ \A k \in Machines :
           (transfers'[k][id] # None /\ transfers'[k][id].out) =>
              transfers'[k][id] = transfers[k][id]
  <2>1. IsData(p, id) => ~ Has(transfers[Server][id], p.index)
    BY <1>7, <1>8, ServerNoClient
  <2>2. Server \in Machines /\ TypeOK /\ \A k \in Machines, j \in Ids : Good(transfers[k][j])
    BY <1>2, ServerNoClient
  <2>3. Handle(Server, p) /\ p \in Packets /\ (p.id = id => p.file = f)
    BY <1>3, <1>5, <1>7
  <2>4. \A k \in Machines : EntryInv(transfers[k][id], f, saved[k])
    BY <1>2
  <2>5. Handled(Server, p, id, f)
    BY <2>1, <2>2, <2>3, <2>4, LoneHandle
  <2>6. QED BY <2>5 DEF Handled
<1>10. ASSUME IsData(p, id), NEW d \in Clients, NEW i \in 1 .. Len(toServer'[d]),
              IsData(toServer'[d][i], id)
       PROVE  p.index < toServer'[d][i].index
  <2>1. CASE d = c
    BY <1>5, <1>10, <2>1
  <2>2. CASE d # c
    <3>1. next[d] > toServer[d][i].id /\ next[c] > p.id
      BY <1>2, <1>4, <1>5, <1>10, <2>2 DEF OwnInv
    <3>2. next[d] > id /\ next[c] > id
      BY <1>4, <1>10, <2>2, <3>1 DEF IsData
    <3>3. QED BY <2>2, <3>2, OneOwner, ServerNoClient
  <2>3. QED BY <2>1, <2>2
<1>11. OneFile(id, f)'
  BY <1>2, <1>3, <1>6, <1>7 DEF OneFile
<1>12. InOrder(id)'
  <2>1. ASSUME NEW d \in Clients
        PROVE  /\ Increasing(toServer'[d], id) /\ Increasing(fromServer'[d], id)
               /\ \A q \in relayed'[d] : IsData(q, id) => ~ Has(transfers'[d][id], q.index)
               /\ \A i \in 1 .. Len(fromServer'[d]) :
                    IsData(fromServer'[d][i], id) =>
                      \A k \in Nat : Has(transfers'[d][id], k) => k < fromServer'[d][i].index
    BY <1>2, <1>3, <1>4, <1>5, <1>7, <1>8, <1>9, ServerNoClient DEF InOrder
  <2>2. ASSUME NEW d \in Clients, NEW i \in 1 .. Len(toServer'[d]),
               IsData(toServer'[d][i], id)
        PROVE  /\ \A m \in Machines : \A k \in Nat :
                    Has(transfers'[m][id], k) => k < toServer'[d][i].index
               /\ \A e \in Clients : \A q \in relayed'[e] :
                    IsData(q, id) => q.index < toServer'[d][i].index
    <3>1. PICK j \in 1 .. Len(toServer[d]) : toServer'[d][i] = toServer[d][j]
      BY <1>6, <2>2
    <3>2. /\ \A m \in Machines : \A k \in Nat :
               Has(transfers[m][id], k) => k < toServer'[d][i].index
          /\ \A e \in Clients : \A q \in relayed[e] :
               IsData(q, id) => q.index < toServer'[d][i].index
      BY <1>2, <2>2, <3>1 DEF InOrder
    <3>3. IsData(p, id) => p.index < toServer'[d][i].index
      BY <1>10, <2>2
    <3>4. \A m \in Machines : \A k \in Nat :
            Has(transfers'[m][id], k) => k < toServer'[d][i].index
      BY <1>9, <3>2, <3>3
    <3>5. \A e \in Clients : \A q \in relayed'[e] :
            IsData(q, id) => q.index < toServer'[d][i].index
      BY <1>3, <3>2, <3>3
    <3>6. QED BY <3>4, <3>5
  <2>3. QED BY <2>1, <2>2 DEF InOrder
<1>13. ASSUME NEW n \in Machines PROVE Behind(id, n)'
  <2>1. SUFFICES ASSUME transfers'[n][id] # None, transfers'[n][id].out
                 PROVE  Behind(id, n)'
    BY DEF Behind
  <2> DEFINE done == transfers[n][id].done
  <2>2. /\ transfers'[n][id].done = done
        /\ \A k \in Machines : \A j \in Nat : Has(transfers[k][id], j) => j <= done
        /\ \A d \in Clients :
             /\ \A i \in 1 .. Len(toServer[d]) :
                  IsData(toServer[d][i], id) => toServer[d][i].index <= done
             /\ \A i \in 1 .. Len(fromServer[d]) :
                  IsData(fromServer[d][i], id) => fromServer[d][i].index <= done
             /\ \A q \in relayed[d] : IsData(q, id) => q.index <= done
        /\ IsData(p, id) => p.index <= done
    BY <1>2, <1>8, <1>9, <2>1 DEF Behind
  <2> HIDE DEF done
  <2>3. \A k \in Machines : \A j \in Nat : Has(transfers'[k][id], j) => j <= done
    BY <1>9, <2>2
  <2>4. ASSUME NEW d \in Clients
        PROVE  /\ \A i \in 1 .. Len(toServer'[d]) :
                    IsData(toServer'[d][i], id) => toServer'[d][i].index <= done
               /\ \A i \in 1 .. Len(fromServer'[d]) :
                    IsData(fromServer'[d][i], id) => fromServer'[d][i].index <= done
               /\ \A q \in relayed'[d] : IsData(q, id) => q.index <= done
    BY <1>3, <1>6, <2>2
  <2>5. QED BY <2>2, <2>3, <2>4 DEF Behind, IsData
<1>14. QED BY <1>9, <1>11, <1>12, <1>13 DEF LoneInv

LEMMA ClientLone ==
  ASSUME Basis, NEW id \in Ids, NEW f, LoneInv(id, f), ~ Collision(id),
         NEW c \in Clients, ClientReceive(c)
  PROVE  LoneInv(id, f)'
<1>1. PICK p : p = Head(fromServer[c])
  OBVIOUS
<1>2. /\ OneFile(id, f) /\ InOrder(id) /\ TypeOK /\ OwnInv
      /\ \A k \in Machines : EntryInv(transfers[k][id], f, saved[k]) /\ Behind(id, k)
      /\ \A k \in Machines, j \in Ids : Good(transfers[k][j])
  BY DEF LoneInv, Basis
<1>3. /\ fromServer[c] # <<>> /\ fromServer' = [fromServer EXCEPT ![c] = Tail(@)]
      /\ Handle(c, p)
      /\ UNCHANGED <<next, toServer, relayed>>
  BY <1>1 DEF ClientReceive
<1>4. /\ fromServer[c] \in Seq(Packets) /\ fromServer'[c] = Tail(fromServer[c])
      /\ \A d \in Clients : d # c => fromServer'[d] = fromServer[d]
  BY <1>2, <1>3 DEF TypeOK
<1>5. /\ p \in Packets /\ p = fromServer[c][1] /\ 1 \in 1 .. Len(fromServer[c])
      /\ \A i \in 1 .. Len(fromServer'[c]) :
           i + 1 \in 1 .. Len(fromServer[c]) /\ fromServer'[c][i] = fromServer[c][i + 1]
      /\ Increasing(fromServer'[c], id)
      /\ \A i \in 1 .. Len(fromServer'[c]) :
           (IsData(p, id) /\ IsData(fromServer'[c][i], id)) => p.index < fromServer'[c][i].index
  BY <1>1, <1>2, <1>3, <1>4, Shortened DEF InOrder
<1>6. \A d \in Clients : \A i \in 1 .. Len(fromServer'[d]) :
        \E j \in 1 .. Len(fromServer[d]) : fromServer'[d][i] = fromServer[d][j]
  BY <1>4, <1>5
<1>7. /\ p.id = id => p.file = f
      /\ p.index \in Nat /\ ~ (p.index < p.index)
  <2>1. p.index \in Nat
    BY <1>5 DEF Packets
  <2>2. ~ (p.index < p.index)
    BY <2>1, SMT
  <2>3. QED BY <1>2, <1>5, <2>1, <2>2 DEF OneFile
<1>8. IsData(p, id) =>
        /\ \A k \in Nat : Has(transfers[c][id], k) => k < p.index
        /\ \A n \in Machines : (transfers[n][id] # None /\ transfers[n][id].out) =>
             p.index <= transfers[n][id].done
  BY <1>2, <1>5 DEF InOrder, Behind
<1>9. /\ \A k \in Machines : EntryInv(transfers'[k][id], f, saved'[k])
      /\ \A k \in Machines : \A j :
           Has(transfers'[k][id], j) =>
             \/ Has(transfers[k][id], j)
             \/ k = c /\ IsData(p, id) /\ j = p.index
      /\ \A k \in Machines :
           (transfers'[k][id] # None /\ transfers'[k][id].out) =>
              transfers'[k][id] = transfers[k][id]
  <2>1. IsData(p, id) => ~ Has(transfers[c][id], p.index)
    BY <1>7, <1>8, ServerNoClient
  <2>2. c \in Machines /\ TypeOK /\ \A k \in Machines, j \in Ids : Good(transfers[k][j])
    BY <1>2, ServerNoClient
  <2>3. Handle(c, p) /\ p \in Packets /\ (p.id = id => p.file = f)
    BY <1>3, <1>5, <1>7
  <2>4. \A k \in Machines : EntryInv(transfers[k][id], f, saved[k])
    BY <1>2
  <2>5. Handled(c, p, id, f)
    BY <2>1, <2>2, <2>3, <2>4, LoneHandle
  <2>6. QED BY <2>5 DEF Handled
<1>10. ASSUME IsData(p, id), NEW d \in Clients
       PROVE  /\ \A i \in 1 .. Len(toServer[d]) : toServer[d][i].id # id
              /\ \A q \in relayed[d] : q.id # id
  <2>1. next[Server] > id
    BY <1>2, <1>5, <1>10 DEF OwnInv, IsData
  <2>2. \A e \in Clients : ~ (next[e] > id)
    BY <2>1, OneOwner, ServerNoClient
  <2>3. QED BY <1>2, <2>2 DEF OwnInv
<1>11. OneFile(id, f)'
  BY <1>2, <1>3, <1>6, <1>7 DEF OneFile
<1>12. InOrder(id)'
  <2>1. ASSUME NEW d \in Clients
        PROVE  /\ Increasing(toServer'[d], id) /\ Increasing(fromServer'[d], id)
               /\ \A q \in relayed'[d] : IsData(q, id) => ~ Has(transfers'[d][id], q.index)
               /\ \A i \in 1 .. Len(fromServer'[d]) :
                    IsData(fromServer'[d][i], id) =>
                      \A k \in Nat : Has(transfers'[d][id], k) => k < fromServer'[d][i].index
    <3>1. Increasing(toServer'[d], id) /\ Increasing(fromServer'[d], id)
      BY <1>2, <1>3, <1>4, <1>5 DEF InOrder
    <3>2. \A q \in relayed'[d] : IsData(q, id) => ~ Has(transfers'[d][id], q.index)
      BY <1>2, <1>3, <1>9, <1>10, ServerNoClient DEF InOrder, IsData
    <3>3. ASSUME NEW i \in 1 .. Len(fromServer'[d]), IsData(fromServer'[d][i], id),
                 NEW k \in Nat, Has(transfers'[d][id], k)
          PROVE  k < fromServer'[d][i].index
      <4>1. CASE d = c
        <5>1. PICK j \in 1 .. Len(fromServer[c]) : fromServer'[c][i] = fromServer[c][j]
          BY <1>6, <3>3, <4>1
        <5>2. Has(transfers[c][id], k) => k < fromServer'[c][i].index
          BY <1>2, <3>3, <4>1, <5>1 DEF InOrder
        <5>3. IsData(p, id) => p.index < fromServer'[c][i].index
          BY <1>5, <3>3, <4>1
        <5>4. Has(transfers[c][id], k) \/ (IsData(p, id) /\ k = p.index)
          BY <1>9, <3>3, <4>1, ServerNoClient
        <5>5. QED BY <4>1, <5>2, <5>3, <5>4
      <4>2. CASE d # c
        BY <1>2, <1>4, <1>9, <3>3, <4>2, ServerNoClient DEF InOrder
      <4>3. QED BY <4>1, <4>2
    <3>4. QED BY <3>1, <3>2, <3>3
  <2>2. ASSUME NEW d \in Clients, NEW i \in 1 .. Len(toServer'[d]),
               IsData(toServer'[d][i], id)
        PROVE  /\ \A m \in Machines : \A k \in Nat :
                    Has(transfers'[m][id], k) => k < toServer'[d][i].index
               /\ \A e \in Clients : \A q \in relayed'[e] :
                    IsData(q, id) => q.index < toServer'[d][i].index
    BY <1>2, <1>3, <1>9, <1>10, <2>2 DEF InOrder, IsData
  <2>3. QED BY <2>1, <2>2 DEF InOrder
<1>13. ASSUME NEW n \in Machines PROVE Behind(id, n)'
  <2>1. SUFFICES ASSUME transfers'[n][id] # None, transfers'[n][id].out
                 PROVE  Behind(id, n)'
    BY DEF Behind
  <2> DEFINE done == transfers[n][id].done
  <2>2. /\ transfers'[n][id].done = done
        /\ \A k \in Machines : \A j \in Nat : Has(transfers[k][id], j) => j <= done
        /\ \A d \in Clients :
             /\ \A i \in 1 .. Len(toServer[d]) :
                  IsData(toServer[d][i], id) => toServer[d][i].index <= done
             /\ \A i \in 1 .. Len(fromServer[d]) :
                  IsData(fromServer[d][i], id) => fromServer[d][i].index <= done
             /\ \A q \in relayed[d] : IsData(q, id) => q.index <= done
        /\ IsData(p, id) => p.index <= done
    BY <1>2, <1>8, <1>9, <2>1 DEF Behind
  <2> HIDE DEF done
  <2>3. \A k \in Machines : \A j \in Nat : Has(transfers'[k][id], j) => j <= done
    BY <1>9, <2>2
  <2>4. ASSUME NEW d \in Clients
        PROVE  /\ \A i \in 1 .. Len(toServer'[d]) :
                    IsData(toServer'[d][i], id) => toServer'[d][i].index <= done
               /\ \A i \in 1 .. Len(fromServer'[d]) :
                    IsData(fromServer'[d][i], id) => fromServer'[d][i].index <= done
               /\ \A q \in relayed'[d] : IsData(q, id) => q.index <= done
    BY <1>3, <1>6, <2>2
  <2>5. QED BY <2>2, <2>3, <2>4 DEF Behind, IsData
<1>14. QED BY <1>9, <1>11, <1>12, <1>13 DEF LoneInv
LEMMA SamePacket ==
  ASSUME NEW p \in Packets, NEW q \in Packets,
         p.kind = q.kind, p.id = q.id, p.file = q.file, p.index = q.index
  PROVE  p = q
BY DEF Packets

LEMMA RelayedLone ==
  ASSUME Basis, NEW id \in Ids, NEW f, LoneInv(id, f), ~ Collision(id),
         NEW c \in Clients, ClientReceiveRelayed(c)
  PROVE  LoneInv(id, f)'
<1>1. PICK p \in relayed[c] :
        /\ relayed' = [relayed EXCEPT ![c] = @ \ {p}]
        /\ Handle(c, p)
        /\ UNCHANGED <<next, toServer, fromServer>>
  BY DEF ClientReceiveRelayed
<1>2. /\ OneFile(id, f) /\ InOrder(id) /\ TypeOK /\ OwnInv
      /\ \A k \in Machines : EntryInv(transfers[k][id], f, saved[k]) /\ Behind(id, k)
      /\ \A k \in Machines, j \in Ids : Good(transfers[k][j])
  BY DEF LoneInv, Basis
<1>3. /\ relayed \in [Clients -> SUBSET Packets]
      /\ relayed'[c] = relayed[c] \ {p}
      /\ \A d \in Clients : relayed'[d] \subseteq relayed[d]
      /\ p \in Packets
  BY <1>1, <1>2 DEF TypeOK
<1>4. p.id = id => p.file = f
  BY <1>2, <1>3 DEF OneFile
<1>5. IsData(p, id) =>
        /\ ~ Has(transfers[c][id], p.index)
        /\ \A d \in Clients : \A i \in 1 .. Len(toServer[d]) :
             IsData(toServer[d][i], id) => p.index < toServer[d][i].index
        /\ \A n \in Machines : (transfers[n][id] # None /\ transfers[n][id].out) =>
             p.index <= transfers[n][id].done
  BY <1>2 DEF InOrder, Behind
<1>6. /\ \A k \in Machines : EntryInv(transfers'[k][id], f, saved'[k])
      /\ \A k \in Machines : \A j :
           Has(transfers'[k][id], j) =>
             \/ Has(transfers[k][id], j)
             \/ k = c /\ IsData(p, id) /\ j = p.index
      /\ \A k \in Machines :
           (transfers'[k][id] # None /\ transfers'[k][id].out) =>
              transfers'[k][id] = transfers[k][id]
  <2>1. c \in Machines /\ TypeOK /\ \A k \in Machines, j \in Ids : Good(transfers[k][j])
    BY <1>2, ServerNoClient
  <2>2. Handle(c, p) /\ p \in Packets
    BY <1>1, <1>3
  <2>3. \A k \in Machines : EntryInv(transfers[k][id], f, saved[k])
    BY <1>2
  <2>4. IsData(p, id) => ~ Has(transfers[c][id], p.index)
    BY <1>5
  <2>5. Handled(c, p, id, f)
    BY <1>4, <2>1, <2>2, <2>3, <2>4, LoneHandle
  <2>6. QED BY <2>5 DEF Handled
<1>7. ASSUME IsData(p, id), NEW d \in Clients, NEW i \in 1 .. Len(fromServer[d])
      PROVE  fromServer[d][i].id # id
  <2>1. PICK e \in Clients : next[e] > id
    BY <1>2, <1>7 DEF OwnInv, IsData
  <2>2. ~ (next[Server] > id)
    BY <2>1, OneOwner, ServerNoClient
  <2>3. QED BY <1>2, <2>2 DEF OwnInv
<1>8. OneFile(id, f)'
  BY <1>1, <1>2, <1>3 DEF OneFile
<1>9. InOrder(id)'
  <2>1. ASSUME NEW d \in Clients
        PROVE  /\ Increasing(toServer'[d], id) /\ Increasing(fromServer'[d], id)
               /\ \A q \in relayed'[d] : IsData(q, id) => ~ Has(transfers'[d][id], q.index)
               /\ \A i \in 1 .. Len(fromServer'[d]) :
                    IsData(fromServer'[d][i], id) =>
                      \A k \in Nat : Has(transfers'[d][id], k) => k < fromServer'[d][i].index
    <3>1. Increasing(toServer'[d], id) /\ Increasing(fromServer'[d], id)
      BY <1>1, <1>2 DEF InOrder
    <3>2. ASSUME NEW q \in relayed'[d], IsData(q, id)
          PROVE  ~ Has(transfers'[d][id], q.index)
      <4>1. q \in relayed[d] /\ q \in Packets
        BY <1>3, <3>2
      <4>2. ~ Has(transfers[d][id], q.index) /\ q.file = f
        BY <1>2, <3>2, <4>1 DEF InOrder, OneFile, IsData
      <4>3. ~ (d = c /\ IsData(p, id) /\ q.index = p.index)
        <5>1. SUFFICES ASSUME d = c, IsData(p, id), q.index = p.index PROVE FALSE
          OBVIOUS
        <5>2. p = q
          BY <1>3, <1>4, <3>2, <4>1, <4>2, <5>1, SamePacket DEF IsData
        <5>3. QED BY <1>3, <3>2, <5>1, <5>2
      <4>4. QED BY <1>6, <4>2, <4>3, ServerNoClient
    <3>3. \A i \in 1 .. Len(fromServer'[d]) :
            IsData(fromServer'[d][i], id) =>
              \A k \in Nat : Has(transfers'[d][id], k) => k < fromServer'[d][i].index
      <4>1. CASE IsData(p, id)
        BY <1>1, <1>7, <4>1 DEF IsData
      <4>2. CASE ~ IsData(p, id)
        BY <1>1, <1>2, <1>6, <4>2, ServerNoClient DEF InOrder
      <4>3. QED BY <4>1, <4>2
    <3>4. QED BY <3>1, <3>2, <3>3
  <2>2. ASSUME NEW d \in Clients, NEW i \in 1 .. Len(toServer'[d]),
               IsData(toServer'[d][i], id)
        PROVE  /\ \A m \in Machines : \A k \in Nat :
                    Has(transfers'[m][id], k) => k < toServer'[d][i].index
               /\ \A e \in Clients : \A q \in relayed'[e] :
                    IsData(q, id) => q.index < toServer'[d][i].index
    <3>1. /\ \A m \in Machines : \A k \in Nat :
               Has(transfers[m][id], k) => k < toServer'[d][i].index
          /\ \A e \in Clients : \A q \in relayed'[e] :
               IsData(q, id) => q.index < toServer'[d][i].index
          /\ IsData(p, id) => p.index < toServer'[d][i].index
      BY <1>1, <1>2, <1>3, <1>5, <2>2 DEF InOrder
    <3>2. QED BY <1>6, <3>1
  <2>3. QED BY <2>1, <2>2 DEF InOrder
<1>10. ASSUME NEW n \in Machines PROVE Behind(id, n)'
  <2>1. SUFFICES ASSUME transfers'[n][id] # None, transfers'[n][id].out
                 PROVE  Behind(id, n)'
    BY DEF Behind
  <2> DEFINE done == transfers[n][id].done
  <2>2. /\ transfers'[n][id].done = done
        /\ \A k \in Machines : \A j \in Nat : Has(transfers[k][id], j) => j <= done
        /\ \A d \in Clients :
             /\ \A i \in 1 .. Len(toServer[d]) :
                  IsData(toServer[d][i], id) => toServer[d][i].index <= done
             /\ \A i \in 1 .. Len(fromServer[d]) :
                  IsData(fromServer[d][i], id) => fromServer[d][i].index <= done
             /\ \A q \in relayed[d] : IsData(q, id) => q.index <= done
        /\ IsData(p, id) => p.index <= done
    BY <1>2, <1>5, <1>6, <2>1 DEF Behind
  <2> HIDE DEF done
  <2>3. \A k \in Machines : \A j \in Nat : Has(transfers'[k][id], j) => j <= done
    BY <1>6, <2>2
  <2>4. ASSUME NEW d \in Clients
        PROVE  /\ \A i \in 1 .. Len(toServer'[d]) :
                    IsData(toServer'[d][i], id) => toServer'[d][i].index <= done
               /\ \A i \in 1 .. Len(fromServer'[d]) :
                    IsData(fromServer'[d][i], id) => fromServer'[d][i].index <= done
               /\ \A q \in relayed'[d] : IsData(q, id) => q.index <= done
    BY <1>1, <1>3, <2>2
  <2>5. QED BY <2>2, <2>3, <2>4 DEF Behind, IsData
<1>11. QED BY <1>6, <1>8, <1>9, <1>10 DEF LoneInv
LEMMA HeaderLone ==
  ASSUME Basis, NEW id \in Ids, NEW f, LoneInv(id, f),
         NEW m \in Machines, NEW sent \in Ids, SendHeader(m, sent)
  PROVE  LoneInv(id, f)'
<1>1. TypeOK /\ \A k \in Machines : EntryInv(transfers[k][id], f, saved[k])
  BY DEF Basis, LoneInv
<1>2. PICK p : p = Header(sent, transfers[m][sent].file)
  OBVIOUS
<1>3. /\ transfers[m][sent] # None /\ Good(transfers[m][sent])
      /\ SendPacket(m, p) /\ UNCHANGED <<transfers, relayed, saved>>
  BY <1>2 DEF SendHeader, Sending, Basis
<1>4. /\ p \in Packets /\ ~ IsData(p, id) /\ p.id = sent
      /\ p.file = transfers[m][sent].file
  <2>1. transfers[m][sent].file \in Files
    BY <1>3 DEF Good, Entries
  <2>2. QED BY <1>2, <2>1 DEF Header, Packets, IsData
<1>5. p.id = id => p.file = f
  BY <1>1, <1>3, <1>4 DEF EntryInv
<1>6. /\ \A k \in Machines : EntryInv(transfers'[k][id], f, saved[k])
      /\ \A k \in Machines : \A j : Has(transfers'[k][id], j) => Has(transfers[k][id], j)
  BY <1>1, <1>3
<1>7. \A n \in Machines : Behind(id, n) =>
        ((transfers'[n][id] # None /\ transfers'[n][id].out) =>
           /\ \A k \in Machines : \A j \in Nat :
                Has(transfers[k][id], j) => j <= transfers'[n][id].done
           /\ \A c \in Clients :
                /\ \A i \in 1 .. Len(toServer[c]) :
                     IsData(toServer[c][i], id) => toServer[c][i].index <= transfers'[n][id].done
                /\ \A i \in 1 .. Len(fromServer[c]) :
                     IsData(fromServer[c][i], id) => fromServer[c][i].index <= transfers'[n][id].done
                /\ \A q \in relayed[c] :
                     IsData(q, id) => q.index <= transfers'[n][id].done
           /\ IsData(p, id) => p.index <= transfers'[n][id].done)
  BY <1>3, <1>4 DEF Behind
<1>8. QED BY <1>1, <1>3, <1>4, <1>5, <1>6, <1>7, SendLone

(* What is sent has the number after all that was sent and has come.       *)
LEMMA ChunkSent ==
  ASSUME Basis, NEW m \in Machines, NEW id \in Ids, SendChunk(m, id)
  PROVE  LET t == transfers[m][id]
             e == transfers'[m][id]
             p == Data(id, t.file, t.done + 1)
         IN /\ t # None /\ t.out /\ t.done \in Nat /\ t.done + 1 \in Nat
            /\ p \in Packets /\ p.kind = "data" /\ p.id = id /\ p.file = t.file
            /\ p.index = t.done + 1
            /\ SendPacket(m, p)
            /\ e # None /\ e.out /\ e.file = t.file /\ e.done = t.done + 1 /\ Good(e)
            /\ \A n \in Machines, k \in Ids :
                 (n # m \/ k # id) => transfers'[n][k] = transfers[n][k]
            /\ transfers' \in [Machines -> [Ids -> Entries \cup {None}]]
            /\ next[m] > id
            /\ UNCHANGED <<next, headerSent, relayed, saved, starts, cleanups>>
<1> DEFINE t == transfers[m][id]
           n == t.done + 1
           complete == n = Chunks[t.file]
           e == Transfer(TRUE, t.file, n, complete, <<>>)
           p == Data(id, t.file, n)
<1>1. /\ t # None /\ t.out /\ t.done < Chunks[t.file] /\ SendPacket(m, p)
      /\ transfers' = [transfers EXCEPT ![m][id] = e]
      /\ UNCHANGED <<next, headerSent, relayed, saved, starts, cleanups>>
  BY DEF SendChunk, Sending, NextIndex
<1>2. /\ t \in Entries /\ t.done \in 0 .. Chunks[t.file]
      /\ next[m] > id
      /\ transfers \in [Machines -> [Ids -> Entries \cup {None}]]
  BY <1>1 DEF Basis, Good, TypeOK, OwnInv
<1>3. t.file \in Files /\ Chunks[t.file] \in Nat
  BY <1>2, ChunksAssumption DEF Entries
<1>4. t.done \in Nat /\ n \in Nat /\ n \in 1 .. Chunks[t.file] /\ n \in 0 .. Chunks[t.file]
  <2> HIDE DEF t
  <2>1. QED BY <1>1, <1>2, <1>3, SMT
<1>5. p \in Packets /\ p.kind = "data" /\ p.id = id /\ p.file = t.file /\ p.index = n
  <2> HIDE DEF t, n
  <2>1. QED BY <1>3, <1>4 DEF Data, Packets
<1>6. /\ e \in Entries /\ e.out /\ e.file = t.file /\ e.done = n /\ e.buffer = <<>>
  <2>1. <<>> \in Buffers
    BY EmptySeq DEF Buffers
  <2>2. complete \in BOOLEAN
    OBVIOUS
  <2> HIDE DEF t, n, complete
  <2>3. e \in Entries
    BY <1>3, <1>4, <2>1, <2>2 DEF Transfer, Entries
  <2>4. e.out /\ e.file = t.file /\ e.done = n /\ e.buffer = <<>>
    BY DEF Transfer
  <2>5. QED BY <2>3, <2>4
<1> HIDE DEF e
<1>7. e # None
  BY <1>6, NoneAssumption
<1>8. Good(e)
  BY <1>4, <1>6 DEF Good, BufferFits, Unfinished
<1>9. /\ transfers'[m][id] = e
      /\ \A k \in Machines, j \in Ids :
           (k # m \/ j # id) => transfers'[k][j] = transfers[k][j]
      /\ transfers' \in [Machines -> [Ids -> Entries \cup {None}]]
  BY <1>1, <1>2, <1>6
<1>10. QED BY <1>1, <1>2, <1>4, <1>5, <1>6, <1>7, <1>8, <1>9
LEMMA ChunkLone ==
  ASSUME Basis, NEW id \in Ids, NEW f, LoneInv(id, f), ~ Collision(id),
         NEW m \in Machines, NEW sent \in Ids, SendChunk(m, sent)
  PROVE  LoneInv(id, f)'
<1>1. /\ TypeOK /\ OwnInv
      /\ \A k \in Machines : EntryInv(transfers[k][id], f, saved[k]) /\ Behind(id, k)
  BY DEF Basis, LoneInv
<1>2. PICK t, p : t = transfers[m][sent] /\ p = Data(sent, t.file, t.done + 1)
  OBVIOUS
<1>3. /\ t # None /\ t.out /\ t.done \in Nat
      /\ p \in Packets /\ p.id = sent /\ p.file = t.file /\ p.index = t.done + 1
      /\ SendPacket(m, p)
      /\ transfers'[m][sent] # None /\ transfers'[m][sent].out
      /\ transfers'[m][sent].file = t.file /\ transfers'[m][sent].done = t.done + 1
      /\ \A n \in Machines, k \in Ids :
           (n # m \/ k # sent) => transfers'[n][k] = transfers[n][k]
      /\ next[m] > sent
      /\ UNCHANGED <<relayed, saved>>
  BY <1>2, ChunkSent
<1>4. p.id = id => p.file = f
  BY <1>1, <1>2, <1>3 DEF EntryInv
<1>5. \A k \in Machines : EntryInv(transfers'[k][id], f, saved[k])
  <2>1. ASSUME NEW k \in Machines, k # m \/ id # sent
        PROVE  EntryInv(transfers'[k][id], f, saved[k])
    BY <1>1, <1>3, <2>1
  <2>2. id = sent => EntryInv(transfers'[m][id], f, saved[m])
    BY <1>3, <1>4 DEF EntryInv
  <2>3. QED BY <2>1, <2>2
<1>6. \A k \in Machines : \A j : Has(transfers'[k][id], j) => Has(transfers[k][id], j)
  BY <1>3 DEF Has
<1>7. \A c \in Clients :
        /\ \A i \in 1 .. Len(toServer[c]) : toServer[c][i].index \in Nat
        /\ \A i \in 1 .. Len(fromServer[c]) : fromServer[c][i].index \in Nat
        /\ \A q \in relayed[c] : q.index \in Nat
  <2>1. \A q \in Packets : q.index \in Nat
    BY DEF Packets
  <2>2. ASSUME NEW c \in Clients
        PROVE  /\ toServer[c] \in Seq(Packets) /\ fromServer[c] \in Seq(Packets)
               /\ relayed[c] \subseteq Packets
    BY <1>1 DEF TypeOK
  <2>3. QED BY <2>1, <2>2, ElementOfSeq
<1>8. ASSUME IsData(p, id)
      PROVE  /\ \A k \in Machines : \A j \in Nat : Has(transfers[k][id], j) => j < p.index
             /\ \A c \in Clients :
                  /\ \A i \in 1 .. Len(toServer[c]) :
                       IsData(toServer[c][i], id) => toServer[c][i].index < p.index
                  /\ \A i \in 1 .. Len(fromServer[c]) :
                       IsData(fromServer[c][i], id) => fromServer[c][i].index < p.index
                  /\ \A q \in relayed[c] : IsData(q, id) => q.index < p.index
  <2>1. /\ \A k \in Machines : \A j \in Nat : Has(transfers[k][id], j) => j <= t.done
        /\ \A c \in Clients :
             /\ \A i \in 1 .. Len(toServer[c]) :
                  IsData(toServer[c][i], id) => toServer[c][i].index <= t.done
             /\ \A i \in 1 .. Len(fromServer[c]) :
                  IsData(fromServer[c][i], id) => fromServer[c][i].index <= t.done
             /\ \A q \in relayed[c] : IsData(q, id) => q.index <= t.done
    BY <1>1, <1>2, <1>3, <1>8 DEF IsData, Behind
  <2>2. \A j \in Nat : j <= t.done => j < t.done + 1
    BY <1>3, SMT
  <2>3. QED BY <1>3, <1>7, <2>1, <2>2
<1>9. ASSUME NEW n \in Machines, Behind(id, n),
             transfers'[n][id] # None, transfers'[n][id].out
      PROVE  /\ \A k \in Machines : \A j \in Nat :
                  Has(transfers[k][id], j) => j <= transfers'[n][id].done
             /\ \A c \in Clients :
                  /\ \A i \in 1 .. Len(toServer[c]) :
                       IsData(toServer[c][i], id) => toServer[c][i].index <= transfers'[n][id].done
                  /\ \A i \in 1 .. Len(fromServer[c]) :
                       IsData(fromServer[c][i], id) => fromServer[c][i].index <= transfers'[n][id].done
                  /\ \A q \in relayed[c] :
                       IsData(q, id) => q.index <= transfers'[n][id].done
             /\ IsData(p, id) => p.index <= transfers'[n][id].done
  <2>1. CASE IsData(p, id)
    <3>1. n = m
      <4>1. SUFFICES ASSUME n # m PROVE FALSE
        OBVIOUS
      <4>2. next[m] > id /\ next[n] > id
        BY <1>1, <1>3, <1>9, <2>1, <4>1 DEF IsData, OwnInv
      <4>3. QED BY <4>1, <4>2, OneOwner
    <3>2. transfers'[n][id].done = p.index
      BY <1>3, <2>1, <3>1 DEF IsData
    <3>3. \A j \in Nat : j < p.index => j <= p.index
      BY <1>3, SMT
    <3>4. p.index <= p.index
      BY <1>3, SMT
    <3>5. QED BY <1>7, <1>8, <2>1, <3>2, <3>3, <3>4
  <2>2. CASE ~ IsData(p, id)
    <3>1. p.kind = "data"
      BY <1>2 DEF Data
    <3>2. transfers'[n][id] = transfers[n][id]
      BY <1>3, <2>2, <3>1 DEF IsData
    <3>3. QED BY <1>9, <2>2, <3>2 DEF Behind
  <2>3. QED BY <2>1, <2>2
<1>10. QED BY <1>1, <1>3, <1>4, <1>5, <1>6, <1>8, <1>9, SendLone

LEMMA CleanupLone ==
  ASSUME Basis, NEW id \in Ids, NEW f, LoneInv(id, f), NEW m \in Machines, Cleanup(m)
  PROVE  LoneInv(id, f)'
<1>1. /\ transfers \in [Machines -> [Ids -> Entries \cup {None}]]
      /\ UNCHANGED <<toServer, fromServer, relayed, saved>>
  BY DEF Basis, TypeOK, Cleanup
<1>2. \A k \in Machines :
        transfers'[k][id] = transfers[k][id] \/ transfers'[k][id] = None
  BY <1>1 DEF Cleanup
<1>3. QED BY <1>1, <1>2, QuietLone

(* A new number is nobody's if it is a lone one, so that nothing of it is  *)
(* anywhere.                                                               *)
LEMMA StartFacts ==
  ASSUME Basis, NEW m \in Machines, NEW f \in Files, StartTransfer(m, f)
  PROVE  /\ next[m] \in Ids /\ next[m] \in Nat /\ starts' \in 0 .. MaxStarts
         /\ starts \in Nat /\ starts' = starts + 1
         /\ next' \in [Machines -> 1 .. MaxStarts + 1]
         /\ next'[m] = next[m] + 1 /\ next[m] \in Nat
         /\ \A k \in Machines : next[k] \in Nat /\ next[k] <= next'[k]
         /\ \A k \in Machines : k # m => next'[k] = next[k]
         /\ transfers'[m][next[m]] # None
         /\ transfers'[m][next[m]].out /\ transfers'[m][next[m]].file = f
         /\ Good(transfers'[m][next[m]])
         /\ transfers' \in [Machines -> [Ids -> Entries \cup {None}]]
         /\ \A n \in Machines, id \in Ids :
              (n # m \/ id # next[m]) => transfers'[n][id] = transfers[n][id]
         /\ UNCHANGED <<headerSent, toServer, fromServer, relayed, saved, cleanups>>
<1> DEFINE e == Transfer(TRUE, f, 0, FALSE, <<>>)
<1>1. /\ next \in [Machines -> 1 .. MaxStarts + 1] /\ starts \in 0 .. MaxStarts
      /\ next[m] <= starts + 1
      /\ transfers \in [Machines -> [Ids -> Entries \cup {None}]]
  BY DEF Basis, TypeOK, OwnInv
<1>2. /\ starts < MaxStarts /\ starts' = starts + 1
      /\ next' = [next EXCEPT ![m] = @ + 1]
      /\ transfers' = [transfers EXCEPT ![m][next[m]] = e]
      /\ UNCHANGED <<headerSent, toServer, fromServer, relayed, saved, cleanups>>
  BY DEF StartTransfer
<1>3. /\ next[m] \in Ids /\ next[m] \in Nat /\ starts' \in 0 .. MaxStarts /\ starts \in Nat
      /\ next[m] + 1 \in 1 .. MaxStarts + 1
      /\ \A k \in Machines : next[k] \in Nat
  <2>1. MaxStarts \in Nat
    BY BoundsAssumption
  <2>2. \A k \in Machines : next[k] \in 1 .. MaxStarts + 1
    BY <1>1
  <2>3. QED BY <1>1, <1>2, <2>1, <2>2, SMT DEF Ids
<1>4. /\ next' \in [Machines -> 1 .. MaxStarts + 1] /\ next'[m] = next[m] + 1
      /\ \A k \in Machines : k # m => next'[k] = next[k]
  BY <1>1, <1>2, <1>3
<1>5. \A k \in Machines : next[k] <= next'[k]
  BY <1>3, <1>4, SMT
<1>6. e \in Entries /\ e.out /\ e.file = f /\ e.done = 0 /\ e.buffer = <<>>
  <2>1. <<>> \in Buffers
    BY EmptySeq DEF Buffers
  <2>2. e \in Entries
    BY <2>1 DEF Transfer, Entries
  <2>3. QED BY <2>2 DEF Transfer
<1> HIDE DEF e
<1>7. e # None
  BY <1>6, NoneAssumption
<1>8. Good(e)
  <2>1. 0 \in 0 .. Chunks[f]
    BY ChunksAssumption, SMT
  <2>2. QED BY <1>6, <2>1 DEF Good, BufferFits, Unfinished
<1>9. /\ transfers'[m][next[m]] = e
      /\ \A k \in Machines, j \in Ids :
           (k # m \/ j # next[m]) => transfers'[k][j] = transfers[k][j]
      /\ transfers' \in [Machines -> [Ids -> Entries \cup {None}]]
  BY <1>1, <1>2, <1>3, <1>6
<1>10. QED BY <1>2, <1>3, <1>4, <1>5, <1>6, <1>7, <1>8, <1>9
LEMMA StartLone ==
  ASSUME Basis,
         \A id \in Ids : (Used(id) /\ ~ Collision(id)) => \E f \in Files : LoneInv(id, f),
         NEW m \in Machines, NEW g \in Files, StartTransfer(m, g),
         NEW id \in Ids, Used(id)', ~ Collision(id)'
  PROVE  \E f \in Files : LoneInv(id, f)'
<1>1. TypeOK /\ OwnInv
  BY DEF Basis
<1>2. /\ next'[m] = next[m] + 1 /\ next[m] \in Nat
      /\ \A k \in Machines : next[k] \in Nat /\ next[k] <= next'[k]
      /\ \A k \in Machines : k # m => next'[k] = next[k]
      /\ transfers'[m][next[m]] # None
      /\ transfers'[m][next[m]].out /\ transfers'[m][next[m]].file = g
      /\ \A n \in Machines, k \in Ids :
           (n # m \/ k # next[m]) => transfers'[n][k] = transfers[n][k]
      /\ UNCHANGED <<toServer, fromServer, relayed, saved>>
  BY StartFacts
<1>3. id \in Nat /\ \A k \in Machines : next'[k] \in Nat
  BY <1>2, SMT DEF Ids
<1>4. \A k \in Machines : next[k] > id => next'[k] > id
  BY <1>2, <1>3, SMT
<1>5. CASE Used(id)
  <2>1. ~ Collision(id)
    BY <1>4 DEF Collision
  <2>2. PICK f \in Files : LoneInv(id, f)
    BY <1>5, <2>1
  <2>3. id # next[m]
    <3>1. SUFFICES ASSUME id = next[m] PROVE FALSE
      OBVIOUS
    <3>2. PICK n \in Machines : next[n] > id
      BY <1>5 DEF Used
    <3>3. n # m /\ next'[m] > id
      BY <1>2, <1>3, <3>1, <3>2, SMT
    <3>4. QED BY <1>4, <3>2, <3>3 DEF Collision
  <2>4. \A k \in Machines : transfers'[k][id] = transfers[k][id]
    BY <1>2, <2>3
  <2>5. LoneInv(id, f)'
    BY <1>2, <2>2, <2>4, QuietLone
  <2>6. QED BY <2>5
<1>6. CASE ~ Used(id)
  <2>1. id = next[m]
    <3>1. PICK n \in Machines : next'[n] > id
      BY DEF Used
    <3>2. ~ (next[n] > id) /\ n = m
      BY <1>2, <1>6, <3>1 DEF Used
    <3>3. QED BY <1>2, <1>3, <3>1, <3>2, SMT
  <2>2. \A k \in Machines : transfers[k][id] = None
    BY <1>1, <1>6 DEF OwnInv, Used
  <2>3. \A c \in Clients :
          /\ \A i \in 1 .. Len(toServer'[c]) : toServer'[c][i].id # id
          /\ \A i \in 1 .. Len(fromServer'[c]) : fromServer'[c][i].id # id
          /\ \A q \in relayed'[c] : q.id # id
    BY <1>1, <1>2, <1>6, ServerNoClient DEF OwnInv, Used
  <2>4. \A k \in Machines :
          transfers'[k][id] # None => transfers'[k][id].out /\ transfers'[k][id].file = g
    BY <1>2, <2>1, <2>2
  <2>5. \A k \in Machines : \A j : ~ Has(transfers'[k][id], j)
    BY <2>4 DEF Has
  <2>6. OneFile(id, g)'
    BY <2>3 DEF OneFile
  <2>7. \A k \in Machines : EntryInv(transfers[k][id], g, saved[k])'
    BY <2>4 DEF EntryInv
  <2>8. InOrder(id)'
    BY <2>3 DEF InOrder, Increasing, IsData
  <2>9. \A n \in Machines : Behind(id, n)'
    BY <2>3, <2>5 DEF Behind, IsData
  <2>10. QED BY <2>6, <2>7, <2>8, <2>9 DEF LoneInv
<1>7. QED BY <1>5, <1>6
-----------------------------------------------------------------------------
(* Types and owners.                                                       *)

(* An outgoing entry is never touched by a chunk, nor made by one.         *)
LEMMA DataOut ==
  ASSUME NEW t, Good(t), NEW p \in Packets, p.kind = "data"
  PROVE  /\ AfterData(t, p) # None => t # None
         /\ AfterData(t, p).out => AfterData(t, p) = t
<1>1. CASE ~ (Awaits(t) /\ Fits(t, p))
  BY <1>1 DEF AfterData
<1>2. CASE Awaits(t) /\ Fits(t, p)
  <2>1. t # None
    BY <1>2 DEF Awaits
  <2>2. ~ AfterData(t, p).out
    BY <1>2 DEF AfterData, Transfer
  <2>3. QED BY <2>1, <2>2
<1>3. QED BY <1>1, <1>2

EntriesOwned ==
  \A m \in Machines, id \in Ids :
    transfers[m][id] # None => Used(id) /\ (transfers[m][id].out => next[m] > id)

PacketsOwned ==
  \A c \in Clients :
    /\ \A i \in 1 .. Len(toServer[c]) : next[c] > toServer[c][i].id
    /\ \A i \in 1 .. Len(fromServer[c]) : next[Server] > fromServer[c][i].id
    /\ \A p \in relayed[c] : \E d \in Clients : next[d] > p.id

LEMMA OwnParts ==
  OwnInv <=> /\ \A m \in Machines : next[m] <= starts + 1
             /\ PacketsOwned /\ EntriesOwned
BY DEF OwnInv, PacketsOwned, EntriesOwned, Used

LEMMA HandleOwned ==
  ASSUME Basis, NEW m \in Machines, NEW p \in Packets, Handle(m, p), Used(p.id),
         next' = next
  PROVE  /\ EntriesOwned'
         /\ transfers' \in [Machines -> [Ids -> Entries \cup {None}]]
         /\ saved' \in [Machines -> SUBSET Files]
         /\ \A k \in Machines, id \in Ids : Good(transfers'[k][id])
<1>1. TypeOK /\ OwnInv /\ \A k \in Machines, id \in Ids : Good(transfers[k][id])
  BY DEF Basis
<1>2. /\ transfers' \in [Machines -> [Ids -> Entries \cup {None}]]
      /\ saved' \in [Machines -> SUBSET Files]
      /\ \A k \in Machines, id \in Ids : Good(transfers'[k][id])
      /\ \A k \in Machines, id \in Ids :
           (k # m \/ id # p.id) => transfers'[k][id] = transfers[k][id]
      /\ p.id \in Ids
      /\ IF p.kind = "header"
         THEN transfers'[m][p.id] = AfterHeader(transfers[m][p.id], p)
         ELSE /\ p.kind = "data"
              /\ transfers'[m][p.id] = AfterData(transfers[m][p.id], p)
  BY <1>1, HandleOutcome
<1>3. transfers'[m][p.id].out => transfers'[m][p.id] = transfers[m][p.id]
  <2>1. Good(transfers[m][p.id])
    BY <1>1, <1>2
  <2>2. CASE p.kind = "header"
    BY <1>2, <2>1, <2>2, HeaderEntry
  <2>3. CASE p.kind # "header"
    BY <1>2, <2>1, <2>3, DataOut
  <2>4. QED BY <2>2, <2>3
<1>4. EntriesOwned
  BY <1>1, OwnParts
<1>5. \A id : Used(id)' <=> Used(id)
  BY DEF Used
<1>6. EntriesOwned'
  BY <1>2, <1>3, <1>4, <1>5 DEF EntriesOwned
<1>7. QED BY <1>2, <1>6

LEMMA SendOwned ==
  ASSUME Basis, NEW m \in Machines, NEW p \in Packets, SendPacket(m, p),
         next[m] > p.id, UNCHANGED <<next, relayed>>
  PROVE  /\ PacketsOwned'
         /\ toServer' \in [Clients -> Seq(Packets)]
         /\ fromServer' \in [Clients -> Seq(Packets)]
<1>1. TypeOK /\ PacketsOwned
  BY OwnParts DEF Basis
<1>2. /\ toServer \in [Clients -> Seq(Packets)] /\ fromServer \in [Clients -> Seq(Packets)]
  BY <1>1 DEF TypeOK
<1>3. \A c \in Clients :
        /\ toServer[c] \in Seq(Packets) /\ fromServer[c] \in Seq(Packets)
        /\ Append(toServer[c], p) \in Seq(Packets) /\ Append(fromServer[c], p) \in Seq(Packets)
        /\ \A i \in 1 .. Len(Append(toServer[c], p)) :
             \/ i \in 1 .. Len(toServer[c]) /\ Append(toServer[c], p)[i] = toServer[c][i]
             \/ Append(toServer[c], p)[i] = p
        /\ \A i \in 1 .. Len(Append(fromServer[c], p)) :
             \/ i \in 1 .. Len(fromServer[c]) /\ Append(fromServer[c], p)[i] = fromServer[c][i]
             \/ Append(fromServer[c], p)[i] = p
  BY <1>2, Lengthened
<1>4. CASE m = Server
  <2>1. /\ fromServer' = [c \in Clients |-> Append(fromServer[c], p)]
        /\ toServer' = toServer
    BY <1>4 DEF SendPacket
  <2>2. QED BY <1>1, <1>2, <1>3, <1>4, <2>1 DEF PacketsOwned
<1>5. CASE m # Server
  <2>1. /\ m \in Clients /\ fromServer' = fromServer
        /\ toServer' = [toServer EXCEPT ![m] = Append(@, p)]
    BY <1>5 DEF SendPacket, Machines
  <2>2. QED BY <1>1, <1>2, <1>3, <2>1 DEF PacketsOwned
<1>6. QED BY <1>4, <1>5
(* What is left to show of Basis when every entry is good.                 *)
LEMMA BasisParts ==
  ASSUME /\ transfers' \in [Machines -> [Ids -> Entries \cup {None}]]
         /\ \A m \in Machines, id \in Ids : Good(transfers'[m][id])
         /\ next' \in [Machines -> 1 .. MaxStarts + 1]
         /\ headerSent' \in [Machines -> SUBSET Ids]
         /\ toServer' \in [Clients -> Seq(Packets)]
         /\ fromServer' \in [Clients -> Seq(Packets)]
         /\ relayed' \in [Clients -> SUBSET Packets]
         /\ saved' \in [Machines -> SUBSET Files]
         /\ starts' \in 0 .. MaxStarts
         /\ cleanups' \in 0 .. MaxCleanups,
         \A m \in Machines : next'[m] <= starts' + 1,
         PacketsOwned', EntriesOwned'
  PROVE  Basis'
<1>1. OwnInv'
  BY DEF OwnInv, PacketsOwned, EntriesOwned, Used
<1>2. TypeOK'
  BY DEF TypeOK, Good
<1>3. QED BY <1>1, <1>2 DEF Basis

LEMMA BasisFacts ==
  ASSUME Basis
  PROVE  /\ TypeOK /\ \A m \in Machines, id \in Ids : Good(transfers[m][id])
         /\ \A m \in Machines : next[m] <= starts + 1
         /\ PacketsOwned /\ EntriesOwned
         /\ transfers \in [Machines -> [Ids -> Entries \cup {None}]]
         /\ next \in [Machines -> 1 .. MaxStarts + 1]
         /\ headerSent \in [Machines -> SUBSET Ids]
         /\ toServer \in [Clients -> Seq(Packets)]
         /\ fromServer \in [Clients -> Seq(Packets)]
         /\ relayed \in [Clients -> SUBSET Packets]
         /\ saved \in [Machines -> SUBSET Files]
         /\ starts \in 0 .. MaxStarts
         /\ cleanups \in 0 .. MaxCleanups
BY OwnParts DEF Basis, TypeOK

LEMMA BasisStart ==
  ASSUME Basis, NEW m \in Machines, NEW f \in Files, StartTransfer(m, f)
  PROVE  Basis'
<1>1. /\ next[m] \in Ids /\ next[m] \in Nat /\ starts' \in 0 .. MaxStarts
      /\ starts \in Nat /\ starts' = starts + 1
      /\ next' \in [Machines -> 1 .. MaxStarts + 1]
      /\ next'[m] = next[m] + 1 /\ next[m] \in Nat
      /\ \A k \in Machines : next[k] \in Nat /\ next[k] <= next'[k]
      /\ \A k \in Machines : k # m => next'[k] = next[k]
      /\ Good(transfers'[m][next[m]])
      /\ transfers' \in [Machines -> [Ids -> Entries \cup {None}]]
      /\ \A n \in Machines, id \in Ids :
           (n # m \/ id # next[m]) => transfers'[n][id] = transfers[n][id]
      /\ UNCHANGED <<headerSent, toServer, fromServer, relayed, saved, cleanups>>
  BY StartFacts
<1>2. \A k \in Machines : next'[k] <= starts' + 1
  <2>1. ASSUME NEW k \in Machines PROVE next'[k] <= starts' + 1
    <3>1. /\ next[k] \in Nat /\ next[k] <= starts + 1
          /\ next'[k] = next[k] \/ next'[k] = next[k] + 1
      BY <1>1, BasisFacts
    <3>2. QED BY <1>1, <3>1, SMT
  <2>2. QED BY <2>1
<1>3. ASSUME NEW k \in Machines, NEW id \in Nat, next[k] > id
      PROVE  next'[k] > id
  <2>1. next[k] \in Nat /\ (next'[k] = next[k] \/ next'[k] = next[k] + 1)
    BY <1>1
  <2>2. QED BY <1>3, <2>1, SMT
<1>4. \A id \in Ids : id \in Nat
  BY SMT DEF Ids
<1>5. \A p \in Packets : p.id \in Nat
  BY <1>4, PacketTypes
<1>6. PacketsOwned'
  <2>1. ASSUME NEW c \in Clients
        PROVE  /\ \A i \in 1 .. Len(toServer[c]) : toServer[c][i].id \in Nat
               /\ \A i \in 1 .. Len(fromServer[c]) : fromServer[c][i].id \in Nat
               /\ \A q \in relayed[c] : q.id \in Nat
    <3>1. /\ toServer[c] \in Seq(Packets) /\ fromServer[c] \in Seq(Packets)
          /\ relayed[c] \subseteq Packets
      BY BasisFacts
    <3>2. QED BY <1>5, <3>1, ElementOfSeq
  <2>2. PacketsOwned
    BY BasisFacts
  <2>3. QED BY <1>1, <1>3, <2>1, <2>2, ServerNoClient DEF PacketsOwned
<1>7. EntriesOwned'
  <2>1. EntriesOwned
    BY BasisFacts
  <2>2. \A id \in Ids : Used(id) => Used(id)'
    BY <1>3, <1>4 DEF Used
  <2>3. next'[m] > next[m]
    BY <1>1, SMT
  <2>4. ASSUME NEW n \in Machines, NEW id \in Ids, transfers'[n][id] # None
        PROVE  Used(id)' /\ (transfers'[n][id].out => next'[n] > id)
    <3>1. CASE n = m /\ id = next[m]
      BY <2>3, <3>1 DEF Used
    <3>2. CASE n # m \/ id # next[m]
      BY <1>1, <1>3, <1>4, <2>1, <2>2, <2>4, <3>2 DEF EntriesOwned
    <3>3. QED BY <3>1, <3>2
  <2>5. QED BY <2>4 DEF EntriesOwned
<1>8. \A k \in Machines, id \in Ids : Good(transfers'[k][id])
  BY <1>1, BasisFacts
<1>9. QED BY <1>1, <1>2, <1>6, <1>7, <1>8, BasisFacts, BasisParts
LEMMA BasisHeader ==
  ASSUME Basis, NEW m \in Machines, NEW id \in Ids, SendHeader(m, id)
  PROVE  Basis'
<1>1. PICK p : p = Header(id, transfers[m][id].file)
  OBVIOUS
<1>2. /\ transfers[m][id] # None /\ transfers[m][id].out /\ Good(transfers[m][id])
      /\ SendPacket(m, p)
      /\ headerSent' = [headerSent EXCEPT ![m] = @ \cup {id}]
      /\ UNCHANGED <<transfers, next, relayed, saved, starts, cleanups>>
  BY <1>1, BasisFacts DEF SendHeader, Sending
<1>3. p \in Packets /\ p.id = id
  <2>1. transfers[m][id].file \in Files
    BY <1>2 DEF Good, Entries
  <2>2. QED BY <1>1, <2>1 DEF Header, Packets
<1>4. next[m] > p.id
  BY <1>2, <1>3, BasisFacts DEF EntriesOwned
<1>5. /\ PacketsOwned'
      /\ toServer' \in [Clients -> Seq(Packets)]
      /\ fromServer' \in [Clients -> Seq(Packets)]
  BY <1>2, <1>3, <1>4, SendOwned
<1>6. EntriesOwned'
  BY <1>2, BasisFacts DEF EntriesOwned, Used
<1>7. /\ headerSent' \in [Machines -> SUBSET Ids]
      /\ \A k \in Machines, j \in Ids : Good(transfers'[k][j])
      /\ \A k \in Machines : next'[k] <= starts' + 1
  BY <1>2, BasisFacts
<1>8. QED BY <1>2, <1>5, <1>6, <1>7, BasisFacts, BasisParts

LEMMA BasisChunk ==
  ASSUME Basis, NEW m \in Machines, NEW id \in Ids, SendChunk(m, id)
  PROVE  Basis'
<1>1. PICK t, p : t = transfers[m][id] /\ p = Data(id, t.file, t.done + 1)
  OBVIOUS
<1>2. /\ p \in Packets /\ p.id = id /\ SendPacket(m, p) /\ next[m] > id
      /\ Good(transfers'[m][id])
      /\ \A n \in Machines, k \in Ids :
           (n # m \/ k # id) => transfers'[n][k] = transfers[n][k]
      /\ transfers' \in [Machines -> [Ids -> Entries \cup {None}]]
      /\ UNCHANGED <<next, headerSent, relayed, saved, starts, cleanups>>
  BY <1>1, ChunkSent
<1>3. /\ PacketsOwned'
      /\ toServer' \in [Clients -> Seq(Packets)]
      /\ fromServer' \in [Clients -> Seq(Packets)]
  BY <1>2, SendOwned
<1>4. EntriesOwned'
  BY <1>2, BasisFacts DEF EntriesOwned, Used
<1>5. /\ \A k \in Machines, j \in Ids : Good(transfers'[k][j])
      /\ \A k \in Machines : next'[k] <= starts' + 1
  BY <1>2, BasisFacts
<1>6. QED BY <1>2, <1>3, <1>4, <1>5, BasisFacts, BasisParts

LEMMA BasisServer ==
  ASSUME Basis, NEW c \in Clients, ServerReceive(c)
  PROVE  Basis'
<1>1. PICK p : p = Head(toServer[c])
  OBVIOUS
<1>2. /\ toServer[c] # <<>> /\ toServer' = [toServer EXCEPT ![c] = Tail(@)]
      /\ Handle(Server, p)
      /\ relayed' = [d \in Clients |-> relayed[d] \cup {p}]
      /\ UNCHANGED <<next, headerSent, fromServer, starts, cleanups>>
  BY <1>1 DEF ServerReceive
<1>3. /\ p \in Packets /\ p = toServer[c][1] /\ 1 \in 1 .. Len(toServer[c])
      /\ Tail(toServer[c]) \in Seq(Packets)
      /\ \A i \in 1 .. Len(Tail(toServer[c])) :
           i + 1 \in 1 .. Len(toServer[c]) /\ Tail(toServer[c])[i] = toServer[c][i + 1]
  <2>1. toServer[c] \in Seq(Packets)
    BY BasisFacts
  <2>2. QED BY <1>1, <1>2, <2>1, Shortened
<1>4. next[c] > p.id /\ Used(p.id)
  BY <1>3, BasisFacts, ServerNoClient DEF PacketsOwned, Used
<1>5. /\ EntriesOwned'
      /\ transfers' \in [Machines -> [Ids -> Entries \cup {None}]]
      /\ saved' \in [Machines -> SUBSET Files]
      /\ \A k \in Machines, id \in Ids : Good(transfers'[k][id])
  BY <1>2, <1>3, <1>4, HandleOwned, ServerNoClient
<1>6. /\ toServer' \in [Clients -> Seq(Packets)]
      /\ toServer'[c] = Tail(toServer[c])
      /\ \A d \in Clients : d # c => toServer'[d] = toServer[d]
      /\ relayed' \in [Clients -> SUBSET Packets]
  BY <1>2, <1>3, BasisFacts
<1>7. PacketsOwned'
  BY <1>2, <1>3, <1>4, <1>6, BasisFacts DEF PacketsOwned
<1>8. \A k \in Machines : next'[k] <= starts' + 1
  BY <1>2, BasisFacts
<1>9. QED BY <1>2, <1>5, <1>6, <1>7, <1>8, BasisFacts, BasisParts

LEMMA BasisClient ==
  ASSUME Basis, NEW c \in Clients, ClientReceive(c)
  PROVE  Basis'
<1>1. PICK p : p = Head(fromServer[c])
  OBVIOUS
<1>2. /\ fromServer[c] # <<>> /\ fromServer' = [fromServer EXCEPT ![c] = Tail(@)]
      /\ Handle(c, p)
      /\ UNCHANGED <<next, headerSent, toServer, relayed, starts, cleanups>>
  BY <1>1 DEF ClientReceive
<1>3. /\ p \in Packets /\ p = fromServer[c][1] /\ 1 \in 1 .. Len(fromServer[c])
      /\ Tail(fromServer[c]) \in Seq(Packets)
      /\ \A i \in 1 .. Len(Tail(fromServer[c])) :
           i + 1 \in 1 .. Len(fromServer[c]) /\ Tail(fromServer[c])[i] = fromServer[c][i + 1]
  <2>1. fromServer[c] \in Seq(Packets)
    BY BasisFacts
  <2>2. QED BY <1>1, <1>2, <2>1, Shortened
<1>4. Used(p.id)
  BY <1>3, BasisFacts, ServerNoClient DEF PacketsOwned, Used
<1>5. /\ EntriesOwned'
      /\ transfers' \in [Machines -> [Ids -> Entries \cup {None}]]
      /\ saved' \in [Machines -> SUBSET Files]
      /\ \A k \in Machines, id \in Ids : Good(transfers'[k][id])
  BY <1>2, <1>3, <1>4, HandleOwned, ServerNoClient
<1>6. fromServer' \in [Clients -> Seq(Packets)] /\ fromServer'[c] = Tail(fromServer[c])
      /\ \A d \in Clients : d # c => fromServer'[d] = fromServer[d]
  BY <1>2, <1>3, BasisFacts
<1>7. PacketsOwned'
  BY <1>2, <1>3, <1>6, BasisFacts DEF PacketsOwned
<1>8. \A k \in Machines : next'[k] <= starts' + 1
  BY <1>2, BasisFacts
<1>9. QED BY <1>2, <1>5, <1>6, <1>7, <1>8, BasisFacts, BasisParts

LEMMA BasisRelayed ==
  ASSUME Basis, NEW c \in Clients, ClientReceiveRelayed(c)
  PROVE  Basis'
<1>1. PICK p \in relayed[c] :
        /\ relayed' = [relayed EXCEPT ![c] = @ \ {p}]
        /\ Handle(c, p)
        /\ UNCHANGED <<next, headerSent, toServer, fromServer, starts, cleanups>>
  BY DEF ClientReceiveRelayed
<1>2. p \in Packets /\ Used(p.id)
  BY <1>1, BasisFacts, ServerNoClient DEF PacketsOwned, Used
<1>3. /\ EntriesOwned'
      /\ transfers' \in [Machines -> [Ids -> Entries \cup {None}]]
      /\ saved' \in [Machines -> SUBSET Files]
      /\ \A k \in Machines, id \in Ids : Good(transfers'[k][id])
  BY <1>1, <1>2, HandleOwned, ServerNoClient
<1>4. /\ relayed' \in [Clients -> SUBSET Packets]
      /\ \A d \in Clients : relayed'[d] \subseteq relayed[d]
  BY <1>1, BasisFacts
<1>5. PacketsOwned'
  BY <1>1, <1>4, BasisFacts DEF PacketsOwned
<1>6. \A k \in Machines : next'[k] <= starts' + 1
  BY <1>1, BasisFacts
<1>7. QED BY <1>1, <1>3, <1>4, <1>5, <1>6, BasisFacts, BasisParts

LEMMA BasisCleanup ==
  ASSUME Basis, NEW m \in Machines, Cleanup(m)
  PROVE  Basis'
<1>1. /\ cleanups < MaxCleanups /\ cleanups' = cleanups + 1
      /\ transfers' = [transfers EXCEPT ![m] =
                     [id \in Ids |-> IF @[id] # None /\ ~ @[id].complete
                                     THEN None ELSE @[id]]]
      /\ UNCHANGED <<next, headerSent, toServer, fromServer, relayed, saved, starts>>
  BY DEF Cleanup
<1>2. cleanups' \in 0 .. MaxCleanups
  <2>1. cleanups \in 0 .. MaxCleanups
    BY BasisFacts
  <2>2. QED BY <1>1, <2>1, BoundsAssumption, SMT
<1>3. /\ \A k \in Machines, id \in Ids :
           transfers'[k][id] = transfers[k][id] \/ transfers'[k][id] = None
      /\ transfers' \in [Machines -> [Ids -> Entries \cup {None}]]
  BY <1>1, BasisFacts
<1>4. \A k \in Machines, id \in Ids : Good(transfers'[k][id])
  BY <1>3, BasisFacts DEF Good
<1>5. EntriesOwned' /\ PacketsOwned'
  BY <1>1, <1>3, BasisFacts DEF EntriesOwned, PacketsOwned, Used
<1>6. \A k \in Machines : next'[k] <= starts' + 1
  BY <1>1, BasisFacts
<1>7. QED BY <1>1, <1>2, <1>3, <1>4, <1>5, <1>6, BasisFacts, BasisParts-----------------------------------------------------------------------------
(* The invariant.                                                          *)

LEMMA InitInv == Init => IInv
<1> SUFFICES ASSUME Init PROVE IInv
  OBVIOUS
<1>1. /\ transfers = [m \in Machines |-> [id \in Ids |-> None]]
      /\ next = [m \in Machines |-> 1]
      /\ headerSent = [m \in Machines |-> {}]
      /\ toServer = [c \in Clients |-> <<>>]
      /\ fromServer = [c \in Clients |-> <<>>]
      /\ relayed = [c \in Clients |-> {}]
      /\ saved = [m \in Machines |-> {}]
      /\ starts = 0 /\ cleanups = 0
  BY DEF Init
<1>2. /\ 1 \in 1 .. MaxStarts + 1 /\ 0 \in 0 .. MaxStarts /\ 0 \in 0 .. MaxCleanups
      /\ 1 <= 0 + 1
      /\ \A id \in Ids : ~ (1 > id)
  BY BoundsAssumption, SMT DEF Ids
<1>3. <<>> \in Seq(Packets) /\ \A i \in 1 .. Len(<<>>) : FALSE
  BY EmptySeq, SMT
<1>4. \A m \in Machines, id \in Ids : transfers[m][id] = None
  BY <1>1
<1>5. TypeOK
  BY <1>1, <1>2, <1>3 DEF TypeOK
<1>6. OwnInv
  BY <1>1, <1>2, <1>3, <1>4, ServerNoClient DEF OwnInv
<1>7. \A m \in Machines, id \in Ids : Good(transfers[m][id])
  BY <1>4 DEF Good
<1>8. \A id \in Ids : ~ Used(id)
  BY <1>1, <1>2 DEF Used
<1>9. QED BY <1>5, <1>6, <1>7, <1>8 DEF IInv

LEMMA NextInv == IInv /\ [Next]_vars => IInv'
<1> SUFFICES ASSUME IInv, [Next]_vars PROVE IInv'
  OBVIOUS
<1>1. /\ Basis
      /\ \A id \in Ids : (Used(id) /\ ~ Collision(id)) => \E f \in Files : LoneInv(id, f)
  BY DEF IInv, Basis
(* Only StartTransfer counts; after the other steps a number that is used  *)
(* and no collision was so before.                                         *)
<1>2. ASSUME next' = next, Basis',
             \A id \in Ids, f \in Files :
               (LoneInv(id, f) /\ ~ Collision(id)) => LoneInv(id, f)'
      PROVE  IInv'
  <2>1. ASSUME NEW id \in Ids, Used(id)', ~ Collision(id)'
        PROVE  \E f \in Files : LoneInv(id, f)'
    <3>1. Used(id) /\ ~ Collision(id)
      BY <1>2, <2>1 DEF Used, Collision
    <3>2. PICK f \in Files : LoneInv(id, f)
      BY <1>1, <3>1
    <3>3. LoneInv(id, f)'
      BY <1>2, <3>1, <3>2
    <3>4. QED BY <3>3
  <2>2. QED BY <1>2, <2>1 DEF IInv, Basis
<1>3. ASSUME NEW m \in Machines, NEW f \in Files, StartTransfer(m, f)
      PROVE  IInv'
  <2>1. Basis'
    BY <1>1, <1>3, BasisStart
  <2>2. \A id \in Ids :
          (Used(id)' /\ ~ Collision(id)') => \E g \in Files : LoneInv(id, g)'
    BY <1>1, <1>3, StartLone
  <2>3. QED BY <2>1, <2>2 DEF IInv, Basis
<1>4. ASSUME NEW m \in Machines, NEW id \in Ids, SendHeader(m, id)
      PROVE  IInv'
  <2>1. next' = next
    BY <1>4 DEF SendHeader
  <2>2. QED BY <1>1, <1>2, <1>4, <2>1, BasisHeader, HeaderLone
<1>5. ASSUME NEW m \in Machines, NEW id \in Ids, SendChunk(m, id)
      PROVE  IInv'
  <2>1. next' = next
    BY <1>5 DEF SendChunk
  <2>2. QED BY <1>1, <1>2, <1>5, <2>1, BasisChunk, ChunkLone
<1>6. ASSUME NEW c \in Clients, ServerReceive(c)
      PROVE  IInv'
  <2>1. next' = next
    BY <1>6 DEF ServerReceive
  <2>2. QED BY <1>1, <1>2, <1>6, <2>1, BasisServer, ServerLone
<1>7. ASSUME NEW c \in Clients, ClientReceive(c)
      PROVE  IInv'
  <2>1. next' = next
    BY <1>7 DEF ClientReceive
  <2>2. QED BY <1>1, <1>2, <1>7, <2>1, BasisClient, ClientLone
<1>8. ASSUME NEW c \in Clients, ClientReceiveRelayed(c)
      PROVE  IInv'
  <2>1. next' = next
    BY <1>8 DEF ClientReceiveRelayed
  <2>2. QED BY <1>1, <1>2, <1>8, <2>1, BasisRelayed, RelayedLone
<1>9. ASSUME NEW m \in Machines, Cleanup(m)
      PROVE  IInv'
  <2>1. next' = next
    BY <1>9 DEF Cleanup
  <2>2. QED BY <1>1, <1>2, <1>9, <2>1, BasisCleanup, CleanupLone
<1>10. CASE UNCHANGED vars
  <2>1. UNCHANGED <<transfers, next, headerSent, toServer, fromServer, relayed,
                    saved, starts, cleanups>>
    BY <1>10 DEF vars
  <2>2. \A id \in Ids, f \in Files : LoneInv(id, f) => LoneInv(id, f)'
    BY <2>1, QuietLone
  <2>3. EntriesOwned' /\ PacketsOwned'
    BY <1>1, <2>1, BasisFacts DEF EntriesOwned, PacketsOwned, Used
  <2>4. Basis'
    BY <1>1, <2>1, <2>3, BasisFacts, BasisParts
  <2>5. QED BY <1>2, <2>1, <2>2, <2>4
<1>11. QED BY <1>3, <1>4, <1>5, <1>6, <1>7, <1>8, <1>9, <1>10 DEF Next

LEMMA InvHolds == Spec => []IInv
BY InitInv, NextInv, PTL DEF Spec

(* The state is well typed: nothing is counted beyond the length of its    *)
(* file, and a buffer exists, of the length of the file, exactly while a   *)
(* file is coming in (FileTransferEngine.cpp:113-190).                     *)
THEOREM TransferTypeCorrect == Spec => []TypeOK
<1>1. IInv => TypeOK
  BY DEF IInv
<1>2. QED BY <1>1, InvHolds, PTL

(* A machine that has counted all bytes of an incoming file has the file,  *)
(* whatever was lost, reordered or cleaned up, unless two machines used    *)
(* one number (FileTransferEngine.cpp:30, 146-190).                        *)
THEOREM OnlyCollisionsEverCorrupt == Spec => []OnlyCollisionsCorrupt
<1>1. IInv => OnlyCollisionsCorrupt
  <2> SUFFICES ASSUME IInv, NEW m \in Machines, NEW id \in Ids,
                      transfers[m][id] # None, ~ transfers[m][id].out,
                      transfers[m][id].complete, ~ Collision(id)
               PROVE  transfers[m][id].file \in saved[m]
    BY DEF OnlyCollisionsCorrupt
  <2>1. Used(id)
    BY DEF IInv, OwnInv, Used
  <2>2. PICK f \in Files : LoneInv(id, f)
    BY <2>1 DEF IInv
  <2>3. EntryInv(transfers[m][id], f, saved[m])
    BY <2>2 DEF LoneInv
  <2>4. QED BY <2>3 DEF EntryInv
<1>2. QED BY <1>1, InvHolds, PTL
=============================================================================
