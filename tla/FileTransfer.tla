----------------------------- MODULE FileTransfer -----------------------------
(***************************************************************************)
(* FileTransferEngine (src/src/FileTransferEngine.cpp) on every machine of *)
(* a session, driven by PerformFileTransfer and by the handlers of         *)
(* FileHeader and FileData (src/src/NetMuxFramework.cpp:650-659, 762-781). *)
(*                                                                         *)
(* A client sends to the server by TCP; the server handles the packet and  *)
(* relays it to every client of the group, the sender too, by UDP, which   *)
(* may lose and reorder.  The server's own files go to every client by     *)
(* TCP.  The replay filter has removed duplicates (see ReplayFilter).      *)
(*                                                                         *)
(* Every machine numbers its transfers from one, and m_transfers holds     *)
(* outgoing and incoming transfers of all machines under these numbers, so *)
(* two transfers of different machines may share an entry.                 *)
(*                                                                         *)
(* A file is a whole number of chunks of 4000 bytes, a chunk the pair of   *)
(* the file and its index.  The hash identifies the file.  Disks do not    *)
(* fail, no file is too large, and there is no security key, so that every *)
(* sender is trusted.                                                      *)
(***************************************************************************)
EXTENDS Naturals, Sequences

CONSTANTS
  Server,
  Clients,
  Files,
  Chunks,       \* Chunks[f]: number of chunks of file f
  None,         \* no entry
  MaxStarts,    \* bound: transfers started by all machines together
  MaxCleanups   \* bound: prunes that are followed by a clean-up

ASSUME MachinesAssumption == Server \notin Clients
ASSUME ChunksAssumption == Chunks \in [Files -> Nat]
ASSUME BoundsAssumption == MaxStarts \in Nat /\ MaxCleanups \in Nat

Machines == Clients \cup {Server}
Ids == 1 .. MaxStarts

VARIABLES
  transfers,   \* transfers[m][id]: m_transfers, entry or None
  next,        \* next[m]: m_nextTransferId
  headerSent,  \* headerSent[m]: ids in m_headerSent
  toServer,    \* toServer[c]: what c sent to the server by TCP
  fromServer,  \* fromServer[c]: what the server sent to c by TCP
  relayed,     \* relayed[c]: datagrams on their way to c
  saved,       \* saved[m]: files m has written to disk
  starts,      \* transfers started so far (bounded)
  cleanups     \* clean-ups so far (bounded)

vars == <<transfers, next, headerSent, toServer, fromServer, relayed, saved,
          starts, cleanups>>

-----------------------------------------------------------------------------
Blank == <<None, 0>>

Chunk(f, i) == <<f, i>>

Content(f) == [i \in 1 .. Chunks[f] |-> Chunk(f, i)]

(* done: bytesTransferred in chunks; buffer is used by incoming transfers  *)
(* until they are complete.                                                *)
Transfer(out, f, done, complete, buffer) ==
  [out |-> out, file |-> f, done |-> done, complete |-> complete,
   buffer |-> buffer]

Header(id, f) == [kind |-> "header", id |-> id, file |-> f, index |-> 0]
Data(id, f, i) == [kind |-> "data", id |-> id, file |-> f, index |-> i]

EmptyBuffer(f) == [i \in 1 .. Chunks[f] |-> Blank]

Buffers == Seq((Files \cup {None}) \X Nat)

Entries ==
  [out : BOOLEAN, file : Files, done : Nat, complete : BOOLEAN, buffer : Buffers]

ASSUME NoneAssumption == None \notin Entries

Packets ==
  {p \in [kind : {"header", "data"}, id : Ids, file : Files, index : Nat] :
     p.index \in IF p.kind = "header" THEN {0} ELSE 1 .. Chunks[p.file]}

BufferFits(t) ==
  DOMAIN t.buffer = IF t.out \/ t.complete THEN {} ELSE 1 .. Chunks[t.file]

TypeOK ==
  /\ transfers \in [Machines -> [Ids -> Entries \cup {None}]]
  /\ \A m \in Machines, id \in Ids :
       LET t == transfers[m][id]
       IN t # None => t.done \in 0 .. Chunks[t.file] /\ BufferFits(t)
  /\ next \in [Machines -> 1 .. MaxStarts + 1]
  /\ headerSent \in [Machines -> SUBSET Ids]
  /\ toServer \in [Clients -> Seq(Packets)]
  /\ fromServer \in [Clients -> Seq(Packets)]
  /\ relayed \in [Clients -> SUBSET Packets]
  /\ saved \in [Machines -> SUBSET Files]
  /\ starts \in 0 .. MaxStarts
  /\ cleanups \in 0 .. MaxCleanups

Init ==
  /\ transfers = [m \in Machines |-> [id \in Ids |-> None]]
  /\ next = [m \in Machines |-> 1]
  /\ headerSent = [m \in Machines |-> {}]
  /\ toServer = [c \in Clients |-> <<>>]
  /\ fromServer = [c \in Clients |-> <<>>]
  /\ relayed = [c \in Clients |-> {}]
  /\ saved = [m \in Machines |-> {}]
  /\ starts = 0
  /\ cleanups = 0

-----------------------------------------------------------------------------
(* Sending.                                                                *)

(* The entry is written whatever m_transfers holds under the new number.   *)
StartTransfer(m, f) ==
  /\ starts < MaxStarts
  /\ starts' = starts + 1
  /\ next' = [next EXCEPT ![m] = @ + 1]
  /\ transfers' = [transfers EXCEPT
                     ![m][next[m]] = Transfer(TRUE, f, 0, FALSE, <<>>)]
  /\ UNCHANGED <<headerSent, toServer, fromServer, relayed, saved, cleanups>>

SendPacket(m, packet) ==
  IF m = Server
  THEN /\ fromServer' = [c \in Clients |-> Append(fromServer[c], packet)]
       /\ UNCHANGED toServer
  ELSE /\ toServer' = [toServer EXCEPT ![m] = Append(@, packet)]
       /\ UNCHANGED fromServer

Sending(m, id) ==
  /\ transfers[m][id] # None
  /\ transfers[m][id].out
  /\ ~ transfers[m][id].complete

(* m_headerSent is never cleared, so a transfer that reuses a number would *)
(* go without a header.                                                    *)
SendHeader(m, id) ==
  /\ Sending(m, id)
  /\ id \notin headerSent[m]
  /\ headerSent' = [headerSent EXCEPT ![m] = @ \cup {id}]
  /\ SendPacket(m, Header(id, transfers[m][id].file))
  /\ UNCHANGED <<transfers, next, relayed, saved, starts, cleanups>>

(* Seeded fault: the file is not positioned, the first chunk comes again.  *)
NextIndexStuck(t) == 1

(* Seeded fault: chunkIndex is computed after the count has moved.         *)
NextIndexLate(t) == t.done + 2

NextIndex(t) == t.done + 1

(* GetNextChunk; of an empty file it never finds a chunk to send.          *)
SendChunk(m, id) ==
  LET t == transfers[m][id]
      index == NextIndex(t)
  IN /\ Sending(m, id)
     /\ id \in headerSent[m]
     /\ t.done < Chunks[t.file]
     /\ transfers' = [transfers EXCEPT ![m][id] =
                        Transfer(TRUE, t.file, t.done + 1,
                                 t.done + 1 = Chunks[t.file], <<>>)]
     /\ SendPacket(m, Data(id, t.file, index))
     /\ UNCHANGED <<next, headerSent, relayed, saved, starts, cleanups>>

-----------------------------------------------------------------------------
(* Receiving.                                                              *)

(* HandleFileHeader: a transfer of the same file goes on; anything else    *)
(* under this number is replaced.                                          *)
AfterHeader(t, packet) ==
  IF t # None /\ t.file = packet.file THEN t
  ELSE Transfer(FALSE, packet.file, 0, FALSE, EmptyBuffer(packet.file))

Awaits(t) == t # None /\ ~ t.out /\ ~ t.complete

Fits(t, packet) == packet.index \in DOMAIN t.buffer

Written(t, packet) ==
  [i \in DOMAIN t.buffer \cup {packet.index} |->
     IF i = packet.index THEN Chunk(packet.file, packet.index) ELSE t.buffer[i]]

(* Seeded fault: the buffer of a complete file is not released.            *)
AfterDataKeepingBuffer(t, packet) ==
  IF ~ (Awaits(t) /\ Fits(t, packet)) THEN t
  ELSE Transfer(FALSE, t.file, t.done + 1, t.done + 1 >= Chunks[t.file],
                Written(t, packet))

(* HandleFileData: the count of bytes decides when the file is complete.   *)
AfterData(t, packet) ==
  IF ~ (Awaits(t) /\ Fits(t, packet)) THEN t
  ELSE IF t.done + 1 >= Chunks[t.file]
  THEN Transfer(FALSE, t.file, t.done + 1, TRUE, <<>>)
  ELSE Transfer(FALSE, t.file, t.done + 1, FALSE, Written(t, packet))

(* A complete file is written to disk if its hash is the announced one.    *)
SavedBy(t, packet) ==
  IF /\ Awaits(t)
     /\ Fits(t, packet)
     /\ t.done + 1 >= Chunks[t.file]
     /\ Written(t, packet) = Content(t.file)
  THEN {t.file} ELSE {}

Handle(m, packet) ==
  LET t == transfers[m][packet.id]
  IN IF packet.kind = "header"
     THEN /\ transfers' = [transfers EXCEPT ![m][packet.id] = AfterHeader(t, packet)]
          /\ UNCHANGED saved
     ELSE /\ transfers' = [transfers EXCEPT ![m][packet.id] = AfterData(t, packet)]
          /\ saved' = [saved EXCEPT ![m] = @ \cup SavedBy(t, packet)]

(* The server takes the next packet of c's stream and relays it.           *)
ServerReceive(c) ==
  /\ toServer[c] # <<>>
  /\ toServer' = [toServer EXCEPT ![c] = Tail(@)]
  /\ Handle(Server, Head(toServer[c]))
  /\ relayed' = [d \in Clients |-> relayed[d] \cup {Head(toServer[c])}]
  /\ UNCHANGED <<next, headerSent, fromServer, starts, cleanups>>

ClientReceive(c) ==
  /\ fromServer[c] # <<>>
  /\ fromServer' = [fromServer EXCEPT ![c] = Tail(@)]
  /\ Handle(c, Head(fromServer[c]))
  /\ UNCHANGED <<next, headerSent, toServer, relayed, starts, cleanups>>

(* Datagrams come in any order; one that is never received is lost.        *)
ClientReceiveRelayed(c) ==
  \E packet \in relayed[c] :
    /\ relayed' = [relayed EXCEPT ![c] = @ \ {packet}]
    /\ Handle(c, packet)
    /\ UNCHANGED <<next, headerSent, toServer, fromServer, starts, cleanups>>

(* CleanupPeerTransfers after a prune of anyone clears every transfer that *)
(* is not complete, outgoing ones included.                                *)
Cleanup(m) ==
  /\ cleanups < MaxCleanups
  /\ cleanups' = cleanups + 1
  /\ transfers' = [transfers EXCEPT ![m] =
                     [id \in Ids |-> IF @[id] # None /\ ~ @[id].complete
                                     THEN None ELSE @[id]]]
  /\ UNCHANGED <<next, headerSent, toServer, fromServer, relayed, saved, starts>>

Next ==
  \/ \E m \in Machines, f \in Files : StartTransfer(m, f)
  \/ \E m \in Machines, id \in Ids : SendHeader(m, id)
  \/ \E m \in Machines, id \in Ids : SendChunk(m, id)
  \/ \E c \in Clients : ServerReceive(c)
  \/ \E c \in Clients : ClientReceive(c)
  \/ \E c \in Clients : ClientReceiveRelayed(c)
  \/ \E m \in Machines : Cleanup(m)

(* The loops keep sending and receiving and TCP delivers.  Nobody has to   *)
(* start a transfer, and a datagram need not arrive.                       *)
Fairness ==
  /\ \A m \in Machines, id \in Ids :
       WF_vars(SendHeader(m, id)) /\ WF_vars(SendChunk(m, id))
  /\ \A c \in Clients : WF_vars(ServerReceive(c)) /\ WF_vars(ClientReceive(c))

Spec == Init /\ [][Next]_vars /\ Fairness

-----------------------------------------------------------------------------
(* A machine that has counted all bytes of an incoming file has the file,  *)
(* whatever was lost, reordered, cleaned up or sent again, unless two      *)
(* machines used one number: the count of bytes stands for the set of      *)
(* chunks (FileTransferEngine.cpp:146-190), and only a collision of        *)
(* numbers (FileTransferEngine.cpp:30) can end in a hash mismatch.         *)
Collision(id) ==
  \E m, n \in Machines : m # n /\ next[m] > id /\ next[n] > id

OnlyCollisionsCorrupt ==
  \A m \in Machines, id \in Ids :
    LET t == transfers[m][id]
    IN (t # None /\ ~ t.out /\ t.complete) => (t.file \in saved[m] \/ Collision(id))

(* A transfer that is alone arrives: if only one is started and nobody is  *)
(* pruned, the server gets the file of a client, and every client gets the *)
(* server's (NetMuxFramework.cpp:762-781, 650-659).                        *)
Alone == starts <= 1 /\ cleanups = 0

Started(m, f) ==
  transfers[m][1] # None /\ transfers[m][1].out /\ transfers[m][1].file = f

LoneTransferArrives ==
  []Alone =>
    \A f \in {g \in Files : Chunks[g] > 0} :
      /\ \A c \in Clients : Started(c, f) ~> f \in saved[Server]
      /\ \A c \in Clients : Started(Server, f) ~> f \in saved[c]
=============================================================================
