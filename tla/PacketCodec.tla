----------------------------- MODULE PacketCodec -----------------------------
(***************************************************************************)
(* What PacketSerializer makes of a packet (src/src/PacketSerializer.cpp): *)
(* the fields of which a type has one or another share three slots of 32   *)
(* bits, and what a type has no slot for is left behind.  Sender, group,   *)
(* number, time, type and x, y are carried by every packet and left out    *)
(* here.  A float is its 32 bits, a payload has at most 4096 bytes.        *)
(***************************************************************************)
EXTENDS Integers

Types ==
  {"Movement", "AbsoluteMovement", "Click", "Sync", "Discovery", "Heartbeat",
   "ClipboardSync", "Handshake", "FocusUpdate", "SessionUpdate", "MasterStateSync",
   "Ping", "InputEvent", "ResolutionUpdate", "WebRTCSignaling", "AuthChallenge",
   "AuthResponse", "SyncCheck", "SelectionUpdate", "Disconnect", "Wheel", "FileHeader",
   "FileData", "KeyboardEvent", "DeltaMovement", "WebRTCOffer", "WebRTCAnswer",
   "ICECandidate", "VideoFrame"}

Flags == {"down", "isSelecting", "isHorizontalWheel"}
Numbers ==
  {"button", "selectionStartX", "selectionStartY", "wheelDelta", "chunkIndex",
   "totalChunks", "dpiScale"}
Fields == Flags \cup Numbers

IsHeaderOnly(type) ==
  type \in {"Movement", "AbsoluteMovement", "DeltaMovement", "Sync", "Ping", "Heartbeat",
            "SyncCheck"}

(* The two switches agree on the slot of every field,                      *)
SlotOf(field) ==
  IF field \in {"button", "wheelDelta", "isSelecting", "chunkIndex", "dpiScale"} THEN 1
  ELSE IF field = "selectionStartY" THEN 3
  ELSE 2

(* and, but for a DeltaMovement, on the fields that a type has.            *)
Restored(type, field) ==
  \/ type \in {"Click", "KeyboardEvent", "InputEvent"} /\ field \in {"button", "down"}
  \/ type = "Wheel" /\ field \in {"wheelDelta", "isHorizontalWheel"}
  \/ /\ type = "SelectionUpdate"
     /\ field \in {"isSelecting", "selectionStartX", "selectionStartY"}
  \/ /\ type \in {"ClipboardSync", "FileData", "VideoFrame", "ICECandidate"}
     /\ field \in {"chunkIndex", "totalChunks"}
  \/ type \in {"Handshake", "ResolutionUpdate"} /\ field = "dpiScale"

Written(type, field) ==
  \/ Restored(type, field)
  \/ type = "DeltaMovement" /\ field \in {"chunkIndex", "totalChunks"}

ToSlot(field, value) == IF field \in Flags THEN IF value THEN 1 ELSE 0 ELSE value

FromSlot(field, slot) == IF field \in Flags THEN slot # 0 ELSE slot

(* 1.0f, and what a field without a slot is reset to.                      *)
OneBits == 1065353216
Default(field) ==
  IF field \in Flags THEN FALSE ELSE IF field = "dpiScale" THEN OneBits ELSE 0

InSlot(packet, i) == {f \in Fields : Written(packet.type, f) /\ SlotOf(f) = i}

(* A number stands for a payload, and 0 for none.                          *)
Serialize(packet) ==
  [type |-> packet.type,
   d |-> [i \in 1 .. 3 |->
           IF InSlot(packet, i) = {} THEN 0
           ELSE LET f == CHOOSE f \in InSlot(packet, i) : TRUE
                IN ToSlot(f, packet.fields[f])],
   payload |-> IF IsHeaderOnly(packet.type) THEN 0 ELSE packet.payload]

Deserialize(bytes) ==
  [type |-> bytes.type,
   fields |-> [f \in Fields |->
                IF Restored(bytes.type, f) THEN FromSlot(f, bytes.d[SlotOf(f)])
                ELSE Default(f)],
   payload |-> IF IsHeaderOnly(bytes.type) THEN 0 ELSE bytes.payload]

Arrived(packet) == Deserialize(Serialize(packet))

-----------------------------------------------------------------------------
(* What the handlers of ProcessIncomingPackets and the file transfer read. *)
Used(type, field) ==
  \/ type \in {"Click", "KeyboardEvent"} /\ field \in {"button", "down"}
  \/ type = "FocusUpdate" /\ field = "button"
  \/ type = "Wheel" /\ field \in {"wheelDelta", "isHorizontalWheel"}
  \/ /\ type = "SelectionUpdate"
     /\ field \in {"isSelecting", "selectionStartX", "selectionStartY"}
  \/ type = "ClipboardSync" /\ field \in {"chunkIndex", "totalChunks"}
  \/ type = "FileData" /\ field = "chunkIndex"
  \/ type = "ResolutionUpdate" /\ field = "dpiScale"

UsesPayload(type) ==
  type \in {"ClipboardSync", "Handshake", "AuthResponse", "FileHeader", "FileData"}

(* A handler gets the fields and the payload it reads as they were sent,   *)
(* but for the owner in a FocusUpdate (PacketSerializer.cpp:53-86,         *)
(* 135-167, 170; NetMuxFramework.cpp:524-666).                             *)
UsedArrives(packet) ==
  /\ packet.type # "FocusUpdate" =>
       \A f \in Fields :
         Used(packet.type, f) => Arrived(packet).fields[f] = packet.fields[f]
  /\ UsesPayload(packet.type) => Arrived(packet).payload = packet.payload

(* A FocusUpdate names nobody as owner, whomever its sender meant          *)
(* (PacketSerializer.cpp:83, 122; NetMuxFramework.cpp:379, 610).           *)
FocusNamesNobody(packet) ==
  packet.type = "FocusUpdate" => Arrived(packet).fields["button"] = 0

(* A packet that a server has relayed arrives as one that came at once: a  *)
(* second passage loses nothing (NetMuxFramework.cpp:434-666).             *)
RelayedAsReceived(packet) == Arrived(Arrived(packet)) = Arrived(packet)
=============================================================================
