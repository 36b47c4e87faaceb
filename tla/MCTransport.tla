----------------------------- MODULE MCTransport -----------------------------
(* A packet of two units between a greeting and a farewell of one, read in *)
(* pieces of up to three.  The codec is tried on two packets of each type, *)
(* no two fields of which have the same contents.                          *)
EXTENDS Transport, PacketCodec

MCSizes == {2}

Contents ==
  [button |-> 2, down |-> TRUE, isSelecting |-> TRUE, selectionStartX |-> 3,
   selectionStartY |-> 5, wheelDelta |-> -120, isHorizontalWheel |-> TRUE,
   chunkIndex |-> 7, totalChunks |-> 11, dpiScale |-> 13]

Samples ==
  {[type |-> type, fields |-> fields, payload |-> 17] :
     type \in Types,
     fields \in {Contents, [f \in Fields |-> IF f \in Flags THEN FALSE ELSE Contents[f]]}}

ASSUME SamplesArrive == \A packet \in Samples : UsedArrives(packet)
ASSUME SamplesNameNobody == \A packet \in Samples : FocusNamesNobody(packet)
ASSUME SamplesRelayed == \A packet \in Samples : RelayedAsReceived(packet)
=============================================================================
