----------------------------- MODULE Coordinates -----------------------------
(***************************************************************************)
(* SyncModule::Normalize and Denormalize: pixels of a screen of max pixels *)
(* and coordinates of 0 .. 65535, by division in ints.  InputEngine does   *)
(* the same to what it reads.  What they are applied to is small enough    *)
(* for an int of 32 bits up to screens of 32769 pixels: see ProductsFit in *)
(* Coordinates_proofs.                                                     *)
(***************************************************************************)
EXTENDS Integers

Full == 65535

(* Division of C: towards zero.  Deltas may lead a coordinate below zero.  *)
Quotient(a, b) == IF a >= 0 THEN a \div b ELSE - ((- a) \div b)

Normalize(val, max) == IF max <= 1 THEN 0 ELSE Quotient(val * Full, max - 1)

Denormalize(val, max) == IF max <= 1 THEN 0 ELSE Quotient(val * (max - 1), Full)

(* A cursor is shown on the pixel where it is, or on the one before, on a  *)
(* screen of the same size (SyncModule.cpp:296-304).                       *)
RoundTrip(max) ==
  \A val \in 0 .. max - 1 : Denormalize(Normalize(val, max), max) \in {val - 1, val}

(* A coordinate that has not left 0 .. 65535 is a pixel of every screen.   *)
OnScreen(max) == \A val \in 0 .. Full : Denormalize(val, max) \in 0 .. max - 1
=============================================================================
