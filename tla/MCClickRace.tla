----------------------------- MODULE MCClickRace -----------------------------
(* Four peers race; their presses lie within one Timeout of two ticks and  *)
(* may coincide.  Negative stamps stand for a large clock offset.          *)
EXTENDS ClickRace

MCStamps == -1 .. 2
=============================================================================
