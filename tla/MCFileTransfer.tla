---------------------------- MODULE MCFileTransfer ----------------------------
(* A file of two chunks and a file of one.                                 *)
EXTENDS FileTransfer, TLC

CONSTANTS Big, Small

MCChunks == (Big :> 2) @@ (Small :> 1)

(* Two transfers, or one transfer and a clean-up.                          *)
TwoEvents == starts + cleanups <= 2
=============================================================================
