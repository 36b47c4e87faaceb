---------------------------- MODULE MCReplayFilter ----------------------------
(* Numbers of four bits: one counter starts fresh, one just before the     *)
(* wrap-around.                                                            *)
EXTENDS ReplayFilter

FreshOrWrapping == {0, 14}

Fresh == {0}
=============================================================================
