---------------------------- MODULE MCInputCapture ----------------------------
(* One key and one button, four acts of the user, one raw message posted   *)
(* at a time, a release after two moves back and one fault: enough to      *)
(* cross with something held, let it repeat, release it and come back.     *)
EXTENDS InputCapture
=============================================================================
