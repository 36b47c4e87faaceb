--------------------------- MODULE MCClipboardSync ---------------------------
(* A text with a character of four bytes, what Windows keeps of it, and    *)
(* the empty text; all machines alike or one that differs; clocks that     *)
(* started together, or one client or the server later.                    *)
EXTENDS ClipboardSync, TLC

MCTexts == {<<"a", "emoji">>, <<"a", "gap">>, <<>>}
MCKept == [p \in Payloads |-> IF p = "emoji" THEN "gap" ELSE p]

OneOf(n, kind) == [m \in Nodes |-> IF m = n THEN kind ELSE "xclip"]
AllWindows == [n \in Nodes |-> "windows"]
MCMachines ==
  {OneOf(n, kind) : n \in Nodes, kind \in {"windows", "xclip", "bare"}} \cup {AllWindows}

MCStarts ==
  {[n \in Nodes |-> IF n \in late THEN 2 ELSE 0] :
     late \in {{}, {Server}} \cup {{c} : c \in Clients}}
Symmetry == Permutations(Clients)
=============================================================================
