---------------------------- MODULE EarliestClaim ----------------------------
(***************************************************************************)
(* What "Timestamp-First interaction ownership" (src/ROADMAP.md:18,        *)
(* src/src/SyncModule.cpp:337-350) promises for a race of clicks: each     *)
(* peer presses once, the presses are decided in any order, and at every   *)
(* moment the focus belongs to a peer whose press is the earliest of those *)
(* decided so far.  How the arbiter achieves it is not said here.          *)
(***************************************************************************)
EXTENDS Integers

CONSTANTS
  Peers,     \* the racing peers
  Nobody     \* no owner

VARIABLES
  stamp,     \* stamp[p]: when p pressed, on the unified timeline; fixed
  decided,   \* the peers whose press has been decided
  winner     \* the owner of the focus

vars == <<stamp, decided, winner>>

Earliest(S) == {p \in S : \A q \in S : stamp[p] <= stamp[q]}

Init ==
  /\ stamp \in [Peers -> Int]
  /\ decided = {}
  /\ winner = Nobody

Decide(p) ==
  /\ p \notin decided
  /\ decided' = decided \cup {p}
  /\ winner' \in Earliest(decided \cup {p})
  /\ UNCHANGED stamp

Next == \E p \in Peers : Decide(p)

Spec == Init /\ [][Next]_vars
=============================================================================
