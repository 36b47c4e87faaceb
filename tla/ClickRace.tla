------------------------------ MODULE ClickRace ------------------------------
(***************************************************************************)
(* A race of clicks as SyncModule::ResolveInteraction settles it.          *)
(*                                                                         *)
(* Every peer of Peers presses a button once.  The packets cross the       *)
(* network at their own speed, so ProcessInteractionQueue                  *)
(* (src/src/NetMuxFramework.cpp:361-387) meets the presses in any order;   *)
(* stamp[p] is the adjusted timestamp of p's press.  The presses lie       *)
(* within one Timeout of each other, and nobody is selecting (InputEngine  *)
(* never announces a selection: src/src/InputEngine.cpp sends              *)
(* SelectionUpdate only with isSelecting = false).                         *)
(*                                                                         *)
(* The question: does the order of arrival matter?                         *)
(***************************************************************************)
EXTENDS FocusArbiter

CONSTANTS
  Peers,     \* the racing peers
  Stamps     \* the adjusted timestamps a press can carry

ASSUME PeersAssumption == Nobody \notin Peers
ASSUME StampsAssumption == Stamps \subseteq Int

VARIABLES
  stamp,     \* stamp[p]: adjusted timestamp of p's press; fixed
  decided,   \* peers whose press ProcessInteractionQueue has taken
  blocked,   \* peers whose isConflictBlocked is raised
  focus      \* <<m_activePeerId, m_lastActiveSwitch>> as a record

raceVars == <<stamp, decided, blocked, focus>>

RaceTypeOK ==
  /\ stamp \in [Peers -> Stamps]
  /\ decided \subseteq Peers
  /\ blocked \subseteq Peers
  /\ focus \in [owner : Peers \cup {Nobody}, since : Int]

WithinOneTimeout == \A p, q \in Peers : stamp[p] - stamp[q] <= Timeout

(* m_lastActiveSwitch may hold a time of an owner that has long gone.      *)
RaceInit ==
  /\ stamp \in [Peers -> Stamps]
  /\ WithinOneTimeout
  /\ decided = {}
  /\ blocked = {}
  /\ focus \in [owner : {Nobody}, since : Stamps]

(* One turn of the loop of ProcessInteractionQueue with a press of p.      *)
DecidePress(p) ==
  /\ p \notin decided
  /\ decided' = decided \cup {p}
  /\ focus' = Claim(focus, {}, p, stamp[p])
  /\ blocked' = IF RaisesBlock(focus, {}, p, stamp[p])
                THEN blocked \cup {p} ELSE blocked
  /\ UNCHANGED stamp

RaceNext == \E p \in Peers : DecidePress(p)

RaceSpec == RaceInit /\ [][RaceNext]_raceVars

-----------------------------------------------------------------------------
(* The arrival order does not matter: once some presses are decided, the   *)
(* focus belongs to one of them, m_lastActiveSwitch is the timestamp of    *)
(* that press, and no decided press is earlier.                            *)
EarliestWins ==
  decided # {} =>
    /\ focus.owner \in decided
    /\ focus.since = stamp[focus.owner]
    /\ \A q \in decided : stamp[focus.owner] <= stamp[q]

(* The overlay's "blocked" mark (isConflictBlocked) is put on peers whose  *)
(* press was refused for good: a marked peer has lost to a press that is   *)
(* not later than its own, and never owns the focus in this race.          *)
BlockedHasLost ==
  \A p \in blocked : p \in decided /\ focus.owner # p /\ focus.since <= stamp[p]

(* The race implements the abstract promise, whatever the arrival order.   *)
Promise == INSTANCE EarliestClaim WITH winner <- focus.owner

ImplementsEarliestClaim == Promise!Spec
=============================================================================
