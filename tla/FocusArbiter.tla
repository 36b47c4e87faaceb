---------------------------- MODULE FocusArbiter ----------------------------
(***************************************************************************)
(* The decision of SyncModule::ResolveInteraction                          *)
(* (src/src/SyncModule.cpp:306-368): may the peer whose click has arrived  *)
(* take the interaction focus, and what does that do to the focus?         *)
(*                                                                         *)
(* The focus is the pair of members m_activePeerId ("owner") and           *)
(* m_lastActiveSwitch ("since").  The code compares doubles in             *)
(* milliseconds; here they are integers in ticks, and Timeout stands for   *)
(* the literal 2000.0 of line 355.                                         *)
(*                                                                         *)
(* The module has no state: InteractionOwnership puts the decision inside  *)
(* the framework's loop, ClickRace isolates the race of several peers that *)
(* click at nearly the same time.                                          *)
(***************************************************************************)
EXTENDS Integers

CONSTANTS
  Nobody,    \* m_activePeerId = 0
  Timeout    \* ticks after which an idle owner may be displaced

ASSUME TimeoutAssumption == Timeout \in Nat

-----------------------------------------------------------------------------
(* GetAdjustedTimestamp, and the first lines of ResolveInteraction: the    *)
(* clock offset of the peer is SUBTRACTED from the timestamp it sent.      *)
AdjustedTimestamp(ts, offset) == ts - offset

(* An earlier press displaces the owner, unless the owner is selecting.    *)
MayPreempt(focus, selecting, at) ==
  /\ at < focus.since
  /\ focus.owner \notin selecting

(* Seeded fault: the timeout is already over when it is just reached.      *)
TimedOutEarly(focus, at) == at - focus.since >= Timeout

(* "Interaction Timeout (2 seconds)".                                      *)
TimedOut(focus, at) == at - focus.since > Timeout

(* The four ways a press is granted, in the order of the code.  The last   *)
(* two exclude each other, so the early "return false" of the gesture test *)
(* needs no case of its own.                                               *)
MayClaim(focus, selecting, id, at) ==
  \/ focus.owner = Nobody
  \/ focus.owner = id
  \/ MayPreempt(focus, selecting, at)
  \/ TimedOut(focus, at)

(* Seeded fault: the preempting press does not move m_lastActiveSwitch.    *)
ClaimKeepingSince(focus, selecting, id, at) ==
  IF MayClaim(focus, selecting, id, at)
  THEN [owner |-> id,
        since |-> IF MayPreempt(focus, selecting, at) THEN focus.since ELSE at]
  ELSE focus

(* The focus after a press of id that occurred at time "at".               *)
Claim(focus, selecting, id, at) ==
  IF MayClaim(focus, selecting, id, at)
  THEN [owner |-> id, since |-> at]
  ELSE focus

(* "Soft release": the owner keeps the focus, only its time moves.         *)
SoftRelease(focus, id, at) ==
  IF focus.owner = id THEN [focus EXCEPT !.since = at] ELSE focus

(* Seeded fault: every press that meets another owner raises the mark.     *)
RaisesBlockOnConflict(focus, selecting, id, at) ==
  focus.owner \notin {Nobody, id}

(* isConflictBlocked is raised on the last line only: a press that is      *)
(* refused because of the owner's gesture leaves it as it was.             *)
RaisesBlock(focus, selecting, id, at) ==
  /\ ~ MayClaim(focus, selecting, id, at)
  /\ at >= focus.since
=============================================================================
