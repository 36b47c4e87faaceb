-------------------------- MODULE MCCursorTracking --------------------------
(* One client watches a cursor that has two places to be at, and joins     *)
(* when it likes; of three movements one is sent as a position.  The       *)
(* conversions are tried on the usual sizes of screens.                    *)
EXTENDS CursorTracking, Coordinates

Screens == {2, 3, 1080, 1920, 3840, 32767}

ASSUME ScreensRoundTrip == \A max \in Screens : RoundTrip(max)
ASSUME ScreensReached == \A max \in Screens : OnScreen(max)
=============================================================================
