----------------------------- MODULE MCAutodim -----------------------------
(* Two dimming steps, the last one to a dark screen, on a device of four   *)
(* levels.  The maximum is unknown (-1, which is full) or below the first  *)
(* step; being on AC and not knowing it (-1) make no difference.           *)
EXTENDS Autodim

MCSteps == <<[second |-> 1, percent |-> 50], [second |-> 3, percent |-> 0]>>
Full == {100}
FullOrLess == {-1, 40}
NoLevels == {}
DarkLevel == {0}
AnyAC == {-1, 0, 1}
UnknownAC == {-1, 0}
ClearFlag == {FALSE}
AnyFlag == {FALSE, TRUE}
=============================================================================
