---------------------------- MODULE MCBacklight ----------------------------
(* A device of 24 levels: some percentages share a level, and both ends    *)
(* are asked for.  Client levels out of range on both sides.               *)
EXTENDS Backlight

MCPercents == 0..100
MCClientLevels == {-1, 0, 12, 25}
NoLevels == {}
FirmwareSome == {1}
=============================================================================
