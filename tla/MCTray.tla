------------------------------- MODULE MCTray -------------------------------
(* Two trays, one autodim step, a device with less levels than percentages *)
(* but a minimum of one.                                                   *)
EXTENDS Tray, TLC

CONSTANTS t1, t2
MCTrays == {t1, t2}
Symmetry == Permutations(MCTrays)
=============================================================================
