---------------------------- MODULE MCBreakCatch ----------------------------
(* Instances of BreakCatch for TLC. *)
EXTENDS BreakCatch

\* The points between two stores at which a BREAK mixes the old with the new.
HalfSteps == {"xtPopped", "nestPtr", "restorePtr", "run", "viewEnd"}
=============================================================================
