---------------------------- MODULE MCFusionRun ----------------------------
(* Model values for checking FusionRun with TLC.  The panelists differ in  *)
(* nothing but their names.                                                *)
EXTENDS FusionRun, TLC

CONSTANTS m1, m2, m3
=============================================================================
