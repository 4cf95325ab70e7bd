----------------------------- MODULE MCConductor -----------------------------
(* Instances of Conductor for TLC.                                         *)
EXTENDS Conductor

CONSTANTS t1, t2, t3

Two == {t1, t2}
Three == {t1, t2, t3}
OneImpatient == {t1}
NobodyImpatient == {}
OnlyDispose == {"dispose"}
NoCommand == {}

=============================================================================
