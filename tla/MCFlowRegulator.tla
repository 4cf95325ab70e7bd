--------------------------- MODULE MCFlowRegulator ---------------------------
(* Instances of FlowRegulator for TLC.                                     *)
EXTENDS FlowRegulator

CONSTANTS t1, t2, t3, t4

MCThreads == {t1, t2, t3}
MCFour == {t1, t2, t3, t4}
NoTargets == {}
NobodyTimed == {}
OneTimed == {t1}

Unbiased == {NoBias}
AnyThreshold == {NoBias, 0, 1, 2}
NoRetunes == {}

=============================================================================
