-------------------------- MODULE MCRunLifecycle --------------------------
(* Instances of RunLifecycle for TLC: the kinds of run spec each run uses. *)
EXTENDS RunLifecycle

Closed == [open |-> FALSE, boot |-> FALSE, metrics |-> FALSE]
ClosedBoot == [open |-> FALSE, boot |-> TRUE, metrics |-> FALSE]
OpenMetrics == [open |-> TRUE, boot |-> FALSE, metrics |-> TRUE]

OneKind == {Closed}
TwoKinds == {ClosedBoot, OpenMetrics}
=============================================================================
