---------------------------- MODULE MCSourceIntake ----------------------------
(* Two Sources that contain each other or not, two requests, and fewer keys *)
(* than mutations, so that keys are used again.                             *)
EXTENDS SourceIntake, TLC

Symmetry == Permutations(Requests) \cup Permutations(IntakeKeys)

=============================================================================
