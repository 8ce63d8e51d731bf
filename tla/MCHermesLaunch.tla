--------------------------- MODULE MCHermesLaunch ---------------------------
(* One admission, two binding processes that race for it with two keys, and *)
(* two Hermes runs.                                                         *)
EXTENDS HermesLaunch, TLC

\* Run ids, processes and keys are interchangeable.
Symmetry == Permutations(HermesRuns) \cup Permutations(Bindings) \cup Permutations(Keys)

=============================================================================
