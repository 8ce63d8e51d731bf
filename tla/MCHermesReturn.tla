--------------------------- MODULE MCHermesReturn ---------------------------
(* One run whose return is reported under several keys by callers that race *)
(* with each other and with the humans who work on the issue.               *)
EXTENDS HermesReturn, TLC

CONSTANTS k1, k2, k3, x1, x2

\* Each key carries one payload: two results that differ, and a failure.
OnePayload ==
    {<<k1, [outcome |-> "result_candidate", content |-> x1]>>,
     <<k2, [outcome |-> "result_candidate", content |-> x2]>>,
     <<k3, [outcome |-> "failed", content |-> x1]>>}

\* A caller that changes its mind under the same key.
TwoPayloads ==
    {<<k1, [outcome |-> "partial", content |-> x1]>>,
     <<k1, [outcome |-> "result_candidate", content |-> x1]>>}

Symmetry == Permutations(Calls)

=============================================================================
