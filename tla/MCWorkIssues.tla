---------------------------- MODULE MCWorkIssues ----------------------------
(* One Work Issue and one Hermes run under two concurrent clients.          *)
EXTENDS WorkIssues, TLC

CONSTANTS i1, r1

\* The commands of one issue's life, and those that race with them: a comment,
\* a second kind of return, a human who cancels, a Hermes actor who tries to.
MCCommands ==
    {[op |-> "create", issue |-> i1],
     [op |-> "comment", issue |-> i1],
     [op |-> "start", issue |-> i1, run |-> r1],
     [op |-> "return", issue |-> i1, run |-> r1, outcome |-> "result_candidate"],
     [op |-> "return", issue |-> i1, run |-> r1, outcome |-> "failed"],
     [op |-> "close", issue |-> i1],
     [op |-> "transition", issue |-> i1, to |-> "cancelled", kind |-> "human"],
     [op |-> "transition", issue |-> i1, to |-> "cancelled", kind |-> "hermes"]}

Symmetry == Permutations(Keys) \cup Permutations(Clients)

=============================================================================
