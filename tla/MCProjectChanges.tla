--------------------------- MODULE MCProjectChanges ---------------------------
(* One Project with two fields; two executions that answer one request, and a *)
(* direct proposal.  Module MCAgencyRecords runs them.                        *)
EXTENDS ProjectChanges, TLC

CONSTANTS p1, x1, x2, rA, rB, c1, c2

VariantItem(r) ==
    [kind |-> "project_change_variant", project |-> p1, base |-> 1, scope |-> "s",
     changes |-> IF r = rA THEN ("f" :> 1) ELSE ("g" :> 1)]

Blank == [f \in Fields |-> None]

Stored(k, x, r) == [op |-> "store", key |-> k, execution |-> x, project |-> p1, items |-> {r}]
Reviewed(k, x, r, d) ==
    [op |-> "review", key |-> k, execution |-> x, result |-> r, disposition |-> d]
Selected(k, x, r) == [op |-> "select", key |-> k, execution |-> x, result |-> r]
Proposes(k, by) ==
    [op |-> "propose", key |-> k, project |-> p1, changes |-> [f \in Fields |-> 1], by |-> by]
Decided(op, k, cand) == [op |-> op, key |-> k, candidate |-> cand]

ChangeCommands ==
    { [op |-> "create", key |-> "a", project |-> p1, attributes |-> Blank],
      [op |-> "update", key |-> "b", project |-> p1, attributes |-> [Blank EXCEPT !["g"] = 1]],
      Stored("d", x1, rA), Stored("e", x2, rB),
      Reviewed("r", x1, rA, "rejected"),
      Selected("s", x1, rA), Selected("t", x2, rB),
      Proposes("p", "hermes"),
      Decided("apply", "u", <<"s", ":change-candidate">>),
      Decided("reject", "u", <<"s", ":change-candidate">>),
      Decided("revise", "v", <<"p", "">>), Decided("apply", "w", <<"p", "">>) }

=============================================================================
