--------------------------- MODULE MCHumanAttention ---------------------------
(* Two issues, two requests and two decisions about the first issue.       *)
EXTENDS HumanAttention, TLC

CONSTANTS i1, i2, l1, l2, l3, l4, pA, pB, d1, d2, agency, o1, q1, q2, c1, c2

MCProjectOf == (o1 :> pA)

S(l, e, r) == [link |-> l, entity |-> e, role |-> r]

Added(k, i, s) == [op |-> "scope", key |-> k, effect |-> Linked(i, s)]
Retired(k, i, l) ==
    [op |-> "scope", key |-> k, effect |-> [type |-> "scope_retired", issue |-> i, link |-> l]]
Replaced(k, i, l, s) ==
    [op |-> "scope", key |-> k,
     effect |-> [type |-> "primary_scope_replaced", issue |-> i, current |-> l, scope |-> s]]
Asked(k, q, p, refs) ==
    [op |-> "ask", key |-> k, refs |-> refs,
     effect |-> [type |-> "request_created", request |-> q, issue |-> i1, project |-> p,
                 blocking |-> TRUE]]
Resolved(k, q, d, v) ==
    [op |-> "decide", key |-> k,
     effect |-> [type |-> "request_resolved", request |-> q, record |-> d, value |-> v]]
Cancelled(k, q) ==
    [op |-> "decide", key |-> k, effect |-> [type |-> "request_cancelled", request |-> q]]

ScopesOfIssue == <<S(l1, pA, "primary"), S(l2, pB, "related")>>

MCCommands ==
    { [op |-> "create", key |-> "n", issue |-> i1, scopes |-> ScopesOfIssue],
      [op |-> "create", key |-> "n", issue |-> i1,
       scopes |-> Append(ScopesOfIssue, S(l3, agency, "related"))],
      [op |-> "plain", key |-> "p", issue |-> i2],
      [op |-> "comment", key |-> "m", issue |-> i1],
      Added("a", i2, S(l3, agency, "primary")),
      Added("a", i1, S(l4, d1, "related")),
      Retired("t", i1, l2), Retired("t", i1, l1),
      Replaced("r", i1, l1, S(l4, pB, "primary")),
      Asked("x", q1, pA, {}), Asked("x", q1, pA, {o1}), Asked("y", q2, pB, {}),
      Resolved("s", q1, d1, "approve"), Resolved("u", q1, d1, "refuse"),
      Resolved("v", q2, d2, "approve"), Cancelled("w", q1) }

MCKeys == {m.key : m \in MCCommands}

Symmetry == Permutations(Calls)

=============================================================================
