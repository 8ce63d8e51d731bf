----------------------------- MODULE MCProjectGraph -----------------------------
(* Relations between the entities of the Project, and categories.  Module      *)
(* MCAgencyRecords runs them.                                                  *)
EXTENDS MCProjectChanges, EntityRelations, Classification

CONSTANTS i1, i2, o1, l1, l2, g1, g2, g3, g4, a1, a2

\* An Information card and an object of the Project, and a Contact of no Project.
MCProjectOf == (i1 :> p1) @@ (o1 :> p1) @@ (i2 :> None)

MCEdge == [project |-> p1, from |-> i1, to |-> o1]

ProposesEdge(k, r, edge, by) ==
    [op |-> "propose_relation", key |-> k, relation |-> r, edge |-> edge, by |-> by]
DecidesEdge(k, op, r, at) ==
    [op |-> op, key |-> k, relation |-> r, expected |-> at, by |-> "human"]

\* Two keys are used twice.
RelationCommands ==
    { ProposesEdge("a", l1, MCEdge, "hermes"), ProposesEdge("b", l2, MCEdge, "human"),
      ProposesEdge("d", l2, [MCEdge EXCEPT !.to = i2], "human"),
      ProposesEdge("d", l2, [MCEdge EXCEPT !.project = None, !.from = i2], "human"),
      DecidesEdge("e", "canonize_relation", l1, 1), DecidesEdge("r", "reject_relation", l1, 1),
      DecidesEdge("s", "retire_relation", l1, 2), DecidesEdge("r", "canonize_relation", l2, 1) }

MCTypeOf == (i1 :> "information") @@ (p1 :> "project")

Creates(k, parent) ==
    [op |-> "create_category", category |-> k, parent |-> parent,
     applies |-> {"information", "project"}]
Updates(k, changes) ==
    [op |-> "update_category", category |-> k, expected |-> 1, changes |-> changes]
Moves(k, parent) == Updates(k, "parent" :> parent)
Archives(k) == [op |-> "archive_category", category |-> k, expected |-> 1]
Assigns(a, k, e) == [op |-> "assign_category", assignment |-> a, category |-> k, entity |-> e]

\* g2 is under g1 and g4 under g3; each root can be moved under the child of the
\* other, and the roots under each other.
CategoryCommands ==
    { Creates(g1, None), Creates(g2, g1), Creates(g3, None), Creates(g4, g3),
      Moves(g1, g4), Moves(g3, g2), Moves(g3, g1), Moves(g1, g3), Moves(g4, None),
      Updates(g2, "applies" :> {"project"}), Archives(g2), Archives(g4),
      Assigns(a1, g2, i1), Assigns(a2, g2, i1),
      [op |-> "retire_category_assignment", assignment |-> a1, expected |-> 1] }

=============================================================================
