-------------------------- MODULE MCKnowledgeEditing --------------------------
(* One item, one request for two variants, one plain request.              *)
EXTENDS KnowledgeEditing, TLC

CONSTANTS k1, e1, e2, vA, vB, tP, tU, tA, tB, tH, c1, c2

MCVariantOf == (vA :> [edit |-> e1, label |-> "A", text |-> tA])
            @@ (vB :> [edit |-> e1, label |-> "B", text |-> tB])

MCCommands ==
    { [key |-> "p", op |-> "publish", item |-> k1, text |-> tP],
      [key |-> "u1", op |-> "update", item |-> k1, expected |-> 1, text |-> tU],
      [key |-> "r1", op |-> "request_variants", item |-> k1, expected |-> 1,
       edit |-> e1, wanted |-> 2],
      [key |-> "r2", op |-> "request", item |-> k1, expected |-> 1, edit |-> e2,
       text |-> None],
      [key |-> "r3", op |-> "request", item |-> k1, expected |-> 2, edit |-> e2,
       text |-> tU],
      [key |-> "h1", op |-> "complete", edit |-> e1, text |-> tH],
      [key |-> "h2", op |-> "complete", edit |-> e2, text |-> tH],
      [key |-> "jA", op |-> "project", edit |-> e1, variant |-> vA],
      [key |-> "jB", op |-> "project", edit |-> e1, variant |-> vB],
      [key |-> "sA", op |-> "select", edit |-> e1, variant |-> vA],
      [key |-> "sB", op |-> "select", edit |-> e1, variant |-> vB],
      [key |-> "x1", op |-> "reject", edit |-> e1],
      [key |-> "a1", op |-> "apply_selected", edit |-> e1],
      [key |-> "a2", op |-> "apply_selected", edit |-> e1],
      [key |-> "b2", op |-> "apply", edit |-> e2] }

MCKeys == {m.key : m \in MCCommands}

Symmetry == Permutations(Calls)

=============================================================================
