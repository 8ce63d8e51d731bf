----------------------------- MODULE EntityRelations -----------------------------
(***************************************************************************)
(* Typed relations between the entities of a Project (entity_relations.py, *)
(* sql/015_entity_relations.sql).  A human or Hermes proposes an edge; only *)
(* a human canonizes, rejects or retires it.  Each command looks its key up *)
(* first, and then works under the lock of its relation, or under the       *)
(* unique index of the open edges.                                          *)
(***************************************************************************)
EXTENDS Requests

CONSTANTS
    Relations, \* relation_ids
    ProjectOf  \* ProjectOf[e]: the Project of entity e, or None for a Contact

VARIABLES
    relation,      \* relation[r]: the agency_entity_relations row of r, or None
    relationEvents \* agency_entity_relation_events: the commands that took effect

relationVars == <<relation, relationEvents>>

Edge == [project : {ProjectOf[e] : e \in DOMAIN ProjectOf}, from : DOMAIN ProjectOf,
         to : DOMAIN ProjectOf]

RelationStatuses == {"proposed", "canonical", "rejected", "retired"}

RelationRow == [edge : Edge, status : RelationStatuses, revision : Nat \ {0}]

Decision == [canonize_relation |-> [from |-> "proposed", to |-> "canonical"],
             reject_relation |-> [from |-> "proposed", to |-> "rejected"],
             retire_relation |-> [from |-> "canonical", to |-> "retired"]]

\* _actor: Hermes may propose and nothing else.
Gate(m) == m.by = "human" \/ m.op = "propose_relation"

RelationCommand(m) == m.op \in {"propose_relation"} \cup DOMAIN Decision

RelationRequest ==
         [op : {"propose_relation"}, key : Keys, relation : Relations, edge : Edge,
          by : {"human", "hermes"}]
    \cup [op : DOMAIN Decision, key : Keys, relation : Relations, expected : Nat,
          by : {"human", "hermes"}]

ASSUME RelationAssumption ==
    /\ {m \in Commands : RelationCommand(m)} \subseteq RelationRequest
    /\ None \notin RelationRow

RelationEventOf(key) == {i \in DOMAIN relationEvents : relationEvents[i].key = key}

LookUpRelation(c, m) ==
    /\ RelationCommand(m)
    /\ Gate(m)
    /\ RelationEventOf(m.key) = {}
    /\ Begin(c, [pc |-> m.op, command |-> m])
    /\ UNCHANGED <<relationVars, answer>>

ReplayRelation(m) ==
    /\ RelationCommand(m)
    /\ \E i \in RelationEventOf(m.key) : relationEvents[i] = m
    /\ Answers(m, m.relation)
    /\ UNCHANGED <<relationVars, call>>

\* enforce_agency_entity_relation_scope: who has a Project has this one, and one has.
Scoped(edge) ==
    /\ {ProjectOf[edge.from], ProjectOf[edge.to]} \ {None} = {edge.project}
    /\ edge.from # edge.to

\* agency_entity_relations_active_edge_unique
OpenEdges == {relation[r].edge : r \in {s \in Relations :
    relation[s] # None /\ relation[s].status \in {"proposed", "canonical"}}}

\* _record_event, and the answer.
RecordsRelation(c, m) ==
    /\ RelationEventOf(m.key) = {}
    /\ relationEvents' = Append(relationEvents, m)
    /\ Answers(m, m.relation)
    /\ End(c)

ProposeRelation(c) ==
    LET m == call[c].command IN
    /\ Step(c, "propose_relation")
    /\ relation[m.relation] = None
    /\ Scoped(m.edge)
    /\ m.edge \notin OpenEdges
    /\ relation' = [relation EXCEPT ![m.relation] =
          [edge |-> m.edge, status |-> "proposed", revision |-> 1]]
    /\ RecordsRelation(c, m)

\* Seeded fault: the revision is compared, but not the status.
RelationDecidableAt(m) == relation[m.relation].revision = m.expected

RelationDecidable(m) ==
    /\ relation[m.relation].revision = m.expected
    /\ relation[m.relation].status = Decision[m.op].from

\* _decide
DecideRelation(c) ==
    LET m == call[c].command IN
    /\ \E op \in DOMAIN Decision : Step(c, op)
    /\ relation[m.relation] # None
    /\ RelationDecidable(m)
    /\ relation' = [relation EXCEPT ![m.relation] =
          [edge |-> @.edge, status |-> Decision[m.op].to, revision |-> @.revision + 1]]
    /\ RecordsRelation(c, m)

RefuseRelation(c) ==
    /\ Refused(c)
    /\ UNCHANGED relationVars

RelationInit == relation = [r \in Relations |-> None] /\ relationEvents = <<>>

RelationNext ==
    \/ \E c \in Calls, m \in Commands : LookUpRelation(c, m)
    \/ \E m \in Commands : ReplayRelation(m)
    \/ \E c \in Calls : ProposeRelation(c) \/ DecideRelation(c) \/ RefuseRelation(c)

RelationSpec == RelationInit /\ RequestsInit /\ [][RelationNext]_<<relationVars, requestVars>>

-----------------------------------------------------------------------------
(* Properties.                                                             *)

\* Every row has the shape of its table.
RelationTypeOK == relation \in [Relations -> RelationRow \cup {None}]

\* The events of r, and those of the same relation before the i-th.
History(r) == {i \in DOMAIN relationEvents : relationEvents[i].relation = r}
Before(i) == {j \in History(relationEvents[i].relation) : j < i}

\* What an act makes of a relation.
Makes(op) == IF op = "propose_relation" THEN "proposed" ELSE Decision[op].to

\* A relation is what humans made of a proposal: its revision and status are those
\* of its history, which is a proposal, then one decision of a human, then the
\* retirement by a human of what the decision made canonical.
HistoryIsOfHumans(r) ==
    LET h == History(r) IN
    /\ relation[r].revision = Cardinality(h)
    /\ Cardinality(h) <= 3
    /\ \A i \in h : LET event == relationEvents[i]
                         n == Cardinality(Before(i)) IN
          /\ n = 0 <=> event.op = "propose_relation"
          /\ n = 0 => event.edge = relation[r].edge
          /\ n > 0 => event.by = "human"
          /\ n = 2 <=> event.op = "retire_relation"
          /\ n = 2 => \E j \in Before(i) : relationEvents[j].op = "canonize_relation"
    /\ \E i \in h : (\A j \in h : j <= i) /\ relation[r].status = Makes(relationEvents[i].op)

\* Every relation is what humans made of a proposal (HistoryIsOfHumans); however
\* many proposals raced, an edge is open in one relation; and a key is used once.
RelationsAreDecided ==
    /\ \A r \in Relations : relation[r] # None => HistoryIsOfHumans(r)
    /\ \A r, s \in Relations : r # s /\ relation[r] # None /\ relation[s] # None
          /\ {relation[r].status, relation[s].status} \subseteq {"proposed", "canonical"} =>
             relation[r].edge # relation[s].edge
    /\ \A i, j \in DOMAIN relationEvents : relationEvents[i].key = relationEvents[j].key => i = j

\* Relations have the shape of their table and are decided (RelationsAreDecided).
RelationsAreSound == RelationTypeOK /\ RelationsAreDecided

=============================================================================
