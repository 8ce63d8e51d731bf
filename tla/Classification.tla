----------------------------- MODULE Classification -----------------------------
(***************************************************************************)
(* Categories and what is filed under them (agency_classification.py and   *)
(* the triggers of sql/034_category_classification.sql).                   *)
(*                                                                         *)
(* Every write is one transaction, and what it checks lies in rows that    *)
(* others write: the parent, the descendants, the assignments.  The model  *)
(* keeps the locks that order them.  An update locks its Category; if it   *)
(* names a parent its UPDATE statement then takes the one advisory lock of *)
(* the hierarchy, shares the row of the parent, looks for a cycle, and     *)
(* writes.  The other writes wait for one row and hold nothing meanwhile,  *)
(* so that each is one step.  A request that waits for itself through      *)
(* another is ended by the database like any other refusal.                *)
(***************************************************************************)
EXTENDS Requests

CONSTANTS
    Categories,
    Assignments, \* assignment_ids
    TypeOf       \* TypeOf[e]: the type of entity e, an owner's record

VARIABLES
    category,  \* category[k]: the agency_categories row of k, or None
    assignment \* assignment[a]: the agency_category_assignments row of a, or None

classificationVars == <<category, assignment>>

EntityTypes == {TypeOf[e] : e \in DOMAIN TypeOf}

CategoryRow == [parent : Categories \cup {None}, applies : SUBSET EntityTypes,
                archived : BOOLEAN, revision : Nat \ {0}]

AssignmentRow == [category : Categories, entity : DOMAIN TypeOf, retired : BOOLEAN,
                  revision : Nat \ {0}]

\* The request bodies and what the routes take out of them.
CategoryCommand(m) ==
    m.op \in {"create_category", "update_category", "archive_category", "assign_category",
              "retire_category_assignment"}

\* An update may change the parent, the types, both, or neither.
CategoryRequest(m) ==
    /\ m.op # "retire_category_assignment" => m.category \in Categories
    /\ m.op = "create_category" =>
          m.parent \in Categories \cup {None} /\ m.applies \subseteq EntityTypes
    /\ m.op = "update_category" =>
          /\ "parent" \in DOMAIN m.changes => m.changes["parent"] \in Categories \cup {None}
          /\ "applies" \in DOMAIN m.changes => m.changes["applies"] \subseteq EntityTypes
    /\ m.op = "assign_category" => m.assignment \in Assignments /\ m.entity \in DOMAIN TypeOf
    /\ m.op = "retire_category_assignment" => m.assignment \in Assignments

ASSUME ClassificationAssumption ==
    /\ \A m \in Commands : CategoryCommand(m) => CategoryRequest(m)
    /\ None \notin Categories
    /\ None \notin CategoryRow

ActiveCategory(k) == category[k] # None /\ ~category[k].archived

ActiveIn(k) == {a \in Assignments : /\ assignment[a] # None /\ assignment[a].category = k
                                    /\ ~assignment[a].retired}

\* FOR UPDATE by an update that goes on, and FOR SHARE by one that moves under k.
LockedFor(c, k) == call[c] # Idle /\ call[c].command.category = k
SharedBy(c, k) == Step(c, "moving") /\ call[c].command.changes["parent"] = k

Free(k) == \A c \in Calls : ~LockedFor(c, k) /\ ~SharedBy(c, k)
Shareable(k) == \A c \in Calls : ~LockedFor(c, k)

-----------------------------------------------------------------------------
(* The parent guard.                                                       *)

\* j is under k: every set that has the children of k and those of its own has j.
IsBelow(j, k) ==
    \A S \in SUBSET Categories :
       (\A i \in Categories : category[i] # None /\ category[i].parent \in S \cup {k} => i \in S)
       => j \in S

ParentAllowed(k, p) == p # None => ActiveCategory(p) /\ p # k /\ ~IsBelow(p, k)

CreateCategory(m) ==
    /\ m.op = "create_category"
    /\ category[m.category] = None
    /\ m.parent # None => Shareable(m.parent) /\ ParentAllowed(m.category, m.parent)
    /\ m.applies # {}
    /\ category' = [category EXCEPT ![m.category] =
          [parent |-> m.parent, applies |-> m.applies, archived |-> FALSE, revision |-> 1]]
    /\ UNCHANGED <<assignment, call, answer>>

-----------------------------------------------------------------------------
(* Updates.                                                                *)

\* What is filed there must stay applicable.
StillApplies(k, applies) == \A a \in ActiveIn(k) : TypeOf[assignment[a].entity] \in applies

AtRevision(m) == category[m.category] # None /\ category[m.category].revision = m.expected

\* A field that the update names takes the value it gives.
Changed(m, field, old) == IF field \in DOMAIN m.changes THEN m.changes[field] ELSE old

WriteCategory(m) ==
    /\ ActiveCategory(m.category)
    /\ "applies" \in DOMAIN m.changes => StillApplies(m.category, m.changes["applies"])
    /\ category' = [category EXCEPT ![m.category] =
          [parent |-> Changed(m, "parent", @.parent), applies |-> Changed(m, "applies", @.applies),
           archived |-> @.archived, revision |-> @.revision + 1]]

\* Without a parent among the changes nothing more is waited for.
UpdateCategory(m) ==
    /\ m.op = "update_category" /\ "parent" \notin DOMAIN m.changes
    /\ Free(m.category) /\ AtRevision(m)
    /\ WriteCategory(m)
    /\ UNCHANGED <<assignment, call, answer>>

\* _category_row(lock = True)
LockCategory(c, m) ==
    /\ m.op = "update_category" /\ "parent" \in DOMAIN m.changes
    /\ Free(m.category) /\ AtRevision(m)
    /\ Begin(c, [pc |-> "locked", command |-> m])
    /\ UNCHANGED <<classificationVars, answer>>

\* Who holds the advisory lock, until the transaction ends.
Serialized == {"serialized", "moving"}

\* Seeded fault: the hierarchy is not locked.
HierarchyUnlocked(c) == Step(c, "locked")

HierarchyFree(c) == Step(c, "locked") /\ \A d \in Calls : ~\E pc \in Serialized : Step(d, pc)

\* serialize_agency_category_hierarchy_mutation, before the rows of the UPDATE.
LockHierarchy(c) ==
    /\ HierarchyFree(c)
    /\ call' = [call EXCEPT ![c].pc = "serialized"]
    /\ UNCHANGED <<classificationVars, answer>>

\* agency_category_parent_guard
CheckParent(c) ==
    LET m == call[c].command
        p == m.changes["parent"]
    IN
    /\ Step(c, "serialized")
    /\ p # None => Shareable(p) /\ ParentAllowed(m.category, p)
    /\ call' = [call EXCEPT ![c].pc = "moving"]
    /\ UNCHANGED <<classificationVars, answer>>

MoveCategory(c) ==
    /\ Step(c, "moving")
    /\ WriteCategory(call[c].command)
    /\ End(c)
    /\ UNCHANGED <<assignment, answer>>

\* No active child, and nothing is filed in it.
Archivable(k) ==
    /\ \A j \in Categories : ActiveCategory(j) => category[j].parent # k
    /\ ActiveIn(k) = {}

ArchiveCategory(m) ==
    /\ m.op = "archive_category"
    /\ Free(m.category) /\ AtRevision(m) /\ ActiveCategory(m.category)
    /\ Archivable(m.category)
    /\ category' = [category EXCEPT ![m.category] =
          [parent |-> @.parent, applies |-> @.applies, archived |-> TRUE, revision |-> @.revision + 1]]
    /\ UNCHANGED <<assignment, call, answer>>

-----------------------------------------------------------------------------
(* Assignments.                                                            *)

\* validate_agency_category_assignment, and the partial unique index.
AssignCategory(m) ==
    /\ m.op = "assign_category"
    /\ assignment[m.assignment] = None
    /\ Free(m.category) /\ ActiveCategory(m.category)
    /\ TypeOf[m.entity] \in category[m.category].applies
    /\ \A a \in ActiveIn(m.category) : assignment[a].entity # m.entity
    /\ assignment' = [assignment EXCEPT ![m.assignment] =
          [category |-> m.category, entity |-> m.entity, retired |-> FALSE, revision |-> 1]]
    /\ UNCHANGED <<category, call, answer>>

RetireAssignment(m) ==
    /\ m.op = "retire_category_assignment"
    /\ assignment[m.assignment] # None /\ assignment[m.assignment].revision = m.expected
    /\ ~assignment[m.assignment].retired
    /\ assignment' = [assignment EXCEPT ![m.assignment].retired = TRUE,
                                        ![m.assignment].revision = @ + 1]
    /\ UNCHANGED <<category, call, answer>>

RefuseMove(c) ==
    /\ Refused(c)
    /\ UNCHANGED classificationVars

ClassificationInit ==
    /\ category = [k \in Categories |-> None]
    /\ assignment = [a \in Assignments |-> None]

ClassificationNext ==
    \/ \E m \in {n \in Commands : CategoryCommand(n)} :
          \/ CreateCategory(m) \/ UpdateCategory(m) \/ ArchiveCategory(m)
          \/ AssignCategory(m) \/ RetireAssignment(m)
          \/ \E c \in Calls : LockCategory(c, m)
    \/ \E c \in Calls : LockHierarchy(c) \/ CheckParent(c) \/ MoveCategory(c) \/ RefuseMove(c)

ClassificationSpec ==
    ClassificationInit /\ RequestsInit /\ [][ClassificationNext]_<<classificationVars, requestVars>>

-----------------------------------------------------------------------------
(* Properties.                                                             *)

ClassificationTypeOK ==
    /\ \A k \in Categories : category[k] # None => category[k] \in CategoryRow
    /\ \A a \in Assignments : assignment[a] # None => assignment[a] \in AssignmentRow

\* Whatever was moved, archived and filed at the same time, the hierarchy is a
\* forest: every set of categories has one whose parent is outside of it; nothing
\* active is under an archived category or filed under one, what is filed is of a
\* type that its category takes, and it is filed there once.
HierarchyIsSound ==
    /\ \A S \in (SUBSET {k \in Categories : category[k] # None}) \ {{}} :
          \E k \in S : category[k].parent \notin S
    /\ \A k \in Categories : ActiveCategory(k) /\ category[k].parent # None =>
          ActiveCategory(category[k].parent)
    /\ \A a, b \in Assignments : assignment[a] # None /\ ~assignment[a].retired =>
          /\ ActiveCategory(assignment[a].category)
          /\ TypeOf[assignment[a].entity] \in category[assignment[a].category].applies
          /\ a # b /\ b \in ActiveIn(assignment[a].category) =>
                assignment[a].entity # assignment[b].entity

\* Categories and assignments have the shape of their tables, and the hierarchy is
\* sound with what is filed in it (HierarchyIsSound).
CategoriesAreSound == ClassificationTypeOK /\ HierarchyIsSound

\* sql/034 says: the advisory lock is acquired "before UPDATE takes any target row
\* lock".  So opposite moves wait for it one after the other, and no two of them
\* wait for each other.
MovesTakeTurns ==
    \A c, d \in Calls :
       ~(/\ Step(c, "serialized") /\ Step(d, "locked")
         /\ call[c].command.changes["parent"] = call[d].command.category
         /\ c # d)

=============================================================================
