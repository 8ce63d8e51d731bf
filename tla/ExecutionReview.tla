---------------------------- MODULE ExecutionReview ----------------------------
(***************************************************************************)
(* What an execution runtime returned and what humans said of it           *)
(* (execution_results.py): execution results with their items, stored whole *)
(* and never changed, and the review dispositions appended to an item.     *)
(* Modules ProjectChanges and ProjectClaims adopt the items.               *)
(*                                                                         *)
(* Both operations open their transaction first.  Storing relies on unique *)
(* keys alone, a disposition is appended under the lock of its item, so    *)
(* each is one step, and the dispositions of an item are in the order of   *)
(* their occurred_at.                                                      *)
(***************************************************************************)
EXTENDS Requests

CONSTANTS
    Projects,   \* agency_projects
    Executions, \* execution_result_id values
    Results,    \* result_id values
    ItemOf      \* ItemOf[r]: kind and payload of the item r, where r is returned

VARIABLES
    stored,      \* stored[x]: the execution_results row with its items, or None
    dispositions \* execution_result_review_dispositions, by occurred_at

reviewVars == <<stored, dispositions>>

Kinds == {"project_change_variant", "project_claim_candidate"}

Dispositions == {"rejected", "selected_for_change_candidate", "accepted_for_claim"}

\* A key as sent, or with the suffix under which an operation uses it again.
Suffixes == {"", ":selection", ":change-candidate", ":proposed", ":project-apply"}
Key == Keys \X Suffixes
Sent(k) == <<k, "">>

Execution == [key : Keys, project : Projects, items : SUBSET Results]

Disposition == [key : Key, result : Results, disposition : Dispositions]

Content(m) == [key |-> m.key, project |-> m.project, items |-> m.items]

\* The item was returned by execution x.
Returned(r, x) == IF stored[x] = None THEN FALSE ELSE r \in stored[x].items

Known(r) == \E x \in Executions : Returned(r, x)

\* The key is new, and so are the execution and each of its items.
StoreResult(m) ==
    /\ m.op = "store"
    /\ \A x \in Executions : stored[x] # None => stored[x].key # m.key
    /\ stored[m.execution] = None
    /\ \A r \in m.items : ~Known(r)
    /\ stored' = [stored EXCEPT ![m.execution] = Content(m)]
    /\ UNCHANGED dispositions

ReplayStore(m) ==
    /\ m.op = "store"
    /\ stored[m.execution] = Content(m)
    /\ UNCHANGED <<stored, dispositions>>

\* A route lets only humans review.
Admissible(r, d) ==
    /\ d = "accepted_for_claim" => ItemOf[r].kind = "project_claim_candidate"
    /\ d = "selected_for_change_candidate" => ItemOf[r].kind = "project_change_variant"

\* append_review_disposition under the lock of the item: a new row, or the same
\* one under the same key.
Appends(row) ==
    /\ Known(row.result)
    /\ Admissible(row.result, row.disposition)
    /\ LET same == {j \in DOMAIN dispositions : dispositions[j].key = row.key} IN
       IF same = {}
       THEN dispositions' = Append(dispositions, row)
       ELSE (\A j \in same : dispositions[j] = row) /\ UNCHANGED dispositions

Reviews(m) ==
    /\ m.op = "review"
    /\ Returned(m.result, m.execution)
    /\ Appends([key |-> Sent(m.key), result |-> m.result, disposition |-> m.disposition])
    /\ UNCHANGED stored

\* The dispositions of item r, and the last of them.
Of(r) == {j \in DOMAIN dispositions : dispositions[j].result = r}

Latest(r) == CHOOSE j \in Of(r) : \A k \in Of(r) : k <= j

ReviewInit ==
    /\ stored = [x \in Executions |-> None]
    /\ dispositions = <<>>

ReviewTypeOK ==
    /\ stored \in [Executions -> Execution \cup {None}]
    /\ \A j \in DOMAIN dispositions : dispositions[j] \in Disposition

=============================================================================
