--------------------------- MODULE KnowledgeEditing ---------------------------
(***************************************************************************)
(* Knowledge items and the edits proposed for them (knowledge.py,          *)
(* knowledge_update.py, knowledge_edit_variants.py).                       *)
(*                                                                         *)
(* An item is revised by a signed update of a human, by a plain edit       *)
(* request that Hermes completes, or by the variant that a human selected  *)
(* among those projected from Hermes' execution results.  Applying an edit *)
(* reads the request without a lock, once or twice, and then decides under *)
(* the lock of the item; selecting, rejecting and projecting lock the      *)
(* request instead.  Different calls therefore meet on the request row.    *)
(*                                                                         *)
(* A text stands for the whole Markdown after a replacement.  The version  *)
(* of an item determines its Markdown, so the digest of the selection is   *)
(* compared with the version.  A call that is refused, replayed, lost, or  *)
(* rolled back with the connection of its route (module SourceIntake) only *)
(* ends: Finish.  Clients repeat commands under their keys.                *)
(***************************************************************************)
EXTENDS Naturals, FiniteSets

CONSTANTS
    Items,      \* Knowledge items
    Edits,      \* ids of intelligent edit requests
    Texts,      \* Markdown contents
    Variants,   \* execution result items that propose a replacement
    VariantOf,  \* VariantOf[v]: the edit, the label and the text of v
    Keys,       \* idempotency keys
    Commands,   \* what clients and Hermes may send, each under a key of its own
    Calls,      \* calls the server handles at the same time
    MaxVersion, \* bound on the versions of an item
    None

Command ==
         [op : {"publish"}, key : Keys, item : Items, text : Texts]
    \cup [op : {"update"}, key : Keys, item : Items, expected : 1..MaxVersion, text : Texts]
    \cup [op : {"request"}, key : Keys, item : Items, edit : Edits, expected : 1..MaxVersion,
          text : Texts \cup {None}]
    \cup [op : {"request_variants"}, key : Keys, item : Items, edit : Edits,
          expected : 1..MaxVersion, wanted : {1, 2}]
    \cup [op : {"complete"}, key : Keys, edit : Edits, text : Texts]
    \cup [op : {"project", "select"}, key : Keys, edit : Edits, variant : Variants]
    \cup [op : {"reject", "apply", "apply_selected"}, key : Keys, edit : Edits]

ASSUME ConstantsAssumption ==
    /\ MaxVersion \in Nat \ {0}
    /\ VariantOf \in [Variants -> [edit : Edits, label : {"A", "B"}, text : Texts]]
    /\ Commands \subseteq Command
    /\ \A m, n \in Commands : m.key = n.key => m = n
    /\ None \notin Texts \cup Variants \cup Edits \cup Keys

VARIABLES
    item,      \* item[k]: version and Markdown, version 0 before it is published
    events,    \* knowledge_events
    edit,      \* edit[e]: the knowledge_edit_requests row, or Absent
    projected, \* knowledge_edit_variants
    review,    \* knowledge_edit_review_events
    call       \* call[c]: the call in slot c

vars == <<item, events, edit, projected, review, call>>

Absent == [present |-> FALSE]
Idle == [pc |-> "idle"]

Statuses == {"queued_for_hermes", "proposed", "applied", "conflict", "rejected"}
Open == {"queued_for_hermes", "proposed"}

\* wanted: how many variants were requested, 0 for a plain request.
Edit == [present : {TRUE}, item : Items, base : 1..MaxVersion, wanted : 0..2,
         status : Statuses, replacement : Texts \cup {None}, selected : Variants \cup {None}]

\* edit: the request whose application wrote the revision, or None.
Event == [item : Items, expected : 0..MaxVersion, key : Keys, text : Texts,
          edit : Edits \cup {None}]

ReviewEvent == [type : {"projected", "selected", "rejected", "applied"}, edit : Edits,
                variant : Variants \cup {None}, key : Keys]

\* variant and text are what the call has read so far.
Handling == [pc : {"received", "chosen", "set", "checked", "stale"}, command : Commands,
             variant : Variants \cup {None}, text : Texts \cup {None}]

At(c, pc, ops) ==
    IF call[c] = Idle THEN FALSE ELSE call[c].pc = pc /\ call[c].command.op \in ops

EditOf(c) == call[c].command.edit
Key(c) == call[c].command.key

StatusIn(e, statuses) == IF edit[e].present THEN edit[e].status \in statuses ELSE FALSE

End(c) == call' = [call EXCEPT ![c] = Idle]

\* The item still is at the version the request was made for.
Current(e) == item[edit[e].item].version = edit[e].base

Receive(c, m) ==
    /\ call[c] = Idle
    /\ call' = [call EXCEPT ![c] = [pc |-> "received", command |-> m,
                                    variant |-> None, text |-> None]]
    /\ UNCHANGED <<item, events, edit, projected, review>>

Finish(c) ==
    /\ call[c] # Idle
    /\ End(c)
    /\ UNCHANGED <<item, events, edit, projected, review>>

-----------------------------------------------------------------------------
(* Revisions (publish_knowledge, revise_knowledge).                        *)

\* Seeded fault: the version is not compared again under the lock.
ReviseAnyVersion(k, expected, key, text, e) ==
    /\ \A v \in events : v.key # key
    /\ item[k].version < MaxVersion
    /\ item' = [item EXCEPT ![k] = [version |-> @.version + 1, text |-> text]]
    /\ events' = events \cup {[item |-> k, expected |-> expected, key |-> key,
                               text |-> text, edit |-> e]}

\* Version, Markdown and event together; a key that is on record writes nothing.
Revise(k, expected, key, text, e) ==
    /\ \A v \in events : v.key # key
    /\ item[k].version = expected
    /\ expected < MaxVersion
    /\ item' = [item EXCEPT ![k] = [version |-> expected + 1, text |-> text]]
    /\ events' = events \cup {[item |-> k, expected |-> expected, key |-> key,
                               text |-> text, edit |-> e]}

Publish(c) ==
    /\ At(c, "received", {"publish"})
    /\ Revise(call[c].command.item, 0, Key(c), call[c].command.text, None)
    /\ End(c)
    /\ UNCHANGED <<edit, projected, review>>

\* apply_knowledge_update, once the signed challenge was verified.
Update(c) ==
    /\ At(c, "received", {"update"})
    /\ Revise(call[c].command.item, call[c].command.expected, Key(c), call[c].command.text, None)
    /\ End(c)
    /\ UNCHANGED <<edit, projected, review>>

-----------------------------------------------------------------------------
(* Requests and proposals.                                                 *)

\* A request is for the current version; one that brings its replacement
\* along is a proposal already.
CreateRequest(c, wanted, text) ==
    LET m == call[c].command IN
    /\ ~edit[m.edit].present
    /\ item[m.item].version = m.expected
    /\ edit' = [edit EXCEPT ![m.edit] =
                  [present |-> TRUE, item |-> m.item, base |-> m.expected, wanted |-> wanted,
                   status |-> IF text = None THEN "queued_for_hermes" ELSE "proposed",
                   replacement |-> text, selected |-> None]]
    /\ End(c)
    /\ UNCHANGED <<item, events, projected, review>>

RequestEdit(c) ==
    /\ At(c, "received", {"request"})
    /\ CreateRequest(c, 0, call[c].command.text)

RequestVariants(c) ==
    /\ At(c, "received", {"request_variants"})
    /\ CreateRequest(c, call[c].command.wanted, None)

\* complete_edit_request does not look at the status the request has.
Complete(c) ==
    LET e == EditOf(c) IN
    /\ At(c, "received", {"complete"})
    /\ edit[e].present
    /\ edit' = [edit EXCEPT ![e].replacement = call[c].command.text,
                            ![e].status = IF Current(e) THEN "proposed" ELSE "conflict"]
    /\ End(c)
    /\ UNCHANGED <<item, events, projected, review>>

VariantsOf(e) == {v \in projected : VariantOf[v].edit = e}

NewReview(c, type, v) ==
    /\ \A r \in review : r.key # Key(c)
    /\ review' = review \cup {[type |-> type, edit |-> EditOf(c), variant |-> v, key |-> Key(c)]}

\* The candidate is of this request, and its label is requested and free.
Projectable(e, v) ==
    /\ VariantOf[v].edit = e
    /\ VariantOf[v].label = "B" => edit[e].wanted = 2
    /\ \A w \in VariantsOf(e) : VariantOf[w].label # VariantOf[v].label

\* Seeded fault: the first variant is taken for the last one.
ProjectedEarly(e, v) == edit[e].wanted > 0

\* Every variant that was asked for is there once v is.
ProjectedAll(e, v) == Cardinality(VariantsOf(e) \cup {v}) >= edit[e].wanted

\* A plain request has no digest of its scope, so nothing is projected on it.
Project(c) ==
    LET e == EditOf(c)  v == call[c].command.variant IN
    /\ At(c, "received", {"project"})
    /\ StatusIn(e, Open)
    /\ edit[e].wanted > 0
    /\ Current(e)
    /\ Projectable(e, v)
    /\ projected' = projected \cup {v}
    /\ NewReview(c, "projected", v)
    /\ edit' = IF ProjectedAll(e, v) THEN [edit EXCEPT ![e].status = "proposed"] ELSE edit
    /\ End(c)
    /\ UNCHANGED <<item, events>>

\* The transaction that finds the scope stale unwinds, with what it wrote.
ProjectStale(c) ==
    /\ At(c, "received", {"project"})
    /\ StatusIn(EditOf(c), Open)
    /\ ~Current(EditOf(c))
    /\ call' = [call EXCEPT ![c].pc = "stale"]
    /\ UNCHANGED <<item, events, edit, projected, review>>

Select(c) ==
    LET e == EditOf(c)  v == call[c].command.variant IN
    /\ At(c, "received", {"select"})
    /\ StatusIn(e, {"proposed"})
    /\ v \in VariantsOf(e)
    /\ edit' = [edit EXCEPT ![e].selected = v]
    /\ NewReview(c, "selected", v)
    /\ End(c)
    /\ UNCHANGED <<item, events, projected>>

Reject(c) ==
    /\ At(c, "received", {"reject"})
    /\ StatusIn(EditOf(c), Open)
    /\ edit' = [edit EXCEPT ![EditOf(c)].status = "rejected"]
    /\ NewReview(c, "rejected", None)
    /\ End(c)
    /\ UNCHANGED <<item, events, projected>>

-----------------------------------------------------------------------------
(* Application (apply_selected_variant, apply_edit_request).               *)

\* apply_selected_variant reads the request and its selection, unlocked.
ReadSelection(c) ==
    LET e == EditOf(c) IN
    /\ At(c, "received", {"apply_selected"})
    /\ StatusIn(e, {"proposed"})
    /\ edit[e].selected # None
    /\ call' = [call EXCEPT ![c].pc = "chosen", ![c].variant = edit[e].selected]
    /\ UNCHANGED <<item, events, edit, projected, review>>

\* Seeded fault: the replacement becomes the id of the variant.
SetReplacementId(c) ==
    LET e == EditOf(c)  v == call[c].variant IN
    /\ At(c, "chosen", {"apply_selected"})
    /\ StatusIn(e, {"proposed"})
    /\ edit[e].selected = v
    /\ edit' = [edit EXCEPT ![e].replacement = v]
    /\ call' = [call EXCEPT ![c].pc = "set"]
    /\ UNCHANGED <<item, events, projected, review>>

\* Its first transaction: the replacement becomes the text of the variant.
SetReplacement(c) ==
    LET e == EditOf(c)  v == call[c].variant IN
    /\ At(c, "chosen", {"apply_selected"})
    /\ StatusIn(e, {"proposed"})
    /\ edit[e].selected = v
    /\ edit' = [edit EXCEPT ![e].replacement = VariantOf[v].text]
    /\ call' = [call EXCEPT ![c].pc = "set"]
    /\ UNCHANGED <<item, events, projected, review>>

\* apply_edit_request reads status and replacement, unlocked.
ReadProposal(c) ==
    LET e == EditOf(c) IN
    /\ At(c, "received", {"apply"}) \/ At(c, "set", {"apply_selected"})
    /\ StatusIn(e, {"proposed"})
    /\ edit[e].replacement # None
    /\ call' = [call EXCEPT ![c].pc = "checked", ![c].text = edit[e].replacement]
    /\ UNCHANGED <<item, events, edit, projected, review>>

\* record_application: the audit names the variant that was read first.
Audit(c) ==
    IF call[c].command.op = "apply_selected" /\ \A r \in review : r.key # Key(c)
    THEN NewReview(c, "applied", call[c].variant)
    ELSE review' = review

\* Seeded fault: the edit goes into the version that is there.
ApplyToCurrent(c) ==
    LET e == EditOf(c) IN
    /\ At(c, "checked", {"apply", "apply_selected"})
    /\ Revise(edit[e].item, item[edit[e].item].version, Key(c), call[c].text, e)
    /\ edit' = [edit EXCEPT ![e].status = "applied"]
    /\ Audit(c)
    /\ End(c)
    /\ UNCHANGED projected

\* Under the lock of the item; the status of the request is not read again.
ApplyEdit(c) ==
    LET e == EditOf(c) IN
    /\ At(c, "checked", {"apply", "apply_selected"})
    /\ Revise(edit[e].item, edit[e].base, Key(c), call[c].text, e)
    /\ edit' = [edit EXCEPT ![e].status = "applied"]
    /\ Audit(c)
    /\ End(c)
    /\ UNCHANGED projected

DiscoverStale(c) ==
    /\ At(c, "checked", {"apply", "apply_selected"})
    /\ ~Current(EditOf(c))
    /\ call' = [call EXCEPT ![c].pc = "stale"]
    /\ UNCHANGED <<item, events, edit, projected, review>>

\* The conflict is recorded in a transaction of its own: a projection leaves a
\* request alone that is no longer open, an application does not look.
MarkConflict(c) ==
    LET e == EditOf(c) IN
    /\ At(c, "stale", {"project", "apply", "apply_selected"})
    /\ edit' = IF call[c].command.op = "project" /\ ~StatusIn(e, Open) THEN edit
               ELSE [edit EXCEPT ![e].status = "conflict"]
    /\ End(c)
    /\ UNCHANGED <<item, events, projected, review>>

-----------------------------------------------------------------------------
Init ==
    /\ item = [k \in Items |-> [version |-> 0, text |-> None]]
    /\ events = {}
    /\ edit = [e \in Edits |-> Absent]
    /\ projected = {}
    /\ review = {}
    /\ call = [c \in Calls |-> Idle]

Step(c) ==
    \/ \E m \in Commands : Receive(c, m)
    \/ Publish(c) \/ Update(c) \/ RequestEdit(c) \/ RequestVariants(c) \/ Complete(c)
    \/ Project(c) \/ ProjectStale(c) \/ Select(c) \/ Reject(c)
    \/ ReadSelection(c) \/ SetReplacement(c) \/ ReadProposal(c)
    \/ ApplyEdit(c) \/ DiscoverStale(c) \/ MarkConflict(c)
    \/ Finish(c)

Next == \E c \in Calls : Step(c)

Spec == Init /\ [][Next]_vars

-----------------------------------------------------------------------------
(* Properties.                                                             *)

\* Rows, ledgers and calls hold values of their columns.
TypeOK ==
    /\ item \in [Items -> [version : 0..MaxVersion, text : Texts \cup {None}]]
    /\ events \subseteq Event
    /\ edit \in [Edits -> Edit \cup {Absent}]
    /\ projected \subseteq Variants
    /\ review \subseteq ReviewEvent
    /\ call \in [Calls -> Handling \cup {Idle}]

\* "All material writes use exact optimistic versions" (knowledge.py): every
\* version of an item was written by one command that had the version before
\* it in front of it, and the Markdown is what the last of them wrote.
LedgerExplainsItem ==
    \A k \in Items :
        LET own == {v \in events : v.item = k} IN
        /\ {v.expected : v \in own} = 0..(item[k].version - 1)
        /\ \A v, w \in own : v.expected = w.expected => v = w
        /\ \A v \in own : v.expected = item[k].version - 1 => v.text = item[k].text

\* However many clients apply an edit request, and whatever happens to it in
\* between, its replacement enters the item at most once and only into the
\* version it was made for; a request that reads "applied" did enter it.
EditsApplyOnce ==
    \A e \in Edits : edit[e].present =>
        LET own == {v \in events : v.edit = e} IN
        /\ \A v, w \in own : v = w
        /\ \A v \in own : v.item = edit[e].item /\ v.expected = edit[e].base
        /\ edit[e].status = "applied" => own # {}

\* "The applied revision and its variant_applied audit are one effect"
\* (test_apply_and_its_audit_commit_together): neither is on record alone.
AuditCommitsWithRevision ==
    {r.key : r \in {s \in review : s.type = "applied"}} =
    {v.key : v \in {w \in events : \E m \in Commands : m.key = w.key /\ m.op = "apply_selected"}}

\* A request is proposed to a human only with what was asked for: a text, or
\* as many variants as were requested; and the selection is one of them.
ProposalIsComplete ==
    \A e \in Edits : edit[e].present =>
        /\ StatusIn(e, {"proposed"}) =>
              \/ edit[e].replacement # None
              \/ edit[e].wanted > 0 /\ Cardinality(VariantsOf(e)) = edit[e].wanted
        /\ edit[e].selected # None => edit[e].selected \in VariantsOf(e)

\* The audit commits with its revision (AuditCommitsWithRevision), and what is offered
\* to a human is all that was asked for (ProposalIsComplete).
ProposalsAreWhole == AuditCommitsWithRevision /\ ProposalIsComplete

=============================================================================
