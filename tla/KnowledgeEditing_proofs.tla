----------------------- MODULE KnowledgeEditing_proofs -----------------------
(***************************************************************************)
(* Theorems about the edits of Knowledge, for every number of items,       *)
(* requests, variants, commands, calls and versions.                       *)
(***************************************************************************)
EXTENDS KnowledgeEditing, FiniteSetTheorems, TLAPS

-----------------------------------------------------------------------------
(* Commands, calls and rows.                                               *)

LEMMA CommandFields ==
    ASSUME NEW m \in Commands
    PROVE  /\ m.key \in Keys
           /\ m.op \in {"publish", "update", "request", "request_variants"} => m.item \in Items
           /\ m.op \in {"publish", "update", "complete"} => m.text \in Texts
           /\ m.op \in {"update", "request", "request_variants"} => m.expected \in 1..MaxVersion
           /\ m.op = "request" => m.text \in Texts \cup {None}
           /\ m.op = "request_variants" => m.wanted \in {1, 2}
           /\ m.op \in {"project", "select"} => m.variant \in Variants
           /\ m.op \notin {"publish", "update"} => m.edit \in Edits
  BY ConstantsAssumption DEF Command

LEMMA AtCall ==
    ASSUME TypeOK, NEW c \in Calls, NEW pc, NEW ops, At(c, pc, ops)
    PROVE  /\ call[c] # Idle /\ call[c] \in Handling
           /\ call[c].pc = pc /\ call[c].command \in Commands /\ call[c].command.op \in ops
  BY DEF At, TypeOK, Handling

LEMMA PresentRow ==
    ASSUME TypeOK, NEW e \in Edits, edit[e].present
    PROVE  edit[e] \in Edit
  BY DEF TypeOK, Absent

LEMMA OpenIsPresent ==
    ASSUME TypeOK, NEW e \in Edits, NEW S, StatusIn(e, S)
    PROVE  edit[e].present /\ edit[e].status \in S
  BY DEF StatusIn, TypeOK, Absent, Edit

-----------------------------------------------------------------------------
(* What a step does to the calls: c moves on, all others stay.             *)

\* A call past its first read has read what its next step needs.
Fits(k, rows) ==
    /\ k.pc = "chosen" => k.command.op = "apply_selected" /\ k.variant \in Variants
    /\ k.pc = "set" => k.command.op = "apply_selected"
    /\ k.pc = "checked" => /\ k.command.op \in {"apply", "apply_selected"}
                           /\ k.text \in Texts
                           /\ rows[k.command.edit].present
    /\ k.pc = "stale" => /\ k.command.op \in {"project", "apply", "apply_selected"}
                         /\ rows[k.command.edit].present

CallsFit == \A c \in Calls : call[c] # Idle => Fits(call[c], edit)

TypeInv == TypeOK /\ CallsFit

LEMMA IdleIsNotHandled == Idle \notin Handling
  BY DEF Idle, Handling

LEMMA CallsStayFit ==
    ASSUME TypeInv, NEW c \in Calls, NEW k \in Handling \cup {Idle},
           call' = [call EXCEPT ![c] = k],
           \A e \in Edits : edit[e].present => edit'[e].present,
           k # Idle => Fits(k, edit')
    PROVE  call' \in [Calls -> Handling \cup {Idle}] /\ CallsFit'
  <1>1. call' \in [Calls -> Handling \cup {Idle}] /\ call'[c] = k
        /\ \A d \in Calls : d # c => call'[d] = call[d]
    BY DEF TypeInv, TypeOK
  <1>2. ASSUME NEW d \in Calls, d # c, call'[d] # Idle PROVE Fits(call[d], edit')
    <2>1. call[d] # Idle /\ call'[d] = call[d] /\ call[d].command \in Commands
      BY <1>1, <1>2 DEF TypeInv, TypeOK, Handling
    <2>2. Fits(call[d], edit)
      BY <2>1 DEF TypeInv, CallsFit
    <2>3. call[d].pc \in {"checked", "stale"} => call[d].command.edit \in Edits
      BY <2>1, <2>2, CommandFields DEF Fits
    <2> QED BY <2>1, <2>2, <2>3 DEF Fits
  <1> QED BY <1>1, <1>2 DEF CallsFit

-----------------------------------------------------------------------------
(* What a step does to the requests.                                       *)

\* The item and the base of a request never change.
RowsKept ==
    \A e \in Edits : edit[e].present =>
        edit'[e].present /\ edit'[e].item = edit[e].item /\ edit'[e].base = edit[e].base

\* A request only reads "applied" because it did before, or a revision is its.
AppliedForAReason ==
    \A e \in Edits : edit'[e].present /\ edit'[e].status = "applied" =>
        (edit[e].present /\ edit[e].status = "applied") \/ \E v \in events' : v.edit = e

RowsStep == edit' \in [Edits -> Edit \cup {Absent}] /\ RowsKept /\ AppliedForAReason

LEMMA OneRow ==
    ASSUME TypeInv, NEW e \in Edits, NEW row \in Edit, edit' = [edit EXCEPT ![e] = row],
           edit[e].present => row.item = edit[e].item /\ row.base = edit[e].base,
           row.status = "applied" =>
              (edit[e].present /\ edit[e].status = "applied") \/ \E v \in events' : v.edit = e
    PROVE  RowsStep
  <1>1. /\ edit' \in [Edits -> Edit \cup {Absent}]
        /\ edit'[e] = row /\ row.present
        /\ \A d \in Edits : d # e => edit'[d] = edit[d]
    BY DEF TypeInv, TypeOK, Edit
  <1> QED BY <1>1 DEF RowsStep, RowsKept, AppliedForAReason

LEMMA RowsUnchanged ==
    ASSUME TypeInv, UNCHANGED edit
    PROVE  RowsStep
  BY DEF TypeInv, TypeOK, RowsStep, RowsKept, AppliedForAReason

LEMMA NewRow ==
    ASSUME TypeInv, NEW c \in Calls, NEW wanted \in 0..2, NEW text \in Texts \cup {None},
           call[c].command.edit \in Edits, call[c].command.item \in Items,
           call[c].command.expected \in 1..MaxVersion, CreateRequest(c, wanted, text)
    PROVE  RowsStep
  <1> DEFINE m == call[c].command
             row == [present |-> TRUE, item |-> m.item, base |-> m.expected, wanted |-> wanted,
                     status |-> IF text = None THEN "queued_for_hermes" ELSE "proposed",
                     replacement |-> text, selected |-> None]
  <1>1. row \in Edit /\ row.status # "applied"
    BY DEF Edit, Statuses
  <1>2. edit' = [edit EXCEPT ![m.edit] = row] /\ ~edit[m.edit].present
    BY DEF CreateRequest
  <1> HIDE DEF row
  <1> QED BY <1>1, <1>2, OneRow

\* Every step keeps the requests what they are.
LEMMA StepRows ==
    ASSUME TypeInv, NEW c \in Calls, Step(c)
    PROVE  RowsStep
  <1> DEFINE e == EditOf(c)
  <1>1. CASE UNCHANGED edit
    BY <1>1, RowsUnchanged
  <1>2. CASE RequestEdit(c)
    <2>1. At(c, "received", {"request"}) /\ CreateRequest(c, 0, call[c].command.text)
      BY <1>2 DEF RequestEdit
    <2>2. call[c].command \in Commands /\ call[c].command.op = "request"
      BY <2>1, AtCall DEF TypeInv
    <2> QED BY <2>1, <2>2, CommandFields, NewRow
  <1>3. CASE RequestVariants(c)
    <2>1. At(c, "received", {"request_variants"}) /\ CreateRequest(c, call[c].command.wanted, None)
      BY <1>3 DEF RequestVariants
    <2>2. call[c].command \in Commands /\ call[c].command.op = "request_variants"
      BY <2>1, AtCall DEF TypeInv
    <2>3. call[c].command.wanted \in 0..2
      BY <2>2, CommandFields
    <2> QED BY <2>1, <2>2, <2>3, CommandFields, NewRow
  <1>4. CASE Complete(c)
    <2> DEFINE row == [edit[e] EXCEPT !.replacement = call[c].command.text,
                                      !.status = IF Current(e) THEN "proposed" ELSE "conflict"]
    <2>1. At(c, "received", {"complete"}) /\ edit[e].present
      BY <1>4 DEF Complete
    <2>2. e \in Edits /\ call[c].command.text \in Texts
      BY <2>1, AtCall, CommandFields DEF TypeInv, EditOf
    <2>3. edit[e] \in Edit
      BY <2>1, <2>2, PresentRow DEF TypeInv
    <2>4. row \in Edit /\ row.item = edit[e].item /\ row.base = edit[e].base /\ row.status # "applied"
      BY <2>2, <2>3 DEF Edit, Statuses
    <2>5. edit' = [edit EXCEPT ![e] = row]
      BY <1>4, <2>2 DEF Complete, TypeInv, TypeOK
    <2> HIDE DEF row, e
    <2> QED BY <2>2, <2>4, <2>5, OneRow
  <1>5. CASE Project(c)
    <2> DEFINE row == [edit[e] EXCEPT !.status = "proposed"]
    <2>1. At(c, "received", {"project"}) /\ StatusIn(e, Open)
      BY <1>5 DEF Project
    <2>2. e \in Edits
      BY <2>1, AtCall, CommandFields DEF TypeInv, EditOf
    <2>3. edit[e] \in Edit
      BY <2>1, <2>2, PresentRow, OpenIsPresent DEF TypeInv
    <2>4. row \in Edit /\ row.item = edit[e].item /\ row.base = edit[e].base /\ row.status # "applied"
      BY <2>3 DEF Edit, Statuses
    <2>5. edit' = [edit EXCEPT ![e] = row] \/ UNCHANGED edit
      BY <1>5 DEF Project
    <2> HIDE DEF row, e
    <2> QED BY <2>2, <2>4, <2>5, OneRow, RowsUnchanged
  <1>6. CASE Select(c)
    <2> DEFINE row == [edit[e] EXCEPT !.selected = call[c].command.variant]
    <2>1. At(c, "received", {"select"}) /\ StatusIn(e, {"proposed"})
      BY <1>6 DEF Select
    <2>2. e \in Edits /\ call[c].command.variant \in Variants
      BY <2>1, AtCall, CommandFields DEF TypeInv, EditOf
    <2>3. edit[e] \in Edit /\ edit[e].status = "proposed"
      BY <2>1, <2>2, PresentRow, OpenIsPresent DEF TypeInv
    <2>4. row \in Edit /\ row.item = edit[e].item /\ row.base = edit[e].base /\ row.status # "applied"
      BY <2>2, <2>3 DEF Edit, Statuses
    <2>5. edit' = [edit EXCEPT ![e] = row]
      BY <1>6 DEF Select
    <2> HIDE DEF row, e
    <2> QED BY <2>2, <2>4, <2>5, OneRow
  <1>7. CASE Reject(c)
    <2> DEFINE row == [edit[e] EXCEPT !.status = "rejected"]
    <2>1. At(c, "received", {"reject"}) /\ StatusIn(e, Open)
      BY <1>7 DEF Reject
    <2>2. e \in Edits
      BY <2>1, AtCall, CommandFields DEF TypeInv, EditOf
    <2>3. edit[e] \in Edit
      BY <2>1, <2>2, PresentRow, OpenIsPresent DEF TypeInv
    <2>4. row \in Edit /\ row.item = edit[e].item /\ row.base = edit[e].base /\ row.status # "applied"
      BY <2>3 DEF Edit, Statuses
    <2>5. edit' = [edit EXCEPT ![e] = row]
      BY <1>7 DEF Reject
    <2> HIDE DEF row, e
    <2> QED BY <2>2, <2>4, <2>5, OneRow
  <1>8. CASE SetReplacement(c)
    <2> DEFINE row == [edit[e] EXCEPT !.replacement = VariantOf[call[c].variant].text]
    <2>1. At(c, "chosen", {"apply_selected"}) /\ StatusIn(e, {"proposed"})
      BY <1>8 DEF SetReplacement
    <2>2. e \in Edits /\ call[c] # Idle /\ call[c].pc = "chosen"
      BY <2>1, AtCall, CommandFields DEF TypeInv, EditOf
    <2>3. VariantOf[call[c].variant].text \in Texts
      BY <2>2, ConstantsAssumption DEF TypeInv, CallsFit, Fits
    <2>4. edit[e] \in Edit /\ edit[e].status = "proposed"
      BY <2>1, <2>2, PresentRow, OpenIsPresent DEF TypeInv
    <2>5. row \in Edit /\ row.item = edit[e].item /\ row.base = edit[e].base /\ row.status # "applied"
      BY <2>3, <2>4 DEF Edit, Statuses
    <2>6. edit' = [edit EXCEPT ![e] = row]
      BY <1>8 DEF SetReplacement
    <2> HIDE DEF row, e
    <2> QED BY <2>2, <2>5, <2>6, OneRow
  <1>9. CASE ApplyEdit(c)
    <2> DEFINE row == [edit[e] EXCEPT !.status = "applied"]
    <2>1. At(c, "checked", {"apply", "apply_selected"})
      BY <1>9 DEF ApplyEdit
    <2>2. e \in Edits /\ call[c] # Idle /\ call[c].pc = "checked"
      BY <2>1, AtCall, CommandFields DEF TypeInv, EditOf
    <2>3. edit[e] \in Edit
      BY <2>2, PresentRow DEF TypeInv, CallsFit, Fits, EditOf
    <2>4. row \in Edit /\ row.item = edit[e].item /\ row.base = edit[e].base
      BY <2>3 DEF Edit, Statuses
    <2>5. edit' = [edit EXCEPT ![e] = row]
      BY <1>9 DEF ApplyEdit
    <2>6. \E v \in events' : v.edit = e
      <3>1. Revise(edit[e].item, edit[e].base, Key(c), call[c].text, e)
        BY <1>9 DEF ApplyEdit
      <3> HIDE DEF e
      <3> DEFINE v == [item |-> edit[e].item, expected |-> edit[e].base, key |-> Key(c),
                       text |-> call[c].text, edit |-> e]
      <3>2. v \in events'
        BY <3>1 DEF Revise
      <3>3. v.edit = e
        OBVIOUS
      <3> QED BY <3>2, <3>3
    <2> HIDE DEF row, e
    <2> QED BY <2>2, <2>4, <2>5, <2>6, OneRow
  <1>10. CASE MarkConflict(c)
    <2> DEFINE row == [edit[e] EXCEPT !.status = "conflict"]
    <2>1. At(c, "stale", {"project", "apply", "apply_selected"})
      BY <1>10 DEF MarkConflict
    <2>2. e \in Edits /\ call[c] # Idle /\ call[c].pc = "stale"
      BY <2>1, AtCall, CommandFields DEF TypeInv, EditOf
    <2>3. edit[e] \in Edit
      BY <2>2, PresentRow DEF TypeInv, CallsFit, Fits, EditOf
    <2>4. row \in Edit /\ row.item = edit[e].item /\ row.base = edit[e].base /\ row.status # "applied"
      BY <2>3 DEF Edit, Statuses
    <2>5. edit' = [edit EXCEPT ![e] = row] \/ UNCHANGED edit
      BY <1>10 DEF MarkConflict
    <2> HIDE DEF row, e
    <2> QED BY <2>2, <2>4, <2>5, OneRow, RowsUnchanged
  <1> QED
    BY <1>1, <1>2, <1>3, <1>4, <1>5, <1>6, <1>7, <1>8, <1>9, <1>10
    DEF Step, Receive, Finish, Publish, Update, ProjectStale, ReadSelection, ReadProposal,
        DiscoverStale

-----------------------------------------------------------------------------
(* What a step does to the ledgers.                                        *)

\* The ledger of the items only grows by a revision; that of a request writes
\* the item of the request, at the version it was made for.
LedgerStep ==
    \/ UNCHANGED <<item, events>>
    \/ \E k \in Items, n \in 0..MaxVersion, key \in Keys, text \in Texts, e \in Edits \cup {None} :
          /\ Revise(k, n, key, text, e)
          /\ e # None => edit[e].present /\ k = edit[e].item /\ n = edit[e].base

LEMMA StepLedger ==
    ASSUME TypeInv, NEW c \in Calls, Step(c)
    PROVE  LedgerStep
  <1>1. CASE UNCHANGED <<item, events>>
    BY <1>1 DEF LedgerStep
  <1>2. CASE Publish(c)
    <2>1. At(c, "received", {"publish"})
          /\ Revise(call[c].command.item, 0, Key(c), call[c].command.text, None)
      BY <1>2 DEF Publish
    <2>2. call[c].command.item \in Items /\ Key(c) \in Keys /\ call[c].command.text \in Texts
      BY <2>1, AtCall, CommandFields DEF TypeInv, Key
    <2>3. 0 \in 0..MaxVersion
      BY ConstantsAssumption
    <2> QED BY <2>1, <2>2, <2>3 DEF LedgerStep
  <1>3. CASE Update(c)
    <2> DEFINE m == call[c].command
    <2>1. At(c, "received", {"update"}) /\ Revise(m.item, m.expected, Key(c), m.text, None)
      BY <1>3 DEF Update
    <2>2. m.item \in Items /\ Key(c) \in Keys /\ m.text \in Texts /\ m.expected \in 1..MaxVersion
      BY <2>1, AtCall, CommandFields DEF TypeInv, Key
    <2>3. m.expected \in 0..MaxVersion
      BY <2>2, ConstantsAssumption
    <2> QED BY <2>1, <2>2, <2>3 DEF LedgerStep
  <1>4. CASE ApplyEdit(c)
    <2> DEFINE e == EditOf(c)
    <2>1. At(c, "checked", {"apply", "apply_selected"})
          /\ Revise(edit[e].item, edit[e].base, Key(c), call[c].text, e)
      BY <1>4 DEF ApplyEdit
    <2>2. e \in Edits /\ Key(c) \in Keys /\ call[c] # Idle /\ call[c].pc = "checked"
      BY <2>1, AtCall, CommandFields DEF TypeInv, EditOf, Key
    <2>3. call[c].text \in Texts /\ edit[e].present
      BY <2>2 DEF TypeInv, CallsFit, Fits, EditOf
    <2>4. edit[e] \in Edit
      BY <2>2, <2>3, PresentRow DEF TypeInv
    <2> HIDE DEF e
    <2>5. edit[e].item \in Items /\ edit[e].base \in 1..MaxVersion
      BY <2>4 DEF Edit
    <2>6. edit[e].base \in 0..MaxVersion
      BY <2>5, ConstantsAssumption
    <2> QED BY <2>1, <2>2, <2>3, <2>5, <2>6 DEF LedgerStep
  <1> QED
    BY <1>1, <1>2, <1>3, <1>4
    DEF Step, Receive, Finish, RequestEdit, RequestVariants, CreateRequest, Complete, Project,
        ProjectStale, Select, Reject, ReadSelection, SetReplacement, ReadProposal,
        DiscoverStale, MarkConflict

\* A revision keeps the items and their ledger well-typed.
LEMMA ReviseTyped ==
    ASSUME TypeOK, NEW k \in Items, NEW n \in 0..MaxVersion, NEW key \in Keys,
           NEW text \in Texts, NEW e \in Edits \cup {None}, Revise(k, n, key, text, e)
    PROVE  /\ item' \in [Items -> [version : 0..MaxVersion, text : Texts \cup {None}]]
           /\ events' \subseteq Event
  <1> DEFINE row == [version |-> n + 1, text |-> text]
             v == [item |-> k, expected |-> n, key |-> key, text |-> text, edit |-> e]
  <1>1. item' = [item EXCEPT ![k] = row] /\ events' = events \cup {v} /\ n < MaxVersion
    BY DEF Revise
  <1>2. row \in [version : 0..MaxVersion, text : Texts \cup {None}]
    BY <1>1, ConstantsAssumption
  <1>3. v \in Event
    BY DEF Event
  <1> HIDE DEF row, v
  <1> QED BY <1>1, <1>2, <1>3 DEF TypeOK

LEMMA StepReviews ==
    ASSUME TypeInv, NEW c \in Calls, Step(c)
    PROVE  projected' \subseteq Variants /\ review' \subseteq ReviewEvent
  <1>1. ASSUME NEW ops, NEW pc, NEW type \in {"projected", "selected", "rejected", "applied"},
               NEW v \in Variants \cup {None}, At(c, pc, ops),
               ops \subseteq {"project", "select", "reject", "apply_selected", "apply"},
               NewReview(c, type, v)
        PROVE  review' \subseteq ReviewEvent
    <2>1. EditOf(c) \in Edits /\ Key(c) \in Keys
      BY <1>1, AtCall, CommandFields DEF TypeInv, EditOf, Key
    <2>2. [type |-> type, edit |-> EditOf(c), variant |-> v, key |-> Key(c)] \in ReviewEvent
      BY <2>1, <1>1 DEF ReviewEvent
    <2> QED BY <1>1, <2>2 DEF NewReview, TypeInv, TypeOK
  <1>2. CASE UNCHANGED <<projected, review>>
    BY <1>2 DEF TypeInv, TypeOK
  <1>3. CASE Project(c)
    <2>1. At(c, "received", {"project"}) /\ NewReview(c, "projected", call[c].command.variant)
          /\ projected' = projected \cup {call[c].command.variant}
      BY <1>3 DEF Project
    <2>2. call[c].command.variant \in Variants
      BY <2>1, AtCall, CommandFields DEF TypeInv
    <2>3. review' \subseteq ReviewEvent
      BY <2>1, <2>2, <1>1
    <2> QED BY <2>1, <2>2, <2>3 DEF TypeInv, TypeOK
  <1>4. CASE Select(c)
    <2>1. At(c, "received", {"select"}) /\ NewReview(c, "selected", call[c].command.variant)
          /\ UNCHANGED projected
      BY <1>4 DEF Select
    <2>2. call[c].command.variant \in Variants
      BY <2>1, AtCall, CommandFields DEF TypeInv
    <2>3. review' \subseteq ReviewEvent
      BY <2>1, <2>2, <1>1
    <2> QED BY <2>1, <2>3 DEF TypeInv, TypeOK
  <1>5. CASE Reject(c)
    <2>1. At(c, "received", {"reject"}) /\ NewReview(c, "rejected", None) /\ UNCHANGED projected
      BY <1>5 DEF Reject
    <2>2. review' \subseteq ReviewEvent
      BY <2>1, <1>1
    <2> QED BY <2>1, <2>2 DEF TypeInv, TypeOK
  <1>6. CASE ApplyEdit(c)
    <2>1. At(c, "checked", {"apply", "apply_selected"}) /\ Audit(c) /\ UNCHANGED projected
      BY <1>6 DEF ApplyEdit
    <2>2. call[c].variant \in Variants \cup {None}
      BY <2>1, AtCall DEF TypeInv, Handling
    <2>3. review' \subseteq ReviewEvent
      <3>1. CASE UNCHANGED review
        BY <3>1 DEF TypeInv, TypeOK
      <3>2. CASE NewReview(c, "applied", call[c].variant)
        BY <3>2, <2>1, <2>2, <1>1
      <3> QED BY <2>1, <3>1, <3>2 DEF Audit
    <2> QED BY <2>1, <2>3 DEF TypeInv, TypeOK
  <1> QED
    BY <1>2, <1>3, <1>4, <1>5, <1>6
    DEF Step, Receive, Finish, Publish, Update, RequestEdit, RequestVariants, CreateRequest,
        Complete, ProjectStale, ReadSelection, SetReplacement, ReadProposal, DiscoverStale,
        MarkConflict

-----------------------------------------------------------------------------
(* Type correctness.                                                       *)

LEMMA StepCalls ==
    ASSUME TypeInv, NEW c \in Calls, Step(c)
    PROVE  call' \in [Calls -> Handling \cup {Idle}] /\ CallsFit'
  <1>1. \A e \in Edits : edit[e].present => edit'[e].present
    BY StepRows DEF RowsStep, RowsKept
  <1>2. CASE End(c)
    BY <1>1, <1>2, CallsStayFit DEF End
  <1>3. ASSUME NEW m \in Commands, Receive(c, m) PROVE call' \in [Calls -> Handling \cup {Idle}] /\ CallsFit'
    <2> DEFINE k == [pc |-> "received", command |-> m, variant |-> None, text |-> None]
    <2>1. call' = [call EXCEPT ![c] = k]
      BY <1>3 DEF Receive
    <2>2. k \in Handling /\ Fits(k, edit')
      BY DEF Handling, Fits
    <2> HIDE DEF k
    <2> QED BY <1>1, <2>1, <2>2, CallsStayFit
  <1>4. CASE ReadSelection(c)
    <2> DEFINE e == EditOf(c)
               k == [call[c] EXCEPT !.pc = "chosen", !.variant = edit[e].selected]
    <2>1. At(c, "received", {"apply_selected"}) /\ StatusIn(e, {"proposed"})
          /\ edit[e].selected # None /\ call' = [call EXCEPT ![c] = k]
      BY <1>4 DEF ReadSelection
    <2>2. e \in Edits /\ call[c] \in Handling /\ call[c].command.op = "apply_selected"
      BY <2>1, AtCall, CommandFields DEF TypeInv, EditOf
    <2>3. edit[e] \in Edit
      BY <2>1, <2>2, PresentRow, OpenIsPresent DEF TypeInv
    <2>4. edit[e].selected \in Variants
      BY <2>1, <2>3 DEF Edit
    <2>5. k \in Handling /\ Fits(k, edit')
      BY <2>2, <2>4 DEF Handling, Fits
    <2> HIDE DEF k, e
    <2> QED BY <1>1, <2>1, <2>5, CallsStayFit
  <1>5. CASE SetReplacement(c)
    <2> DEFINE k == [call[c] EXCEPT !.pc = "set"]
    <2>1. At(c, "chosen", {"apply_selected"}) /\ call' = [call EXCEPT ![c] = k]
      BY <1>5 DEF SetReplacement
    <2>2. call[c] \in Handling /\ call[c].command.op = "apply_selected"
      BY <2>1, AtCall DEF TypeInv
    <2>3. k \in Handling /\ Fits(k, edit')
      BY <2>2 DEF Handling, Fits
    <2> HIDE DEF k
    <2> QED BY <1>1, <2>1, <2>3, CallsStayFit
  <1>6. CASE ReadProposal(c)
    <2> DEFINE e == EditOf(c)
               k == [call[c] EXCEPT !.pc = "checked", !.text = edit[e].replacement]
    <2>1. /\ At(c, "received", {"apply"}) \/ At(c, "set", {"apply_selected"})
          /\ StatusIn(e, {"proposed"}) /\ edit[e].replacement # None
          /\ call' = [call EXCEPT ![c] = k] /\ UNCHANGED edit
      BY <1>6 DEF ReadProposal
    <2>2. /\ call[c] \in Handling /\ call[c].command \in Commands
          /\ call[c].command.op \in {"apply", "apply_selected"}
      BY <2>1, AtCall DEF TypeInv
    <2>3. e \in Edits
      BY <2>2, CommandFields DEF EditOf
    <2>4. edit[e] \in Edit /\ edit[e].present
      BY <2>1, <2>3, PresentRow, OpenIsPresent DEF TypeInv
    <2>5. edit[e].replacement \in Texts
      BY <2>1, <2>4 DEF Edit
    <2>6. k \in Handling /\ k.pc = "checked" /\ k.text \in Texts /\ k.command = call[c].command
      BY <2>2, <2>5 DEF Handling
    <2>7. edit'[k.command.edit].present
      BY <2>1, <2>4, <2>6 DEF EditOf
    <2>8. Fits(k, edit')
      BY <2>2, <2>6, <2>7 DEF Fits
    <2> HIDE DEF k, e
    <2> QED BY <1>1, <2>1, <2>6, <2>8, CallsStayFit
  <1>7. ASSUME ProjectStale(c) \/ DiscoverStale(c)
        PROVE  call' \in [Calls -> Handling \cup {Idle}] /\ CallsFit'
    <2> DEFINE e == EditOf(c)
               k == [call[c] EXCEPT !.pc = "stale"]
    <2>1. /\ \/ At(c, "received", {"project"}) /\ StatusIn(e, Open)
             \/ At(c, "checked", {"apply", "apply_selected"})
          /\ call' = [call EXCEPT ![c] = k] /\ UNCHANGED edit
      BY <1>7 DEF ProjectStale, DiscoverStale
    <2>2. /\ call[c] \in Handling /\ call[c].command \in Commands
          /\ call[c].command.op \in {"project", "apply", "apply_selected"}
      BY <2>1, AtCall DEF TypeInv
    <2>3. e \in Edits
      BY <2>2, CommandFields DEF EditOf
    <2>4. edit[e].present
      <3>1. CASE StatusIn(e, Open)
        BY <3>1, <2>3, OpenIsPresent DEF TypeInv
      <3>2. CASE At(c, "checked", {"apply", "apply_selected"})
        BY <3>2, AtCall DEF TypeInv, CallsFit, Fits, EditOf
      <3> QED BY <2>1, <3>1, <3>2
    <2>5. k \in Handling /\ k.pc = "stale" /\ k.command = call[c].command
      BY <2>2 DEF Handling
    <2>6. edit'[k.command.edit].present
      BY <2>1, <2>4, <2>5 DEF EditOf
    <2>7. Fits(k, edit')
      BY <2>2, <2>5, <2>6 DEF Fits
    <2> HIDE DEF k, e
    <2> QED BY <1>1, <2>1, <2>5, <2>7, CallsStayFit
  <1> QED
    BY <1>2, <1>3, <1>4, <1>5, <1>6, <1>7
    DEF Step, Finish, Publish, Update, RequestEdit, RequestVariants, CreateRequest, Complete,
        Project, Select, Reject, ApplyEdit, MarkConflict

\* Rows, ledgers and calls start well-typed.
LEMMA InitTypeInv ==
    Init => TypeInv
  BY ConstantsAssumption DEF Init, TypeInv, TypeOK, CallsFit

\* Every step keeps them well-typed, and every call ready for its next step.
LEMMA StepTypeInv ==
    TypeInv /\ [Next]_vars => TypeInv'
  <1> SUFFICES ASSUME TypeInv, [Next]_vars PROVE TypeInv'
    OBVIOUS
  <1>1. CASE UNCHANGED vars
    BY <1>1 DEF vars, TypeInv, TypeOK, CallsFit, Fits
  <1>2. ASSUME NEW c \in Calls, Step(c) PROVE TypeInv'
    <2>1. edit' \in [Edits -> Edit \cup {Absent}]
      BY <1>2, StepRows DEF RowsStep
    <2>2. /\ item' \in [Items -> [version : 0..MaxVersion, text : Texts \cup {None}]]
          /\ events' \subseteq Event
      <3>1. CASE UNCHANGED <<item, events>>
        BY <3>1 DEF TypeInv, TypeOK
      <3>2. ASSUME NEW k \in Items, NEW n \in 0..MaxVersion, NEW key \in Keys,
                   NEW text \in Texts, NEW e \in Edits \cup {None}, Revise(k, n, key, text, e)
            PROVE  /\ item' \in [Items -> [version : 0..MaxVersion, text : Texts \cup {None}]]
                   /\ events' \subseteq Event
        BY <3>2, ReviseTyped DEF TypeInv
      <3> QED BY <1>2, <3>1, <3>2, StepLedger DEF LedgerStep
    <2> QED BY <1>2, <2>1, <2>2, StepReviews, StepCalls DEF TypeInv, TypeOK
  <1> QED BY <1>1, <1>2 DEF Next

LEMMA TypeInvariant ==
    Spec => []TypeInv
  BY InitTypeInv, StepTypeInv, PTL DEF Spec

\* Rows, ledgers and calls hold values of their columns, whatever the calls do.
THEOREM TypeCorrect ==
    Spec => []TypeOK
  <1>1. TypeInv => TypeOK
    BY DEF TypeInv
  <1> QED BY <1>1, TypeInvariant, PTL

-----------------------------------------------------------------------------
(* The ledger of the items.                                                *)

LEMMA ReviseExplained ==
    ASSUME TypeOK, LedgerExplainsItem,
           NEW k \in Items, NEW n \in 0..MaxVersion, NEW key \in Keys,
           NEW text \in Texts, NEW e \in Edits \cup {None}, Revise(k, n, key, text, e)
    PROVE  LedgerExplainsItem'
  <1> DEFINE new == [item |-> k, expected |-> n, key |-> key, text |-> text, edit |-> e]
             own(i) == {v \in events : v.item = i}
             ownAfter(i) == {v \in events' : v.item = i}
             explained(i) ==
               /\ {v.expected : v \in ownAfter(i)} = 0..(item'[i].version - 1)
               /\ \A v, w \in ownAfter(i) : v.expected = w.expected => v = w
               /\ \A v \in ownAfter(i) : v.expected = item'[i].version - 1 => v.text = item'[i].text
  <1>1. /\ events' = events \cup {new} /\ item[k].version = n
        /\ item' = [item EXCEPT ![k] = [version |-> n + 1, text |-> text]]
    BY DEF Revise
  <1>2. new.item = k /\ new.expected = n /\ new.text = text
    OBVIOUS
  <1> HIDE DEF new
  <1>3. ASSUME NEW i \in Items, i # k PROVE explained(i)
    <2>1. ownAfter(i) = own(i) /\ item'[i] = item[i]
      BY <1>1, <1>2, <1>3 DEF TypeOK
    <2> QED BY <2>1 DEF LedgerExplainsItem
  <1>4. explained(k)
    <2>1. ownAfter(k) = own(k) \cup {new}
      BY <1>1, <1>2
    <2>2. item'[k].version = n + 1 /\ item'[k].text = text
      BY <1>1 DEF TypeOK
    <2>3. /\ {v.expected : v \in own(k)} = 0..(n - 1)
          /\ \A v, w \in own(k) : v.expected = w.expected => v = w
      BY <1>1 DEF LedgerExplainsItem
    <2>4. n \in Nat
      BY ConstantsAssumption
    <2> HIDE DEF own, ownAfter
    <2>5. \A v \in own(k) : v.expected \in 0..(n - 1)
      BY <2>3
    <2>6. {v.expected : v \in ownAfter(k)} = {v.expected : v \in own(k)} \cup {n}
      BY <2>1, <1>2
    <2>7. {v.expected : v \in ownAfter(k)} = 0..((n + 1) - 1)
      BY <2>3, <2>4, <2>6
    <2>8. \A v, w \in ownAfter(k) : v.expected = w.expected => v = w
      BY <1>2, <2>1, <2>3, <2>4, <2>5
    <2>9. \A v \in ownAfter(k) : v.expected = (n + 1) - 1 => v.text = text
      BY <1>2, <2>1, <2>4, <2>5
    <2> QED BY <2>2, <2>7, <2>8, <2>9
  <1> HIDE DEF explained
  <1>5. \A i \in Items : explained(i)
    BY <1>3, <1>4
  <1> QED BY <1>5 DEF LedgerExplainsItem, explained

LEMMA LedgerStepExplained ==
    TypeInv /\ LedgerExplainsItem /\ [Next]_vars => LedgerExplainsItem'
  <1> SUFFICES ASSUME TypeInv, LedgerExplainsItem, [Next]_vars PROVE LedgerExplainsItem'
    OBVIOUS
  <1>1. CASE UNCHANGED <<item, events>>
    BY <1>1 DEF LedgerExplainsItem
  <1>2. ASSUME NEW c \in Calls, Step(c) PROVE LedgerExplainsItem'
    BY <1>1, <1>2, StepLedger, ReviseExplained DEF LedgerStep, TypeInv
  <1> QED BY <1>1, <1>2 DEF Next, vars

LEMMA InitExplained ==
    Init => LedgerExplainsItem
  <1> SUFFICES ASSUME Init PROVE LedgerExplainsItem
    OBVIOUS
  <1>1. \A k \in Items : item[k].version = 0 /\ {v \in events : v.item = k} = {}
    BY DEF Init
  <1>2. 0..(0 - 1) = {}
    OBVIOUS
  <1> QED BY <1>1, <1>2 DEF LedgerExplainsItem

\* Every version of an item was written by exactly one command, which had the
\* version before it in front of it, and the Markdown is what the last wrote.
THEOREM EveryRevisionIsOnRecord ==
    Spec => []LedgerExplainsItem
  BY InitExplained, LedgerStepExplained, TypeInvariant, PTL DEF Spec

-----------------------------------------------------------------------------
(* An edit enters its item once.                                           *)

\* A revision that a request wrote is of its item, into its version.
WrittenAsRequested ==
    \A v \in events : v.edit # None =>
        edit[v.edit].present /\ v.item = edit[v.edit].item /\ v.expected = edit[v.edit].base

\* A request that reads "applied" wrote a revision.
AppliedIsWritten ==
    \A e \in Edits : edit[e].present /\ edit[e].status = "applied" =>
        \E v \in events : v.edit = e

ApplyInv == LedgerExplainsItem /\ WrittenAsRequested /\ AppliedIsWritten

LEMMA StepWrittenAsRequested ==
    ASSUME TypeInv, WrittenAsRequested, NEW c \in Calls, Step(c)
    PROVE  WrittenAsRequested'
  <1>1. RowsKept
    BY StepRows DEF RowsStep
  <1>2. ASSUME NEW v \in events, v.edit # None
        PROVE  /\ edit'[v.edit].present
               /\ v.item = edit'[v.edit].item /\ v.expected = edit'[v.edit].base
    <2>1. v.edit \in Edits
      BY <1>2 DEF TypeInv, TypeOK, Event
    <2> QED BY <1>1, <1>2, <2>1 DEF WrittenAsRequested, RowsKept
  <1>3. CASE UNCHANGED <<item, events>>
    BY <1>2, <1>3 DEF WrittenAsRequested
  <1>4. ASSUME NEW k \in Items, NEW n \in 0..MaxVersion, NEW key \in Keys,
               NEW text \in Texts, NEW e \in Edits \cup {None}, Revise(k, n, key, text, e),
               e # None => edit[e].present /\ k = edit[e].item /\ n = edit[e].base
        PROVE  WrittenAsRequested'
    <2> DEFINE new == [item |-> k, expected |-> n, key |-> key, text |-> text, edit |-> e]
    <2>1. events' = events \cup {new}
      BY <1>4 DEF Revise
    <2>2. new.item = k /\ new.expected = n /\ new.edit = e
      OBVIOUS
    <2> HIDE DEF new
    <2>3. e # None => edit'[e].present /\ k = edit'[e].item /\ n = edit'[e].base
      BY <1>1, <1>4 DEF RowsKept
    <2> QED BY <1>2, <2>1, <2>2, <2>3 DEF WrittenAsRequested
  <1> QED BY <1>3, <1>4, StepLedger DEF LedgerStep

LEMMA StepAppliedIsWritten ==
    ASSUME TypeInv, AppliedIsWritten, NEW c \in Calls, Step(c)
    PROVE  AppliedIsWritten'
  <1>1. events \subseteq events'
    BY StepLedger DEF LedgerStep, Revise
  <1>2. AppliedForAReason
    BY StepRows DEF RowsStep
  <1> QED BY <1>1, <1>2 DEF AppliedForAReason, AppliedIsWritten

LEMMA ApplyInvariant ==
    Spec => []ApplyInv
  <1>1. Init => ApplyInv
    BY InitExplained DEF Init, ApplyInv, WrittenAsRequested, AppliedIsWritten, Absent
  <1>2. TypeInv /\ ApplyInv /\ [Next]_vars => ApplyInv'
    <2> SUFFICES ASSUME TypeInv, ApplyInv, [Next]_vars PROVE ApplyInv'
      OBVIOUS
    <2>1. LedgerExplainsItem'
      BY LedgerStepExplained DEF ApplyInv
    <2>2. WrittenAsRequested' /\ AppliedIsWritten'
      <3>1. CASE UNCHANGED vars
        BY <3>1 DEF vars, ApplyInv, WrittenAsRequested, AppliedIsWritten
      <3>2. ASSUME NEW c \in Calls, Step(c) PROVE WrittenAsRequested' /\ AppliedIsWritten'
        BY <3>2, StepWrittenAsRequested, StepAppliedIsWritten DEF ApplyInv
      <3> QED BY <3>1, <3>2 DEF Next
    <2> QED BY <2>1, <2>2 DEF ApplyInv
  <1> QED BY <1>1, <1>2, TypeInvariant, PTL DEF Spec

\* However often and by however many clients a request is applied, its text
\* enters the item at most once, and only into the version it was made for.
THEOREM AppliedOnce ==
    Spec => []EditsApplyOnce
  <1>1. TypeInv /\ ApplyInv => EditsApplyOnce
    <2> SUFFICES ASSUME TypeInv, ApplyInv, NEW e \in Edits, edit[e].present
                 PROVE  LET own == {v \in events : v.edit = e} IN
                        /\ \A v, w \in own : v = w
                        /\ \A v \in own : v.item = edit[e].item /\ v.expected = edit[e].base
                        /\ edit[e].status = "applied" => own # {}
      BY DEF EditsApplyOnce
    <2> DEFINE own == {v \in events : v.edit = e}
    <2>1. e # None
      BY ConstantsAssumption
    <2>2. \A v \in own : v.item = edit[e].item /\ v.expected = edit[e].base
      BY <2>1 DEF ApplyInv, WrittenAsRequested
    <2>3. edit[e].item \in Items
      BY PresentRow DEF TypeInv, Edit
    <2>4. \A v, w \in own : v = w
      BY <2>2, <2>3 DEF ApplyInv, LedgerExplainsItem
    <2>5. edit[e].status = "applied" => own # {}
      BY DEF ApplyInv, AppliedIsWritten
    <2> QED BY <2>2, <2>4, <2>5
  <1> QED BY <1>1, TypeInvariant, ApplyInvariant, PTL

-----------------------------------------------------------------------------
(* The audit of an application commits with its revision.                  *)

\* An audit row says "applied" exactly when its key is of a command that
\* applies a selected variant.
ReviewsAsCommanded ==
    \A r \in review : \A m \in Commands :
        m.key = r.key => (r.type = "applied" <=> m.op = "apply_selected")

AuditInv == AuditCommitsWithRevision /\ ReviewsAsCommanded

\* What a step of c writes: a revision of another command than the application
\* of a selected variant, such an application with its audit, an audit row of
\* another kind, or neither.
AuditStep(c) ==
    \/ UNCHANGED <<events, review>>
    \/ /\ call[c].command.op # "apply_selected"
       /\ review' = review
       /\ \E v : v.key = Key(c) /\ events' = events \cup {v}
    \/ /\ call[c].command.op = "apply_selected"
       /\ \A v \in events : v.key # Key(c)
       /\ Audit(c)
       /\ \E v : v.key = Key(c) /\ events' = events \cup {v}
    \/ /\ call[c].command.op # "apply_selected"
       /\ events' = events
       /\ \E r : r.key = Key(c) /\ r.type # "applied" /\ review' = review \cup {r}

LEMMA StepAudit ==
    ASSUME TypeInv, NEW c \in Calls, Step(c)
    PROVE  UNCHANGED <<events, review>> \/ (call[c].command \in Commands /\ AuditStep(c))
  <1>1. ASSUME NEW k, NEW n, NEW key, NEW text, NEW e, Revise(k, n, key, text, e)
        PROVE  \E v : v.key = key /\ events' = events \cup {v}
    <2> DEFINE v == [item |-> k, expected |-> n, key |-> key, text |-> text, edit |-> e]
    <2>1. v.key = key /\ events' = events \cup {v}
      BY <1>1 DEF Revise
    <2> HIDE DEF v
    <2> QED BY <2>1
  <1>2. ASSUME NEW type, type # "applied", NEW v, NewReview(c, type, v)
        PROVE  \E r : r.key = Key(c) /\ r.type # "applied" /\ review' = review \cup {r}
    <2> DEFINE r == [type |-> type, edit |-> EditOf(c), variant |-> v, key |-> Key(c)]
    <2>1. r.key = Key(c) /\ r.type # "applied" /\ review' = review \cup {r}
      BY <1>2 DEF NewReview
    <2> HIDE DEF r
    <2> QED BY <2>1
  <1>3. CASE Publish(c)
    <2>1. /\ At(c, "received", {"publish"}) /\ review' = review
          /\ \E v : v.key = Key(c) /\ events' = events \cup {v}
      BY <1>1, <1>3 DEF Publish
    <2> QED BY <2>1, AtCall DEF TypeInv, AuditStep
  <1>4. CASE Update(c)
    <2>1. /\ At(c, "received", {"update"}) /\ review' = review
          /\ \E v : v.key = Key(c) /\ events' = events \cup {v}
      BY <1>1, <1>4 DEF Update
    <2> QED BY <2>1, AtCall DEF TypeInv, AuditStep
  <1>5. CASE ApplyEdit(c)
    <2>1. At(c, "checked", {"apply", "apply_selected"}) /\ Audit(c)
          /\ Revise(edit[EditOf(c)].item, edit[EditOf(c)].base, Key(c), call[c].text, EditOf(c))
      BY <1>5 DEF ApplyEdit
    <2>2. (\A v \in events : v.key # Key(c)) /\ \E v : v.key = Key(c) /\ events' = events \cup {v}
      BY <1>1, <2>1 DEF Revise
    <2>3. call[c].command \in Commands
      BY <2>1, AtCall DEF TypeInv
    <2> QED BY <2>1, <2>2, <2>3 DEF AuditStep, Audit
  <1>6. CASE Project(c)
    <2>1. /\ At(c, "received", {"project"}) /\ events' = events
          /\ NewReview(c, "projected", call[c].command.variant)
      BY <1>6 DEF Project
    <2>2. \E r : r.key = Key(c) /\ r.type # "applied" /\ review' = review \cup {r}
      BY <1>2, <2>1
    <2> QED BY <2>1, <2>2, AtCall DEF TypeInv, AuditStep
  <1>7. CASE Select(c)
    <2>1. /\ At(c, "received", {"select"}) /\ events' = events
          /\ NewReview(c, "selected", call[c].command.variant)
      BY <1>7 DEF Select
    <2>2. \E r : r.key = Key(c) /\ r.type # "applied" /\ review' = review \cup {r}
      BY <1>2, <2>1
    <2> QED BY <2>1, <2>2, AtCall DEF TypeInv, AuditStep
  <1>8. CASE Reject(c)
    <2>1. /\ At(c, "received", {"reject"}) /\ events' = events /\ NewReview(c, "rejected", None)
      BY <1>8 DEF Reject
    <2>2. \E r : r.key = Key(c) /\ r.type # "applied" /\ review' = review \cup {r}
      BY <1>2, <2>1
    <2> QED BY <2>1, <2>2, AtCall DEF TypeInv, AuditStep
  <1> QED
    BY <1>3, <1>4, <1>5, <1>6, <1>7, <1>8
    DEF Step, Receive, Finish, RequestEdit, RequestVariants, CreateRequest, Complete,
        ProjectStale, ReadSelection, SetReplacement, ReadProposal, DiscoverStale, MarkConflict

\* The two sets of keys of AuditCommitsWithRevision, and their members.
AuditedKeys(rows) == {r.key : r \in {s \in rows : s.type = "applied"}}

AppliedKeys(ledger) ==
    {v.key : v \in {w \in ledger : \E m \in Commands : m.key = w.key /\ m.op = "apply_selected"}}

LEMMA SameKeys ==
    ASSUME NEW rows, NEW ledger
    PROVE  AuditedKeys(rows) = AppliedKeys(ledger)
           <=> \A key : (\E r \in rows : r.type = "applied" /\ r.key = key)
                        <=> (\E v \in ledger : v.key = key /\
                               \E n \in Commands : n.key = key /\ n.op = "apply_selected")
  <1>1. \A key : key \in AuditedKeys(rows) <=> \E r \in rows : r.type = "applied" /\ r.key = key
    BY DEF AuditedKeys
  <1>2. \A key : key \in AppliedKeys(ledger) <=>
                    \E v \in ledger : v.key = key /\
                       \E n \in Commands : n.key = key /\ n.op = "apply_selected"
    BY DEF AppliedKeys
  <1>3. AuditedKeys(rows) = AppliedKeys(ledger)
        <=> \A key : key \in AuditedKeys(rows) <=> key \in AppliedKeys(ledger)
    OBVIOUS
  <1> QED BY <1>1, <1>2, <1>3

LEMMA StepKeepsAudit ==
    ASSUME TypeInv, AuditInv, NEW c \in Calls, Step(c)
    PROVE  AuditInv'
  <1> DEFINE m == call[c].command
             Audited(key, rows) == \E r \in rows : r.type = "applied" /\ r.key = key
             Recorded(key, rows) ==
                 \E v \in rows : v.key = key /\ \E n \in Commands : n.key = key /\ n.op = "apply_selected"
  <1>1. AuditCommitsWithRevision <=> \A key : Audited(key, review) <=> Recorded(key, events)
    <2>1. AuditCommitsWithRevision <=> AuditedKeys(review) = AppliedKeys(events)
      BY DEF AuditCommitsWithRevision, AuditedKeys, AppliedKeys
    <2> QED BY <2>1, SameKeys
  <1>2. AuditCommitsWithRevision' <=> \A key : Audited(key, review') <=> Recorded(key, events')
    <2>1. AuditCommitsWithRevision' <=> AuditedKeys(review') = AppliedKeys(events')
      BY DEF AuditCommitsWithRevision, AuditedKeys, AppliedKeys
    <2> QED BY <2>1, SameKeys
  <1>3. ReviewsAsCommanded /\ \A key : Audited(key, review) <=> Recorded(key, events)
    BY <1>1 DEF AuditInv
  <1>4. CASE UNCHANGED <<events, review>>
    BY <1>2, <1>3, <1>4 DEF AuditInv, ReviewsAsCommanded
  <1>5. CASE m \in Commands /\ AuditStep(c)
    <2>1. \A n \in Commands : n.key = Key(c) => n = m
      BY <1>5, ConstantsAssumption DEF Key
    <2>2. m \in Commands /\ m.key = Key(c)
      BY <1>5 DEF Key
    <2>3. ASSUME NEW v, v.key = Key(c), events' = events \cup {v}, m.op # "apply_selected",
                 review' = review
          PROVE  AuditInv'
      <3>1. \A key : Recorded(key, events') <=> Recorded(key, events)
        BY <2>1, <2>3
      <3> HIDE DEF Recorded
      <3> QED BY <1>2, <1>3, <2>3, <3>1 DEF AuditInv, ReviewsAsCommanded
    <2>4. ASSUME NEW r, r.key = Key(c), r.type # "applied", review' = review \cup {r},
                 m.op # "apply_selected", events' = events
          PROVE  AuditInv'
      <3>1. \A key : Audited(key, review') <=> Audited(key, review)
        BY <2>4
      <3>2. ReviewsAsCommanded'
        BY <1>3, <2>1, <2>4 DEF ReviewsAsCommanded
      <3> HIDE DEF Audited
      <3> QED BY <1>2, <1>3, <2>4, <3>1, <3>2 DEF AuditInv
    <2>5. ASSUME NEW v, v.key = Key(c), events' = events \cup {v}, m.op = "apply_selected",
                 \A w \in events : w.key # Key(c), Audit(c)
          PROVE  AuditInv'
      <3> DEFINE r == [type |-> "applied", edit |-> EditOf(c), variant |-> call[c].variant,
                       key |-> Key(c)]
      <3>1. ~Recorded(Key(c), events)
        BY <2>5
      <3>2. \A s \in review : s.key # Key(c)
        <4>1. ~Audited(Key(c), review)
          BY <1>3, <3>1
        <4>2. \A s \in review : s.key = Key(c) => s.type = "applied"
          BY <1>3, <2>2, <2>5 DEF ReviewsAsCommanded
        <4> QED BY <4>1, <4>2
      <3>3. review' = review \cup {r} /\ r.key = Key(c) /\ r.type = "applied"
        BY <2>5, <3>2 DEF Audit, NewReview
      <3> HIDE DEF r
      <3>4. \A key : /\ Audited(key, review') <=> Audited(key, review) \/ key = Key(c)
                     /\ Recorded(key, events') <=> Recorded(key, events) \/ key = Key(c)
        BY <2>2, <2>5, <3>3
      <3>5. ReviewsAsCommanded'
        BY <1>3, <2>1, <2>5, <3>3 DEF ReviewsAsCommanded
      <3> HIDE DEF Audited, Recorded
      <3> QED BY <1>2, <1>3, <3>4, <3>5 DEF AuditInv
    <2> QED BY <1>4, <1>5, <2>3, <2>4, <2>5 DEF AuditStep
  <1> QED BY <1>4, <1>5, StepAudit

-----------------------------------------------------------------------------
(* What is proposed is all that was asked for.                             *)

Label(v) == VariantOf[v].label

\* A variant was asked for, and no other has its request and its label.
VariantsAsWanted ==
    /\ \A v \in projected :
          LET e == VariantOf[v].edit IN
          edit[e].present /\ edit[e].wanted > 0 /\ (Label(v) = "B" => edit[e].wanted = 2)
    /\ \A v, w \in projected :
          VariantOf[v].edit = VariantOf[w].edit /\ Label(v) = Label(w) => v = w

ProposalInv == VariantsAsWanted /\ ProposalIsComplete

\* One or two variants with labels of their own are all that was wanted
\* exactly when the wanted labels are there.
LEMMA WantedLabels ==
    ASSUME NEW S \in SUBSET Variants, NEW n \in {1, 2},
           \A v, w \in S : Label(v) = Label(w) => v = w,
           \A v \in S : Label(v) = "B" => n = 2
    PROVE  /\ Cardinality(S) \in Nat /\ Cardinality(S) <= n
           /\ Cardinality(S) = n <=> /\ \E v \in S : Label(v) = "A"
                                     /\ n = 2 => \E v \in S : Label(v) = "B"
  <1>1. \A v \in S : Label(v) \in {"A", "B"}
    BY ConstantsAssumption DEF Label
  <1>2. \A x : IsFiniteSet({x}) /\ Cardinality({x}) = 1
    BY FS_Singleton
  <1>3. CASE S = {}
    BY <1>3, FS_EmptySet
  <1>4. ASSUME NEW v \in S, \A w \in S : w = v
        PROVE  /\ Cardinality(S) \in Nat /\ Cardinality(S) <= n
               /\ Cardinality(S) = n <=> /\ \E w \in S : Label(w) = "A"
                                         /\ n = 2 => \E w \in S : Label(w) = "B"
    <2>1. S = {v} /\ Cardinality(S) = 1
      BY <1>2, <1>4
    <2> QED BY <1>1, <2>1
  <1>5. ASSUME NEW v \in S, NEW w \in S, v # w
        PROVE  /\ Cardinality(S) \in Nat /\ Cardinality(S) <= n
               /\ Cardinality(S) = n <=> /\ \E x \in S : Label(x) = "A"
                                         /\ n = 2 => \E x \in S : Label(x) = "B"
    <2>1. S = {v} \cup {w}
      BY <1>1, <1>5
    <2>2. Cardinality({v} \cup {w}) = Cardinality({v}) + 1
      <3>1. IsFiniteSet({v}) /\ w \notin {v}
        BY <1>2, <1>5
      <3> QED BY <3>1, FS_AddElement
    <2>3. Cardinality(S) = 2
      BY <1>2, <2>1, <2>2
    <2> QED BY <1>1, <1>5, <2>3
  <1> QED BY <1>3, <1>4, <1>5

\* What a step that projects nothing leaves of a request.
ProposalKept(e) ==
    edit'[e].present =>
        /\ edit[e].present => edit'[e].wanted = edit[e].wanted
        /\ edit'[e].status = "proposed" =>
              \/ edit'[e].replacement # None
              \/ /\ edit[e].present /\ edit[e].status = "proposed"
                 /\ edit'[e].replacement = edit[e].replacement
        /\ \/ edit'[e].selected = None
           \/ edit[e].present /\ edit'[e].selected = edit[e].selected
           \/ edit'[e].selected \in VariantsOf(e)

LEMMA OneProposal ==
    ASSUME TypeInv, NEW e \in Edits, NEW row \in Edit, edit' = [edit EXCEPT ![e] = row],
           edit[e].present => row.wanted = edit[e].wanted,
           row.status = "proposed" =>
              \/ row.replacement # None
              \/ edit[e].present /\ edit[e].status = "proposed" /\ row.replacement = edit[e].replacement,
           \/ row.selected = None
           \/ edit[e].present /\ row.selected = edit[e].selected
           \/ row.selected \in VariantsOf(e)
    PROVE  \A d \in Edits : ProposalKept(d)
  <1>1. edit'[e] = row /\ \A d \in Edits : d # e => edit'[d] = edit[d]
    BY DEF TypeInv, TypeOK
  <1> QED BY <1>1 DEF ProposalKept

LEMMA NewProposal ==
    ASSUME TypeInv, NEW c \in Calls, NEW wanted \in 0..2, NEW text \in Texts \cup {None},
           call[c].command.edit \in Edits, call[c].command.item \in Items,
           call[c].command.expected \in 1..MaxVersion, CreateRequest(c, wanted, text)
    PROVE  \A d \in Edits : ProposalKept(d)
  <1> DEFINE m == call[c].command
             row == [present |-> TRUE, item |-> m.item, base |-> m.expected, wanted |-> wanted,
                     status |-> IF text = None THEN "queued_for_hermes" ELSE "proposed",
                     replacement |-> text, selected |-> None]
  <1>1. /\ row \in Edit /\ row.selected = None
        /\ row.status = "proposed" => row.replacement # None
    BY DEF Edit, Statuses
  <1>2. edit' = [edit EXCEPT ![m.edit] = row] /\ ~edit[m.edit].present
    BY DEF CreateRequest
  <1> HIDE DEF row
  <1> QED BY <1>1, <1>2, OneProposal

\* Every step but a projection keeps a proposal complete as far as it goes.
LEMMA StepProposals ==
    ASSUME TypeInv, NEW c \in Calls, Step(c), ~Project(c)
    PROVE  projected' = projected /\ \A d \in Edits : ProposalKept(d)
  <1> DEFINE e == EditOf(c)
  <1>0. projected' = projected
    BY DEF Step, Receive, Finish, Publish, Update, RequestEdit, RequestVariants, CreateRequest,
           Complete, ProjectStale, Select, Reject, ReadSelection, SetReplacement, ReadProposal,
           ApplyEdit, DiscoverStale, MarkConflict
  <1>1. CASE UNCHANGED edit
    BY <1>0, <1>1 DEF ProposalKept
  <1>2. CASE RequestEdit(c)
    <2>1. At(c, "received", {"request"}) /\ CreateRequest(c, 0, call[c].command.text)
      BY <1>2 DEF RequestEdit
    <2>2. call[c].command \in Commands /\ call[c].command.op = "request"
      BY <2>1, AtCall DEF TypeInv
    <2> QED BY <1>0, <2>1, <2>2, CommandFields, NewProposal
  <1>3. CASE RequestVariants(c)
    <2>1. At(c, "received", {"request_variants"}) /\ CreateRequest(c, call[c].command.wanted, None)
      BY <1>3 DEF RequestVariants
    <2>2. call[c].command \in Commands /\ call[c].command.op = "request_variants"
      BY <2>1, AtCall DEF TypeInv
    <2>3. call[c].command.wanted \in 0..2
      BY <2>2, CommandFields
    <2> QED BY <1>0, <2>1, <2>2, <2>3, CommandFields, NewProposal
  <1>4. CASE Complete(c)
    <2> DEFINE row == [edit[e] EXCEPT !.replacement = call[c].command.text,
                                      !.status = IF Current(e) THEN "proposed" ELSE "conflict"]
    <2>1. At(c, "received", {"complete"}) /\ edit[e].present
      BY <1>4 DEF Complete
    <2>2. e \in Edits /\ call[c].command.text \in Texts
      BY <2>1, AtCall, CommandFields DEF TypeInv, EditOf
    <2>3. edit[e] \in Edit
      BY <2>1, <2>2, PresentRow DEF TypeInv
    <2>4. /\ row \in Edit /\ row.wanted = edit[e].wanted /\ row.selected = edit[e].selected
          /\ row.replacement # None
      BY <2>2, <2>3, ConstantsAssumption DEF Edit, Statuses
    <2>5. edit' = [edit EXCEPT ![e] = row]
      BY <1>4, <2>2 DEF Complete, TypeInv, TypeOK
    <2> HIDE DEF row, e
    <2> QED BY <1>0, <2>1, <2>2, <2>4, <2>5, OneProposal
  <1>5. CASE Select(c)
    <2> DEFINE row == [edit[e] EXCEPT !.selected = call[c].command.variant]
    <2>1. /\ At(c, "received", {"select"}) /\ StatusIn(e, {"proposed"})
          /\ call[c].command.variant \in VariantsOf(e)
      BY <1>5 DEF Select
    <2>2. e \in Edits /\ call[c].command.variant \in Variants
      BY <2>1, AtCall, CommandFields DEF TypeInv, EditOf
    <2>3. edit[e] \in Edit /\ edit[e].status = "proposed" /\ edit[e].present
      BY <2>1, <2>2, PresentRow, OpenIsPresent DEF TypeInv
    <2>4. /\ row \in Edit /\ row.wanted = edit[e].wanted /\ row.selected \in VariantsOf(e)
          /\ row.replacement = edit[e].replacement
      BY <2>1, <2>2, <2>3 DEF Edit
    <2>5. edit' = [edit EXCEPT ![e] = row]
      BY <1>5 DEF Select
    <2> HIDE DEF row, e
    <2> QED BY <1>0, <2>2, <2>3, <2>4, <2>5, OneProposal
  <1>6. CASE SetReplacement(c)
    <2> DEFINE row == [edit[e] EXCEPT !.replacement = VariantOf[call[c].variant].text]
    <2>1. At(c, "chosen", {"apply_selected"}) /\ StatusIn(e, {"proposed"})
      BY <1>6 DEF SetReplacement
    <2>2. e \in Edits /\ call[c] # Idle /\ call[c].pc = "chosen"
      BY <2>1, AtCall, CommandFields DEF TypeInv, EditOf
    <2>3. VariantOf[call[c].variant].text \in Texts
      BY <2>2, ConstantsAssumption DEF TypeInv, CallsFit, Fits
    <2>4. edit[e] \in Edit /\ edit[e].present
      BY <2>1, <2>2, PresentRow, OpenIsPresent DEF TypeInv
    <2>5. /\ row \in Edit /\ row.wanted = edit[e].wanted /\ row.selected = edit[e].selected
          /\ row.replacement # None
      BY <2>3, <2>4, ConstantsAssumption DEF Edit
    <2>6. edit' = [edit EXCEPT ![e] = row]
      BY <1>6 DEF SetReplacement
    <2> HIDE DEF row, e
    <2> QED BY <1>0, <2>2, <2>4, <2>5, <2>6, OneProposal
  <1>7. ASSUME e \in Edits, edit[e].present, edit[e] \in Edit,
               NEW status \in {"applied", "conflict", "rejected"},
               edit' = [edit EXCEPT ![e].status = status]
        PROVE  \A d \in Edits : ProposalKept(d)
    <2> DEFINE row == [edit[e] EXCEPT !.status = status]
    <2>1. /\ row \in Edit /\ row.wanted = edit[e].wanted /\ row.selected = edit[e].selected
          /\ row.status # "proposed"
      BY <1>7 DEF Edit, Statuses
    <2>2. edit' = [edit EXCEPT ![e] = row]
      BY <1>7
    <2> HIDE DEF row, e
    <2> QED BY <1>7, <2>1, <2>2, OneProposal
  <1>8. CASE Reject(c)
    <2>1. At(c, "received", {"reject"}) /\ StatusIn(e, Open)
      BY <1>8 DEF Reject
    <2>2. e \in Edits
      BY <2>1, AtCall, CommandFields DEF TypeInv, EditOf
    <2>3. edit[e] \in Edit /\ edit[e].present
      BY <2>1, <2>2, PresentRow, OpenIsPresent DEF TypeInv
    <2> QED BY <1>0, <1>7, <1>8, <2>2, <2>3 DEF Reject
  <1>9. CASE ApplyEdit(c)
    <2>1. At(c, "checked", {"apply", "apply_selected"})
      BY <1>9 DEF ApplyEdit
    <2>2. e \in Edits /\ call[c] # Idle /\ call[c].pc = "checked"
      BY <2>1, AtCall, CommandFields DEF TypeInv, EditOf
    <2>3. edit[e] \in Edit /\ edit[e].present
      BY <2>2, PresentRow DEF TypeInv, CallsFit, Fits, EditOf
    <2> QED BY <1>0, <1>7, <1>9, <2>2, <2>3 DEF ApplyEdit
  <1>10. CASE MarkConflict(c)
    <2>1. At(c, "stale", {"project", "apply", "apply_selected"})
      BY <1>10 DEF MarkConflict
    <2>2. e \in Edits /\ call[c] # Idle /\ call[c].pc = "stale"
      BY <2>1, AtCall, CommandFields DEF TypeInv, EditOf
    <2>3. edit[e] \in Edit /\ edit[e].present
      BY <2>2, PresentRow DEF TypeInv, CallsFit, Fits, EditOf
    <2>4. edit' = [edit EXCEPT ![e].status = "conflict"] \/ UNCHANGED edit
      BY <1>10 DEF MarkConflict
    <2> QED BY <1>0, <1>1, <1>7, <2>2, <2>3, <2>4
  <1> QED
    BY <1>0, <1>1, <1>2, <1>3, <1>4, <1>5, <1>6, <1>8, <1>9, <1>10
    DEF Step, Receive, Finish, Publish, Update, ProjectStale, ReadSelection, ReadProposal,
        DiscoverStale

\* The variants of a request that asked for some are as many as it asked for
\* exactly when the labels it asked for are there, and never more.
LEMMA AllVariants ==
    ASSUME TypeOK, NEW e \in Edits, edit[e].present, edit[e].wanted > 0,
           NEW S \in SUBSET Variants,
           \A v, w \in S : Label(v) = Label(w) => v = w,
           \A v \in S : Label(v) = "B" => edit[e].wanted = 2
    PROVE  /\ Cardinality(S) \in Nat /\ Cardinality(S) <= edit[e].wanted
           /\ Cardinality(S) = edit[e].wanted <=>
                 /\ \E v \in S : Label(v) = "A"
                 /\ edit[e].wanted = 2 => \E v \in S : Label(v) = "B"
  <1>1. edit[e] \in Edit
    BY PresentRow
  <1>2. edit[e].wanted \in 0..2
    BY <1>1 DEF Edit
  <1>3. edit[e].wanted \in {1, 2}
    BY <1>2
  <1> QED BY <1>3, WantedLabels

\* A projection adds a wanted variant under a free label; the request becomes
\* a proposal only with the last of them, and then no further one fits.
LEMMA ProjectKeepsProposals ==
    ASSUME TypeInv, ProposalInv, NEW c \in Calls, Project(c)
    PROVE  ProposalInv'
  <1>0. PICK e, v : e = EditOf(c) /\ v = call[c].command.variant
    OBVIOUS
  <1> DEFINE S == VariantsOf(e) \cup {v}
  <1>1. /\ At(c, "received", {"project"}) /\ StatusIn(e, Open) /\ edit[e].wanted > 0
        /\ Projectable(e, v)
        /\ projected' = projected \cup {v}
        /\ edit' = IF ProjectedAll(e, v) THEN [edit EXCEPT ![e].status = "proposed"] ELSE edit
    BY <1>0 DEF Project
  <1>2. e \in Edits /\ v \in Variants
    BY <1>0, <1>1, AtCall, CommandFields DEF TypeInv, EditOf
  <1>3. edit[e].present /\ edit[e] \in Edit
    BY <1>1, <1>2, PresentRow, OpenIsPresent DEF TypeInv
  <1>4. /\ VariantOf[v].edit = e
        /\ Label(v) = "B" => edit[e].wanted = 2
        /\ \A w \in VariantsOf(e) : Label(w) # Label(v)
    BY <1>1 DEF Projectable, Label
  <1>5. /\ \A d \in Edits : d # e => edit'[d] = edit[d]
        /\ edit'[e].present /\ edit'[e].wanted = edit[e].wanted
        /\ edit'[e].selected = edit[e].selected /\ edit'[e].replacement = edit[e].replacement
    BY <1>1, <1>2, <1>3 DEF TypeInv, TypeOK, Edit
  <1>6. /\ VariantsOf(e)' = S /\ S \subseteq Variants
        /\ \A d \in Edits : d # e => VariantsOf(d)' = VariantsOf(d)
        /\ \A w \in S : VariantOf[w].edit = e
    BY <1>1, <1>2, <1>4 DEF VariantsOf, TypeInv, TypeOK
  <1>7. \A w \in projected : VariantOf[w].edit \in Edits /\ w \in VariantsOf(VariantOf[w].edit)
    BY ConstantsAssumption DEF TypeInv, TypeOK, VariantsOf
  <1>8. VariantsAsWanted'
    <2>1. ASSUME NEW w \in projected'
          PROVE  LET d == VariantOf[w].edit IN
                 edit'[d].present /\ edit'[d].wanted > 0 /\ (Label(w) = "B" => edit'[d].wanted = 2)
      <3>1. CASE w = v
        BY <1>1, <1>4, <1>5, <3>1
      <3>2. CASE w \in projected
        BY <1>5, <1>7, <3>2 DEF ProposalInv, VariantsAsWanted
      <3> QED BY <1>1, <2>1, <3>1, <3>2
    <2>2. ASSUME NEW w \in projected', NEW x \in projected', VariantOf[w].edit = VariantOf[x].edit,
                 Label(w) = Label(x)
          PROVE  w = x
      <3>1. CASE w \in projected /\ x \in projected
        BY <2>2, <3>1 DEF ProposalInv, VariantsAsWanted
      <3> QED BY <1>1, <1>4, <1>7, <2>2, <3>1
    <2> QED BY <2>1, <2>2 DEF VariantsAsWanted, Label
  <1>9. ProposalIsComplete'
    <2> SUFFICES ASSUME NEW d \in Edits, edit'[d].present
                 PROVE  /\ edit'[d].status = "proposed" =>
                              \/ edit'[d].replacement # None
                              \/ edit'[d].wanted > 0 /\ Cardinality(VariantsOf(d)') = edit'[d].wanted
                        /\ edit'[d].selected # None => edit'[d].selected \in VariantsOf(d)'
      BY DEF ProposalIsComplete, StatusIn
    <2>1. CASE d # e
      BY <1>5, <1>6, <2>1 DEF ProposalInv, ProposalIsComplete, StatusIn
    <2>2. CASE d = e
      <3>1. edit[e].selected # None => edit[e].selected \in VariantsOf(e)
        BY <1>2, <1>3 DEF ProposalInv, ProposalIsComplete
      <3>2. /\ \A w, x \in S : Label(w) = Label(x) => w = x
            /\ \A w \in S : Label(w) = "B" => edit[e].wanted = 2
        BY <1>6, <1>8, <1>5 DEF VariantsAsWanted, VariantsOf, Label
      <3>3. /\ Cardinality(S) \in Nat /\ Cardinality(S) <= edit[e].wanted
        BY <1>1, <1>2, <1>3, <1>6, <3>2, AllVariants DEF TypeInv
      <3>4. CASE ProjectedAll(e, v)
        <4>1. Cardinality(S) >= edit[e].wanted /\ edit[e].wanted \in Nat
          <5>1. edit[e].wanted \in 0..2
            BY <1>3 DEF Edit
          <5> QED BY <3>4, <5>1 DEF ProjectedAll
        <4>2. Cardinality(S) = edit[e].wanted
          BY <3>3, <4>1
        <4> QED BY <1>1, <1>5, <1>6, <2>2, <3>1, <4>2
      <3>5. CASE ~ProjectedAll(e, v)
        <4>1. edit' = edit
          BY <1>1, <3>5
        \* The request is no proposal yet: a full one leaves no label for v.
        <4>2. ASSUME edit[e].status = "proposed", edit[e].replacement = None
              PROVE  FALSE
          <5>1. Cardinality(VariantsOf(e)) = edit[e].wanted
            BY <1>2, <1>3, <4>2 DEF ProposalInv, ProposalIsComplete, StatusIn
          <5>2. /\ \A w, x \in VariantsOf(e) : Label(w) = Label(x) => w = x
                /\ \A w \in VariantsOf(e) : Label(w) = "B" => edit[e].wanted = 2
                /\ VariantsOf(e) \in SUBSET Variants
            BY <1>6, <3>2
          <5>3. /\ \E w \in VariantsOf(e) : Label(w) = "A"
                /\ edit[e].wanted = 2 => \E w \in VariantsOf(e) : Label(w) = "B"
            BY <1>1, <1>2, <1>3, <5>1, <5>2, AllVariants DEF TypeInv
          <5>4. Label(v) \in {"A", "B"}
            BY <1>2, ConstantsAssumption DEF Label
          <5> QED BY <1>4, <5>3, <5>4
        <4> QED BY <1>6, <2>2, <3>1, <4>1, <4>2
      <3> QED BY <3>4, <3>5
    <2> QED BY <2>1, <2>2
  <1> QED BY <1>8, <1>9 DEF ProposalInv

LEMMA StepKeepsProposals ==
    ASSUME TypeInv, ProposalInv, NEW c \in Calls, Step(c)
    PROVE  ProposalInv'
  <1>1. CASE Project(c)
    BY <1>1, ProjectKeepsProposals
  <1>2. CASE ~Project(c)
    <2>1. projected' = projected /\ \A d \in Edits : ProposalKept(d)
      BY <1>2, StepProposals
    <2>2. RowsKept
      BY StepRows DEF RowsStep
    <2>3. \A w \in projected : VariantOf[w].edit \in Edits
      BY ConstantsAssumption DEF TypeInv, TypeOK
    <2>4. \A d \in Edits : VariantsOf(d)' = VariantsOf(d)
      BY <2>1 DEF VariantsOf
    <2>5. VariantsAsWanted'
      <3>1. ASSUME NEW w \in projected
            PROVE  LET d == VariantOf[w].edit IN
                   edit'[d].present /\ edit'[d].wanted = edit[d].wanted /\ edit[d].present
        BY <2>1, <2>2, <2>3 DEF ProposalInv, VariantsAsWanted, RowsKept, ProposalKept
      <3> QED BY <2>1, <3>1 DEF ProposalInv, VariantsAsWanted, Label
    <2>6. ProposalIsComplete'
      <3> SUFFICES ASSUME NEW d \in Edits, edit'[d].present
                   PROVE  /\ edit'[d].status = "proposed" =>
                                \/ edit'[d].replacement # None
                                \/ edit'[d].wanted > 0 /\ Cardinality(VariantsOf(d)') = edit'[d].wanted
                          /\ edit'[d].selected # None => edit'[d].selected \in VariantsOf(d)'
        BY DEF ProposalIsComplete, StatusIn
      <3>1. ProposalKept(d) /\ VariantsOf(d)' = VariantsOf(d)
        BY <2>1, <2>4
      <3> QED BY <3>1 DEF ProposalKept, ProposalInv, ProposalIsComplete, StatusIn
    <2> QED BY <2>5, <2>6 DEF ProposalInv
  <1> QED BY <1>1, <1>2

\* The revision that applies a selected variant and the audit that names it
\* are on record together or not at all, and a human is offered a proposal
\* only when everything that was asked for is there.
THEOREM ProposalsStayWhole ==
    Spec => []ProposalsAreWhole
  <1>1. Init => AuditInv /\ ProposalInv
    BY DEF Init, AuditInv, ProposalInv, AuditCommitsWithRevision, ReviewsAsCommanded,
           VariantsAsWanted, ProposalIsComplete, Absent
  <1>2. TypeInv /\ AuditInv /\ ProposalInv /\ [Next]_vars => AuditInv' /\ ProposalInv'
    <2> SUFFICES ASSUME TypeInv, AuditInv, ProposalInv, [Next]_vars PROVE AuditInv' /\ ProposalInv'
      OBVIOUS
    <2>1. ASSUME NEW c \in Calls, Step(c) PROVE AuditInv' /\ ProposalInv'
      BY <2>1, StepKeepsAudit, StepKeepsProposals
    <2>2. CASE UNCHANGED vars
      BY <2>2 DEF vars, AuditInv, ProposalInv, AuditCommitsWithRevision, ReviewsAsCommanded,
                  VariantsAsWanted, ProposalIsComplete, VariantsOf, StatusIn
    <2> QED BY <2>1, <2>2 DEF Next
  <1>3. AuditInv /\ ProposalInv => ProposalsAreWhole
    BY DEF AuditInv, ProposalInv, ProposalsAreWhole
  <1> QED BY <1>1, <1>2, <1>3, TypeInvariant, PTL DEF Spec

=============================================================================
