---------------------------- MODULE ProjectChanges ----------------------------
(***************************************************************************)
(* Projects (agency_data.py) and the candidates to change them             *)
(* (agency_change_candidates.py, agency_change_candidate_review.py),       *)
(* proposed by a human, by Hermes, or selected among the variants that an  *)
(* execution returned (project_change_variants.py).                        *)
(*                                                                         *)
(* A step is what happens under one lock, or between two statements that   *)
(* read without one: a proposal reads the Project and is inserted later; a *)
(* selection holds its execution while it looks for siblings, whose other  *)
(* executions it does not hold; an application holds its candidate while   *)
(* it reads the Project, which it locks only to write.                     *)
(*                                                                         *)
(* Proposals and decisions read before they open their transaction block,  *)
(* so what they write is kept only by a connection in autocommit mode; on  *)
(* the one that with_connection opens, close() takes it back.              *)
(***************************************************************************)
EXTENDS ExecutionReview

CONSTANTS
    Fields,      \* Project attributes that Hermes may propose to change
    Values,      \* their values
    MaxRevision  \* bound on the revisions of a Project

VARIABLES
    project,         \* project[p]: the agency_projects row, or None
    projectEvents,   \* agency_project_events
    candidate,       \* candidate[k]: the agency_change_candidates row of key k, or None
    candidateEvents  \* agency_change_candidate_events

projectVars == <<project, projectEvents>>
candidateVars == <<candidate, candidateEvents>>

Attributes == [Fields -> Values \cup {None}]

\* Proposed attributes: one value for some of the fields.
Changes == UNION {[F -> Values] : F \in (SUBSET Fields) \ {{}}}

Outcomes == {"apply", "reject", "revise"}

Statuses == {"pending_review", "applied", "stale", "rejected", "revision_requested"}

Proposers == {"human", "hermes"}

CandidateKeys == Keys \X {"", ":change-candidate"}

Command ==
         [op : {"store"}, key : Keys, execution : Executions, project : Projects,
          items : SUBSET Results]
    \cup [op : {"review"}, key : Keys, execution : Executions, result : Results,
          disposition : Dispositions]
    \cup [op : {"select"}, key : Keys, execution : Executions, result : Results]
    \cup [op : {"create", "update"}, key : Keys, project : Projects, attributes : Attributes]
    \cup [op : {"propose"}, key : Keys, project : Projects, changes : Changes, by : Proposers]
    \cup [op : Outcomes, key : Keys, candidate : CandidateKeys]

\* The commands among those of the instance that are about changes.
ChangeRequests == {m \in Commands : m.op \in
    {"store", "review", "select", "create", "update", "propose"} \cup Outcomes}

Variant == [kind : {"project_change_variant"}, project : Projects, base : 1..MaxRevision,
            scope : STRING, changes : Changes]

Row == [revision : 1..MaxRevision, attributes : Attributes]

ProjectEvent == [key : Key, project : Projects, expected : 0..MaxRevision,
                 payload : Attributes, snapshot : Row]

Candidate == [project : Projects, base : 1..MaxRevision, changes : Changes,
              by : Proposers, source : Results \cup {None}, status : Statuses,
              applied : 1..MaxRevision \cup {None}]

CandidateEvent == [key : Key, candidate : CandidateKeys,
                   type : Statuses \cup {"proposed"}]

ASSUME ChangesAssumption ==
    /\ MaxRevision \in Nat \ {0}
    /\ Autocommit \in BOOLEAN
    /\ ChangeRequests \subseteq Command
    /\ \A r \in Results : ItemOf[r].kind \in Kinds
    /\ \A r \in Results : ItemOf[r].kind = "project_change_variant" => ItemOf[r] \in Variant
    /\ None \notin Results /\ None \notin Values
    /\ None \notin Execution /\ None \notin Row /\ None \notin Candidate

Handling ==
         [pc : {"proposing"}, command : Commands, base : 1..MaxRevision, before : Attributes]
    \cup [pc : {"selecting"}, command : Commands]
    \cup [pc : {"applying"}, command : Commands, read : Row]

ChangeSteps == {"proposing", "selecting", "applying"}

-----------------------------------------------------------------------------
(* Locks.                                                                  *)

\* A row of execution_results or of agency_change_candidates that a call holds.
ExecutionHeld(x) == \E c \in Calls : Step(c, "selecting") /\ call[c].command.execution = x

CandidateHeld(k) == \E c \in Calls : Step(c, "applying") /\ call[c].command.candidate = k

Refuse(c) ==
    /\ Refused(c)
    /\ UNCHANGED <<reviewVars, projectVars, candidateVars>>

-----------------------------------------------------------------------------
(* Execution results.                                                      *)

Deposit(m) ==
    /\ StoreResult(m) \/ ReplayStore(m) \/ Reviews(m)
    /\ Answers(m, 0)
    /\ UNCHANGED <<projectVars, candidateVars, call>>

-----------------------------------------------------------------------------
(* Projects.                                                               *)

ProjectEventOf(k) == {e \in projectEvents : e.key = k}

\* The row of Project p becomes "attributes" at the revision after v.
Writes(k, p, v, attributes) ==
    LET row == [revision |-> v + 1, attributes |-> attributes] IN
    /\ ProjectEventOf(k) = {}
    /\ v < MaxRevision
    /\ project' = [project EXCEPT ![p] = row]
    /\ projectEvents' = projectEvents \cup
          {[key |-> k, project |-> p, expected |-> v, payload |-> attributes, snapshot |-> row]}

CreateProject(m) ==
    /\ m.op = "create"
    /\ project[m.project] = None
    /\ Writes(Sent(m.key), m.project, 0, m.attributes)
    /\ Answers(m, 0)
    /\ UNCHANGED <<reviewVars, candidateVars, call>>

\* Project p exists at revision v.
At(p, v) == IF project[p] = None THEN FALSE ELSE project[p].revision = v

\* The row is locked and its revision compared; "v" is what the client read.
UpdateProject(m, v) ==
    /\ m.op = "update"
    /\ At(m.project, v)
    /\ Writes(Sent(m.key), m.project, v, m.attributes)
    /\ Answers(m, v)
    /\ UNCHANGED <<reviewVars, candidateVars, call>>

\* _replayed_snapshot compares the Project and the digest of the payload.
ReplayProject(m, v) ==
    /\ m.op \in {"create", "update"}
    /\ m.op = "create" <=> v = 0
    /\ \E e \in ProjectEventOf(Sent(m.key)) :
          e.project = m.project /\ e.expected = v /\ e.payload = m.attributes
    /\ Answers(m, v)
    /\ UNCHANGED <<reviewVars, projectVars, candidateVars, call>>

-----------------------------------------------------------------------------
(* Candidates.                                                             *)

\* The changes among the proposed attributes: those that differ.
Differing(changes, attributes) == {f \in DOMAIN changes : changes[f] # attributes[f]}

Merged(changes, attributes) ==
    [f \in Fields |-> IF f \in DOMAIN changes THEN changes[f] ELSE attributes[f]]

Restricted(changes, F) == [f \in F |-> changes[f]]

NewCandidate(p, base, changes, by, source) ==
    [project |-> p, base |-> base, changes |-> changes, by |-> by, source |-> source,
     status |-> "pending_review", applied |-> None]

\* A candidate with its outcome.
DecidedAs(row, status, applied) ==
    [project |-> row.project, base |-> row.base, changes |-> row.changes, by |-> row.by,
     source |-> row.source, status |-> status, applied |-> applied]

\* What proposal_digest covers.
Proposal(row) == DecidedAs(row, "pending_review", None)

EventKeyFree(k) == \A e \in candidateEvents : e.key # k

\* create_project_candidate reads the Project.
Read(c, m, base) ==
    /\ m.op = "propose"
    /\ At(m.project, base)
    /\ Differing(m.changes, project[m.project].attributes) # {}
    /\ Begin(c, [pc |-> "proposing", command |-> m, base |-> base,
                 before |-> project[m.project].attributes])
    /\ UNCHANGED <<reviewVars, projectVars, candidateVars, answer>>

\* The candidate of the call: its changes are those that differed when it read.
Proposed(c) ==
    LET m == call[c].command IN
    NewCandidate(m.project, call[c].base,
                 Restricted(m.changes, Differing(m.changes, call[c].before)), m.by, None)

Propose(c) ==
    LET m == call[c].command
        k == Sent(m.key)
    IN
    /\ Step(c, "proposing")
    /\ candidate[k] = None
    /\ EventKeyFree(<<m.key, ":proposed">>)
    /\ Keeps(candidate, [candidate EXCEPT ![k] = Proposed(c)])
    /\ Keeps(candidateEvents, candidateEvents \cup
          {[key |-> <<m.key, ":proposed">>, candidate |-> k, type |-> "proposed"]})
    /\ Answers(m, call[c].base)
    /\ End(c)
    /\ UNCHANGED <<reviewVars, projectVars>>

ReplayProposal(c) ==
    LET k == Sent(call[c].command.key) IN
    /\ Step(c, "proposing")
    /\ IF candidate[k] = None THEN FALSE ELSE Proposal(candidate[k]) = Proposed(c)
    /\ Answers(call[c].command, call[c].base)
    /\ End(c)
    /\ UNCHANGED <<reviewVars, projectVars, candidateVars>>

-----------------------------------------------------------------------------
(* The selection of a variant.                                             *)

FromSource(r) ==
    {k \in CandidateKeys : IF candidate[k] = None THEN FALSE ELSE candidate[k].source = r}

\* Candidates of the same Project and variant scope.
Siblings(r) ==
    UNION {FromSource(s) : s \in {t \in Results : /\ ItemOf[t].kind = "project_change_variant"
                                                  /\ ItemOf[t].project = ItemOf[r].project
                                                  /\ ItemOf[t].scope = ItemOf[r].scope}}

\* Variants of one scope in one execution share Project and revision.
SiblingsAgree(x, r) ==
    \A s \in stored[x].items :
       /\ ItemOf[s].kind = "project_change_variant"
       /\ ItemOf[s].scope = ItemOf[r].scope
       => ItemOf[s].project = ItemOf[r].project /\ ItemOf[s].base = ItemOf[r].base

\* The execution is locked; the checks made before anything is written.
Selectable(m) ==
    LET r == m.result IN
    /\ m.op = "select"
    /\ ~ExecutionHeld(m.execution)
    /\ Returned(r, m.execution)
    /\ ItemOf[r].kind = "project_change_variant"
    /\ stored[m.execution].project = ItemOf[r].project
    /\ SiblingsAgree(m.execution, r)

CheckVariant(c, m) ==
    /\ Selectable(m)
    /\ Siblings(m.result) = {}
    /\ At(ItemOf[m.result].project, ItemOf[m.result].base)
    /\ Begin(c, [pc |-> "selecting", command |-> m])
    /\ UNCHANGED <<reviewVars, projectVars, candidateVars, answer>>

\* The selection disposition of this very key must be there.
ReplaySelection(m) ==
    /\ Selectable(m)
    /\ FromSource(m.result) # {}
    /\ \E j \in DOMAIN dispositions : dispositions[j].key = <<m.key, ":selection">>
    /\ Answers(m, ItemOf[m.result].base)
    /\ UNCHANGED <<reviewVars, projectVars, candidateVars, call>>

\* idempotency_key, variant_result_unique and variant_scope_unique.
VariantInsertable(k, r) == candidate[k] = None /\ Siblings(r) = {}

\* The disposition and the candidate, in the one transaction that was opened
\* first; the revision of the Project is compared once more.
SelectVariant(c) ==
    LET m == call[c].command
        r == m.result
        k == <<m.key, ":change-candidate">>
        attributes == project[ItemOf[r].project].attributes
        differing == Differing(ItemOf[r].changes, attributes)
    IN
    /\ Step(c, "selecting")
    /\ Appends([key |-> <<m.key, ":selection">>, result |-> r,
                disposition |-> "selected_for_change_candidate"])
    /\ At(ItemOf[r].project, ItemOf[r].base)
    /\ differing # {}
    /\ VariantInsertable(k, r)
    /\ candidate' = [candidate EXCEPT ![k] =
          NewCandidate(ItemOf[r].project, ItemOf[r].base,
                       Restricted(ItemOf[r].changes, differing), "human", r)]
    /\ candidateEvents' = candidateEvents \cup
          {[key |-> <<m.key, ":proposed">>, candidate |-> k, type |-> "proposed"]}
    /\ Answers(m, ItemOf[r].base)
    /\ End(c)
    /\ UNCHANGED <<stored, projectVars>>

-----------------------------------------------------------------------------
(* Decisions.                                                              *)

StatusOf(op) ==
    CASE op = "apply" -> "applied" [] op = "reject" -> "rejected" [] op = "revise" -> "revision_requested"

Seen(m) == {e \in candidateEvents : e.key = Sent(m.key)}

\* _replayed_decision: a stale outcome is no replay of an application.
Repeats(m) == \E e \in Seen(m) : e.candidate = m.candidate /\ e.type = StatusOf(m.op)

ReplayDecision(m) ==
    /\ m.op \in Outcomes
    /\ Repeats(m)
    /\ Answers(m, candidate[m.candidate].base)
    /\ UNCHANGED <<reviewVars, projectVars, candidateVars, call>>

\* Seeded fault: the status is read without locking the candidate.
DecidableUnlocked(k) ==
    IF candidate[k] = None THEN FALSE ELSE candidate[k].status = "pending_review"

\* The candidate could be locked, and is pending.
Decidable(k) ==
    /\ ~CandidateHeld(k)
    /\ IF candidate[k] = None THEN FALSE ELSE candidate[k].status = "pending_review"

Decides(m, status, applied) ==
    /\ Seen(m) = {}
    /\ Keeps(candidate, [candidate EXCEPT ![m.candidate] = DecidedAs(@, status, applied)])
    /\ Keeps(candidateEvents, candidateEvents \cup
          {[key |-> Sent(m.key), candidate |-> m.candidate, type |-> status]})
    /\ Answers(m, candidate[m.candidate].base)

\* reject_project_candidate, request_project_candidate_revision
Dismiss(m) ==
    /\ m.op \in {"reject", "revise"}
    /\ Decidable(m.candidate)
    /\ Decides(m, StatusOf(m.op), None)
    /\ UNCHANGED <<reviewVars, projectVars, call>>

LockCandidate(c, m) ==
    /\ m.op = "apply"
    /\ Seen(m) = {}
    /\ Decidable(m.candidate)
    /\ Begin(c, [pc |-> "applying", command |-> m,
                 read |-> project[candidate[m.candidate].project]])
    /\ UNCHANGED <<reviewVars, projectVars, candidateVars, answer>>

\* Seeded fault: the revision under the lock of the Project is not compared.
CurrentWhenRead(c) == call[c].read.revision = candidate[call[c].command.candidate].base

\* The Project was at the base revision when read, and is still under its lock.
Current(c) ==
    LET row == candidate[call[c].command.candidate] IN
    call[c].read.revision = row.base /\ At(row.project, row.base)

Apply(c) ==
    LET m == call[c].command
        row == candidate[m.candidate]
        v == project[row.project].revision
        attributes == Merged(row.changes, call[c].read.attributes)
    IN
    /\ Step(c, "applying")
    /\ Current(c)
    /\ IF Autocommit
       THEN Writes(<<m.key, ":project-apply">>, row.project, v, attributes)
       ELSE UNCHANGED projectVars
    /\ Decides(m, "applied", row.base + 1)
    /\ End(c)
    /\ UNCHANGED reviewVars

MarkStale(c) ==
    /\ Step(c, "applying")
    /\ ~Current(c)
    /\ Decides(call[c].command, "stale", None)
    /\ End(c)
    /\ UNCHANGED <<reviewVars, projectVars>>

-----------------------------------------------------------------------------
(* The specification.                                                      *)

ChangesInit ==
    /\ ReviewInit
    /\ project = [p \in Projects |-> None]
    /\ projectEvents = {}
    /\ candidate = [k \in CandidateKeys |-> None]
    /\ candidateEvents = {}

\* "v" is a revision that the client has read.
ChangesNext ==
    \/ \E m \in ChangeRequests : Deposit(m) \/ CreateProject(m) \/ ReplaySelection(m)
    \/ \E m \in ChangeRequests : ReplayDecision(m) \/ Dismiss(m)
    \/ \E m \in ChangeRequests, v \in 0..MaxRevision : UpdateProject(m, v) \/ ReplayProject(m, v)
    \/ \E c \in Calls, m \in ChangeRequests : CheckVariant(c, m) \/ LockCandidate(c, m)
    \/ \E c \in Calls, m \in ChangeRequests, v \in 1..MaxRevision : Read(c, m, v)
    \/ \E c \in Calls : Propose(c) \/ ReplayProposal(c) \/ SelectVariant(c)
    \/ \E c \in Calls : Apply(c) \/ MarkStale(c) \/ Refuse(c)

ChangesSpec ==
    /\ ChangesInit /\ RequestsInit
    /\ [][ChangesNext]_<<reviewVars, projectVars, candidateVars, requestVars>>

-----------------------------------------------------------------------------
(* Properties.                                                             *)

\* Every row and every call has the shape of its table or handler.
ChangesTypeOK ==
    /\ ReviewTypeOK
    /\ project \in [Projects -> Row \cup {None}]
    /\ projectEvents \subseteq ProjectEvent
    /\ candidate \in [CandidateKeys -> Candidate \cup {None}]
    /\ candidateEvents \subseteq CandidateEvent
    /\ \A c \in Calls : (\E pc \in ChangeSteps : Step(c, pc)) => call[c] \in Handling

\* The ledger of a Project has one row for every revision and its last snapshot
\* is the Project; an applied candidate is the row that follows its base
\* revision, and changed there what it proposed and nothing else, whatever was
\* written between its reading of the Project and its own write.
LedgerExplainsProject ==
    /\ \A p \in Projects :
          LET rows == {e \in projectEvents : e.project = p}
              revision == IF project[p] = None THEN 0 ELSE project[p].revision
          IN  /\ {e.expected : e \in rows} = 0..(revision - 1)
              /\ Cardinality(rows) = revision
              /\ \A e \in rows : e.expected = revision - 1 => e.snapshot = project[p]
    /\ \A k \in CandidateKeys : candidate[k] # None => LET row == candidate[k] IN
          row.status = "applied" =>
             \E e, d \in projectEvents :
                /\ e.project = row.project /\ e.expected = row.base
                /\ e.key[2] = ":project-apply" /\ row.applied = row.base + 1
                /\ d.project = row.project /\ d.snapshot.revision = row.base
                /\ e.snapshot.attributes = Merged(row.changes, d.snapshot.attributes)

\* Of the variants that answer one request about a Project, in whatever
\* executions they were returned, at most one becomes a candidate, and the
\* candidate goes with the disposition that selected its variant.
OneVariantPerScope ==
    \A r \in Results : ItemOf[r].kind = "project_change_variant" =>
       /\ Cardinality(Siblings(r)) <= 1
       /\ \A k \in FromSource(r) : \E j \in Of(r) :
             dispositions[j].key = <<k[1], ":selection">>

\* A candidate that was decided is never decided again, nor lost, though two
\* humans decide it at the same time.
DecisionsAreFinal ==
    [][\A k \in CandidateKeys : candidate[k] # None =>
          /\ candidate'[k] # None
          /\ candidate[k].status # "pending_review" => candidate'[k] = candidate[k]]_candidate

\* The command m, which read version v, is on record.
ChangeOnRecord(m, v) ==
    /\ m.op = "store" => stored[m.execution] = Content(m)
    /\ m.op = "review" =>
          \E j \in Of(m.result) : /\ dispositions[j].key = Sent(m.key)
                                  /\ dispositions[j].disposition = m.disposition
    /\ m.op = "select" => FromSource(m.result) # {}
    /\ m.op \in {"create", "update"} =>
          \E e \in ProjectEventOf(Sent(m.key)) : e.project = m.project /\ e.expected = v
    /\ m.op = "propose" =>
          /\ candidate[Sent(m.key)] # None
          /\ candidate[Sent(m.key)].project = m.project
          /\ candidate[Sent(m.key)].base = v
          /\ candidate[Sent(m.key)].by = m.by
    /\ m.op \in Outcomes =>
          \E e \in Seen(m) :
             /\ e.candidate = m.candidate
             /\ e.type = StatusOf(m.op) \/ (m.op = "apply" /\ e.type = "stale")

\* A client that is told of success finds its own command on record, also when
\* it was answered as a replay: not the effect of another command, and not one
\* that was taken back when the connection was closed.
AnswerIsOnRecord == answer # None => ChangeOnRecord(answer.command, answer.expected)

\* Projects and candidates have the shape of their tables, the ledger of a Project
\* explains it (LedgerExplainsProject), one variant of a scope becomes a candidate
\* (OneVariantPerScope), what is decided stays decided (DecisionsAreFinal), and a
\* success that was answered on a connection in autocommit mode is on record
\* (AnswerIsOnRecord).
ChangesAreSound ==
    /\ [](ChangesTypeOK /\ LedgerExplainsProject /\ OneVariantPerScope)
    /\ [](Autocommit => AnswerIsOnRecord)
    /\ DecisionsAreFinal

=============================================================================
