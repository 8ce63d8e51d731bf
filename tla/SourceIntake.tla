----------------------------- MODULE SourceIntake -----------------------------
(***************************************************************************)
(* The Source intake routes (source_intake_api.py over source_intake.py):  *)
(* the Source rows, their append-only event ledger, and the connection     *)
(* that with_connection opens for each request and closes afterwards.      *)
(*                                                                         *)
(* The connection is not in autocommit mode and nobody commits it: what a  *)
(* route writes is kept only if its `with conn.transaction()` opens the    *)
(* transaction.  A function that reads before that block has already       *)
(* opened one implicitly; its block is then a savepoint, and close() rolls *)
(* everything back after the answer was computed.                          *)
(***************************************************************************)
EXTENDS Naturals, FiniteSets

CONSTANTS
    Requests,    \* requests the server handles at the same time
    Sources,     \* source ids
    IntakeKeys,        \* idempotency keys
    SourceRevisions, \* bound on Source revisions
    NoSource

ASSUME IntakeAssumption ==
    /\ SourceRevisions \in Nat \ {0, 1}
    /\ NoSource \notin Sources

VARIABLES
    sourceRow,    \* sourceRow[s]: status and revision of the Source, revision 0 before it is created
    contains,     \* agency_source_relations
    sourceEvents, \* agency_source_events
    request       \* request[h]: the request in slot h, its connection and its result

intakeVars == <<sourceRow, contains, sourceEvents, request>>

Mutations == {"metadata", "suggest", "link", "unlink", "exclude", "restore"}
Operations == Mutations \cup {"create", "contain"}

SourceStatuses == {"unassigned", "suggested", "linked", "excluded"}

\* Seeded fault: exclude_source looks at the Source before its transaction.
ReadsFirstExclude == {"suggest", "link", "restore", "exclude"}

\* suggest_projects and link_project ask _project_exists, restore_source reads
\* the row, before the transaction block.
ReadsFirst == {"suggest", "link", "restore"}

\* What the payload digest of a mutation tells apart: unlink, exclude and
\* restore all have the empty payload.
Payload(op) == IF op \in {"unlink", "exclude", "restore"} THEN "empty" ELSE op

StatusAfter(op, status) ==
    CASE op \in {"create", "unlink", "restore"} -> "unassigned"
      [] op = "suggest" -> "suggested"
      [] op = "link" -> "linked"
      [] op = "exclude" -> "excluded"
      [] OTHER -> status

UploadKeys == Sources \X {"source", "project"}

Event == [source : Sources, op : Operations, key : IntakeKeys \cup UploadKeys,
          target : Sources \cup {NoSource}, expected : 0..SourceRevisions]

\* What a client may ask for: a mutation names the revision it has read.
Asked == {e \in Event :
            /\ e.key \in IntakeKeys
            /\ e.op \in Mutations <=> e.expected > 0
            /\ IF e.op = "contain" THEN e.target \in Sources \ {e.source} ELSE e.target = NoSource}

Waiting == [pc |-> "idle"]

\* A request and its connection: implicit when a statement opened a
\* transaction before the block, staged what such a transaction has written.
SourceHandling == [pc : {"received", "read", "done", "answered"}, event : Event,
             implicit : BOOLEAN, staged : BOOLEAN]

AskedBy(h) == request[h].event

EventsWith(k) == {e \in sourceEvents : e.key = k}

\* Rows and index entries that an open transaction has written are locked.
SourceLockedFor(h) ==
    \E g \in Requests \ {h} :
        /\ request[g] # Waiting
        /\ request[g].staged
        /\ \/ AskedBy(g).source \in {AskedBy(h).source, AskedBy(h).target}
           \/ AskedBy(g).key = AskedBy(h).key

-----------------------------------------------------------------------------
Receive(h, e) ==
    /\ request[h].pc \in {"idle", "answered"}
    /\ e \in Asked
    /\ e.expected <= sourceRow[e.source].revision
    /\ request' = [request EXCEPT ![h] = [pc |-> "received", event |-> e,
                                          implicit |-> FALSE, staged |-> FALSE]]
    /\ UNCHANGED <<sourceRow, contains, sourceEvents>>

\* The statement before the block; restore_source goes on only from "excluded".
ReadFirst(h) ==
    /\ request[h].pc = "received"
    /\ AskedBy(h).op \in ReadsFirst
    /\ AskedBy(h).op = "restore" => sourceRow[AskedBy(h).source].status = "excluded"
    /\ request' = [request EXCEPT ![h].pc = "read", ![h].implicit = TRUE]
    /\ UNCHANGED <<sourceRow, contains, sourceEvents>>

AtBlock(h) ==
    IF request[h] = Waiting THEN FALSE
    ELSE request[h].pc = (IF AskedBy(h).op \in ReadsFirst THEN "read" ELSE "received")

\* _replayed compares the source and the payload digest.
SameMutation(e, f) ==
    /\ e.source = f.source
    /\ Payload(e.op) = Payload(f.op)
    /\ e.target = f.target

Replay(h) ==
    /\ AtBlock(h)
    /\ \E f \in EventsWith(AskedBy(h).key) : SameMutation(AskedBy(h), f)
    /\ request' = [request EXCEPT ![h].pc = "done"]
    /\ UNCHANGED <<sourceRow, contains, sourceEvents>>

\* Seeded fault: the expected revision is not compared.
RevisionOfAny(e) == sourceRow[e.source].revision \in 1..(SourceRevisions - 1)

RevisionIsExpected(e) ==
    /\ sourceRow[e.source].revision = e.expected
    /\ e.expected \in 1..(SourceRevisions - 1)

\* What the rows say of the mutation.
Applies(e) ==
    CASE e.op = "create" -> sourceRow[e.source].revision = 0
      [] e.op = "contain" ->
            /\ sourceRow[e.source].revision > 0 /\ sourceRow[e.target].revision > 0
            /\ <<e.source, e.target>> \notin contains
      [] OTHER -> RevisionIsExpected(e)

\* What the mutation writes: the row or the relation, and its event.
Write(e) ==
    /\ sourceEvents' = sourceEvents \cup {e}
    /\ IF e.op = "contain"
       THEN /\ contains' = contains \cup {<<e.source, e.target>>}
            /\ sourceRow' = sourceRow
       ELSE /\ sourceRow' = [sourceRow EXCEPT ![e.source] =
                          [status |-> StatusAfter(e.op, @.status), revision |-> @.revision + 1]]
            /\ contains' = contains

MayWrite(h) ==
    /\ AtBlock(h)
    /\ EventsWith(AskedBy(h).key) = {}
    /\ Applies(AskedBy(h))
    /\ ~SourceLockedFor(h)

\* The block is the transaction: leaving it commits.
CommitMutation(h) ==
    /\ MayWrite(h)
    /\ ~request[h].implicit
    /\ Write(AskedBy(h))
    /\ request' = [request EXCEPT ![h].pc = "done"]

\* The block is a savepoint of the implicit transaction.
Stage(h) ==
    /\ MayWrite(h)
    /\ request[h].implicit
    /\ request' = [request EXCEPT ![h].pc = "done", ![h].staged = TRUE]
    /\ UNCHANGED <<sourceRow, contains, sourceEvents>>

\* conn.close() rolls an open transaction back; the answer is sent.
Close(h) ==
    /\ request[h].pc = "done"
    /\ request' = [request EXCEPT ![h].pc = "answered", ![h].implicit = FALSE, ![h].staged = FALSE]
    /\ UNCHANGED <<sourceRow, contains, sourceEvents>>

\* A conflict, a stale revision, an unknown Source, or a request that is lost.
RefuseSource(h) ==
    /\ request[h].pc \in {"received", "read", "done"}
    /\ request' = [request EXCEPT ![h] = Waiting]
    /\ UNCHANGED <<sourceRow, contains, sourceEvents>>

UploadEvent(s, op, what, revision) ==
    [source |-> s, op |-> op, key |-> <<s, what>>, target |-> NoSource, expected |-> revision]

UploadKeysOf(s) == {<<s, "source">>, <<s, "project">>}

\* human_revision_upload creates and links a Source in a transaction it owns,
\* under two keys that it derives from the key of the upload.
UploadSource(s) ==
    /\ sourceRow[s].revision = 0
    /\ \A k \in UploadKeysOf(s) : EventsWith(k) = {}
    /\ \A h \in Requests : request[h] # Waiting /\ request[h].staged =>
          AskedBy(h).source # s /\ AskedBy(h).key \notin UploadKeysOf(s)
    /\ sourceRow' = [sourceRow EXCEPT ![s] = [status |-> "linked", revision |-> 2]]
    /\ sourceEvents' = sourceEvents \cup {UploadEvent(s, "create", "source", 0),
                            UploadEvent(s, "link", "project", 1)}
    /\ UNCHANGED <<contains, request>>

IntakeInit ==
    /\ sourceRow = [s \in Sources |-> [status |-> "unassigned", revision |-> 0]]
    /\ contains = {}
    /\ sourceEvents = {}
    /\ request = [h \in Requests |-> Waiting]

IntakeNext ==
    \/ \E h \in Requests :
          \/ \E e \in Asked : Receive(h, e)
          \/ ReadFirst(h) \/ Replay(h) \/ CommitMutation(h) \/ Stage(h) \/ Close(h)
          \/ RefuseSource(h)
    \/ \E s \in Sources : UploadSource(s)

IntakeSpec == IntakeInit /\ [][IntakeNext]_intakeVars

-----------------------------------------------------------------------------
(* Properties.                                                             *)

\* Rows, ledger and requests hold values of their columns.
SourceTypeOK ==
    /\ sourceRow \in [Sources -> [status : SourceStatuses, revision : 0..SourceRevisions]]
    /\ contains \subseteq Sources \X Sources
    /\ sourceEvents \subseteq Event
    /\ request \in [Requests -> SourceHandling \cup {Waiting}]

RowEvents(s) == {e \in sourceEvents : e.source = s /\ e.op # "contain"}

\* The ledger explains every revision of a Source: one event for each, none
\* based on a revision that another event had already replaced, no key twice;
\* and the status is the one the last event that says anything left behind.
LedgerExplainsSource ==
    /\ \A e, f \in sourceEvents : e.key = f.key => e = f
    /\ \A s \in Sources :
          /\ {e.expected : e \in RowEvents(s)} = 0..(sourceRow[s].revision - 1)
          /\ Cardinality(RowEvents(s)) = sourceRow[s].revision
          /\ sourceRow[s].revision > 0 =>
                \E e \in RowEvents(s) :
                    /\ e.op # "metadata"
                    /\ sourceRow[s].status = StatusAfter(e.op, sourceRow[s].status)
                    /\ \A f \in RowEvents(s) : f.expected > e.expected => f.op = "metadata"

\* A Source has the shape of its row and is what its ledger tells (LedgerExplainsSource).
SourceIsExplained == SourceTypeOK /\ LedgerExplainsSource

\* Request h was answered with success, and its mutation is in the ledger.
AnsweredOf(ops) == {h \in Requests : request[h].pc = "answered" /\ AskedBy(h).op \in ops}
InLedger(h) == \E e \in EventsWith(AskedBy(h).key) : SameMutation(AskedBy(h), e)

\* A mutation that opens its own transaction is on record when it is answered.
DirectAnswerIsDurable ==
    \A h \in AnsweredOf({"create", "metadata", "unlink", "exclude", "contain"}) : InLedger(h)

\* "the nested A2 owner savepoints cannot be rolled back merely because
\* with_connection closes later" (human_access_api.py, of the route that owns
\* its transaction), asked of the Source routes: what was answered is on record.
AnswerIsDurable == \A h \in AnsweredOf(Operations) : InLedger(h)

=============================================================================
