-------------------------- MODULE DocumentCurrentness --------------------------
(***************************************************************************)
(* Professional Documents and what may be said of their revisions          *)
(* (project_documents.py, project_document_currentness.py): documents are  *)
(* created, exact technical captures are linked to them as revisions,      *)
(* postures of a revision and references that its issuer gave it are       *)
(* recorded, and from these records, never from the order of receipt or of *)
(* the labels alone, a reader is told which revision is current for a      *)
(* purpose.                                                                *)
(*                                                                         *)
(* Each recorder looks its key up first and then works under a row lock:   *)
(* of the Document to link, of the revision to record a posture.  That     *)
(* second lock is a step of its own, because what is read under it is      *)
(* inserted after it.  Their callers commit.  A version is its Document    *)
(* and its version_seq.                                                    *)
(***************************************************************************)
EXTENDS Requests, FiniteSetsExt

CONSTANTS
    ProjectDocuments,
    Captures,    \* exact technical versions, known by their source_digest
    References,  \* values of issuer references
    MaxRevisions \* bound on the revisions of a Document

VARIABLES
    created,   \* doc_documents
    revisions, \* revisions[d]: doc_document_versions of d, by version_seq
    journal,   \* doc_document_events: what was asked and what came of it
    postures,  \* postures[v]: doc_document_version_effect_events of v, by event_seq
    observed   \* doc_document_version_reference_observations

documentVars == <<created, revisions, journal, postures, observed>>

Versions == ProjectDocuments \X (1..MaxRevisions)

Linked == {v \in Versions : v[2] \in DOMAIN revisions[v[1]]}

\* A revision, with the version_seq of the one it supersedes or 0.
ProjectRevision == [capture : Captures, received : Nat, supersedes : Nat]

TerminalStatuses == {"superseded", "obsolete", "rejected", "withdrawn"}
WorkingEffects == {"working_revision", "minor_correction", "coordination_update"}
InternalAuthorities == {"internal_working_authority", "internal_review_authority"}
ConsequentialAuthorities ==
    {"phase_approval_authority", "consultation_authority", "execution_authority",
     "site_record_authority", "contractual_authority", "as_built_authority"}

Posture == [status : {"draft", "issued"} \cup TerminalStatuses,
            effect : WorkingEffects \cup {"issued_for_review"},
            authority : {"not_authoritative"} \cup InternalAuthorities]

\* What clients may ask of documents; Hermes may ask, and any authority be named.
DocumentRequest ==
         [op : {"create_document"}, key : Keys, document : ProjectDocuments]
    \cup [op : {"link_revision"}, key : Keys, document : ProjectDocuments, capture : Captures,
          received : Nat, supersedes : Nat]
    \cup [op : {"record_version_event"}, key : Keys, version : Versions,
          by : {"human", "system", "hermes"},
          posture : [status : {"draft", "issued"} \cup TerminalStatuses,
                     effect : WorkingEffects \cup {"issued_for_review"},
                     authority : {"not_authoritative"} \cup InternalAuthorities
                                 \cup ConsequentialAuthorities]]
    \cup [op : {"record_issuer_reference"}, key : Keys, version : Versions, value : References]
    \cup [op : {"resolve_reference"}, key : Keys, version : Versions]
    \cup [op : {"resolve_currentness"}, key : Keys, document : ProjectDocuments, purpose : STRING]

DocumentOps == {"create_document", "link_revision", "record_version_event",
                "record_issuer_reference", "resolve_reference", "resolve_currentness"}

ASSUME DocumentAssumption ==
    /\ MaxRevisions \in Nat
    /\ {m \in Commands : m.op \in DocumentOps} \subseteq DocumentRequest
    /\ None \notin Posture

PostureEvent == [key : Keys, by : {"human", "system"}, posture : Posture,
                 previous : Posture \cup {None}]

-----------------------------------------------------------------------------
(* Documents and their revisions.                                          *)

\* _replayed_snapshot: the key was used for the same command.
ReplayDocumentCommand(m) ==
    /\ \E entry \in journal : entry.command = m /\ Answers(m, entry.result)
    /\ UNCHANGED <<documentVars, call>>

JournalKeys == {entry.command.key : entry \in journal}

CreateDocument(m) ==
    /\ m.op = "create_document"
    /\ m.key \notin JournalKeys
    /\ m.document \notin created
    /\ created' = created \cup {m.document}
    /\ journal' = journal \cup {[command |-> m, result |-> m.document]}
    /\ Answers(m, m.document)
    /\ UNCHANGED <<revisions, postures, observed, call>>

LookUpLink(c, m) ==
    /\ m.op = "link_revision"
    /\ m.key \notin JournalKeys
    /\ Begin(c, [pc |-> "linking", command |-> m])
    /\ UNCHANGED <<documentVars, answer>>

\* What is superseded is an earlier revision that has no successor.
Supersedable(d, n) ==
    n = 0 \/ (n \in DOMAIN revisions[d]
              /\ \A r \in DOMAIN revisions[d] : revisions[d][r].supersedes # n)

LinkRevision(c) ==
    LET m == call[c].command
        d == m.document
    IN
    /\ Step(c, "linking")
    /\ d \in created
    /\ \A r \in DOMAIN revisions[d] : revisions[d][r].capture # m.capture
    /\ Len(revisions[d]) < MaxRevisions
    /\ Supersedable(d, m.supersedes)
    /\ m.key \notin JournalKeys
    /\ revisions' = [revisions EXCEPT ![d] = Append(@,
          [capture |-> m.capture, received |-> m.received, supersedes |-> m.supersedes])]
    /\ journal' = journal \cup {[command |-> m, result |-> <<d, Len(revisions[d]) + 1>>]}
    /\ Answers(m, <<d, Len(revisions[d]) + 1>>)
    /\ End(c)
    /\ UNCHANGED <<created, postures, observed>>

\* The same content under the same metadata is returned, and leaves no event.
ReuseRevision(c) ==
    LET m == call[c].command
        d == m.document
    IN
    /\ Step(c, "linking")
    /\ \E r \in DOMAIN revisions[d] : /\ revisions[d][r].capture = m.capture
                                      /\ revisions[d][r].supersedes = m.supersedes
                                      /\ Answers(m, <<d, r>>)
    /\ End(c)
    /\ UNCHANGED documentVars

-----------------------------------------------------------------------------
(* Postures.                                                               *)

PostureEvents == UNION {{[version |-> v, seq |-> i, event |-> postures[v][i]] :
                         i \in DOMAIN postures[v]} : v \in Versions}

PostureEventOf(key) == {e \in PostureEvents : e.event.key = key}

\* Hermes records nothing, and the system gives no authority.
Recordable(m) ==
    /\ m.by # "hermes"
    /\ m.posture.authority \notin ConsequentialAuthorities
    /\ m.by = "system" => m.posture.authority = "not_authoritative"

LookUpPosture(c, m) ==
    /\ m.op = "record_version_event"
    /\ Recordable(m)
    /\ PostureEventOf(m.key) = {}
    /\ Begin(c, [pc |-> "recording", command |-> m])
    /\ UNCHANGED <<documentVars, answer>>

ReplayPosture(m) ==
    /\ m.op = "record_version_event"
    /\ Recordable(m)
    /\ \E e \in PostureEventOf(m.key) : /\ e.version = m.version /\ e.event.posture = m.posture
                                 /\ e.event.by = m.by
    /\ Answers(m, m.version)
    /\ UNCHANGED <<documentVars, call>>

LastPosture(v) == IF postures[v] = <<>> THEN None ELSE postures[v][Len(postures[v])].posture

\* Seeded fault: the previous posture is that of the revision before.
LastOfDocument(v) ==
    LET w == IF v[2] > 1 THEN <<v[1], v[2] - 1>> ELSE v IN
    IF postures[w] = <<>> THEN None ELSE postures[w][Len(postures[w])].posture

PreviousPosture(v) == LastPosture(v)

\* Seeded fault: the row is read without FOR UPDATE.
LockNothing(v) == {}

\* The requests that hold the row of a revision, until their transaction ends.
Holders(v) == {c \in Calls : Step(c, "appending") /\ call[c].command.version = v}

\* _version_for_update waits for the row; the latest event is read under it.
LockRevision(c) ==
    LET m == call[c].command IN
    /\ Step(c, "recording")
    /\ m.version \in Linked /\ Holders(m.version) = {}
    /\ call' = [call EXCEPT ![c] =
          [pc |-> "appending", command |-> m, seq |-> Len(postures[m.version]) + 1,
           previous |-> PreviousPosture(m.version)]]
    /\ UNCHANGED <<documentVars, answer>>

\* The insertion of what was computed, and its unique keys.
RecordPosture(c) ==
    LET m == call[c].command IN
    /\ Step(c, "appending")
    /\ PostureEventOf(m.key) = {}
    /\ call[c].seq \notin DOMAIN postures[m.version]
    /\ postures' = [postures EXCEPT ![m.version] = Append(@,
          [key |-> m.key, by |-> m.by, posture |-> m.posture, previous |-> call[c].previous])]
    /\ Answers(m, m.version)
    /\ End(c)
    /\ UNCHANGED <<created, revisions, journal, observed>>

-----------------------------------------------------------------------------
(* Issuer references.                                                      *)

\* get_revision, and the replay or the insertion of one observation.
RecordReference(m) ==
    /\ m.op = "record_issuer_reference"
    /\ m.version \in Linked
    /\ \A o \in observed : o.key = m.key => o.version = m.version /\ o.value = m.value
    /\ observed' = observed \cup {[key |-> m.key, version |-> m.version, value |-> m.value]}
    /\ Answers(m, m.value)
    /\ UNCHANGED <<created, revisions, journal, postures, call>>

ValuesOf(v) == {o.value : o \in {x \in observed : x.version = v}}

\* What one reading of the candidates resolves to.
Resolution(candidates) ==
    CASE candidates = {} -> [status |-> "unresolved", of |-> None]
      [] Cardinality(candidates) > 1 -> [status |-> "conflicting", of |-> None]
      [] OTHER -> [status |-> "resolved", of |-> CHOOSE v \in candidates : TRUE]

ResolveReference(m) ==
    /\ m.op = "resolve_reference"
    /\ m.version \in Linked
    /\ Answers(m, Resolution(ValuesOf(m.version)))
    /\ UNCHANGED <<documentVars, call>>

-----------------------------------------------------------------------------
(* Currentness.                                                            *)

\* By receipt, and then by version_seq.
LatestReceived(d) ==
    {<<d, r>> : r \in {n \in DOMAIN revisions[d] : \A k \in DOMAIN revisions[d] \ {n} :
        \/ revisions[d][k].received < revisions[d][n].received
        \/ revisions[d][k].received = revisions[d][n].received /\ k < n}}

Effects(purpose) == IF purpose = "current_working" THEN WorkingEffects
                    ELSE {"coordination_update"}

Qualifies(posture, purpose) ==
    /\ posture.status \notin TerminalStatuses
    /\ posture.effect \in Effects(purpose)
    /\ posture.authority \in InternalAuthorities

\* Seeded fault: every event is joined, and not the latest one.
AnyQualifies(d, purpose) ==
    {v \in Linked : v[1] = d /\ \E i \in DOMAIN postures[v] :
        Qualifies(postures[v][i].posture, purpose)}

\* _latest_states, filtered: one statement.
Qualifying(d, purpose) ==
    {v \in Linked : v[1] = d /\ LastPosture(v) # None /\ Qualifies(LastPosture(v), purpose)}

\* Only three purposes can be resolved.
Candidates(d, purpose) ==
    CASE purpose = "latest_received" -> LatestReceived(d)
      [] purpose \in {"current_working", "current_for_coordination"} -> Qualifying(d, purpose)
      [] OTHER -> {}

ResolveCurrentness(m) ==
    /\ m.op = "resolve_currentness"
    /\ m.document \in created
    /\ Answers(m, Resolution(Candidates(m.document, m.purpose)))
    /\ UNCHANGED <<documentVars, call>>

RefuseDocument(c) ==
    /\ Refused(c)
    /\ UNCHANGED documentVars

DocumentInit ==
    /\ created = {}
    /\ revisions = [d \in ProjectDocuments |-> <<>>]
    /\ journal = {}
    /\ postures = [v \in Versions |-> <<>>]
    /\ observed = {}

DocumentNext ==
    \/ \E m \in Commands : ReplayDocumentCommand(m) \/ CreateDocument(m) \/ ReplayPosture(m)
    \/ \E m \in Commands : RecordReference(m) \/ ResolveReference(m) \/ ResolveCurrentness(m)
    \/ \E c \in Calls, m \in Commands : LookUpLink(c, m) \/ LookUpPosture(c, m)
    \/ \E c \in Calls : LinkRevision(c) \/ ReuseRevision(c) \/ LockRevision(c)
                        \/ RecordPosture(c) \/ RefuseDocument(c)

DocumentSpec == DocumentInit /\ RequestsInit /\ [][DocumentNext]_<<documentVars, requestVars>>

-----------------------------------------------------------------------------
(* Properties.                                                             *)

\* Every row has the shape of its table.
DocumentTypeOK ==
    /\ created \subseteq ProjectDocuments
    /\ \A d \in ProjectDocuments : \A r \in DOMAIN revisions[d] :
          d \in created /\ revisions[d][r] \in ProjectRevision
    /\ \A e \in PostureEvents : e.event \in PostureEvent /\ e.version \in Linked
    /\ observed \subseteq [key : Keys, version : Linked, value : References]

\* The postures of a revision are one line, whoever recorded them at the same
\* time: each event starts from the posture that the one before it left, none
\* was recorded twice, and authority was only given by a human.
PostureIsOneLine ==
    \A v \in Linked : \A i \in DOMAIN postures[v] : LET event == postures[v][i] IN
       /\ event.previous = IF i = 1 THEN None ELSE postures[v][i - 1].posture
       /\ \A e \in PostureEventOf(event.key) : e.version = v /\ e.seq = i
       /\ event.by # "human" => event.posture.authority = "not_authoritative"

\* What the records say of the one that is named in the answer to m.
NamedByRecords(m, named) ==
    IF m.op = "resolve_reference"
    THEN \A o \in observed : o.version = m.version => o.value = named
    ELSE IF m.purpose = "latest_received"
    THEN \A v \in Linked : v[1] = m.document =>
            revisions[v[1]][v[2]].received <= revisions[named[1]][named[2]].received
    ELSE /\ m.purpose \in {"current_working", "current_for_coordination"}
         /\ postures[named][Len(postures[named])].by = "human"
         /\ \A v \in Linked : v[1] = m.document =>
               v = named <=> /\ postures[v] # <<>>
                             /\ Qualifies(postures[v][Len(postures[v])].posture, m.purpose)

\* A reader is never told more than the records say: of a revision named current,
\* the posture last recorded is a human's, it is not retired, and every other
\* revision of the Document has been retired, reclassified or not yet judged; an
\* issuer reference is named only if nobody observed another one.
NothingIsGuessed ==
    [][answer' # answer /\ answer'.command.op \in {"resolve_currentness", "resolve_reference"}
          /\ answer'.expected.status = "resolved" =>
       NamedByRecords(answer'.command, answer'.expected.of)]_<<documentVars, answer>>

\* The revisions of a Document are one history, in the order of their linking: no
\* capture twice, no two successors of one revision, and a link that was answered
\* is on record as it was asked for.
HistoryIsOneLine ==
    /\ \A d \in ProjectDocuments : \A r, s \in DOMAIN revisions[d] :
          /\ revisions[d][r].supersedes < r
          /\ r # s => /\ revisions[d][r].capture # revisions[d][s].capture
                      /\ revisions[d][r].supersedes = revisions[d][s].supersedes
                         => revisions[d][r].supersedes = 0
    /\ answer # None /\ answer.command.op = "link_revision" =>
          /\ answer.expected \in Linked /\ answer.expected[1] = answer.command.document
          /\ LET row == revisions[answer.expected[1]][answer.expected[2]] IN
             row.capture = answer.command.capture /\ row.supersedes = answer.command.supersedes

\* Whoever is about to record a posture starts from the end of the line: nobody has
\* recorded another one since they read, however many wait for the revision
\* (record_version_event, under the lock of the revision).
RecordersAreAtTheEnd ==
    \A c \in Calls : Step(c, "appending") =>
       LET v == call[c].command.version IN
       /\ call[c].seq = Len(postures[v]) + 1
       /\ call[c].previous = LastPosture(v)

\* The revisions of a Document, and the postures of a revision, are one line, which
\* nobody who records one has left behind (HistoryIsOneLine, PostureIsOneLine,
\* RecordersAreAtTheEnd).
RecordsAreOneLine ==
    /\ DocumentTypeOK /\ HistoryIsOneLine
    /\ PostureIsOneLine /\ RecordersAreAtTheEnd

=============================================================================
