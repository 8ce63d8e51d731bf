---------------------------- MODULE RevisionUpload ----------------------------
(***************************************************************************)
(* The contextual revision upload (human_revision_upload.upload_revision): *)
(* bytes sent by a human become, one durable stage after the other, a      *)
(* published file, a Source (source_intake.py), an upload contract, a      *)
(* technical capture (store.ingest), a retained copy bound to the capture  *)
(* (storage_retention.py) and a professional revision of a Project         *)
(* Document (project_document_admission.py, project_documents.py).         *)
(*                                                                         *)
(* Files and rows share no transaction.  A request may fail or die between *)
(* two stages; the client sends the same upload again under its key, also  *)
(* while the first request still runs.  Meanwhile staff excludes, unlinks  *)
(* or corrects the Source, admits it through the direct route, and revokes *)
(* or gives back the access of the principal.                              *)
(*                                                                         *)
(* One transaction is one step, except where the code reads before it and  *)
(* acts later.  File names are content-addressed, so a digest stands for   *)
(* its file, its technical capture and its retained object.                *)
(***************************************************************************)
EXTENDS Naturals, FiniteSetsExt

CONSTANTS
    Requests,   \* requests the server handles at the same time
    Uploads,    \* upload identities: principal, document and idempotency key
    Documents,  \* Project Documents of one project
    DocumentOf, \* DocumentOf[u]: the document that upload u is for
    Digests,    \* exact contents of files
    Contents,   \* Contents[u]: what the client may send under the key of u
    Handled,    \* bound: uploads whose Source or access other people touch
    MaxFaults,  \* bound on requests that fail or die
    None

\* What a client declares: its bytes and the revision they supersede.  (The
\* revision label and the file name are compared in the same places, and are
\* left out.)
Content == [digest : Digests, supersedes : Digests \cup {None}]

ASSUME ConstantsAssumption ==
    /\ IsFiniteSet(Digests)
    /\ DocumentOf \in [Uploads -> Documents]
    /\ Contents \in [Uploads -> SUBSET Content]
    /\ Handled \subseteq Uploads
    /\ MaxFaults \in Nat
    /\ None \notin Digests

VARIABLES
    request,    \* request[h]: where the handler of request slot h is
    publishing, \* digests with an upload lock file
    published,  \* digests whose file is under human_uploads/
    source,     \* source[u]: the agency_sources row of the upload, or Absent
    contract,   \* contract[u]: the contract file, "absent", "partial" or "written"
    run,        \* run[u]: extraction_runs row under the ingestion id of u
    captured,   \* digests with a source_documents row and its exact version
    retaining,  \* digests with a retention lock file
    retained,   \* digests whose copy is under the retention root
    bound,      \* captured digests bound to their verified Storage Object
    granted,    \* uploads whose principal holds the three grants
    revisions,  \* doc_document_versions
    admission,  \* admission[u]: the revision the Source is admitted to, or Absent
    answered,   \* uploads answered with 201, with what was sent
    faults      \* how many requests failed or died so far

vars == <<request, publishing, published, source, contract, run, captured, retaining,
          retained, bound, granted, revisions, admission, answered, faults>>

uploadFiles == <<publishing, published>>
intake == <<source, contract>>
capture == <<run, captured>>
retention == <<retaining, retained, bound>>
professional == <<revisions, admission>>
outside == <<granted, answered, faults>>

Absent == [present |-> FALSE]

Idle == [pc |-> "idle"]

PCs == {"received", "publishing", "unlocking", "published", "source_read", "source_recorded",
        "contract_open", "contract_write", "contract_load", "contract_done", "converting",
        "run_exists", "captured", "retain_lock", "copying", "retain_unlock", "retained",
        "bound", "checked", "admitting", "admitted"}

Handling == [pc : PCs, upload : Uploads, content : Content, seen : BOOLEAN]

\* linked: to the project; otherwise unassigned or excluded.
SourceRow == [present : {TRUE}, linked : BOOLEAN, content : Content,
              checksum : Digests \cup {None}]

Revision == [document : Documents, seq : Nat \ {0}, digest : Digests,
             supersedes : Digests \cup {None}]

Admitted == [present : {TRUE}, document : Documents, digest : Digests,
             via : {"upload", "route"}]

At(h, pc) == request[h].pc = pc
Upload(h) == request[h].upload
Digest(h) == request[h].content.digest

Goto(h, pc) == request' = [request EXCEPT ![h].pc = pc]
End(h) == request' = [request EXCEPT ![h] = Idle]

-----------------------------------------------------------------------------
(* The request and its file (_publish_stream).                             *)

\* The access checks and the document scope check, one transaction.
Begin(h, u, c) ==
    /\ request[h] = Idle
    /\ u \in granted
    /\ c \in Contents[u]
    /\ request' = [request EXCEPT ![h] = [pc |-> "received", upload |-> u, content |-> c,
                                          seen |-> FALSE]]
    /\ UNCHANGED <<uploadFiles, intake, capture, retention, professional, outside>>

AcquireUploadLock(h) ==
    /\ At(h, "received")
    /\ Digest(h) \notin publishing
    /\ publishing' = publishing \cup {Digest(h)}
    /\ Goto(h, "publishing")
    /\ UNCHANGED <<published, intake, capture, retention, professional, outside>>

\* Seeded fault: a refused request leaves the lock it found.
UploadLockKept(h) ==
    /\ At(h, "received")
    /\ Digest(h) \in publishing
    /\ End(h)
    /\ UNCHANGED <<uploadFiles, intake, capture, retention, professional, outside>>

\* The finally clause also unlinks a lock that another request holds.
UploadLockBusy(h) ==
    /\ At(h, "received")
    /\ Digest(h) \in publishing
    /\ publishing' = publishing \ {Digest(h)}
    /\ End(h)
    /\ UNCHANGED <<published, intake, capture, retention, professional, outside>>

\* os.replace, or the verification of the file that is already there.
PublishFile(h) ==
    /\ At(h, "publishing")
    /\ published' = published \cup {Digest(h)}
    /\ Goto(h, "unlocking")
    /\ UNCHANGED <<publishing, intake, capture, retention, professional, outside>>

ReleaseUploadLock(h) ==
    /\ At(h, "unlocking")
    /\ publishing' = publishing \ {Digest(h)}
    /\ Goto(h, "published")
    /\ UNCHANGED <<published, intake, capture, retention, professional, outside>>

-----------------------------------------------------------------------------
(* The Source (create_source and link_project in one transaction).         *)

\* _received_at_for_replay: the received_at of the Source, or the time now.
ReadReceivedAt(h) ==
    /\ At(h, "published")
    /\ request' = [request EXCEPT ![h].pc = "source_read", ![h].seen = source[Upload(h)].present]
    /\ UNCHANGED <<uploadFiles, intake, capture, retention, professional, outside>>

\* A Source that was seen is replayed if the payload is the same; one that
\* appeared since has another received_at and conflicts.
SourceAccepted(h) ==
    IF request[h].seen
    THEN source[Upload(h)].content = request[h].content
    ELSE ~source[Upload(h)].present

RecordSource(h) ==
    /\ At(h, "source_read")
    /\ SourceAccepted(h)
    /\ source' = IF request[h].seen THEN source
                 ELSE [source EXCEPT ![Upload(h)] =
                          [present |-> TRUE, linked |-> TRUE, content |-> request[h].content,
                           checksum |-> Digest(h)]]
    /\ Goto(h, "source_recorded")
    /\ UNCHANGED <<uploadFiles, contract, capture, retention, professional, outside>>

-----------------------------------------------------------------------------
(* The contract file (_write_contract).                                    *)

LookAtContract(h) ==
    /\ At(h, "source_recorded")
    /\ contract[Upload(h)] # "partial"
    /\ Goto(h, IF contract[Upload(h)] = "absent" THEN "contract_open" ELSE "contract_load")
    /\ UNCHANGED <<uploadFiles, intake, capture, retention, professional, outside>>

\* write_text truncates the file, then writes it.
OpenContract(h) ==
    /\ At(h, "contract_open")
    /\ contract' = [contract EXCEPT ![Upload(h)] = "partial"]
    /\ Goto(h, "contract_write")
    /\ UNCHANGED <<uploadFiles, source, capture, retention, professional, outside>>

WriteContract(h) ==
    /\ At(h, "contract_write")
    /\ contract' = [contract EXCEPT ![Upload(h)] = "written"]
    /\ Goto(h, "contract_load")
    /\ UNCHANGED <<uploadFiles, source, capture, retention, professional, outside>>

LoadContract(h) ==
    /\ At(h, "contract_load")
    /\ contract[Upload(h)] = "written"
    /\ Goto(h, "contract_done")
    /\ UNCHANGED <<uploadFiles, intake, capture, retention, professional, outside>>

-----------------------------------------------------------------------------
(* The technical capture (store.ingest).                                   *)

\* _cached_conversion: a usable extraction of this exact content, whoever
\* uploaded it.
ConversionCached(d) ==
    \E u \in Uploads : run[u] = "ready" /\ source[u].content.digest = d

LookUpConversion(h) ==
    /\ At(h, "contract_done")
    /\ request' = [request EXCEPT ![h].pc = "converting",
                                  ![h].seen = ConversionCached(Digest(h))]
    /\ UNCHANGED <<uploadFiles, intake, capture, retention, professional, outside>>

Capture(h) ==
    /\ captured' = captured \cup {Digest(h)}
    /\ Goto(h, "captured")
    /\ UNCHANGED <<uploadFiles, intake, retention, professional, outside>>

ReuseConversion(h) ==
    /\ At(h, "converting")
    /\ request[h].seen
    /\ Capture(h)
    /\ UNCHANGED run

\* A conversion, or its failure, is recorded under the ingestion id, which is
\* the same for every request of the upload; a failure is no obstacle to the
\* later stages.
RecordConversion(h, outcome) ==
    /\ At(h, "converting")
    /\ ~request[h].seen
    /\ run[Upload(h)] = "none"
    /\ run' = [run EXCEPT ![Upload(h)] = outcome]
    /\ Capture(h)

\* INSERT INTO extraction_runs has no ON CONFLICT: the row is already there.
RunExists(h) ==
    /\ At(h, "converting")
    /\ ~request[h].seen
    /\ run[Upload(h)] # "none"
    /\ Goto(h, "run_exists")
    /\ UNCHANGED <<uploadFiles, intake, capture, retention, professional, outside>>

-----------------------------------------------------------------------------
(* The retained copy (_retain_exact_copy) and its binding.                 *)

LookAtRetained(h) ==
    /\ At(h, "captured")
    /\ Goto(h, IF Digest(h) \in retained THEN "retained" ELSE "retain_lock")
    /\ UNCHANGED <<uploadFiles, intake, capture, retention, professional, outside>>

AcquireRetentionLock(h) ==
    /\ At(h, "retain_lock")
    /\ Digest(h) \notin retaining
    /\ retaining' = retaining \cup {Digest(h)}
    /\ Goto(h, "copying")
    /\ UNCHANGED <<uploadFiles, intake, capture, retained, bound, professional, outside>>

\* Seeded fault: a copy in progress is taken for a copy.
RetentionLockTakenForCopy(h) ==
    /\ At(h, "retain_lock")
    /\ Digest(h) \in retaining
    /\ Goto(h, "retained")
    /\ UNCHANGED <<uploadFiles, intake, capture, retention, professional, outside>>

\* The lock is taken before the try: the loser leaves it alone.
RetentionLockBusy(h) ==
    /\ At(h, "retain_lock")
    /\ Digest(h) \in retaining
    /\ End(h)
    /\ UNCHANGED <<uploadFiles, intake, capture, retention, professional, outside>>

\* The staged copy is verified and published, or the copy that is there is.
PublishRetained(h) ==
    /\ At(h, "copying")
    /\ retained' = retained \cup {Digest(h)}
    /\ Goto(h, "retain_unlock")
    /\ UNCHANGED <<uploadFiles, intake, capture, retaining, bound, professional, outside>>

ReleaseRetentionLock(h) ==
    /\ At(h, "retain_unlock")
    /\ retaining' = retaining \ {Digest(h)}
    /\ Goto(h, "retained")
    /\ UNCHANGED <<uploadFiles, intake, capture, retained, bound, professional, outside>>

BindRetained(h) ==
    /\ At(h, "retained")
    /\ bound' = bound \cup {Digest(h)}
    /\ Goto(h, "bound")
    /\ UNCHANGED <<uploadFiles, intake, capture, retaining, retained, professional, outside>>

-----------------------------------------------------------------------------
(* The professional revision (link_revision, admit_source_as_revision).    *)

RevisionsOf(p) == {r \in revisions : r.document = p}

NextSeq(p) == Max({r.seq : r \in RevisionsOf(p)} \cup {0}) + 1

\* Seeded fault: a second successor is accepted.
LinkAcceptedTwice(p, c) ==
    IF \E r \in RevisionsOf(p) : r.digest = c.digest
    THEN \E r \in RevisionsOf(p) : r.digest = c.digest /\ r.supersedes = c.supersedes
    ELSE c.supersedes # None => \E r \in RevisionsOf(p) : r.digest = c.supersedes

\* The same bytes are linked once; a revision has at most one successor.
LinkAccepted(p, c) ==
    IF \E r \in RevisionsOf(p) : r.digest = c.digest
    THEN \E r \in RevisionsOf(p) : r.digest = c.digest /\ r.supersedes = c.supersedes
    ELSE c.supersedes # None =>
            /\ \E r \in RevisionsOf(p) : r.digest = c.supersedes
            /\ \A r \in RevisionsOf(p) : r.supersedes # c.supersedes

LinkRevision(p, c) ==
    revisions' = IF \E r \in RevisionsOf(p) : r.digest = c.digest THEN revisions
                 ELSE revisions \cup {[document |-> p, seq |-> NextSeq(p), digest |-> c.digest,
                                       supersedes |-> c.supersedes]}

\* _reconciliation_basis: the checksum of the Source or, if it has none, its
\* reference, which names the file that was received, must be of the capture.
Reconciles(u, d) ==
    d = IF source[u].checksum = None THEN source[u].content.digest ELSE source[u].checksum

\* Seeded fault: the table of admissions has no primary key.
SourceAdmissibleAgain(u, d) ==
    /\ source[u].present /\ source[u].linked
    /\ Reconciles(u, d)
    /\ d \in captured

\* Under its lock the Source is linked to the project and reconciles with a
\* capture; the insertion is let in if the Source has no admission yet.
SourceAdmissible(u, d) ==
    /\ ~admission[u].present
    /\ source[u].present /\ source[u].linked
    /\ Reconciles(u, d)
    /\ d \in captured

AdmitSource(u, p, c, via) ==
    /\ SourceAdmissible(u, c.digest)
    /\ LinkAccepted(p, c)
    /\ LinkRevision(p, c)
    /\ admission' = [admission EXCEPT ![u] = [present |-> TRUE, document |-> p,
                                              digest |-> c.digest, via |-> via]]

CheckAccess(h) ==
    /\ At(h, "bound")
    /\ Upload(h) \in granted
    /\ Goto(h, "checked")
    /\ UNCHANGED <<uploadFiles, intake, capture, retention, professional, outside>>

\* _binding_by_idempotency and _binding_by_source, before the Source is locked.
LookUpAdmission(h) ==
    /\ At(h, "checked")
    /\ ~admission[Upload(h)].present
    /\ Goto(h, "admitting")
    /\ UNCHANGED <<uploadFiles, intake, capture, retention, professional, outside>>

Admit(h) ==
    /\ At(h, "admitting")
    /\ AdmitSource(Upload(h), DocumentOf[Upload(h)], request[h].content, "upload")
    /\ Goto(h, "admitted")
    /\ UNCHANGED <<uploadFiles, intake, capture, retention, outside>>

\* Seeded fault: the replay is recognised by the Source, not by the key.
ReplayOfAnyAdmission(h) == admission[Upload(h)].present

\* The idempotency key of the upload's own admission.
ReplayOfAdmission(h) ==
    /\ admission[Upload(h)].present
    /\ admission[Upload(h)].via = "upload"

AdmitReplay(h) ==
    /\ At(h, "checked")
    /\ ReplayOfAdmission(h)
    /\ Goto(h, "admitted")
    /\ UNCHANGED <<uploadFiles, intake, capture, retention, professional, outside>>

Answer(h) ==
    /\ At(h, "admitted")
    /\ answered' = answered \cup {[upload |-> Upload(h), content |-> request[h].content]}
    /\ End(h)
    /\ UNCHANGED <<uploadFiles, intake, capture, retention, professional, granted, faults>>

-----------------------------------------------------------------------------
(* Refusals, failures and crashes.                                         *)

AdmissionRefused(h) ==
    ~(/\ SourceAdmissible(Upload(h), Digest(h))
      /\ LinkAccepted(DocumentOf[Upload(h)], request[h].content))

\* What the handler finds that makes it answer with an error.
RefusalDue(h) ==
    \/ At(h, "source_read") /\ ~SourceAccepted(h)
    \/ At(h, "source_recorded") /\ contract[Upload(h)] = "partial"
    \/ At(h, "contract_load") /\ contract[Upload(h)] # "written"
    \/ At(h, "run_exists")
    \/ At(h, "bound") /\ Upload(h) \notin granted
    \/ At(h, "checked") /\ admission[Upload(h)].present /\ ~ReplayOfAdmission(h)
    \/ At(h, "admitting") /\ AdmissionRefused(h)

Refuse(h) ==
    /\ RefusalDue(h)
    /\ End(h)
    /\ UNCHANGED <<uploadFiles, intake, capture, retention, professional, outside>>

Fault(h) ==
    /\ request[h] # Idle
    /\ faults < MaxFaults
    /\ faults' = faults + 1
    /\ End(h)
    /\ UNCHANGED <<published, intake, capture, retained, bound, professional, granted, answered>>

\* An exception anywhere, or an answer that is lost: the finally clauses
\* remove the lock files.
Fail(h) ==
    /\ Fault(h)
    /\ publishing' = IF request[h].pc \in {"publishing", "unlocking"}
                     THEN publishing \ {Digest(h)} ELSE publishing
    /\ retaining' = IF request[h].pc \in {"copying", "retain_unlock"}
                    THEN retaining \ {Digest(h)} ELSE retaining

\* The worker process dies: the files stay as they are.
Crash(h) ==
    /\ Fault(h)
    /\ UNCHANGED <<publishing, retaining>>

-----------------------------------------------------------------------------
(* Other people, meanwhile.                                                *)

\* unlink_project and exclude_source.
UnlinkSource(u) ==
    /\ source[u].present
    /\ source' = [source EXCEPT ![u].linked = FALSE]
    /\ UNCHANGED <<request, uploadFiles, contract, capture, retention, professional, outside>>

\* update_metadata may change the checksum of the Source, or take it away.
CorrectChecksum(u, d) ==
    /\ source[u].present
    /\ source' = [source EXCEPT ![u].checksum = d]
    /\ UNCHANGED <<request, uploadFiles, contract, capture, retention, professional, outside>>

\* submit_project_document_revision: any document of the project.  It looks for an
\* admission like the upload does; here no other request comes in between.
AdmitByRoute(u, p, c) ==
    /\ ~admission[u].present
    /\ AdmitSource(u, p, c, "route")
    /\ UNCHANGED <<request, uploadFiles, intake, capture, retention, outside>>

RevokeAccess(u) ==
    /\ u \in granted
    /\ granted' = granted \ {u}
    /\ UNCHANGED <<request, uploadFiles, intake, capture, retention, professional, answered, faults>>

GrantAccess(u) ==
    /\ u \notin granted
    /\ granted' = granted \cup {u}
    /\ UNCHANGED <<request, uploadFiles, intake, capture, retention, professional, answered, faults>>

-----------------------------------------------------------------------------
Init ==
    /\ request = [h \in Requests |-> Idle]
    /\ source = [u \in Uploads |-> Absent]
    /\ contract = [u \in Uploads |-> "absent"]
    /\ run = [u \in Uploads |-> "none"]
    /\ admission = [u \in Uploads |-> Absent]
    /\ publishing = {} /\ published = {}
    /\ captured = {}
    /\ retaining = {} /\ retained = {} /\ bound = {}
    /\ granted = Uploads
    /\ revisions = {}
    /\ answered = {}
    /\ faults = 0

\* The steps of a handler that runs.
Proceed(h) ==
    \/ AcquireUploadLock(h) \/ UploadLockBusy(h) \/ PublishFile(h) \/ ReleaseUploadLock(h)
    \/ ReadReceivedAt(h) \/ RecordSource(h)
    \/ LookAtContract(h) \/ OpenContract(h) \/ WriteContract(h) \/ LoadContract(h)
    \/ LookUpConversion(h) \/ ReuseConversion(h) \/ RunExists(h)
    \/ \E outcome \in {"ready", "failed"} : RecordConversion(h, outcome)
    \/ LookAtRetained(h) \/ AcquireRetentionLock(h) \/ RetentionLockBusy(h)
    \/ PublishRetained(h) \/ ReleaseRetentionLock(h) \/ BindRetained(h)
    \/ CheckAccess(h) \/ LookUpAdmission(h) \/ Admit(h) \/ AdmitReplay(h) \/ Answer(h) \/ Refuse(h)

\* The client sends the upload, again and again if it likes.
Send(u) == \E h \in Requests, c \in Contents[u] : Begin(h, u, c)

AllContents == UNION {Contents[u] : u \in Uploads}

Others(u) ==
    \/ UnlinkSource(u)
    \/ \E d \in Digests \cup {None} : CorrectChecksum(u, d)
    \/ \E p \in Documents, c \in AllContents : AdmitByRoute(u, p, c)
    \/ RevokeAccess(u) \/ GrantAccess(u)

Next ==
    \/ \E h \in Requests : Proceed(h) \/ Fail(h) \/ Crash(h)
    \/ \E u \in Uploads : Send(u)
    \/ \E u \in Handled : Others(u)

Spec == Init /\ [][Next]_vars

-----------------------------------------------------------------------------
(* Fairness.                                                               *)

Answered(u) == \E a \in answered : a.upload = u

Resend(u) == ~Answered(u) /\ Send(u)

\* A handler is a thread that runs to its end unless it fails or its process
\* dies; the client repeats the upload until it is answered, and the server
\* does not refuse it a thread forever.
Fairness ==
    /\ \A h \in Requests : WF_vars(Proceed(h))
    /\ \A u \in Uploads : SF_vars(Resend(u))

FairSpec == Spec /\ Fairness

-----------------------------------------------------------------------------
(* Properties.                                                             *)

\* Files, rows and requests hold values of their columns.
TypeOK ==
    /\ request \in [Requests -> Handling \cup {Idle}]
    /\ publishing \subseteq Digests /\ published \subseteq Digests
    /\ source \in [Uploads -> SourceRow \cup {Absent}]
    /\ contract \in [Uploads -> {"absent", "partial", "written"}]
    /\ run \in [Uploads -> {"none", "ready", "failed"}]
    /\ captured \subseteq Digests
    /\ retaining \subseteq Digests /\ retained \subseteq Digests /\ bound \subseteq Digests
    /\ granted \subseteq Uploads
    /\ \A r \in revisions :
          /\ r.document \in Documents /\ r.seq \in Nat \ {0}
          /\ r.digest \in Digests /\ r.supersedes \in Digests \cup {None}
    /\ admission \in [Uploads -> Admitted \cup {Absent}]
    /\ answered \subseteq [upload : Uploads, content : Content]
    /\ faults \in 0..MaxFaults

\* What the answer says is so (upload_revision returns source_preserved,
\* technical_capture_persisted, bytes_retained and revision_persisted): the
\* bytes that were sent are on disk, captured, retained and bound, and the
\* Source is admitted to a revision of the document with these bytes.
AnsweredIsPreserved ==
    \A a \in answered :
        LET d == a.content.digest
            p == DocumentOf[a.upload]
        IN  /\ d \in published \cap captured \cap retained \cap bound
            /\ source[a.upload].present /\ source[a.upload].content = a.content
            /\ admission[a.upload] = [present |-> TRUE, document |-> p, digest |-> d,
                                       via |-> "upload"]
            /\ \E r \in RevisionsOf(p) : r.digest = d /\ r.supersedes = a.content.supersedes

\* No stage is on record without the stage it builds on, whatever fails or
\* dies in between: "Durable stages remain truthful when a later stage fails".
StagesAreTruthful ==
    /\ captured \subseteq published
    /\ bound \subseteq retained \cap captured
    /\ \A u \in Uploads :
          /\ source[u].present => source[u].content.digest \in published
          /\ contract[u] # "absent" => source[u].present
          /\ run[u] # "none" => contract[u] # "absent" /\ source[u].content.digest \in captured
          /\ admission[u].present =>
                \E r \in RevisionsOf(admission[u].document) : r.digest = admission[u].digest
    /\ \A r \in revisions : r.digest \in captured

\* The revisions of a document are numbered 1..n, one per content, and the
\* supersession links point back and never fork.
OneHistoryPerDocument ==
    \A p \in Documents :
        /\ {r.seq : r \in RevisionsOf(p)} = 1..Cardinality(RevisionsOf(p))
        /\ \A r, s \in RevisionsOf(p) :
              /\ r.digest = s.digest => r = s
              /\ r.supersedes # None /\ r.supersedes = s.supersedes => r = s
        /\ \A r \in RevisionsOf(p) : r.supersedes # None =>
              \E s \in RevisionsOf(p) : s.digest = r.supersedes /\ s.seq < r.seq

\* The revisions of a Document are one history (OneHistoryPerDocument), made of
\* files and rows of the shape of their tables.
UploadsAreSound == TypeOK /\ OneHistoryPerDocument

\* What is on record is so, whatever failed (StagesAreTruthful), and so is what was
\* answered (AnsweredIsPreserved).
UploadsAreTruthful == StagesAreTruthful /\ AnsweredIsPreserved

\* Linked revisions and admissions are never rewritten, and a Source is admitted
\* once, by the upload or by the route, although both look before they lock it.
AdmissionIsFinal ==
    [][ /\ revisions \subseteq revisions'
        /\ \A u \in Uploads : admission[u].present => admission'[u] = admission[u] ]_vars

\* "If analysis fails after preservation, the preserved Source and exact
\* technical capture remain truthful and may be reviewed/retried"
\* (upload_revision): a request is not refused over the run of a failed
\* analysis.
FailedAnalysisMayBeRetried ==
    \A h \in Requests : At(h, "run_exists") => run[Upload(h)] # "failed"

\* What makes every request of upload u fail, and only a human can change:
\* access or the Source was taken away, the Source went another way, the
\* declared supersession is refused, or a file or row that a dead or failed
\* request left behind is in the way.
Blocked(u) ==
    \/ u \notin granted
    \/ source[u].present /\ (\/ ~source[u].linked
                            \/ source[u].content \notin Contents[u]
                            \/ ~Reconciles(u, source[u].content.digest))
    \/ admission[u].present /\ admission[u].via # "upload"
    \/ \E c \in Contents[u] :
          \/ ~admission[u].present /\ ~LinkAccepted(DocumentOf[u], c)
          \/ /\ c.digest \in retaining
             /\ \A h \in Requests : ~(request[h].pc \in {"copying", "retain_unlock"}
                                        /\ Digest(h) = c.digest)
    \/ /\ contract[u] = "partial"
       /\ \A h \in Requests : ~(At(h, "contract_write") /\ Upload(h) = u)
    \/ run[u] = "failed"

\* A client that repeats its upload is answered in the end, unless it is
\* blocked again and again: no orphaned upload lock, concurrent duplicate,
\* lost answer or failed attempt stops it.
RepeatedUploadIsAnswered ==
    \A u \in Uploads : []<>(Answered(u) \/ Blocked(u))

=============================================================================
