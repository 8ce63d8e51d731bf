------------------------- MODULE RevisionUpload_proofs -------------------------
(***************************************************************************)
(* Theorems about the upload of revisions, for every number of requests,   *)
(* uploads, documents and contents, and for every number of faults.        *)
(***************************************************************************)
EXTENDS RevisionUpload, FiniteSetTheorems, TLAPS

-----------------------------------------------------------------------------
(* The request of a step.                                                  *)

LEMMA Busy ==
    ASSUME TypeOK, NEW h \in Requests, request[h].pc # "idle"
    PROVE  /\ request[h] \in Handling /\ request[h].pc \in PCs
           /\ Upload(h) \in Uploads /\ request[h].content \in Content
           /\ Digest(h) \in Digests /\ request[h].seen \in BOOLEAN
  <1>1. request[h] \in Handling
    BY DEF TypeOK, Idle
  <1> QED BY <1>1 DEF Handling, Content, Upload, Digest

\* A request that goes on keeps what it is about; the others are untouched.
LEMMA Going ==
    ASSUME TypeOK, NEW h \in Requests, request[h].pc # "idle", NEW pc \in PCs, Goto(h, pc)
    PROVE  /\ request' \in [Requests -> Handling \cup {Idle}]
           /\ request'[h].pc = pc /\ Upload(h)' = Upload(h) /\ Digest(h)' = Digest(h)
           /\ request'[h].content = request[h].content /\ request'[h].seen = request[h].seen
           /\ \A g \in Requests : g # h => request'[g] = request[g]
  <1>1. request[h] \in Handling
    BY Busy
  <1>2. request'[h] = [request[h] EXCEPT !.pc = pc]
        /\ \A g \in Requests : g # h => request'[g] = request[g]
    BY DEF Goto, TypeOK
  <1>3. [request[h] EXCEPT !.pc = pc] \in Handling
    BY <1>1 DEF Handling
  <1> QED BY <1>1, <1>2, <1>3 DEF Goto, TypeOK, Handling, Upload, Digest

\* The same, when the handler also notes what it saw.
LEMMA Noting ==
    ASSUME TypeOK, NEW h \in Requests, request[h].pc # "idle", NEW pc \in PCs, NEW s \in BOOLEAN,
           request' = [request EXCEPT ![h].pc = pc, ![h].seen = s]
    PROVE  /\ request' \in [Requests -> Handling \cup {Idle}]
           /\ request'[h].pc = pc /\ Upload(h)' = Upload(h) /\ Digest(h)' = Digest(h)
           /\ request'[h].content = request[h].content /\ request'[h].seen = s
           /\ \A g \in Requests : g # h => request'[g] = request[g]
  <1>1. request[h] \in Handling
    BY Busy
  <1>2. request'[h] = [request[h] EXCEPT !.pc = pc, !.seen = s]
        /\ \A g \in Requests : g # h => request'[g] = request[g]
    BY DEF TypeOK
  <1>3. [request[h] EXCEPT !.pc = pc, !.seen = s] \in Handling
    BY <1>1 DEF Handling
  <1> QED BY <1>1, <1>2, <1>3 DEF TypeOK, Handling, Upload, Digest

LEMMA Ending ==
    ASSUME TypeOK, NEW h \in Requests, End(h)
    PROVE  /\ request' \in [Requests -> Handling \cup {Idle}]
           /\ request'[h] = Idle
           /\ \A g \in Requests : g # h => request'[g] = request[g]
  BY DEF End, TypeOK

-----------------------------------------------------------------------------
(* The history of a Document.  The numbers 1..n are what makes the next    *)
(* one, a maximum, defined; so types and numbering are one invariant.      *)

HistoryInv == TypeOK /\ IsFiniteSet(revisions) /\ OneHistoryPerDocument

\* What OneHistoryPerDocument says of the revisions L of one document.
IsHistory(L) ==
    /\ {r.seq : r \in L} = 1..Cardinality(L)
    /\ \A r, s \in L :
          /\ r.digest = s.digest => r = s
          /\ r.supersedes # None /\ r.supersedes = s.supersedes => r = s
    /\ \A r \in L : r.supersedes # None => \E s \in L : s.digest = r.supersedes /\ s.seq < r.seq

LEMMA HistoryOf == OneHistoryPerDocument <=> \A p \in Documents : IsHistory(RevisionsOf(p))
  BY DEF OneHistoryPerDocument, IsHistory

LEMMA HistoryOfNext == OneHistoryPerDocument' <=> \A p \in Documents : IsHistory(RevisionsOf(p)')
  BY DEF OneHistoryPerDocument, IsHistory

\* The numbers of a document with n revisions: the next one is n + 1.
LEMMA NextIsCount ==
    ASSUME HistoryInv, NEW p \in Documents
    PROVE  /\ IsFiniteSet(RevisionsOf(p)) /\ Cardinality(RevisionsOf(p)) \in Nat
           /\ NextSeq(p) = Cardinality(RevisionsOf(p)) + 1
  <1> DEFINE n == Cardinality(RevisionsOf(p))
             seqs == {r.seq : r \in RevisionsOf(p)} \cup {0}
  <1>1. RevisionsOf(p) \in SUBSET revisions
    BY DEF RevisionsOf
  <1>2. IsFiniteSet(RevisionsOf(p)) /\ n \in Nat
    BY <1>1, FS_Subset, FS_CardinalityType DEF HistoryInv
  <1>3. seqs = 0..n
    <2>1. {r.seq : r \in RevisionsOf(p)} = 1..n
      BY DEF HistoryInv, OneHistoryPerDocument
    <2> HIDE DEF n
    <2> QED BY <1>2, <2>1
  <1>4. Max(seqs) = n
    <2> HIDE DEF n, seqs
    <2>1. n \in 0..n /\ \A y \in 0..n : n >= y
      BY <1>2
    <2>2. \A x \in 0..n : (\A y \in 0..n : x >= y) => x = n
      BY <1>2
    <2> QED BY <1>3, <2>1, <2>2 DEF Max
  <1> QED BY <1>2, <1>4 DEF NextSeq

\* The revision that a link appends, and the history it leaves.
LEMMA LinkKeepsHistory ==
    ASSUME HistoryInv, NEW p \in Documents, NEW c \in Content,
           LinkAccepted(p, c), LinkRevision(p, c)
    PROVE  /\ IsFiniteSet(revisions)' /\ OneHistoryPerDocument'
           /\ \A r \in revisions' :
                 /\ r.document \in Documents /\ r.seq \in Nat \ {0}
                 /\ r.digest \in Digests /\ r.supersedes \in Digests \cup {None}
           /\ revisions \subseteq revisions'
           /\ \A r \in revisions' : r \in revisions \/ r.digest = c.digest
           /\ \E r \in RevisionsOf(p)' : r.digest = c.digest /\ r.supersedes = c.supersedes
  <1> DEFINE n == Cardinality(RevisionsOf(p))
             new == [document |-> p, seq |-> n + 1, digest |-> c.digest, supersedes |-> c.supersedes]
             known == \E r \in RevisionsOf(p) : r.digest = c.digest
  <1>1. CASE known
    <2>1. revisions' = revisions
      BY <1>1 DEF LinkRevision
    <2>2. \E r \in RevisionsOf(p) : r.digest = c.digest /\ r.supersedes = c.supersedes
      BY <1>1 DEF LinkAccepted
    <2> QED BY <2>1, <2>2 DEF HistoryInv, OneHistoryPerDocument, RevisionsOf, TypeOK
  <1>2. CASE ~known
    <2>1. n \in Nat /\ IsFiniteSet(RevisionsOf(p)) /\ revisions' = revisions \cup {new}
      BY <1>2, NextIsCount DEF LinkRevision
    <2>2. /\ c.digest \in Digests /\ c.supersedes \in Digests \cup {None}
          /\ c.supersedes # None =>
                /\ \E r \in RevisionsOf(p) : r.digest = c.supersedes
                /\ \A r \in RevisionsOf(p) : r.supersedes # c.supersedes
      BY <1>2 DEF LinkAccepted, Content
    <2>3. /\ new.document = p /\ new.seq = n + 1
          /\ new.digest = c.digest /\ new.supersedes = c.supersedes
      OBVIOUS
    <2> HIDE DEF new, n
    <2>4. RevisionsOf(p)' = RevisionsOf(p) \cup {new}
          /\ \A d \in Documents : d # p => RevisionsOf(d)' = RevisionsOf(d)
      BY <2>1, <2>3 DEF RevisionsOf
    <2>5. new \notin RevisionsOf(p)
      BY <1>2, <2>3
    <2>6. Cardinality(RevisionsOf(p)') = n + 1
      BY <2>1, <2>4, <2>5, FS_AddElement DEF n
    <2>7. {r.seq : r \in RevisionsOf(p)} = 1..n
          /\ \A r \in RevisionsOf(p) : r.seq \in 1..n
      <3>1. {r.seq : r \in RevisionsOf(p)} = 1..n
        BY DEF HistoryInv, OneHistoryPerDocument, n
      <3> QED BY <3>1
    <2>8. {r.seq : r \in RevisionsOf(p)'} = 1..(n + 1)
      <3>1. {r.seq : r \in RevisionsOf(p)'} = {r.seq : r \in RevisionsOf(p)} \cup {n + 1}
        BY <2>3, <2>4
      <3>2. 1..(n + 1) = (1..n) \cup {n + 1}
        BY <2>1
      <3> QED BY <2>7, <3>1, <3>2
    <2>9. \A r, s \in RevisionsOf(p)' :
              /\ r.digest = s.digest => r = s
              /\ r.supersedes # None /\ r.supersedes = s.supersedes => r = s
      <3>1. \A r, s \in RevisionsOf(p) :
              /\ r.digest = s.digest => r = s
              /\ r.supersedes # None /\ r.supersedes = s.supersedes => r = s
        BY DEF HistoryInv, OneHistoryPerDocument
      <3> QED BY <1>2, <2>2, <2>3, <2>4, <3>1
    <2>10. \A r \in RevisionsOf(p)' : r.supersedes # None =>
               \E s \in RevisionsOf(p)' : s.digest = r.supersedes /\ s.seq < r.seq
      <3>1. \A r \in RevisionsOf(p) : r.supersedes # None =>
               \E s \in RevisionsOf(p) : s.digest = r.supersedes /\ s.seq < r.seq
        BY DEF HistoryInv, OneHistoryPerDocument
      <3>2. \A s \in RevisionsOf(p) : s.seq < n + 1
        BY <2>1, <2>7
      <3> QED BY <2>2, <2>3, <2>4, <3>1, <3>2
    <2>11. OneHistoryPerDocument'
      <3>1. IsHistory(RevisionsOf(p)')
        BY <2>6, <2>8, <2>9, <2>10 DEF IsHistory
      <3>2. \A d \in Documents : IsHistory(RevisionsOf(d))
        BY HistoryOf DEF HistoryInv
      <3> QED BY <2>4, <3>1, <3>2, HistoryOfNext
    <2>12. IsFiniteSet(revisions)'
      BY <2>1, FS_AddElement DEF HistoryInv
    <2>13. \A r \in revisions' :
                 /\ r.document \in Documents /\ r.seq \in Nat \ {0}
                 /\ r.digest \in Digests /\ r.supersedes \in Digests \cup {None}
      BY <2>1, <2>2, <2>3 DEF HistoryInv, TypeOK
    <2> QED BY <2>1, <2>3, <2>4, <2>11, <2>12, <2>13
  <1> QED BY <1>1, <1>2

\* What the admission of u adds: perhaps a revision, with the bytes of c, and
\* one row.
AdmissionWritten(u, p, c, via) ==
    /\ revisions \subseteq revisions'
    /\ \A r \in revisions' : r \in revisions \/ r.digest = c.digest
    /\ \E r \in RevisionsOf(p)' : r.digest = c.digest /\ r.supersedes = c.supersedes
    /\ admission'[u] = [present |-> TRUE, document |-> p, digest |-> c.digest, via |-> via]
    /\ \A v \in Uploads : v # u => admission'[v] = admission[v]

\* An admission, by the upload or by the route.
LEMMA AdmissionWrites ==
    ASSUME HistoryInv, NEW u \in Uploads, NEW p \in Documents, NEW c \in Content,
           NEW via \in {"upload", "route"}, AdmitSource(u, p, c, via)
    PROVE  /\ admission' \in [Uploads -> Admitted \cup {Absent}]
           /\ AdmissionWritten(u, p, c, via)
  <1> DEFINE row == [present |-> TRUE, document |-> p, digest |-> c.digest, via |-> via]
  <1>1. /\ revisions \subseteq revisions'
        /\ \A r \in revisions' : r \in revisions \/ r.digest = c.digest
        /\ \E r \in RevisionsOf(p)' : r.digest = c.digest /\ r.supersedes = c.supersedes
    BY LinkKeepsHistory DEF AdmitSource
  <1>2. row \in Admitted
    BY DEF Admitted, Content
  <1>3. admission' = [admission EXCEPT ![u] = row]
    BY DEF AdmitSource
  <1>4. /\ admission' \in [Uploads -> Admitted \cup {Absent}] /\ admission'[u] = row
        /\ \A v \in Uploads : v # u => admission'[v] = admission[v]
    <2> HIDE DEF row
    <2> QED BY <1>2, <1>3 DEF HistoryInv, TypeOK
  <1> QED BY <1>1, <1>4 DEF AdmissionWritten

\* It keeps the history of every document.
LEMMA AdmitKeepsHistory ==
    ASSUME HistoryInv, NEW u \in Uploads, NEW p \in Documents, NEW c \in Content,
           NEW via \in {"upload", "route"}, AdmitSource(u, p, c, via)
    PROVE  /\ IsFiniteSet(revisions)' /\ OneHistoryPerDocument'
           /\ \A r \in revisions' :
                 /\ r.document \in Documents /\ r.seq \in Nat \ {0}
                 /\ r.digest \in Digests /\ r.supersedes \in Digests \cup {None}
           /\ admission' \in [Uploads -> Admitted \cup {Absent}]
  <1>1. LinkAccepted(p, c) /\ LinkRevision(p, c)
    BY DEF AdmitSource
  <1>2. admission' \in [Uploads -> Admitted \cup {Absent}]
    BY AdmissionWrites
  <1> QED BY <1>1, <1>2, LinkKeepsHistory

\* The rows and files a step leaves alone.
LEMMA SameHistory ==
    ASSUME HistoryInv, revisions' = revisions, TypeOK'
    PROVE  HistoryInv'
  BY DEF HistoryInv, OneHistoryPerDocument, RevisionsOf

LEMMA ProceedTypes ==
    ASSUME HistoryInv, NEW h \in Requests, Proceed(h)
    PROVE  HistoryInv'
  <1>0. TypeOK
    BY DEF HistoryInv
  <1> USE <1>0 DEF uploadFiles, intake, capture, retention, professional, outside, At
  <1>1. CASE AcquireUploadLock(h)
    <2>1. "publishing" \in PCs
      BY DEF PCs
    <2>2. TypeOK'
      BY <1>1, <2>1, Busy, Going DEF AcquireUploadLock, TypeOK
    <2> QED BY <1>1, <2>2, SameHistory DEF AcquireUploadLock
  <1>2. CASE UploadLockBusy(h) \/ RetentionLockBusy(h) \/ Refuse(h)
    <2>1. TypeOK'
      BY <1>2, Ending DEF UploadLockBusy, RetentionLockBusy, Refuse, TypeOK
    <2> QED BY <1>2, <2>1, SameHistory DEF UploadLockBusy, RetentionLockBusy, Refuse
  <1>3. CASE PublishFile(h) \/ ReleaseUploadLock(h)
    <2>1. "unlocking" \in PCs /\ "published" \in PCs
      BY DEF PCs
    <2>2. TypeOK'
      BY <1>3, <2>1, Busy, Going DEF PublishFile, ReleaseUploadLock, TypeOK
    <2> QED BY <1>3, <2>2, SameHistory DEF PublishFile, ReleaseUploadLock
  <1>4. CASE ReadReceivedAt(h) \/ LookUpConversion(h)
    <2>1. "source_read" \in PCs /\ "converting" \in PCs
      BY DEF PCs
    <2>2. request[h].pc # "idle" /\ source[Upload(h)].present \in BOOLEAN
      <3>1. request[h].pc # "idle"
        BY <1>4 DEF ReadReceivedAt, LookUpConversion
      <3>2. source[Upload(h)] \in SourceRow \cup {Absent}
        BY <3>1, Busy DEF TypeOK
      <3>3. CASE source[Upload(h)] \in SourceRow
        <4>1. source[Upload(h)].present = TRUE
          BY <3>3 DEF SourceRow
        <4> QED BY <3>1, <4>1
      <3>4. CASE source[Upload(h)] = Absent
        <4>1. source[Upload(h)].present = FALSE
          BY <3>4 DEF Absent
        <4> QED BY <3>1, <4>1
      <3> QED BY <3>2, <3>3, <3>4
    <2>3. ConversionCached(Digest(h)) \in BOOLEAN
      BY DEF ConversionCached
    <2>4. request' \in [Requests -> Handling \cup {Idle}]
      BY <1>4, <2>1, <2>2, <2>3, Noting DEF ReadReceivedAt, LookUpConversion
    <2>5. TypeOK'
      BY <1>4, <2>4 DEF ReadReceivedAt, LookUpConversion, TypeOK
    <2> QED BY <1>4, <2>5, SameHistory DEF ReadReceivedAt, LookUpConversion
  <1>5. CASE RecordSource(h)
    <2>1. "source_recorded" \in PCs
      BY DEF PCs
    <2>2. request' \in [Requests -> Handling \cup {Idle}] /\ Upload(h) \in Uploads
          /\ request[h].content \in Content /\ Digest(h) \in Digests
      BY <1>5, <2>1, Busy, Going DEF RecordSource
    <2>3. source' \in [Uploads -> SourceRow \cup {Absent}]
      <3> DEFINE new == [present |-> TRUE, linked |-> TRUE, content |-> request[h].content,
                         checksum |-> Digest(h)]
      <3>1. new \in SourceRow
        BY <2>2 DEF SourceRow
      <3>2. source' = source \/ source' = [source EXCEPT ![Upload(h)] = new]
        BY <1>5 DEF RecordSource
      <3> HIDE DEF new
      <3> QED BY <2>2, <3>1, <3>2 DEF TypeOK
    <2>4. TypeOK'
      BY <1>5, <2>2, <2>3 DEF RecordSource, TypeOK
    <2> QED BY <1>5, <2>4, SameHistory DEF RecordSource
  <1>6. CASE LookAtContract(h) \/ LoadContract(h) \/ OpenContract(h) \/ WriteContract(h)
    <2>1. {"contract_open", "contract_load", "contract_write", "contract_done"} \subseteq PCs
      BY DEF PCs
    <2>2. request' \in [Requests -> Handling \cup {Idle}] /\ Upload(h) \in Uploads
      BY <1>6, <2>1, Busy, Going DEF LookAtContract, LoadContract, OpenContract, WriteContract
    <2>3. TypeOK'
      BY <1>6, <2>2 DEF LookAtContract, LoadContract, OpenContract, WriteContract, TypeOK
    <2> QED BY <1>6, <2>3, SameHistory DEF LookAtContract, LoadContract, OpenContract, WriteContract
  <1>7. CASE \/ ReuseConversion(h) \/ RunExists(h)
             \/ \E outcome \in {"ready", "failed"} : RecordConversion(h, outcome)
    <2>1. "captured" \in PCs /\ "run_exists" \in PCs
      BY DEF PCs
    <2>2. request' \in [Requests -> Handling \cup {Idle}]
          /\ Upload(h) \in Uploads /\ Digest(h) \in Digests
      BY <1>7, <2>1, Busy, Going DEF ReuseConversion, RunExists, RecordConversion, Capture
    <2>3. TypeOK'
      BY <1>7, <2>2 DEF ReuseConversion, RunExists, RecordConversion, Capture, TypeOK
    <2> QED BY <1>7, <2>3, SameHistory DEF ReuseConversion, RunExists, RecordConversion, Capture
  <1>8. CASE \/ LookAtRetained(h) \/ AcquireRetentionLock(h) \/ PublishRetained(h)
             \/ ReleaseRetentionLock(h) \/ BindRetained(h)
    <2>1. {"retained", "retain_lock", "copying", "retain_unlock", "bound"} \subseteq PCs
      BY DEF PCs
    <2>2. request' \in [Requests -> Handling \cup {Idle}] /\ Digest(h) \in Digests
      BY <1>8, <2>1, Busy, Going DEF LookAtRetained, AcquireRetentionLock, PublishRetained,
         ReleaseRetentionLock, BindRetained
    <2>3. TypeOK'
      BY <1>8, <2>2 DEF LookAtRetained, AcquireRetentionLock, PublishRetained,
         ReleaseRetentionLock, BindRetained, TypeOK
    <2> QED BY <1>8, <2>3, SameHistory DEF LookAtRetained, AcquireRetentionLock, PublishRetained,
               ReleaseRetentionLock, BindRetained
  <1>9. CASE CheckAccess(h) \/ LookUpAdmission(h) \/ AdmitReplay(h)
    <2>1. {"checked", "admitting", "admitted"} \subseteq PCs
      BY DEF PCs
    <2>2. TypeOK'
      BY <1>9, <2>1, Busy, Going DEF CheckAccess, LookUpAdmission, AdmitReplay, TypeOK
    <2> QED BY <1>9, <2>2, SameHistory DEF CheckAccess, LookUpAdmission, AdmitReplay
  <1>10. CASE Admit(h)
    <2>1. "admitted" \in PCs
      BY DEF PCs
    <2>2. request' \in [Requests -> Handling \cup {Idle}] /\ Upload(h) \in Uploads
          /\ request[h].content \in Content /\ DocumentOf[Upload(h)] \in Documents
      BY <1>10, <2>1, Busy, Going, ConstantsAssumption DEF Admit
    <2>3. AdmitSource(Upload(h), DocumentOf[Upload(h)], request[h].content, "upload")
      BY <1>10 DEF Admit
    <2>4. /\ IsFiniteSet(revisions)' /\ OneHistoryPerDocument'
          /\ \A r \in revisions' :
                 /\ r.document \in Documents /\ r.seq \in Nat \ {0}
                 /\ r.digest \in Digests /\ r.supersedes \in Digests \cup {None}
          /\ admission' \in [Uploads -> Admitted \cup {Absent}]
      BY <2>2, <2>3, AdmitKeepsHistory
    <2>5. TypeOK'
      BY <1>10, <2>2, <2>4 DEF Admit, TypeOK
    <2> QED BY <2>4, <2>5 DEF HistoryInv
  <1>11. CASE Answer(h)
    <2>1. request' \in [Requests -> Handling \cup {Idle}] /\ Upload(h) \in Uploads
          /\ request[h].content \in Content
      BY <1>11, Busy, Ending DEF Answer
    <2>2. TypeOK'
      BY <1>11, <2>1 DEF Answer, TypeOK
    <2> QED BY <1>11, <2>2, SameHistory DEF Answer
  <1> QED BY <1>1, <1>2, <1>3, <1>4, <1>5, <1>6, <1>7, <1>8, <1>9, <1>10, <1>11 DEF Proceed

LEMMA OutsideTypes ==
    ASSUME HistoryInv, NEW u \in Uploads, Others(u)
    PROVE  HistoryInv'
  <1>0. TypeOK
    BY DEF HistoryInv
  <1> USE <1>0 DEF uploadFiles, intake, capture, retention, professional, outside
  <1>1. ASSUME NEW d \in Digests \cup {None}, CorrectChecksum(u, d) PROVE HistoryInv'
    <2>1. source[u] \in SourceRow
      BY <1>1 DEF CorrectChecksum, TypeOK, Absent
    <2>2. [source[u] EXCEPT !.checksum = d] \in SourceRow
      BY <2>1 DEF SourceRow
    <2>3. source' \in [Uploads -> SourceRow \cup {Absent}]
      BY <1>1, <2>2 DEF CorrectChecksum, TypeOK
    <2>4. TypeOK'
      BY <1>1, <2>3 DEF CorrectChecksum, TypeOK
    <2> QED BY <1>1, <2>4, SameHistory DEF CorrectChecksum
  <1>2. ASSUME UnlinkSource(u) PROVE HistoryInv'
    <2>1. source[u] \in SourceRow
      BY <1>2 DEF UnlinkSource, TypeOK, Absent
    <2>2. [source[u] EXCEPT !.linked = FALSE] \in SourceRow
      BY <2>1 DEF SourceRow
    <2>3. source' \in [Uploads -> SourceRow \cup {Absent}]
      BY <1>2, <2>2 DEF UnlinkSource, TypeOK
    <2>4. TypeOK'
      BY <1>2, <2>3 DEF UnlinkSource, TypeOK
    <2> QED BY <1>2, <2>4, SameHistory DEF UnlinkSource
  <1>3. ASSUME NEW p \in Documents, NEW c \in AllContents, AdmitByRoute(u, p, c) PROVE HistoryInv'
    <2>1. c \in Content
      BY ConstantsAssumption DEF AllContents
    <2>2. AdmitSource(u, p, c, "route")
      BY <1>3 DEF AdmitByRoute
    <2>3. /\ IsFiniteSet(revisions)' /\ OneHistoryPerDocument'
          /\ \A r \in revisions' :
                 /\ r.document \in Documents /\ r.seq \in Nat \ {0}
                 /\ r.digest \in Digests /\ r.supersedes \in Digests \cup {None}
          /\ admission' \in [Uploads -> Admitted \cup {Absent}]
      BY <2>1, <2>2, AdmitKeepsHistory
    <2>4. TypeOK'
      BY <1>3, <2>3 DEF AdmitByRoute, TypeOK
    <2> QED BY <2>3, <2>4 DEF HistoryInv
  <1>4. ASSUME RevokeAccess(u) \/ GrantAccess(u) PROVE HistoryInv'
    <2>1. TypeOK'
      BY <1>4 DEF RevokeAccess, GrantAccess, TypeOK
    <2> QED BY <1>4, <2>1, SameHistory DEF RevokeAccess, GrantAccess
  <1> QED BY <1>1, <1>2, <1>3, <1>4 DEF Others

\* Rows and files keep their types and every document its numbering.
LEMMA HistoryInvariant == Spec => []HistoryInv
  <1>1. Init => HistoryInv
    <2> SUFFICES ASSUME Init PROVE HistoryInv
      OBVIOUS
    <2>1. TypeOK
      BY ConstantsAssumption DEF Init, TypeOK
    <2>2. \A p \in Documents : RevisionsOf(p) = {}
      BY DEF Init, RevisionsOf
    <2>3. IsHistory({})
      <3>1. Cardinality({}) = 0
        BY FS_EmptySet
      <3>2. {r.seq : r \in {}} = {} /\ 1..0 = {}
        OBVIOUS
      <3> QED BY <3>1, <3>2 DEF IsHistory
    <2>4. OneHistoryPerDocument
      BY <2>2, <2>3, HistoryOf
    <2>5. IsFiniteSet(revisions)
      BY FS_EmptySet DEF Init
    <2> QED BY <2>1, <2>4, <2>5 DEF HistoryInv
  <1>2. HistoryInv /\ [Next]_vars => HistoryInv'
    <2> SUFFICES ASSUME HistoryInv, [Next]_vars PROVE HistoryInv'
      OBVIOUS
    <2>0. TypeOK
      BY DEF HistoryInv
    <2>1. ASSUME NEW h \in Requests, Fail(h) \/ Crash(h) PROVE HistoryInv'
      <3>1. request' \in [Requests -> Handling \cup {Idle}]
        BY <2>0, <2>1, Ending DEF Fail, Crash, Fault
      <3>2. faults' \in 0..MaxFaults
        BY <2>0, <2>1, ConstantsAssumption DEF Fail, Crash, Fault, TypeOK
      <3>3. TypeOK'
        BY <2>0, <2>1, <3>1, <3>2 DEF Fail, Crash, Fault, TypeOK, intake, capture, professional
      <3> QED BY <2>1, <3>3, SameHistory DEF Fail, Crash, Fault, professional
    <2>2. ASSUME NEW u \in Uploads, Send(u) PROVE HistoryInv'
      <3>1. PICK h \in Requests, c \in Contents[u] : Begin(h, u, c)
        BY <2>2 DEF Send
      <3> DEFINE q == [pc |-> "received", upload |-> u, content |-> c, seen |-> FALSE]
      <3>2. q \in Handling
        BY <2>2, ConstantsAssumption DEF Handling, PCs
      <3>3. request' = [request EXCEPT ![h] = q]
        BY <3>1 DEF Begin
      <3> HIDE DEF q
      <3>4. TypeOK'
        BY <2>0, <3>1, <3>2, <3>3 DEF Begin, TypeOK, uploadFiles, intake, capture, retention,
           professional, outside
      <3> QED BY <3>1, <3>4, SameHistory DEF Begin, professional
    <2>3. CASE UNCHANGED vars
      <3>1. TypeOK'
        BY <2>0, <2>3 DEF vars, TypeOK
      <3> QED BY <2>3, <3>1, SameHistory DEF vars
    <2> QED BY <2>1, <2>2, <2>3, ProceedTypes, OutsideTypes, ConstantsAssumption DEF Next
  <1> QED BY <1>1, <1>2, PTL DEF Spec

\* Rows and files are of their kinds, and the revisions of every document are
\* one line without forks, numbered 1..n (UploadsAreSound).
THEOREM OneHistory == Spec => []UploadsAreSound
  <1>1. HistoryInv => UploadsAreSound
    BY DEF HistoryInv, UploadsAreSound
  <1> QED BY <1>1, HistoryInvariant, PTL

-----------------------------------------------------------------------------
(* Durable stages.  Files, rows and admissions are only ever added, so     *)
(* what a handler has passed stays so while others run.                    *)

Grows ==
    /\ published \subseteq published' /\ captured \subseteq captured'
    /\ retained \subseteq retained' /\ bound \subseteq bound'
    /\ revisions \subseteq revisions'
    /\ \A u \in Uploads :
          /\ source[u].present => source'[u].present /\ source'[u].content = source[u].content
          /\ contract[u] # "absent" => contract'[u] # "absent"
          /\ admission[u].present => admission'[u] = admission[u]

LEMMA AdmissionGrows ==
    ASSUME TypeOK, NEW u \in Uploads, NEW p, NEW c, NEW via, AdmitSource(u, p, c, via)
    PROVE  /\ revisions \subseteq revisions'
           /\ \A v \in Uploads : admission[v].present => admission'[v] = admission[v]
  BY DEF AdmitSource, SourceAdmissible, LinkRevision, TypeOK

LEMMA SourceStays ==
    ASSUME TypeOK, NEW h \in Requests, RecordSource(h), NEW u \in Uploads, source[u].present
    PROVE  source'[u] = source[u]
  <1>1. CASE request[h].seen
    BY <1>1 DEF RecordSource
  <1>2. CASE ~request[h].seen
    <2>1. u # Upload(h)
      BY <1>2 DEF RecordSource, SourceAccepted
    <2> QED BY <1>2, <2>1 DEF RecordSource, TypeOK
  <1> QED BY <1>1, <1>2

LEMMA ProceedGrows ==
    ASSUME TypeOK, NEW h \in Requests, Proceed(h)
    PROVE  Grows
  <1> USE DEF Grows, uploadFiles, intake, capture, retention, professional, outside
  <1>1. CASE AcquireUploadLock(h) \/ UploadLockBusy(h) \/ PublishFile(h) \/ ReleaseUploadLock(h)
             \/ ReadReceivedAt(h)
    BY <1>1 DEF AcquireUploadLock, UploadLockBusy, PublishFile, ReleaseUploadLock, ReadReceivedAt
  <1>2. CASE RecordSource(h)
    <2>1. \A u \in Uploads : source[u].present => source'[u] = source[u]
      BY <1>2, SourceStays
    <2> QED BY <1>2, <2>1 DEF RecordSource
  <1>3. CASE LookAtContract(h) \/ LoadContract(h)
    BY <1>3 DEF LookAtContract, LoadContract
  <1>4. CASE OpenContract(h) \/ WriteContract(h)
    <2>1. \A u \in Uploads : contract[u] # "absent" => contract'[u] # "absent"
      BY <1>4 DEF OpenContract, WriteContract, TypeOK
    <2> QED BY <1>4, <2>1 DEF OpenContract, WriteContract
  <1>5. CASE \/ LookUpConversion(h) \/ ReuseConversion(h) \/ RunExists(h)
             \/ \E outcome \in {"ready", "failed"} : RecordConversion(h, outcome)
    BY <1>5 DEF LookUpConversion, ReuseConversion, RunExists, RecordConversion, Capture
  <1>6. CASE \/ LookAtRetained(h) \/ AcquireRetentionLock(h) \/ RetentionLockBusy(h)
             \/ PublishRetained(h) \/ ReleaseRetentionLock(h) \/ BindRetained(h)
    BY <1>6 DEF LookAtRetained, AcquireRetentionLock, RetentionLockBusy, PublishRetained,
       ReleaseRetentionLock, BindRetained
  <1>7. CASE CheckAccess(h) \/ LookUpAdmission(h) \/ AdmitReplay(h) \/ Answer(h) \/ Refuse(h)
    BY <1>7 DEF CheckAccess, LookUpAdmission, AdmitReplay, Answer, Refuse
  <1>8. CASE Admit(h)
    <2>1. Upload(h) \in Uploads
      BY <1>8, Busy DEF Admit, At
    <2>2. AdmitSource(Upload(h), DocumentOf[Upload(h)], request[h].content, "upload")
      BY <1>8 DEF Admit
    <2>3. /\ revisions \subseteq revisions'
          /\ \A v \in Uploads : admission[v].present => admission'[v] = admission[v]
      BY <2>1, <2>2, AdmissionGrows
    <2> QED BY <1>8, <2>3 DEF Admit
  <1> QED BY <1>1, <1>2, <1>3, <1>4, <1>5, <1>6, <1>7, <1>8 DEF Proceed

LEMMA StepGrows ==
    ASSUME TypeOK, [Next]_vars
    PROVE  Grows
  <1> USE DEF Grows, uploadFiles, intake, capture, retention, professional, outside
  <1>1. ASSUME NEW h \in Requests, Fail(h) \/ Crash(h) PROVE Grows
    BY <1>1 DEF Fail, Crash, Fault
  <1>2. ASSUME NEW u \in Uploads, Send(u) PROVE Grows
    BY <1>2 DEF Send, Begin
  <1>3. ASSUME NEW u \in Uploads, NEW d \in Digests \cup {None}, CorrectChecksum(u, d) PROVE Grows
    <2>1. source[u] \in SourceRow
      BY <1>3 DEF CorrectChecksum, TypeOK, Absent
    <2>2. \A v \in Uploads : source[v].present =>
              source'[v].present /\ source'[v].content = source[v].content
      BY <1>3, <2>1 DEF CorrectChecksum, TypeOK, SourceRow
    <2> QED BY <1>3, <2>2 DEF CorrectChecksum
  <1>4. ASSUME NEW u \in Uploads, UnlinkSource(u) PROVE Grows
    <2>1. source[u] \in SourceRow
      BY <1>4 DEF UnlinkSource, TypeOK, Absent
    <2>2. \A v \in Uploads : source[v].present =>
              source'[v].present /\ source'[v].content = source[v].content
      BY <1>4, <2>1 DEF UnlinkSource, TypeOK, SourceRow
    <2> QED BY <1>4, <2>2 DEF UnlinkSource
  <1>5. ASSUME NEW u \in Uploads, NEW p \in Documents, NEW c \in AllContents, AdmitByRoute(u, p, c)
        PROVE  Grows
    <2>1. AdmitSource(u, p, c, "route")
      BY <1>5 DEF AdmitByRoute
    <2>2. /\ revisions \subseteq revisions'
          /\ \A v \in Uploads : admission[v].present => admission'[v] = admission[v]
      BY <2>1, AdmissionGrows
    <2> QED BY <1>5, <2>2 DEF AdmitByRoute
  <1>6. ASSUME NEW u \in Uploads, RevokeAccess(u) \/ GrantAccess(u) PROVE Grows
    BY <1>6 DEF RevokeAccess, GrantAccess
  <1>7. CASE UNCHANGED vars
    BY <1>7 DEF vars
  <1> QED BY <1>1, <1>2, <1>3, <1>4, <1>5, <1>6, <1>7, ProceedGrows, ConstantsAssumption
          DEF Next, Others

\* Revisions and admissions stay as they are, whoever asks (AdmissionIsFinal).
THEOREM AdmissionsStay == Spec => AdmissionIsFinal
  <1>1. HistoryInv /\ [Next]_vars =>
            [ /\ revisions \subseteq revisions'
              /\ \A u \in Uploads : admission[u].present => admission'[u] = admission[u] ]_vars
    BY StepGrows DEF HistoryInv, Grows
  <1> QED BY <1>1, HistoryInvariant, PTL DEF Spec, AdmissionIsFinal

-----------------------------------------------------------------------------
(* What a handler has behind it, at each point, and what an admission by   *)
(* an upload is of.  Neither follows from the promised properties alone:   *)
(* the handler acts on files and rows it passed several steps ago.         *)

AfterFile == PCs \ {"received", "publishing"}
AfterSource == AfterFile \ {"unlocking", "published", "source_read"}
AfterContract == AfterSource \ {"source_recorded", "contract_open"}
AfterCapture == {"captured", "retain_lock", "copying", "retain_unlock", "retained", "bound",
                 "checked", "admitting", "admitted"}
AfterCopy == {"retain_unlock", "retained", "bound", "checked", "admitting", "admitted"}
AfterBinding == {"bound", "checked", "admitting", "admitted"}

\* What the handler of a request relies on at each point: its earlier stages.
RequestFits(h) ==
    /\ request[h].pc = "source_read" /\ request[h].seen => source[Upload(h)].present
    /\ request[h].pc \in AfterFile => Digest(h) \in published
    /\ request[h].pc \in AfterSource =>
          source[Upload(h)].present /\ source[Upload(h)].content = request[h].content
    /\ request[h].pc \in AfterContract => contract[Upload(h)] # "absent"
    /\ request[h].pc \in AfterCapture => Digest(h) \in captured
    /\ request[h].pc \in AfterCopy => Digest(h) \in retained
    /\ request[h].pc \in AfterBinding => Digest(h) \in bound
    /\ request[h].pc = "admitted" =>
          admission[Upload(h)].present /\ admission[Upload(h)].via = "upload"

\* The upload's own admission is of what its Source holds.
AdmissionFits(u) ==
    admission[u].present /\ admission[u].via = "upload" =>
        /\ source[u].present
        /\ admission[u] = [present |-> TRUE, document |-> DocumentOf[u],
                           digest |-> source[u].content.digest, via |-> "upload"]
        /\ \E r \in RevisionsOf(DocumentOf[u]) :
              r.digest = source[u].content.digest /\ r.supersedes = source[u].content.supersedes

StageInv ==
    /\ HistoryInv
    /\ \A h \in Requests : RequestFits(h)
    /\ \A u \in Uploads : AdmissionFits(u)
    /\ StagesAreTruthful
    /\ AnsweredIsPreserved


LEMMA RequestKept ==
    ASSUME TypeOK, Grows, NEW h \in Requests, request'[h] = request[h], RequestFits(h)
    PROVE  RequestFits(h)'
  <1>1. Upload(h)' = Upload(h) /\ Digest(h)' = Digest(h)
    BY DEF Upload, Digest
  <1>2. CASE request[h].pc = "idle"
    BY <1>2 DEF RequestFits, AfterFile, AfterSource, AfterContract, AfterCapture, AfterCopy,
                AfterBinding, PCs
  <1>3. CASE request[h].pc # "idle"
    <2>1. Upload(h) \in Uploads
      BY <1>3, Busy
    <2> QED BY <1>1, <2>1 DEF RequestFits, Grows
  <1> QED BY <1>2, <1>3

\* A step of the handler makes true what the next point relies on.
LEMMA ProceedFits ==
    ASSUME TypeOK, Grows, NEW h \in Requests, RequestFits(h), Proceed(h)
    PROVE  RequestFits(h)'
  <1> DEFINE Goes(pcs) ==
        /\ Upload(h) \in Uploads
        /\ request'[h].pc \in pcs /\ Upload(h)' = Upload(h) /\ Digest(h)' = Digest(h)
        /\ request'[h].content = request[h].content
  <1> USE DEF At, RequestFits, AfterFile, AfterSource, AfterContract, AfterCapture, AfterCopy,
              AfterBinding, PCs
  <1>0. ASSUME request[h].pc # "idle", NEW pc \in PCs, Goto(h, pc) PROVE Goes({pc})
    BY <1>0, Busy, Going
  <1>1. CASE UploadLockBusy(h) \/ RetentionLockBusy(h) \/ Refuse(h) \/ Answer(h)
    <2>1. request'[h].pc = "idle"
      BY <1>1, Ending DEF UploadLockBusy, RetentionLockBusy, Refuse, Answer, Idle
    <2> QED BY <2>1
  <1>2. CASE AcquireUploadLock(h)
    <2>1. Goes({"publishing"})
      BY <1>0, <1>2 DEF AcquireUploadLock
    <2> QED BY <2>1
  <1>3. CASE PublishFile(h)
    <2>1. Goes({"unlocking"})
      BY <1>0, <1>3 DEF PublishFile
    <2>2. Digest(h) \in published'
      BY <1>3 DEF PublishFile
    <2> QED BY <2>1, <2>2
  <1>4. CASE ReleaseUploadLock(h)
    <2>1. Goes({"published"})
      BY <1>0, <1>4 DEF ReleaseUploadLock
    <2> QED BY <1>4, <2>1 DEF ReleaseUploadLock, Grows
  <1>5. CASE ReadReceivedAt(h)
    <2>1. request[h].pc = "published" /\ request[h].pc # "idle" /\ "source_read" \in PCs
          /\ Upload(h) \in Uploads
      BY <1>5, Busy DEF ReadReceivedAt
    <2>2. source[Upload(h)].present \in BOOLEAN
      <3>1. source[Upload(h)] \in SourceRow \cup {Absent}
        BY <2>1 DEF TypeOK
      <3>2. source[Upload(h)] \in SourceRow => source[Upload(h)].present = TRUE
        BY DEF SourceRow
      <3>3. source[Upload(h)] = Absent => source[Upload(h)].present = FALSE
        BY DEF Absent
      <3> QED BY <3>1, <3>2, <3>3
    <2>3. /\ request'[h].pc = "source_read" /\ Upload(h)' = Upload(h) /\ Digest(h)' = Digest(h)
          /\ request'[h].seen = source[Upload(h)].present
      BY <1>5, <2>1, <2>2, Noting DEF ReadReceivedAt
    <2> QED BY <2>1, <2>3 DEF Grows
  <1>6. CASE RecordSource(h)
    <2>1. Goes({"source_recorded"}) /\ request[h].pc = "source_read"
      BY <1>0, <1>6 DEF RecordSource
    <2>2. source'[Upload(h)].present /\ source'[Upload(h)].content = request[h].content
      <3>1. CASE request[h].seen
        BY <1>6, <2>1, <3>1 DEF RecordSource, SourceAccepted
      <3>2. CASE ~request[h].seen
        BY <1>6, <2>1, <3>2 DEF RecordSource, TypeOK
      <3> QED BY <3>1, <3>2
    <2> QED BY <2>1, <2>2 DEF Grows
  <1>7. CASE LookAtContract(h)
    <2>1. Goes({"contract_open"}) \/ (Goes({"contract_load"}) /\ contract[Upload(h)] # "absent")
      BY <1>0, <1>7 DEF LookAtContract
    <2> QED BY <1>7, <2>1 DEF LookAtContract, Grows
  <1>8. CASE OpenContract(h) \/ WriteContract(h)
    <2>1. Goes({"contract_write", "contract_load"})
          /\ request[h].pc \in {"contract_open", "contract_write"}
      BY <1>0, <1>8 DEF OpenContract, WriteContract
    <2>2. contract'[Upload(h)] # "absent"
      BY <1>8, <2>1 DEF OpenContract, WriteContract, TypeOK
    <2> QED BY <2>1, <2>2 DEF Grows
  <1>9. CASE LoadContract(h)
    <2>1. Goes({"contract_done"}) /\ request[h].pc = "contract_load"
      BY <1>0, <1>9 DEF LoadContract
    <2> QED BY <2>1 DEF Grows
  <1>10. CASE LookUpConversion(h)
    <2>1. ConversionCached(Digest(h)) \in BOOLEAN
      BY DEF ConversionCached
    <2>2. /\ request[h].pc = "contract_done" /\ request[h].pc # "idle" /\ "converting" \in PCs
          /\ Upload(h) \in Uploads
      BY <1>10, Busy DEF LookUpConversion
    <2>3. Goes({"converting"})
      BY <1>10, <2>1, <2>2, Noting DEF LookUpConversion
    <2> QED BY <2>2, <2>3 DEF Grows
  <1>11. CASE ReuseConversion(h) \/ \E outcome \in {"ready", "failed"} : RecordConversion(h, outcome)
    <2>1. Goes({"captured"}) /\ request[h].pc = "converting" /\ Digest(h) \in captured'
      BY <1>0, <1>11 DEF ReuseConversion, RecordConversion, Capture
    <2> QED BY <2>1 DEF Grows
  <1>12. CASE RunExists(h)
    <2>1. Goes({"run_exists"}) /\ request[h].pc = "converting"
      BY <1>0, <1>12 DEF RunExists
    <2> QED BY <2>1 DEF Grows
  <1>13. CASE LookAtRetained(h)
    <2>1. /\ (Goes({"retained"}) /\ Digest(h) \in retained) \/ Goes({"retain_lock"})
          /\ request[h].pc = "captured"
      BY <1>0, <1>13 DEF LookAtRetained
    <2> QED BY <2>1 DEF Grows
  <1>14. CASE AcquireRetentionLock(h)
    <2>1. Goes({"copying"}) /\ request[h].pc = "retain_lock"
      BY <1>0, <1>14 DEF AcquireRetentionLock
    <2> QED BY <2>1 DEF Grows
  <1>15. CASE PublishRetained(h)
    <2>1. Goes({"retain_unlock"}) /\ request[h].pc = "copying" /\ Digest(h) \in retained'
      BY <1>0, <1>15 DEF PublishRetained
    <2> QED BY <2>1 DEF Grows
  <1>16. CASE ReleaseRetentionLock(h)
    <2>1. Goes({"retained"}) /\ request[h].pc = "retain_unlock"
      BY <1>0, <1>16 DEF ReleaseRetentionLock
    <2> QED BY <2>1 DEF Grows
  <1>17. CASE BindRetained(h)
    <2>1. Goes({"bound"}) /\ request[h].pc = "retained" /\ Digest(h) \in bound'
      BY <1>0, <1>17 DEF BindRetained
    <2> QED BY <2>1 DEF Grows
  <1>18. CASE CheckAccess(h)
    <2>1. Goes({"checked"}) /\ request[h].pc = "bound"
      BY <1>0, <1>18 DEF CheckAccess
    <2> QED BY <2>1 DEF Grows
  <1>19. CASE Admit(h)
    <2>1. Goes({"admitted"}) /\ request[h].pc = "admitting"
      BY <1>0, <1>19 DEF Admit
    <2>2. admission'[Upload(h)].present /\ admission'[Upload(h)].via = "upload"
      BY <1>19, <2>1 DEF Admit, AdmitSource, TypeOK
    <2> QED BY <2>1, <2>2 DEF Grows
  <1>20. CASE AdmitReplay(h)
    <2>1. Goes({"admitted"}) /\ request[h].pc = "checked"
          /\ admission[Upload(h)].present /\ admission[Upload(h)].via = "upload"
      BY <1>0, <1>20 DEF AdmitReplay, ReplayOfAdmission
    <2> QED BY <2>1 DEF Grows
  <1>21. CASE LookUpAdmission(h)
    <2>1. Goes({"admitting"}) /\ request[h].pc = "checked"
      BY <1>0, <1>21 DEF LookUpAdmission
    <2> QED BY <2>1 DEF Grows
  <1> QED BY <1>1, <1>2, <1>3, <1>4, <1>5, <1>6, <1>7, <1>8, <1>9, <1>10, <1>11, <1>12, <1>13,
             <1>14, <1>15, <1>16, <1>17, <1>18, <1>19, <1>20, <1>21 DEF Proceed

\* Every request, whoever takes the step.
LEMMA RequestsFit ==
    ASSUME StageInv, [Next]_vars
    PROVE  \A h \in Requests : RequestFits(h)'
  <1>0. TypeOK /\ Grows /\ \A h \in Requests : RequestFits(h)
    BY StepGrows DEF StageInv, HistoryInv
  <1> SUFFICES ASSUME NEW h \in Requests PROVE RequestFits(h)'
    OBVIOUS
  <1>1. ASSUME request'[h] = request[h] PROVE RequestFits(h)'
    BY <1>0, <1>1, RequestKept
  <1>2. ASSUME NEW g \in Requests, Proceed(g) PROVE RequestFits(h)'
    <2>1. CASE h = g
      BY <1>0, <1>2, <2>1, ProceedFits
    <2>2. CASE h # g
      <3>1. request'[h] = request[h]
        BY <1>0, <1>2, <2>2 DEF TypeOK, Proceed, Goto, End, Capture,
           AcquireUploadLock, UploadLockBusy, PublishFile, ReleaseUploadLock, ReadReceivedAt,
           RecordSource, LookAtContract, OpenContract, WriteContract, LoadContract,
           LookUpConversion, ReuseConversion, RunExists, RecordConversion, LookAtRetained,
           AcquireRetentionLock, RetentionLockBusy, PublishRetained, ReleaseRetentionLock,
           BindRetained, CheckAccess, LookUpAdmission, Admit, AdmitReplay, Answer, Refuse
      <3> QED BY <1>1, <3>1
    <2> QED BY <2>1, <2>2
  <1>3. ASSUME NEW g \in Requests, Fail(g) \/ Crash(g) PROVE RequestFits(h)'
    <2>1. request'[h] = request[h] \/ request'[h].pc = "idle"
      BY <1>0, <1>3, Ending DEF Fail, Crash, Fault, Idle
    <2> QED BY <1>1, <2>1 DEF RequestFits, AfterFile, AfterSource, AfterContract, AfterCapture,
                              AfterCopy, AfterBinding, PCs
  <1>4. ASSUME NEW u \in Uploads, Send(u) PROVE RequestFits(h)'
    <2>1. request'[h] = request[h] \/ request'[h].pc = "received"
      BY <1>0, <1>4 DEF Send, Begin, TypeOK
    <2> QED BY <1>1, <2>1 DEF RequestFits, AfterFile, AfterSource, AfterContract, AfterCapture,
                              AfterCopy, AfterBinding, PCs
  <1>5. ASSUME NEW u \in Uploads, Others(u) PROVE RequestFits(h)'
    BY <1>1, <1>5 DEF Others, UnlinkSource, CorrectChecksum, AdmitByRoute, RevokeAccess, GrantAccess
  <1>6. CASE UNCHANGED vars
    BY <1>1, <1>6 DEF vars
  <1> QED BY <1>2, <1>3, <1>4, <1>5, <1>6, ConstantsAssumption DEF Next

-----------------------------------------------------------------------------
(* What a step adds to the rows.                                           *)

\* An admission or a revision is written by the handler, of what it passed, or
\* by the direct route.
AdmitsByUpload(h) ==
    /\ request[h].pc = "admitting"
    /\ AdmitSource(Upload(h), DocumentOf[Upload(h)], request[h].content, "upload")
    /\ UNCHANGED <<published, source, contract, run, captured, retained, bound, answered>>

AdmitsByRoute ==
    /\ \E u \in Uploads, p \in Documents, c \in AllContents : AdmitSource(u, p, c, "route")
    /\ UNCHANGED <<published, source, contract, run, captured, retained, bound, answered>>

LEMMA AdmissionSteps ==
    ASSUME [Next]_vars
    PROVE  \/ \E h \in Requests : AdmitsByUpload(h)
           \/ AdmitsByRoute
           \/ UNCHANGED <<revisions, admission>>
  <1> USE DEF uploadFiles, intake, capture, retention, professional, outside
  <1>1. ASSUME NEW h \in Requests, Admit(h) PROVE AdmitsByUpload(h)
    BY <1>1 DEF Admit, AdmitsByUpload, At
  <1>2. ASSUME NEW u \in Uploads, NEW p \in Documents, NEW c \in AllContents, AdmitByRoute(u, p, c)
        PROVE  AdmitsByRoute
    BY <1>2 DEF AdmitByRoute, AdmitsByRoute
  <1>3. ASSUME NEW h \in Requests, Proceed(h), ~Admit(h)
        PROVE  UNCHANGED <<revisions, admission>>
    BY <1>3 DEF Proceed, Capture, AcquireUploadLock, UploadLockBusy, PublishFile,
       ReleaseUploadLock, ReadReceivedAt,
       RecordSource, LookAtContract, OpenContract, WriteContract, LoadContract,
       LookUpConversion, ReuseConversion, RunExists, RecordConversion, LookAtRetained,
       AcquireRetentionLock, RetentionLockBusy, PublishRetained, ReleaseRetentionLock,
       BindRetained, CheckAccess, LookUpAdmission, AdmitReplay, Answer, Refuse
  <1>4. ASSUME NEW h \in Requests, Fail(h) \/ Crash(h) PROVE UNCHANGED <<revisions, admission>>
    BY <1>4 DEF Fail, Crash, Fault
  <1>5. ASSUME NEW u \in Uploads, Send(u) PROVE UNCHANGED <<revisions, admission>>
    BY <1>5 DEF Send, Begin
  <1>6. ASSUME NEW u \in Uploads, NEW d \in Digests \cup {None},
               \/ UnlinkSource(u) \/ CorrectChecksum(u, d) \/ RevokeAccess(u) \/ GrantAccess(u)
        PROVE  UNCHANGED <<revisions, admission>>
    BY <1>6 DEF UnlinkSource, CorrectChecksum, RevokeAccess, GrantAccess
  <1>7. ASSUME NEW u \in Uploads, UnlinkSource(u) \/ RevokeAccess(u) \/ GrantAccess(u)
        PROVE  UNCHANGED <<revisions, admission>>
    BY <1>7 DEF UnlinkSource, RevokeAccess, GrantAccess
  <1>8. CASE UNCHANGED vars
    BY <1>8 DEF vars
  <1> QED BY <1>1, <1>2, <1>3, <1>4, <1>5, <1>6, <1>7, <1>8, ConstantsAssumption DEF Next, Others

\* The admission of an upload stays of what its Source holds.
LEMMA AdmissionsFit ==
    ASSUME StageInv, [Next]_vars, HistoryInv'
    PROVE  \A u \in Uploads : AdmissionFits(u)'
  <1>0. TypeOK /\ HistoryInv /\ Grows /\ (\A h \in Requests : RequestFits(h))
        /\ \A u \in Uploads : AdmissionFits(u)
    BY StepGrows DEF StageInv, HistoryInv
  <1>1. ASSUME NEW u \in Uploads, admission'[u] = admission[u] PROVE AdmissionFits(u)'
    <2> SUFFICES ASSUME admission[u].present, admission[u].via = "upload"
                 PROVE  AdmissionFits(u)'
      BY <1>1 DEF AdmissionFits
    <2>1. /\ source[u].present
          /\ admission[u] = [present |-> TRUE, document |-> DocumentOf[u],
                             digest |-> source[u].content.digest, via |-> "upload"]
          /\ \E r \in RevisionsOf(DocumentOf[u]) : r.digest = source[u].content.digest
                                                   /\ r.supersedes = source[u].content.supersedes
      BY <1>0 DEF AdmissionFits
    <2>2. source'[u].present /\ source'[u].content = source[u].content
      BY <1>0, <2>1 DEF Grows
    <2>3. RevisionsOf(DocumentOf[u]) \subseteq RevisionsOf(DocumentOf[u])'
      BY <1>0 DEF Grows, RevisionsOf
    <2> QED BY <1>1, <2>1, <2>2, <2>3 DEF AdmissionFits
  <1>2. ASSUME NEW h \in Requests, AdmitsByUpload(h), NEW u \in Uploads PROVE AdmissionFits(u)'
    <2>1. PICK v, p, c : v = Upload(h) /\ p = DocumentOf[v] /\ c = request[h].content
      OBVIOUS
    <2>2. /\ v \in Uploads /\ c \in Content /\ p \in Documents
          /\ source[v].present /\ source[v].content = c
      BY <1>0, <1>2, <2>1, Busy, ConstantsAssumption
         DEF AdmitsByUpload, RequestFits, AfterSource, AfterFile, PCs
    <2>3. AdmitSource(v, p, c, "upload") /\ source' = source
      BY <1>2, <2>1 DEF AdmitsByUpload
    <2>4. /\ \E r \in RevisionsOf(p)' : r.digest = c.digest /\ r.supersedes = c.supersedes
          /\ admission'[v] = [present |-> TRUE, document |-> p, digest |-> c.digest,
                              via |-> "upload"]
          /\ \A w \in Uploads : w # v => admission'[w] = admission[w]
      <3>1. AdmissionWritten(v, p, c, "upload")
        BY <1>0, <2>2, <2>3, AdmissionWrites
      <3> QED BY <3>1 DEF AdmissionWritten
    <2>5. CASE u = v
      BY <2>1, <2>2, <2>3, <2>4, <2>5 DEF AdmissionFits
    <2>6. CASE u # v
      BY <1>1, <2>4, <2>6
    <2> QED BY <2>5, <2>6
  <1>3. ASSUME AdmitsByRoute, NEW u \in Uploads PROVE AdmissionFits(u)'
    <2>1. PICK v \in Uploads, p \in Documents, c \in AllContents : AdmitSource(v, p, c, "route")
      BY <1>3 DEF AdmitsByRoute
    <2>2. c \in Content
      BY ConstantsAssumption DEF AllContents
    <2>3. /\ admission'[v] = [present |-> TRUE, document |-> p, digest |-> c.digest, via |-> "route"]
          /\ \A w \in Uploads : w # v => admission'[w] = admission[w]
      <3>1. AdmissionWritten(v, p, c, "route")
        BY <1>0, <2>1, <2>2, AdmissionWrites
      <3> QED BY <3>1 DEF AdmissionWritten
    <2>4. CASE u = v
      BY <2>3, <2>4 DEF AdmissionFits
    <2>5. CASE u # v
      BY <1>1, <2>3, <2>5
    <2> QED BY <2>4, <2>5
  <1> QED BY <1>1, <1>2, <1>3, AdmissionSteps

-----------------------------------------------------------------------------
(* Every file and row but the revisions is written by a handler at one     *)
(* point of its way.                                                       *)

CapturedBy(h) == request[h].pc = "converting" /\ captured' = captured \cup {Digest(h)}

BoundBy(h) == request[h].pc = "retained" /\ bound' = bound \cup {Digest(h)}

SourceBy(h, u) ==
    /\ request[h].pc = "source_read" /\ u = Upload(h)
    /\ source'[u].content = request[h].content

ContractBy(h, u) == request[h].pc \in {"contract_open", "contract_write"} /\ u = Upload(h)

RunBy(h, u) == CapturedBy(h) /\ u = Upload(h)

AnsweredBy(h) ==
    /\ request[h].pc = "admitted"
    /\ answered' = answered \cup {[upload |-> Upload(h), content |-> request[h].content]}

Writes(H) ==
    /\ captured' = captured \/ \E h \in H : CapturedBy(h)
    /\ bound' = bound \/ \E h \in H : BoundBy(h)
    /\ answered' = answered \/ \E h \in H : AnsweredBy(h)
    /\ \A u \in Uploads :
          /\ source'[u].present => source[u].present \/ \E h \in H : SourceBy(h, u)
          /\ contract'[u] # "absent" => contract[u] # "absent" \/ \E h \in H : ContractBy(h, u)
          /\ run'[u] # "none" => run[u] # "none" \/ \E h \in H : RunBy(h, u)

LEMMA ProceedWrites ==
    ASSUME TypeOK, NEW h \in Requests, Proceed(h)
    PROVE  Writes(Requests)
  <1> USE DEF uploadFiles, intake, capture, retention, professional, outside, At
  <1>1. captured' = captured \/ CapturedBy(h)
    <2>1. ASSUME \/ ReuseConversion(h)
                 \/ \E outcome \in {"ready", "failed"} : RecordConversion(h, outcome)
          PROVE  CapturedBy(h)
      BY <2>1 DEF ReuseConversion, RecordConversion, Capture, CapturedBy
    <2>2. ASSUME ~ReuseConversion(h),
                 ~\E outcome \in {"ready", "failed"} : RecordConversion(h, outcome)
          PROVE  captured' = captured
      BY <2>2 DEF Proceed, AcquireUploadLock, UploadLockBusy, PublishFile, ReleaseUploadLock, ReadReceivedAt,
       RecordSource, LookAtContract, OpenContract, WriteContract, LoadContract,
       LookUpConversion, ReuseConversion, RunExists, RecordConversion, LookAtRetained,
       AcquireRetentionLock, RetentionLockBusy, PublishRetained, ReleaseRetentionLock,
       BindRetained, CheckAccess, LookUpAdmission, Admit, AdmitReplay, Answer, Refuse
    <2> QED BY <2>1, <2>2
  <1>2. bound' = bound \/ BoundBy(h)
    BY DEF Proceed, BoundBy, Capture, AcquireUploadLock, UploadLockBusy, PublishFile, ReleaseUploadLock, ReadReceivedAt,
       RecordSource, LookAtContract, OpenContract, WriteContract, LoadContract,
       LookUpConversion, ReuseConversion, RunExists, RecordConversion, LookAtRetained,
       AcquireRetentionLock, RetentionLockBusy, PublishRetained, ReleaseRetentionLock,
       BindRetained, CheckAccess, LookUpAdmission, Admit, AdmitReplay, Answer, Refuse
  <1>3. answered' = answered \/ AnsweredBy(h)
    BY DEF Proceed, AnsweredBy, Capture, AcquireUploadLock, UploadLockBusy, PublishFile, ReleaseUploadLock, ReadReceivedAt,
       RecordSource, LookAtContract, OpenContract, WriteContract, LoadContract,
       LookUpConversion, ReuseConversion, RunExists, RecordConversion, LookAtRetained,
       AcquireRetentionLock, RetentionLockBusy, PublishRetained, ReleaseRetentionLock,
       BindRetained, CheckAccess, LookUpAdmission, Admit, AdmitReplay, Answer, Refuse
  <1>4. ASSUME NEW u \in Uploads, source'[u].present
        PROVE  source[u].present \/ SourceBy(h, u)
    <2>1. CASE RecordSource(h)
      <3>1. CASE request[h].seen
        BY <1>4, <2>1, <3>1 DEF RecordSource
      <3>2. CASE ~request[h].seen /\ u = Upload(h)
        BY <1>4, <2>1, <3>2 DEF RecordSource, SourceBy, TypeOK
      <3>3. CASE ~request[h].seen /\ u # Upload(h)
        BY <1>4, <2>1, <3>3 DEF RecordSource, TypeOK
      <3> QED BY <3>1, <3>2, <3>3
    <2>2. CASE ~RecordSource(h)
      <3>1. source' = source
        BY <2>2 DEF Proceed, Capture, AcquireUploadLock, UploadLockBusy, PublishFile, ReleaseUploadLock, ReadReceivedAt,
       RecordSource, LookAtContract, OpenContract, WriteContract, LoadContract,
       LookUpConversion, ReuseConversion, RunExists, RecordConversion, LookAtRetained,
       AcquireRetentionLock, RetentionLockBusy, PublishRetained, ReleaseRetentionLock,
       BindRetained, CheckAccess, LookUpAdmission, Admit, AdmitReplay, Answer, Refuse
      <3> QED BY <1>4, <3>1
    <2> QED BY <2>1, <2>2
  <1>5. ASSUME NEW u \in Uploads, contract'[u] # "absent"
        PROVE  contract[u] # "absent" \/ ContractBy(h, u)
    <2>1. CASE OpenContract(h) \/ WriteContract(h)
      BY <1>5, <2>1 DEF OpenContract, WriteContract, ContractBy, TypeOK
    <2>2. CASE ~(OpenContract(h) \/ WriteContract(h))
      <3>1. contract' = contract
        BY <2>2 DEF Proceed, Capture, AcquireUploadLock, UploadLockBusy, PublishFile, ReleaseUploadLock, ReadReceivedAt,
       RecordSource, LookAtContract, OpenContract, WriteContract, LoadContract,
       LookUpConversion, ReuseConversion, RunExists, RecordConversion, LookAtRetained,
       AcquireRetentionLock, RetentionLockBusy, PublishRetained, ReleaseRetentionLock,
       BindRetained, CheckAccess, LookUpAdmission, Admit, AdmitReplay, Answer, Refuse
      <3> QED BY <1>5, <3>1
    <2> QED BY <2>1, <2>2
  <1>6. ASSUME NEW u \in Uploads, run'[u] # "none"
        PROVE  run[u] # "none" \/ RunBy(h, u)
    <2>1. CASE \E outcome \in {"ready", "failed"} : RecordConversion(h, outcome)
      BY <1>6, <2>1 DEF RecordConversion, Capture, RunBy, CapturedBy, TypeOK
    <2>2. CASE ~\E outcome \in {"ready", "failed"} : RecordConversion(h, outcome)
      <3>1. run' = run
        BY <2>2 DEF Proceed, Capture, AcquireUploadLock, UploadLockBusy, PublishFile, ReleaseUploadLock, ReadReceivedAt,
       RecordSource, LookAtContract, OpenContract, WriteContract, LoadContract,
       LookUpConversion, ReuseConversion, RunExists, RecordConversion, LookAtRetained,
       AcquireRetentionLock, RetentionLockBusy, PublishRetained, ReleaseRetentionLock,
       BindRetained, CheckAccess, LookUpAdmission, Admit, AdmitReplay, Answer, Refuse
      <3> QED BY <1>6, <3>1
    <2> QED BY <2>1, <2>2
  <1> QED BY <1>1, <1>2, <1>3, <1>4, <1>5, <1>6 DEF Writes

LEMMA StepWrites ==
    ASSUME TypeOK, [Next]_vars
    PROVE  Writes(Requests)
  <1> USE DEF uploadFiles, intake, capture, retention, professional, outside
  <1> DEFINE Quiet == /\ UNCHANGED <<captured, bound, answered, contract, run>>
                      /\ \A u \in Uploads : source'[u].present => source[u].present
  <1>1. ASSUME NEW h \in Requests, Fail(h) \/ Crash(h) PROVE Quiet
    BY <1>1 DEF Fail, Crash, Fault
  <1>2. ASSUME NEW u \in Uploads, Send(u) PROVE Quiet
    BY <1>2 DEF Send, Begin
  <1>3. ASSUME NEW u \in Uploads, NEW d \in Digests \cup {None}, CorrectChecksum(u, d) PROVE Quiet
    BY <1>3 DEF CorrectChecksum, TypeOK
  <1>4. ASSUME NEW u \in Uploads, UnlinkSource(u) PROVE Quiet
    BY <1>4 DEF UnlinkSource, TypeOK
  <1>5. ASSUME NEW u \in Uploads, NEW p \in Documents, NEW c \in AllContents, AdmitByRoute(u, p, c)
        PROVE  Quiet
    BY <1>5 DEF AdmitByRoute
  <1>6. ASSUME NEW u \in Uploads, RevokeAccess(u) \/ GrantAccess(u) PROVE Quiet
    BY <1>6 DEF RevokeAccess, GrantAccess
  <1>7. ASSUME UNCHANGED vars PROVE Quiet
    BY <1>7 DEF vars
  <1>8. Quiet => Writes(Requests)
    BY DEF Writes
  <1> HIDE DEF Quiet
  <1> QED BY <1>1, <1>2, <1>3, <1>4, <1>5, <1>6, <1>7, <1>8, ProceedWrites, ConstantsAssumption
          DEF Next, Others

LEMMA StagesStayTrue ==
    ASSUME StageInv, [Next]_vars, HistoryInv'
    PROVE  StagesAreTruthful'
  <1>0. /\ TypeOK /\ Grows /\ Writes(Requests)
        /\ \A h \in Requests : RequestFits(h)
    BY StepGrows, StepWrites DEF StageInv, HistoryInv
  <1>1. ASSUME NEW h \in Requests, request[h].pc # "idle" PROVE Upload(h) \in Uploads
    BY <1>0, <1>1, Busy
  <1>2. captured' \subseteq published'
    <2>1. ASSUME NEW h \in Requests, CapturedBy(h) PROVE Digest(h) \in published
      BY <1>0, <2>1 DEF CapturedBy, RequestFits, AfterFile, PCs
    <2> QED BY <1>0, <2>1 DEF Writes, CapturedBy, Grows, StageInv, StagesAreTruthful
  <1>3. bound' \subseteq retained' \cap captured'
    <2>1. ASSUME NEW h \in Requests, BoundBy(h) PROVE Digest(h) \in retained \cap captured
      BY <1>0, <2>1 DEF BoundBy, RequestFits, AfterCopy, AfterCapture
    <2> QED BY <1>0, <2>1 DEF Writes, BoundBy, Grows, StageInv, StagesAreTruthful
  <1>4. ASSUME NEW u \in Uploads, source'[u].present
        PROVE  source'[u].content.digest \in published'
    <2>1. CASE source[u].present
      BY <1>0, <2>1 DEF Grows, StageInv, StagesAreTruthful
    <2>2. CASE \E h \in Requests : SourceBy(h, u)
      <3>1. PICK h \in Requests : SourceBy(h, u)
        BY <2>2
      <3>2. Digest(h) \in published /\ source'[u].content.digest = Digest(h)
        BY <1>0, <3>1 DEF SourceBy, RequestFits, AfterFile, PCs, Digest
      <3> QED BY <1>0, <3>2 DEF Grows
    <2> QED BY <1>0, <1>4, <2>1, <2>2 DEF Writes
  <1>5. ASSUME NEW u \in Uploads, contract'[u] # "absent" PROVE source'[u].present
    <2>1. CASE contract[u] # "absent"
      BY <1>0, <2>1 DEF Grows, StageInv, StagesAreTruthful
    <2>2. ASSUME NEW h \in Requests, ContractBy(h, u) PROVE source[u].present
      BY <1>0, <2>2 DEF ContractBy, RequestFits, AfterSource, AfterFile, PCs
    <2> QED BY <1>0, <1>5, <2>1, <2>2 DEF Writes, Grows
  <1>6. ASSUME NEW u \in Uploads, run'[u] # "none"
        PROVE  contract'[u] # "absent" /\ source'[u].content.digest \in captured'
    <2>1. CASE run[u] # "none"
      <3>1. contract[u] # "absent" /\ source[u].content.digest \in captured /\ source[u].present
        BY <2>1 DEF StageInv, StagesAreTruthful
      <3> QED BY <1>0, <3>1 DEF Grows
    <2>2. ASSUME NEW h \in Requests, RunBy(h, u)
          PROVE  contract'[u] # "absent" /\ source'[u].content.digest \in captured'
      <3>1. /\ contract[u] # "absent" /\ source[u].present
            /\ source[u].content.digest = Digest(h) /\ Digest(h) \in captured'
        BY <1>0, <2>2 DEF RunBy, CapturedBy, RequestFits, AfterContract, AfterSource, AfterFile,
                          PCs, Digest
      <3> QED BY <1>0, <3>1 DEF Grows
    <2> QED BY <1>0, <1>6, <2>1, <2>2 DEF Writes
  <1>7. /\ \A r \in revisions' : r.digest \in captured'
        /\ \A u \in Uploads : admission'[u].present =>
              \E r \in revisions' :
                  r.document = admission'[u].document /\ r.digest = admission'[u].digest
    <2> DEFINE Goal ==
          /\ \A r \in revisions' : r.digest \in captured'
          /\ \A u \in Uploads : admission'[u].present =>
                \E r \in revisions' :
                    r.document = admission'[u].document /\ r.digest = admission'[u].digest
    <2>0. /\ \A r \in revisions : r.digest \in captured
          /\ \A u \in Uploads : admission[u].present =>
                \E r \in revisions :
                    r.document = admission[u].document /\ r.digest = admission[u].digest
      BY DEF StageInv, StagesAreTruthful, RevisionsOf
    <2>1. CASE UNCHANGED <<revisions, admission>>
      BY <1>0, <2>0, <2>1 DEF Grows
    <2>2. ASSUME NEW v \in Uploads, NEW p \in Documents, NEW c \in Content,
                 NEW via \in {"upload", "route"}, AdmitSource(v, p, c, via)
          PROVE  Goal
      <3>1. HistoryInv
        BY DEF StageInv
      <3>2. /\ revisions \subseteq revisions'
            /\ \A r \in revisions' : r \in revisions \/ r.digest = c.digest
            /\ \E r \in RevisionsOf(p)' : r.digest = c.digest /\ r.supersedes = c.supersedes
            /\ admission'[v] = [present |-> TRUE, document |-> p, digest |-> c.digest, via |-> via]
            /\ \A w \in Uploads : w # v => admission'[w] = admission[w]
        BY <2>2, <3>1, AdmissionWrites DEF AdmissionWritten
      <3>3. c.digest \in captured
        BY <2>2 DEF AdmitSource, SourceAdmissible
      <3>4. \A r \in revisions' : r.digest \in captured'
        BY <1>0, <2>0, <3>2, <3>3 DEF Grows
      <3>5. ASSUME NEW u \in Uploads, admission'[u].present
            PROVE  \E r \in revisions' :
                       r.document = admission'[u].document /\ r.digest = admission'[u].digest
        <4>1. CASE u = v
          BY <3>2, <4>1 DEF RevisionsOf
        <4>2. CASE u # v
          <5>1. admission'[u] = admission[u]
            BY <3>2, <4>2
          <5> QED BY <2>0, <3>2, <3>5, <5>1
        <4> QED BY <4>1, <4>2
      <3> QED BY <3>4, <3>5
    <2>3. ASSUME NEW h \in Requests, AdmitsByUpload(h) PROVE Goal
      <3>1. PICK v, p, c : v = Upload(h) /\ p = DocumentOf[v] /\ c = request[h].content
        OBVIOUS
      <3>2. v \in Uploads /\ p \in Documents /\ c \in Content
        BY <1>0, <2>3, <3>1, Busy, ConstantsAssumption DEF AdmitsByUpload
      <3>3. AdmitSource(v, p, c, "upload") /\ "upload" \in {"upload", "route"}
        BY <2>3, <3>1 DEF AdmitsByUpload
      <3> HIDE DEF Goal
      <3> QED BY <2>2, <3>2, <3>3
    <2>4. CASE AdmitsByRoute
      <3>1. PICK v \in Uploads, p \in Documents, c \in AllContents : AdmitSource(v, p, c, "route")
        BY <2>4 DEF AdmitsByRoute
      <3>2. c \in Content /\ "route" \in {"upload", "route"}
        BY ConstantsAssumption DEF AllContents
      <3> HIDE DEF Goal
      <3>3. Goal
        BY <2>2, <3>1, <3>2
      <3> QED BY <3>3 DEF Goal
    <2> QED BY <2>1, <2>3, <2>4, AdmissionSteps
  <1>8. ASSUME NEW u \in Uploads, admission'[u].present
        PROVE  (\E r \in RevisionsOf(admission[u].document) : r.digest = admission[u].digest)'
    BY <1>7, <1>8 DEF RevisionsOf
  <1> QED BY <1>2, <1>3, <1>4, <1>5, <1>6, <1>7, <1>8 DEF StagesAreTruthful

\* What one answer promises: the terms of AnsweredIsPreserved for "a".
IsPreserved(a) ==
    /\ a.content.digest \in published \cap captured \cap retained \cap bound
    /\ source[a.upload].present /\ source[a.upload].content = a.content
    /\ admission[a.upload] = [present |-> TRUE, document |-> DocumentOf[a.upload],
                              digest |-> a.content.digest, via |-> "upload"]
    /\ \E r \in RevisionsOf(DocumentOf[a.upload]) :
          r.digest = a.content.digest /\ r.supersedes = a.content.supersedes

LEMMA PreservedStays ==
    ASSUME Grows, NEW a, a.upload \in Uploads, IsPreserved(a)
    PROVE  IsPreserved(a)'
  <1>1. admission[a.upload].present
    BY DEF IsPreserved
  <1>2. RevisionsOf(DocumentOf[a.upload]) \subseteq RevisionsOf(DocumentOf[a.upload])'
    BY DEF Grows, RevisionsOf
  <1> QED BY <1>1, <1>2 DEF IsPreserved, Grows

LEMMA AnswersStayTrue ==
    ASSUME StageInv, [Next]_vars
    PROVE  AnsweredIsPreserved'
  <1>0. /\ TypeOK /\ Grows /\ Writes(Requests)
        /\ \A h \in Requests : RequestFits(h)
        /\ \A u \in Uploads : AdmissionFits(u)
        /\ \A a \in answered : IsPreserved(a)
    BY StepGrows, StepWrites DEF StageInv, HistoryInv, AnsweredIsPreserved, IsPreserved
  <1>1. ASSUME NEW a \in answered PROVE IsPreserved(a)'
    BY <1>0, <1>1, PreservedStays DEF TypeOK
  <1>2. ASSUME NEW h \in Requests, AnsweredBy(h),
               NEW a, a = [upload |-> Upload(h), content |-> request[h].content]
        PROVE  IsPreserved(a)'
    <2>1. /\ a.upload = Upload(h) /\ a.content = request[h].content /\ a.upload \in Uploads
          /\ Digest(h) = a.content.digest
      BY <1>0, <1>2, Busy DEF AnsweredBy, Digest
    <2>2. /\ a.content.digest \in published \cap captured \cap retained \cap bound
          /\ source[a.upload].present /\ source[a.upload].content = a.content
          /\ admission[a.upload].present /\ admission[a.upload].via = "upload"
      BY <1>0, <1>2, <2>1 DEF AnsweredBy, RequestFits, AfterFile, AfterSource, AfterCapture,
                              AfterCopy, AfterBinding, PCs
    <2>3. IsPreserved(a)
      BY <1>0, <2>1, <2>2 DEF AdmissionFits, IsPreserved
    <2> QED BY <1>0, <2>1, <2>3, PreservedStays
  <1>3. \A a \in answered' : IsPreserved(a)'
    BY <1>0, <1>1, <1>2 DEF Writes, AnsweredBy
  <1> QED BY <1>3 DEF AnsweredIsPreserved, IsPreserved

LEMMA StageInvariant == Spec => []StageInv
  <1>1. Init /\ HistoryInv => StageInv
    <2> SUFFICES ASSUME Init, HistoryInv PROVE StageInv
      OBVIOUS
    <2>1. \A h \in Requests : RequestFits(h)
      BY DEF Init, RequestFits, Idle, AfterFile, AfterSource, AfterContract, AfterCapture,
             AfterCopy, AfterBinding, PCs
    <2>2. \A u \in Uploads : AdmissionFits(u)
      BY DEF Init, AdmissionFits, Absent
    <2>3. StagesAreTruthful /\ AnsweredIsPreserved
      BY DEF Init, StagesAreTruthful, AnsweredIsPreserved, Absent
    <2> QED BY <2>1, <2>2, <2>3 DEF StageInv
  <1>2. StageInv /\ HistoryInv' /\ [Next]_vars => StageInv'
    BY RequestsFit, AdmissionsFit, StagesStayTrue, AnswersStayTrue DEF StageInv
  <1> QED BY <1>1, <1>2, HistoryInvariant, PTL DEF Spec

\* No stage is on record without the one it builds on, and what was answered
\* is preserved, whatever fails or dies (UploadsAreTruthful).
THEOREM StagesStayTruthful == Spec => []UploadsAreTruthful
  <1>1. StageInv => UploadsAreTruthful
    BY DEF StageInv, UploadsAreTruthful
  <1> QED BY <1>1, StageInvariant, PTL

\* The second half of the former, which the run of overlapping uploads asks by
\* itself (AnsweredIsPreserved).
THEOREM AnswersStayPreserved == Spec => []AnsweredIsPreserved
  <1>1. StageInv => AnsweredIsPreserved
    BY DEF StageInv
  <1> QED BY <1>1, StageInvariant, PTL

=============================================================================
