----------------------- MODULE ProjectRecords_proofs ------------------------
(***************************************************************************)
(* Theorems about the records of a Project: its Sources, its Documents and *)
(* the people who may see them, its relations and its categories; for every *)
(* number of them, of requests, of keys and of revisions.                  *)
(***************************************************************************)
EXTENDS SourceIntake, EntityRelations, Classification, DocumentCurrentness, HumanAccess,
        FiniteSetTheorems, SequenceTheorems, TLAPS

-----------------------------------------------------------------------------
(* Sources.                                                                *)

-----------------------------------------------------------------------------
(* Type correctness.  A request is what a client may ask for, and has read *)
(* before its block only if its operation does.                            *)

RequestsAsked ==
    \A h \in Requests : request[h].pc # "idle" =>
        /\ request[h] \in SourceHandling /\ AskedBy(h) \in Asked
        /\ request[h].implicit => AskedBy(h).op \in ReadsFirst

SourceTypeInv == SourceTypeOK /\ RequestsAsked

LEMMA AskedFits ==
    ASSUME NEW e \in Asked
    PROVE  /\ e \in Event /\ e.source \in Sources /\ e.op \in Operations /\ e.key \in IntakeKeys
           /\ e.expected \in 0..SourceRevisions /\ e.target \in Sources \cup {NoSource}
           /\ e.op \in Mutations \cup {"create"} \/ (e.op = "contain" /\ e.target \in Sources)
           /\ e.op = "create" => e.expected = 0
  <1>1. /\ e \in Event /\ e.key \in IntakeKeys
        /\ e.op \in Mutations <=> e.expected > 0
        /\ IF e.op = "contain" THEN e.target \in Sources \ {e.source} ELSE e.target = NoSource
    BY DEF Asked
  <1>2. e.source \in Sources /\ e.op \in Operations /\ e.expected \in 0..SourceRevisions
        /\ e.target \in Sources \cup {NoSource}
    BY <1>1 DEF Event
  <1>3. e.op = "create" => e.expected = 0
    BY <1>1, <1>2, IntakeAssumption DEF Mutations
  <1> QED BY <1>1, <1>2, <1>3 DEF Operations

\* A request that moves on within its handler.
LEMMA MovingRequest ==
    ASSUME SourceTypeInv, NEW h \in Requests, NEW q \in SourceHandling, q.event \in Asked,
           q.implicit => q.event.op \in ReadsFirst,
           request' = [request EXCEPT ![h] = q]
    PROVE  request' \in [Requests -> SourceHandling \cup {Waiting}] /\ RequestsAsked'
  <1>1. /\ request' \in [Requests -> SourceHandling \cup {Waiting}] /\ request'[h] = q
        /\ \A g \in Requests : g # h => request'[g] = request[g]
    BY DEF SourceTypeInv, SourceTypeOK
  <1> QED BY <1>1 DEF SourceTypeInv, RequestsAsked, AskedBy

LEMMA BusyRequest ==
    ASSUME SourceTypeInv, NEW h \in Requests, request[h].pc # "idle"
    PROVE  /\ request[h] \in SourceHandling /\ AskedBy(h) \in Asked
           /\ request[h].implicit => AskedBy(h).op \in ReadsFirst
           /\ request[h].implicit \in BOOLEAN /\ request[h].staged \in BOOLEAN
           /\ request[h].event = AskedBy(h)
  BY DEF SourceTypeInv, RequestsAsked, AskedBy, SourceHandling

LEMMA AtBlockIsBusy ==
    ASSUME NEW h, AtBlock(h)
    PROVE  request[h].pc # "idle"
  BY DEF AtBlock

\* What a mutation writes has the types of its columns.
LEMMA WriteTypes ==
    ASSUME SourceTypeInv, NEW e \in Asked, Applies(e), Write(e)
    PROVE  /\ sourceRow' \in [Sources -> [status : SourceStatuses, revision : 0..SourceRevisions]]
           /\ contains' \subseteq Sources \X Sources
           /\ sourceEvents' \subseteq Event
  <1>1. /\ e \in Event /\ e.source \in Sources /\ e.op \in Operations
        /\ e.op \in Mutations \cup {"create"} \/ (e.op = "contain" /\ e.target \in Sources)
    BY AskedFits
  <1>2. sourceEvents' \subseteq Event
    BY <1>1 DEF Write, SourceTypeInv, SourceTypeOK
  <1>3. CASE e.op = "contain"
    <2>1. e.target \in Sources
      BY <1>1, <1>3 DEF Mutations
    <2>2. <<e.source, e.target>> \in Sources \X Sources
      BY <1>1, <2>1
    <2>3. contains' = contains \cup {<<e.source, e.target>>} /\ sourceRow' = sourceRow
      BY <1>3 DEF Write
    <2> QED BY <1>2, <2>2, <2>3 DEF SourceTypeInv, SourceTypeOK
  <1>4. CASE e.op # "contain"
    <2> DEFINE new == [status |-> StatusAfter(e.op, sourceRow[e.source].status),
                       revision |-> sourceRow[e.source].revision + 1]
    <2>1. sourceRow[e.source].status \in SourceStatuses /\ sourceRow[e.source].revision \in 0..SourceRevisions
      BY <1>1 DEF SourceTypeInv, SourceTypeOK
    <2>2. StatusAfter(e.op, sourceRow[e.source].status) \in SourceStatuses
      BY <2>1 DEF StatusAfter, SourceStatuses
    <2>3. sourceRow[e.source].revision + 1 \in 0..SourceRevisions
      <3>1. CASE e.op = "create"
        BY <1>4, <2>1, <3>1, IntakeAssumption DEF Applies
      <3>2. CASE e.op # "create"
        BY <1>4, <2>1, <3>2, IntakeAssumption DEF Applies, RevisionIsExpected
      <3> QED BY <3>1, <3>2
    <2>4. new \in [status : SourceStatuses, revision : 0..SourceRevisions]
      BY <2>2, <2>3
    <2>5. sourceRow' = [sourceRow EXCEPT ![e.source] = new] /\ contains' = contains
      BY <1>4 DEF Write
    <2> HIDE DEF new
    <2> QED BY <1>1, <1>2, <2>4, <2>5 DEF SourceTypeInv, SourceTypeOK
  <1> QED BY <1>3, <1>4

LEMMA UploadWrites ==
    ASSUME SourceTypeInv, NEW s \in Sources, UploadSource(s)
    PROVE  /\ sourceRow' \in [Sources -> [status : SourceStatuses, revision : 0..SourceRevisions]]
           /\ sourceEvents' \subseteq Event
           /\ UploadEvent(s, "create", "source", 0) \in Event
           /\ UploadEvent(s, "link", "project", 1) \in Event
  <1>1. <<s, "source">> \in UploadKeys /\ <<s, "project">> \in UploadKeys
    BY DEF UploadKeys
  <1>2. 0 \in 0..SourceRevisions /\ 1 \in 0..SourceRevisions /\ 2 \in 0..SourceRevisions
    BY IntakeAssumption
  <1>3. /\ UploadEvent(s, "create", "source", 0) \in Event
        /\ UploadEvent(s, "link", "project", 1) \in Event
    BY <1>1, <1>2 DEF UploadEvent, Event, Operations, Mutations
  <1>4. sourceRow' \in [Sources -> [status : SourceStatuses, revision : 0..SourceRevisions]]
    BY <1>2 DEF UploadSource, SourceStatuses, SourceTypeInv, SourceTypeOK
  <1> QED BY <1>3, <1>4 DEF UploadSource, SourceTypeInv, SourceTypeOK

\* Rows, ledger and requests hold values of their columns.
LEMMA SourceTypeInvariant == IntakeSpec => []SourceTypeInv
  <1>1. IntakeInit => SourceTypeInv
    <2> SUFFICES ASSUME IntakeInit PROVE SourceTypeInv
      OBVIOUS
    <2>1. 0 \in 0..SourceRevisions /\ "unassigned" \in SourceStatuses
      BY IntakeAssumption DEF SourceStatuses
    <2> QED BY <2>1 DEF IntakeInit, SourceTypeInv, SourceTypeOK, RequestsAsked, Waiting
  <1>2. SourceTypeInv /\ [IntakeNext]_intakeVars => SourceTypeInv'
    <2> SUFFICES ASSUME SourceTypeInv, [IntakeNext]_intakeVars PROVE SourceTypeInv'
      OBVIOUS
    <2>1. ASSUME NEW h \in Requests, NEW e \in Asked, Receive(h, e) PROVE SourceTypeInv'
      <3> DEFINE q == [pc |-> "received", event |-> e, implicit |-> FALSE, staged |-> FALSE]
      <3>1. q \in SourceHandling /\ q.event = e /\ ~q.implicit
        BY AskedFits DEF SourceHandling
      <3>2. request' = [request EXCEPT ![h] = q] /\ UNCHANGED <<sourceRow, contains, sourceEvents>>
        BY <2>1 DEF Receive
      <3> HIDE DEF q
      <3>3. request' \in [Requests -> SourceHandling \cup {Waiting}] /\ RequestsAsked'
        BY <3>1, <3>2, MovingRequest
      <3> QED BY <3>2, <3>3 DEF SourceTypeInv, SourceTypeOK
    <2>2. ASSUME NEW h \in Requests, ReadFirst(h) PROVE SourceTypeInv'
      <3> DEFINE q == [request[h] EXCEPT !.pc = "read", !.implicit = TRUE]
      <3>1. request[h] \in SourceHandling /\ AskedBy(h) \in Asked /\ AskedBy(h).op \in ReadsFirst
        BY <2>2, BusyRequest DEF ReadFirst
      <3>2. q \in SourceHandling /\ q.event = AskedBy(h)
        BY <3>1 DEF SourceHandling, AskedBy
      <3>3. request' = [request EXCEPT ![h] = q] /\ UNCHANGED <<sourceRow, contains, sourceEvents>>
        BY <2>2 DEF ReadFirst, SourceTypeInv, SourceTypeOK
      <3> HIDE DEF q
      <3>4. request' \in [Requests -> SourceHandling \cup {Waiting}] /\ RequestsAsked'
        BY <3>1, <3>2, <3>3, MovingRequest
      <3> QED BY <3>3, <3>4 DEF SourceTypeInv, SourceTypeOK
    <2>3. ASSUME NEW h \in Requests, Replay(h) \/ CommitMutation(h) \/ Stage(h) \/ Close(h)
          PROVE  SourceTypeInv'
      <3>1. PICK q : /\ request' = [request EXCEPT ![h] = q]
                     /\ \/ q = [request[h] EXCEPT !.pc = "done"]
                        \/ q = [request[h] EXCEPT !.pc = "done", !.staged = TRUE]
                        \/ q = [request[h] EXCEPT !.pc = "answered", !.implicit = FALSE,
                                                  !.staged = FALSE]
        BY <2>3 DEF Replay, CommitMutation, Stage, Close, SourceTypeInv, SourceTypeOK
      <3>2. request[h].pc # "idle"
        BY <2>3, AtBlockIsBusy DEF Replay, CommitMutation, Stage, MayWrite, Close
      <3>3. /\ request[h] \in SourceHandling /\ AskedBy(h) \in Asked /\ request[h].event = AskedBy(h)
            /\ request[h].implicit => AskedBy(h).op \in ReadsFirst
        BY <3>2, BusyRequest
      <3>4. q \in SourceHandling /\ q.event = AskedBy(h) /\ (q.implicit => request[h].implicit)
        BY <3>1, <3>3 DEF SourceHandling
      <3>5. request' \in [Requests -> SourceHandling \cup {Waiting}] /\ RequestsAsked'
        BY <3>1, <3>3, <3>4, MovingRequest
      <3>6. /\ sourceRow' \in [Sources -> [status : SourceStatuses, revision : 0..SourceRevisions]]
            /\ contains' \subseteq Sources \X Sources /\ sourceEvents' \subseteq Event
        BY <2>3, <3>3, WriteTypes
           DEF Replay, CommitMutation, MayWrite, Stage, Close, SourceTypeInv, SourceTypeOK
      <3> QED BY <3>5, <3>6 DEF SourceTypeInv, SourceTypeOK
    <2>4. ASSUME NEW h \in Requests, RefuseSource(h) PROVE SourceTypeInv'
      <3>1. request' \in [Requests -> SourceHandling \cup {Waiting}] /\ RequestsAsked'
        BY <2>4 DEF RefuseSource, SourceTypeInv, SourceTypeOK, RequestsAsked, AskedBy, Waiting
      <3> QED BY <2>4, <3>1 DEF RefuseSource, SourceTypeInv, SourceTypeOK
    <2>5. ASSUME NEW s \in Sources, UploadSource(s) PROVE SourceTypeInv'
      <3>1. sourceRow' \in [Sources -> [status : SourceStatuses, revision : 0..SourceRevisions]]
            /\ sourceEvents' \subseteq Event
        BY <2>5, UploadWrites
      <3> QED BY <2>5, <3>1 DEF UploadSource, SourceTypeInv, SourceTypeOK, RequestsAsked, AskedBy
    <2>6. CASE UNCHANGED intakeVars
      BY <2>6 DEF intakeVars, SourceTypeInv, SourceTypeOK, RequestsAsked, AskedBy
    <2> QED BY <2>1, <2>2, <2>3, <2>4, <2>5, <2>6 DEF IntakeNext
  <1> QED BY <1>1, <1>2, PTL DEF IntakeSpec

-----------------------------------------------------------------------------
(* The ledger of one Source.  TellsSource(L, r) is LedgerExplainsSource for one  *)
(* row: one event for every revision, and the status of the last event     *)
(* that says anything.                                                     *)

TellsSource(L, r) ==
    /\ {e.expected : e \in L} = 0..(r.revision - 1)
    /\ Cardinality(L) = r.revision
    /\ r.revision > 0 =>
          \E e \in L :
              /\ e.op # "metadata"
              /\ r.status = StatusAfter(e.op, r.status)
              /\ \A f \in L : f.expected > e.expected => f.op = "metadata"

SourceAfter(e, r) == [status |-> StatusAfter(e.op, r.status), revision |-> r.revision + 1]

\* One more event, based on the current revision, tells the next row.
LEMMA OneMoreSourceEvent ==
    ASSUME NEW L, IsFiniteSet(L), NEW r, r.revision \in Nat, TellsSource(L, r), NEW e,
           e.op \in Operations \ {"contain"}, e.expected = r.revision,
           r.revision = 0 => e.op # "metadata"
    PROVE  IsFiniteSet(L \cup {e}) /\ TellsSource(L \cup {e}, SourceAfter(e, r))
  <1> DEFINE M == L \cup {e}
             next == SourceAfter(e, r)
  <1>1. next.revision = r.revision + 1 /\ next.status = StatusAfter(e.op, r.status)
    BY DEF SourceAfter
  <1>2. \A f \in L : f.expected \in 0..(r.revision - 1)
    BY DEF TellsSource
  <1>3. e \notin L
    BY <1>2
  <1>4. IsFiniteSet(M) /\ Cardinality(M) = next.revision
    BY <1>1, <1>3, FS_AddElement DEF TellsSource
  <1>5. {f.expected : f \in M} = 0..(next.revision - 1)
    <2>1. {f.expected : f \in M} = {f.expected : f \in L} \cup {e.expected}
      OBVIOUS
    <2>2. {f.expected : f \in M} = (0..(r.revision - 1)) \cup {r.revision}
      BY <2>1 DEF TellsSource
    <2> QED BY <1>1, <2>2
  <1>6. \E f \in M :
            /\ f.op # "metadata"
            /\ next.status = StatusAfter(f.op, next.status)
            /\ \A g \in M : g.expected > f.expected => g.op = "metadata"
    <2>1. CASE e.op = "metadata"
      <3>1. r.revision > 0 /\ next.status = r.status
        BY <1>1, <2>1 DEF StatusAfter
      <3> QED BY <2>1, <3>1 DEF TellsSource
    <2>2. CASE e.op # "metadata"
      <3>1. next.status = StatusAfter(e.op, next.status)
        BY <1>1, <2>2 DEF StatusAfter, Operations, Mutations
      <3>2. \A g \in M : ~(g.expected > e.expected)
        BY <1>2
      <3> QED BY <2>2, <3>1, <3>2
    <2> QED BY <2>1, <2>2
  <1> HIDE DEF next
  <1> QED BY <1>4, <1>5, <1>6 DEF TellsSource, next

OneSourceEventPerKey == \A e, f \in sourceEvents : e.key = f.key => e = f

SourceIsTold(s) == IsFiniteSet(RowEvents(s)) /\ TellsSource(RowEvents(s), sourceRow[s])

SourceLedgerInv == OneSourceEventPerKey /\ \A s \in Sources : SourceIsTold(s)

\* What a committed mutation does to the ledger and to the rows.
LEMMA WriteTells ==
    ASSUME SourceTypeInv, SourceLedgerInv, NEW e \in Asked, EventsWith(e.key) = {}, Applies(e),
           Write(e)
    PROVE  SourceLedgerInv'
  <1>1. /\ e.source \in Sources /\ e.op \in Operations
        /\ e.op \in Mutations \cup {"create"} \/ e.op = "contain"
        /\ e.op = "create" => e.expected = 0
    BY AskedFits
  <1>2. sourceEvents' = sourceEvents \cup {e}
    BY DEF Write
  <1>3. OneSourceEventPerKey'
    BY <1>2 DEF SourceLedgerInv, OneSourceEventPerKey, EventsWith
  <1>4. ASSUME NEW s \in Sources PROVE SourceIsTold(s)'
    <2>1. SourceIsTold(s)
      BY DEF SourceLedgerInv
    <2>2. CASE e.op = "contain" \/ e.source # s
      <3>1. RowEvents(s)' = RowEvents(s)
        BY <1>2, <2>2 DEF RowEvents
      <3>2. sourceRow'[s] = sourceRow[s]
        BY <2>2 DEF Write, SourceTypeInv, SourceTypeOK
      <3> QED BY <2>1, <3>1, <3>2 DEF SourceIsTold
    <2>3. CASE e.op # "contain" /\ e.source = s
      <3>1. RowEvents(s)' = RowEvents(s) \cup {e}
        BY <1>2, <2>3 DEF RowEvents
      <3>2. sourceRow'[s] = SourceAfter(e, sourceRow[s])
        BY <2>3 DEF Write, SourceAfter, SourceTypeInv, SourceTypeOK
      <3>3. sourceRow[s].revision \in Nat
        BY DEF SourceTypeInv, SourceTypeOK
      <3>4. /\ e.expected = sourceRow[s].revision
            /\ sourceRow[s].revision = 0 => e.op # "metadata"
        BY <1>1, <2>3 DEF Applies, RevisionIsExpected
      <3>5. e.op \in Operations \ {"contain"}
        BY <1>1, <2>3
      <3>6. /\ IsFiniteSet(RowEvents(s) \cup {e})
            /\ TellsSource(RowEvents(s) \cup {e}, SourceAfter(e, sourceRow[s]))
        BY <2>1, <3>3, <3>4, <3>5, OneMoreSourceEvent DEF SourceIsTold
      <3> QED BY <3>1, <3>2, <3>6 DEF SourceIsTold
    <2> QED BY <2>2, <2>3
  <1> QED BY <1>3, <1>4 DEF SourceLedgerInv

\* An upload writes two events at once, under keys nobody has used.
LEMMA UploadTells ==
    ASSUME SourceTypeInv, SourceLedgerInv, NEW s \in Sources, UploadSource(s)
    PROVE  SourceLedgerInv'
  <1> DEFINE c == UploadEvent(s, "create", "source", 0)
             l == UploadEvent(s, "link", "project", 1)
  <1>1. /\ c.source = s /\ c.op = "create" /\ c.key = <<s, "source">> /\ c.expected = 0
        /\ l.source = s /\ l.op = "link" /\ l.key = <<s, "project">> /\ l.expected = 1
    BY DEF UploadEvent
  <1> HIDE DEF c, l
  <1>2. /\ sourceEvents' = sourceEvents \cup {c, l} /\ sourceRow[s].revision = 0
        /\ sourceRow' = [sourceRow EXCEPT ![s] = [status |-> "linked", revision |-> 2]]
        /\ EventsWith(c.key) = {} /\ EventsWith(l.key) = {}
    BY <1>1 DEF UploadSource, UploadKeysOf, c, l
  <1>3. c.key # l.key
    BY <1>1
  <1>4. OneSourceEventPerKey'
    BY <1>2, <1>3 DEF SourceLedgerInv, OneSourceEventPerKey, EventsWith
  <1>5. ASSUME NEW t \in Sources PROVE SourceIsTold(t)'
    <2>1. SourceIsTold(t)
      BY DEF SourceLedgerInv
    <2>2. CASE t # s
      <3>1. RowEvents(t)' = RowEvents(t) /\ sourceRow'[t] = sourceRow[t]
        BY <1>1, <1>2, <2>2 DEF RowEvents, SourceTypeInv, SourceTypeOK
      <3> QED BY <2>1, <3>1 DEF SourceIsTold
    <2>3. CASE t = s
      <3> DEFINE L == RowEvents(s)
                 r == SourceAfter(c, sourceRow[s])
      <3>1. IsFiniteSet(L) /\ TellsSource(L, sourceRow[s]) /\ sourceRow[s].revision \in Nat
        BY <1>2, <2>1, <2>3 DEF SourceIsTold
      <3>2. c.op \in Operations \ {"contain"} /\ l.op \in Operations \ {"contain"}
        BY <1>1 DEF Operations, Mutations
      <3>3. IsFiniteSet(L \cup {c}) /\ TellsSource(L \cup {c}, r)
        BY <1>1, <1>2, <3>1, <3>2, OneMoreSourceEvent
      <3>4. r.revision = 1
        BY <1>2 DEF SourceAfter
      <3>5. /\ IsFiniteSet((L \cup {c}) \cup {l})
            /\ TellsSource((L \cup {c}) \cup {l}, SourceAfter(l, r))
        BY <1>1, <3>2, <3>3, <3>4, OneMoreSourceEvent
      <3>6. sourceRow'[s] = SourceAfter(l, r)
        BY <1>1, <1>2, <3>4 DEF SourceAfter, StatusAfter, SourceTypeInv, SourceTypeOK
      <3>7. RowEvents(s)' = (L \cup {c}) \cup {l}
        BY <1>1, <1>2 DEF RowEvents
      <3> QED BY <2>3, <3>5, <3>6, <3>7 DEF SourceIsTold
    <2> QED BY <2>2, <2>3
  <1> QED BY <1>4, <1>5 DEF SourceLedgerInv

LEMMA SourceLedgerInvariant == IntakeSpec => []SourceLedgerInv
  <1>1. IntakeInit => SourceLedgerInv
    <2> SUFFICES ASSUME IntakeInit PROVE SourceLedgerInv
      OBVIOUS
    <2>1. ASSUME NEW s \in Sources PROVE SourceIsTold(s)
      <3>1. RowEvents(s) = {} /\ sourceRow[s].revision = 0
        BY DEF IntakeInit, RowEvents
      <3>2. TellsSource(RowEvents(s), sourceRow[s])
        BY <3>1, FS_EmptySet DEF TellsSource
      <3> QED BY <3>1, <3>2, FS_EmptySet DEF SourceIsTold
    <2> QED BY <2>1 DEF IntakeInit, SourceLedgerInv, OneSourceEventPerKey
  <1>2. SourceTypeInv /\ SourceLedgerInv /\ [IntakeNext]_intakeVars => SourceLedgerInv'
    <2> SUFFICES ASSUME SourceTypeInv, SourceLedgerInv, [IntakeNext]_intakeVars PROVE SourceLedgerInv'
      OBVIOUS
    <2>1. ASSUME NEW h \in Requests, CommitMutation(h) PROVE SourceLedgerInv'
      <3>1. AskedBy(h) \in Asked
        BY <2>1, AtBlockIsBusy, BusyRequest DEF CommitMutation, MayWrite
      <3> QED BY <2>1, <3>1, WriteTells DEF CommitMutation, MayWrite
    <2>2. ASSUME NEW s \in Sources, UploadSource(s) PROVE SourceLedgerInv'
      BY <2>2, UploadTells
    <2>3. ASSUME UNCHANGED <<sourceRow, sourceEvents>> PROVE SourceLedgerInv'
      BY <2>3 DEF SourceLedgerInv, OneSourceEventPerKey, SourceIsTold, RowEvents
    <2> QED
      BY <2>1, <2>2, <2>3
      DEF IntakeNext, intakeVars, Receive, ReadFirst, Replay, Stage, Close, RefuseSource
  <1> QED BY <1>1, <1>2, SourceTypeInvariant, PTL DEF IntakeSpec

\* SourceIsExplained holds of every reachable state: whatever is staged,
\* rolled back, replayed or uploaded in between, a Source stands at the
\* revision and the status that its ledger tells.
THEOREM SourcesAreExplained == IntakeSpec => []SourceIsExplained
  <1>1. SourceTypeInv /\ SourceLedgerInv => SourceIsExplained
    <2> SUFFICES ASSUME SourceTypeInv, SourceLedgerInv PROVE SourceIsExplained
      OBVIOUS
    <2>1. \A s \in Sources : TellsSource(RowEvents(s), sourceRow[s])
      BY DEF SourceLedgerInv, SourceIsTold
    <2> QED BY <2>1 DEF SourceTypeInv, SourceLedgerInv, OneSourceEventPerKey, SourceIsExplained,
                        LedgerExplainsSource, TellsSource
  <1> QED BY <1>1, SourceTypeInvariant, SourceLedgerInvariant, PTL

-----------------------------------------------------------------------------
(* What a route that opens its own transaction has answered is on record.  *)
(* Such a request never reads before its block, so what it has written is  *)
(* committed before it is answered.                                        *)

OwnOperations == {"create", "metadata", "unlink", "exclude", "contain"}

FinishedIsRecorded ==
    \A h \in Requests :
        request[h].pc \in {"done", "answered"} /\ AskedBy(h).op \in OwnOperations => InLedger(h)

LEMMA RecordStays ==
    ASSUME NEW h, InLedger(h), sourceEvents \subseteq sourceEvents', request'[h].event = request[h].event
    PROVE  InLedger(h)'
  BY DEF InLedger, EventsWith, AskedBy

LEMMA EventsOnlyGrow ==
    ASSUME [IntakeNext]_intakeVars
    PROVE  sourceEvents \subseteq sourceEvents'
  BY DEF IntakeNext, intakeVars, Receive, ReadFirst, Replay, CommitMutation, Write, Stage, Close,
         RefuseSource, UploadSource

LEMMA RecordInvariant == IntakeSpec => []FinishedIsRecorded
  <1>1. IntakeInit => FinishedIsRecorded
    BY DEF IntakeInit, FinishedIsRecorded, Waiting
  <1>2. SourceTypeInv /\ FinishedIsRecorded /\ [IntakeNext]_intakeVars => FinishedIsRecorded'
    <2> SUFFICES ASSUME SourceTypeInv, FinishedIsRecorded, [IntakeNext]_intakeVars,
                        NEW h \in Requests,
                        request'[h].pc \in {"done", "answered"},
                        AskedBy(h)'.op \in OwnOperations
                 PROVE  InLedger(h)'
      BY DEF FinishedIsRecorded
    <2>1. sourceEvents \subseteq sourceEvents'
      BY EventsOnlyGrow
    <2>2. ASSUME request'[h] = request[h] PROVE InLedger(h)'
      BY <2>1, <2>2, RecordStays DEF FinishedIsRecorded, AskedBy
    <2>3. CASE Replay(h)
      <3>1. request'[h].event = request[h].event /\ sourceEvents' = sourceEvents
        BY <2>3, AtBlockIsBusy, BusyRequest DEF Replay, SourceTypeInv, SourceTypeOK, SourceHandling
      <3>2. InLedger(h)
        BY <2>3 DEF Replay, InLedger
      <3> QED BY <2>1, <3>1, <3>2, RecordStays
    <2>4. CASE CommitMutation(h)
      <3>1. request'[h].event = request[h].event /\ AskedBy(h) \in sourceEvents'
        BY <2>4, AtBlockIsBusy, BusyRequest
           DEF CommitMutation, MayWrite, Write, SourceTypeInv, SourceTypeOK, SourceHandling
      <3> QED BY <3>1 DEF InLedger, EventsWith, AskedBy, SameMutation
    <2>5. CASE Stage(h)
      <3>1. AskedBy(h).op \in ReadsFirst /\ AskedBy(h)' = AskedBy(h)
        BY <2>5, AtBlockIsBusy, BusyRequest
           DEF Stage, MayWrite, SourceTypeInv, SourceTypeOK, SourceHandling, AskedBy
      <3> QED BY <3>1 DEF ReadsFirst, OwnOperations
    <2>6. CASE Close(h)
      <3>1. request[h].pc = "done" /\ request'[h].event = request[h].event
        BY <2>6 DEF Close, SourceTypeInv, SourceTypeOK, SourceHandling
      <3> QED BY <2>1, <3>1, RecordStays DEF FinishedIsRecorded, AskedBy
    <2>7. CASE RefuseSource(h) \/ ReadFirst(h) \/ \E e \in Asked : Receive(h, e)
      <3>1. request'[h].pc \notin {"done", "answered"}
        BY <2>7 DEF RefuseSource, ReadFirst, Receive, Waiting, SourceTypeInv, SourceTypeOK, SourceHandling
      <3> QED BY <3>1
    <2>8. CASE \E g \in Requests \ {h} : \/ \E e \in Asked : Receive(g, e)
                                         \/ ReadFirst(g) \/ Replay(g) \/ CommitMutation(g) \/ Stage(g)
                                         \/ Close(g) \/ RefuseSource(g)
      <3>1. request'[h] = request[h]
        BY <2>8 DEF Receive, ReadFirst, Replay, CommitMutation, Stage, Close, RefuseSource,
                    SourceTypeInv, SourceTypeOK
      <3> QED BY <2>2, <3>1
    <2>9. CASE (\E s \in Sources : UploadSource(s)) \/ UNCHANGED intakeVars
      BY <2>2, <2>9 DEF UploadSource, intakeVars
    <2> QED BY <2>3, <2>4, <2>5, <2>6, <2>7, <2>8, <2>9 DEF IntakeNext
  <1> QED BY <1>1, <1>2, SourceTypeInvariant, PTL DEF IntakeSpec

\* DirectAnswerIsDurable holds of every reachable state: no interleaving of
\* requests, replays and closing connections answers a mutation that opens
\* its own transaction and leaves nothing on record.
THEOREM DirectAnswersAreDurable == IntakeSpec => []DirectAnswerIsDurable
  <1>1. FinishedIsRecorded => DirectAnswerIsDurable
    BY DEF FinishedIsRecorded, DirectAnswerIsDurable, AnsweredOf, OwnOperations
  <1> QED BY <1>1, RecordInvariant, PTL

-----------------------------------------------------------------------------
(* Relations.  An event is one more line of the history of its relation and *)
(* leaves every other history, and what came before each of its lines.     *)

EventsFor(E, r) == {i \in DOMAIN E : E[i].relation = r}
Preceding(E, i) == {j \in EventsFor(E, E[i].relation) : j < i}

\* HistoryIsOfHumans for the events E and the row of r.
IsOfHumans(E, r, row) ==
    LET h == EventsFor(E, r) IN
    /\ row.revision = Cardinality(h)
    /\ Cardinality(h) <= 3
    /\ \A i \in h : LET n == Cardinality(Preceding(E, i)) IN
          /\ n = 0 <=> E[i].op = "propose_relation"
          /\ n = 0 => E[i].edge = row.edge
          /\ n > 0 => E[i].by = "human"
          /\ n = 2 <=> E[i].op = "retire_relation"
          /\ n = 2 => \E j \in Preceding(E, i) : E[j].op = "canonize_relation"
    /\ \E i \in h : (\A j \in h : j <= i) /\ row.status = Makes(E[i].op)

RelationAct == {m \in Commands : RelationCommand(m) /\ Gate(m)}
RelationCall == {[pc |-> m.op, command |-> m] : m \in RelationAct}

RelationsAreOpenOnce ==
    \A r, s \in Relations : r # s /\ relation[r] # None /\ relation[s] # None
       /\ {relation[r].status, relation[s].status} \subseteq {"proposed", "canonical"} =>
          relation[r].edge # relation[s].edge

RelationKeysOnce ==
    \A i, j \in DOMAIN relationEvents : relationEvents[i].key = relationEvents[j].key => i = j

RelationInv ==
    /\ RelationTypeOK
    /\ call \in [Calls -> RelationCall \cup {Idle}]
    /\ relationEvents \in Seq(RelationAct)
    /\ \A r \in Relations : IF relation[r] = None THEN EventsFor(relationEvents, r) = {}
                            ELSE IsOfHumans(relationEvents, r, relation[r])
    /\ RelationsAreOpenOnce
    /\ RelationKeysOnce

LEMMA RelationActFits ==
    ASSUME NEW m \in RelationAct
    PROVE  /\ m.relation \in Relations
           /\ \/ m.op = "propose_relation" /\ m.edge \in Edge
              \/ m.op \in {"canonize_relation", "reject_relation", "retire_relation"}
                 /\ m.by = "human"
  <1>1. m \in RelationRequest /\ Gate(m)
    BY RelationAssumption DEF RelationAct
  <1> QED BY <1>1 DEF RelationRequest, Gate, Decision

LEMMA OneMoreRelationEvent ==
    ASSUME NEW S, NEW E \in Seq(S), NEW m \in S
    PROVE  /\ Append(E, m) \in Seq(S)
           /\ DOMAIN Append(E, m) = DOMAIN E \cup {Len(E) + 1}
           /\ \A i \in DOMAIN E : /\ i \in Nat /\ i < Len(E) + 1
                                  /\ Append(E, m)[i] = E[i]
                                  /\ Preceding(Append(E, m), i) = Preceding(E, i)
           /\ Append(E, m)[Len(E) + 1] = m
           /\ Preceding(Append(E, m), Len(E) + 1) = EventsFor(E, m.relation)
           /\ \A r : EventsFor(Append(E, m), r) =
                 IF r = m.relation THEN EventsFor(E, r) \cup {Len(E) + 1} ELSE EventsFor(E, r)
           /\ \A r : IsFiniteSet(EventsFor(E, r))
  <1> DEFINE F == Append(E, m)
             n == Len(E) + 1
  <1>1. F \in Seq(S) /\ Len(E) \in Nat /\ DOMAIN E = 1..Len(E) /\ DOMAIN F = 1..n
        /\ F[n] = m /\ \A i \in 1..Len(E) : F[i] = E[i]
    OBVIOUS
  <1>2. DOMAIN F = DOMAIN E \cup {n} /\ n \notin DOMAIN E
    BY <1>1
  <1> HIDE DEF F
  <1>3. ASSUME NEW r PROVE EventsFor(F, r) =
           IF r = m.relation THEN EventsFor(E, r) \cup {n} ELSE EventsFor(E, r)
    BY <1>1, <1>2 DEF EventsFor
  <1>4. ASSUME NEW i \in DOMAIN E PROVE Preceding(F, i) = Preceding(E, i)
    <2>1. F[i] = E[i] /\ i < n /\ i \in Nat
      BY <1>1
    <2>2. EventsFor(F, E[i].relation) \ {n} = EventsFor(E, E[i].relation)
      BY <1>2, <1>3 DEF EventsFor
    <2>3. \A j \in EventsFor(F, E[i].relation) : j < i => j # n
      BY <1>1, <2>1
    <2> QED BY <2>1, <2>2, <2>3 DEF Preceding
  <1>5. Preceding(F, n) = EventsFor(E, m.relation)
    <2>1. EventsFor(F, m.relation) = EventsFor(E, m.relation) \cup {n}
      BY <1>3
    <2>2. \A j \in EventsFor(E, m.relation) : j < n
      BY <1>1 DEF EventsFor
    <2>3. ~(n < n)
      BY <1>1
    <2> QED BY <1>1, <2>1, <2>2, <2>3 DEF Preceding
  <1>6. ASSUME NEW r PROVE IsFiniteSet(EventsFor(E, r))
    <2>1. IsFiniteSet(1..Len(E))
      BY <1>1, FS_Interval
    <2>2. EventsFor(E, r) \subseteq 1..Len(E)
      BY <1>1 DEF EventsFor
    <2> QED BY <2>1, <2>2, FS_Subset
  <1> QED BY <1>1, <1>2, <1>3, <1>4, <1>5, <1>6 DEF F

\* An event that follows those before it is told by the row it makes.
LEMMA HistoryGrows ==
    ASSUME NEW S, NEW E \in Seq(S), NEW m \in S, NEW row, NEW next, next.edge = row.edge,
           row.revision = Cardinality(EventsFor(E, m.relation)),
           next.revision = row.revision + 1, next.status = Makes(m.op),
           \/ /\ EventsFor(E, m.relation) = {}
              /\ m.op = "propose_relation" /\ m.edge = row.edge
           \/ /\ IsOfHumans(E, m.relation, row)
              /\ m.op \in {"canonize_relation", "reject_relation"} /\ m.by = "human"
              /\ row.revision = 1
           \/ /\ IsOfHumans(E, m.relation, row)
              /\ m.op = "retire_relation" /\ m.by = "human"
              /\ row.revision = 2
              /\ \E j \in EventsFor(E, m.relation) : E[j].op = "canonize_relation"
    PROVE  IsOfHumans(Append(E, m), m.relation, next)
  <1> DEFINE n == Len(E) + 1
             h == EventsFor(E, m.relation)
             k == EventsFor(Append(E, m), m.relation)
  <1>1. PICK F : F = Append(E, m)
    OBVIOUS
  <1>2. /\ k = h \cup {n} /\ n \notin h /\ IsFiniteSet(h) /\ n \in Nat
        /\ F[n] = m /\ Preceding(F, n) = h
        /\ \A i \in h : i \in Nat /\ i < n /\ F[i] = E[i] /\ Preceding(F, i) = Preceding(E, i)
        /\ \A i \in h : i \in DOMAIN E
    <2>1. Len(E) \in Nat /\ DOMAIN E = 1..Len(E)
      OBVIOUS
    <2>2. /\ \A i \in DOMAIN E : /\ i \in Nat /\ i < Len(E) + 1
                                /\ Append(E, m)[i] = E[i]
                                /\ Preceding(Append(E, m), i) = Preceding(E, i)
          /\ Append(E, m)[Len(E) + 1] = m
          /\ Preceding(Append(E, m), Len(E) + 1) = EventsFor(E, m.relation)
          /\ EventsFor(Append(E, m), m.relation) = EventsFor(E, m.relation) \cup {Len(E) + 1}
          /\ IsFiniteSet(EventsFor(E, m.relation))
      BY OneMoreRelationEvent
    <2>3. \A i \in h : i \in DOMAIN E
      BY DEF EventsFor
    <2> HIDE DEF h
    <2> QED BY <1>1, <2>1, <2>2, <2>3 DEF h
  <1>3. Cardinality(h) = row.revision /\ Cardinality(k) = next.revision
        /\ Cardinality(h) \in Nat
    BY <1>2, FS_AddElement, FS_CardinalityType
  <1>4. h = {} => Cardinality(h) = 0
    BY FS_EmptySet
  <1>5. Cardinality(h) \in {0, 1, 2}
    BY <1>3, <1>4
  <1> HIDE DEF n, h
  <1>6. \A i \in h : LET p == Cardinality(Preceding(F, i)) IN
          /\ p = 0 <=> F[i].op = "propose_relation"
          /\ p = 0 => F[i].edge = next.edge
          /\ p > 0 => F[i].by = "human"
          /\ p = 2 <=> F[i].op = "retire_relation"
          /\ p = 2 => \E j \in Preceding(F, i) : F[j].op = "canonize_relation"
    <2> SUFFICES ASSUME NEW i \in h
                 PROVE  LET p == Cardinality(Preceding(E, i)) IN
                        /\ p = 0 <=> E[i].op = "propose_relation"
                        /\ p = 0 => E[i].edge = row.edge
                        /\ p > 0 => E[i].by = "human"
                        /\ p = 2 <=> E[i].op = "retire_relation"
                        /\ p = 2 => \E j \in Preceding(F, i) : F[j].op = "canonize_relation"
      BY <1>2
    <2>1. \A j \in Preceding(E, i) : F[j] = E[j]
      <3>1. E[i].relation = m.relation
        BY DEF h, EventsFor
      <3>2. Preceding(E, i) \subseteq h
        BY <3>1 DEF Preceding, h
      <3> QED BY <1>2, <3>2
    <2>2. IsOfHumans(E, m.relation, row)
      BY DEF h
    <2>3. LET p == Cardinality(Preceding(E, i)) IN
            /\ p = 0 <=> E[i].op = "propose_relation"
            /\ p = 0 => E[i].edge = row.edge
            /\ p > 0 => E[i].by = "human"
            /\ p = 2 <=> E[i].op = "retire_relation"
            /\ p = 2 => \E j \in Preceding(E, i) : E[j].op = "canonize_relation"
      BY <2>2 DEF IsOfHumans, h
    <2> QED BY <1>2, <2>1, <2>3
  <1>7. LET p == Cardinality(Preceding(F, n)) IN
          /\ p = 0 <=> F[n].op = "propose_relation"
          /\ p = 0 => F[n].edge = next.edge
          /\ p > 0 => F[n].by = "human"
          /\ p = 2 <=> F[n].op = "retire_relation"
          /\ p = 2 => \E j \in Preceding(F, n) : F[j].op = "canonize_relation"
    <2>1. Preceding(F, n) = h /\ F[n] = m /\ \A j \in h : F[j] = E[j]
      BY <1>2
    <2>2. /\ Cardinality(h) = 0 <=> m.op = "propose_relation"
          /\ Cardinality(h) = 2 <=> m.op = "retire_relation"
          /\ Cardinality(h) = 0 => m.edge = next.edge
          /\ Cardinality(h) > 0 => m.by = "human"
          /\ Cardinality(h) = 2 => \E j \in h : E[j].op = "canonize_relation"
      BY <1>3, <1>4 DEF h
    <2> QED BY <2>1, <2>2
  <1>8. (\A j \in k : j <= n) /\ next.status = Makes(F[n].op) /\ n \in k
    BY <1>2
  <1>9. next.revision <= 3
    BY <1>3, <1>5
  <1>10. k = EventsFor(F, m.relation)
    BY <1>1
  <1> HIDE DEF k
  <1>11. \A i \in k : i \in h \/ i = n
    BY <1>2
  <1> QED
    <2>1. IsOfHumans(F, m.relation, next)
      BY <1>3, <1>6, <1>7, <1>8, <1>9, <1>10, <1>11 DEF IsOfHumans
    <2> QED BY <1>1, <2>1

\* The status of a row tells how far its history is.
LEMMA StatusTellsHistory ==
    ASSUME NEW E \in Seq(RelationAct), NEW r, NEW row, IsOfHumans(E, r, row)
    PROVE  /\ row.status = "proposed" => row.revision = 1
           /\ row.status = "canonical" =>
                 /\ row.revision = 2
                 /\ \E j \in EventsFor(E, r) : E[j].op = "canonize_relation"
  <1> DEFINE h == EventsFor(E, r)
  <1>1. PICK i \in h : (\A j \in h : j <= i) /\ row.status = Makes(E[i].op)
    BY DEF IsOfHumans
  <1>2. IsFiniteSet(h)
    <2>1. Len(E) \in Nat /\ h \subseteq 1..Len(E)
      BY DEF EventsFor
    <2>2. IsFiniteSet(1..Len(E))
      BY <2>1, FS_Interval
    <2> QED BY <2>1, <2>2, FS_Subset
  <1>3. h = Preceding(E, i) \cup {i} /\ i \notin Preceding(E, i)
    <2>1. E[i].relation = r /\ \A j \in h : j \in 1..Len(E)
      BY DEF EventsFor
    <2>2. \A j \in h : j < i \/ j = i
      BY <1>1, <2>1
    <2>3. ~(i < i)
      BY <2>1
    <2> QED BY <1>1, <2>1, <2>2, <2>3 DEF Preceding
  <1>4. IsFiniteSet(Preceding(E, i))
    BY <1>2, <1>3, FS_Subset
  <1>5. row.revision = Cardinality(Preceding(E, i)) + 1 /\ Cardinality(Preceding(E, i)) \in Nat
        /\ row.revision <= 3
    BY <1>3, <1>4, FS_AddElement, FS_CardinalityType DEF IsOfHumans
  <1>6. LET n == Cardinality(Preceding(E, i)) IN
          /\ n = 0 <=> E[i].op = "propose_relation"
          /\ n = 2 <=> E[i].op = "retire_relation"
    BY DEF IsOfHumans
  <1>7. E[i] \in RelationAct /\ i \in DOMAIN E
    BY DEF EventsFor
  <1>8. /\ row.status = "proposed" => E[i].op = "propose_relation"
        /\ row.status = "canonical" => E[i].op = "canonize_relation"
    <2>1. E[i].op \in {"propose_relation", "canonize_relation", "reject_relation",
                       "retire_relation"}
      BY <1>7, RelationActFits
    <2> QED BY <1>1, <2>1 DEF Makes, Decision
  <1> HIDE DEF h
  <1> QED BY <1>1, <1>5, <1>6, <1>8 DEF h

LEMMA RelationsTold ==
    ASSUME NEW r, IsOfHumans(relationEvents, r, relation[r])
    PROVE  HistoryIsOfHumans(r)
  BY DEF IsOfHumans, HistoryIsOfHumans, EventsFor, Preceding, History, Before

\* A command that takes effect: its row, its event, and one request less.
LEMMA RelationTakesEffect ==
    ASSUME RelationInv, NEW c \in Calls, NEW m \in RelationAct, NEW row \in RelationRow,
           RecordsRelation(c, m), relation' = [relation EXCEPT ![m.relation] = row],
           IsOfHumans(Append(relationEvents, m), m.relation, row),
           row.status \in {"proposed", "canonical"} =>
              \A s \in Relations \ {m.relation} :
                 relation[s] # None /\ relation[s].status \in {"proposed", "canonical"} =>
                    relation[s].edge # row.edge
    PROVE  RelationInv'
  <1>1. m.relation \in Relations /\ relation \in [Relations -> RelationRow \cup {None}]
        /\ relationEvents \in Seq(RelationAct) /\ row # None
    BY RelationActFits, RelationAssumption DEF RelationInv, RelationTypeOK
  <1>2. PICK F : F = Append(relationEvents, m)
    OBVIOUS
  <1>3. relationEvents' = F /\ RelationEventOf(m.key) = {}
    BY <1>2 DEF RecordsRelation
  <1>4. /\ F \in Seq(RelationAct)
        /\ DOMAIN F = DOMAIN relationEvents \cup {Len(relationEvents) + 1}
        /\ \A i \in DOMAIN relationEvents : /\ F[i] = relationEvents[i]
                                            /\ Preceding(F, i) = Preceding(relationEvents, i)
        /\ F[Len(relationEvents) + 1] = m
        /\ \A r : r # m.relation => EventsFor(F, r) = EventsFor(relationEvents, r)
    BY <1>1, <1>2, OneMoreRelationEvent
  <1>5. RelationTypeOK'
    BY <1>1 DEF RelationTypeOK
  <1>6. call' \in [Calls -> RelationCall \cup {Idle}]
    BY DEF RelationInv, RecordsRelation, End
  <1>7. \A r \in Relations : IF relation'[r] = None THEN EventsFor(F, r) = {}
                             ELSE IsOfHumans(F, r, relation'[r])
    <2> SUFFICES ASSUME NEW r \in Relations
                 PROVE  IF relation'[r] = None THEN EventsFor(F, r) = {}
                        ELSE IsOfHumans(F, r, relation'[r])
      OBVIOUS
    <2>1. CASE r = m.relation
      BY <1>1, <1>2, <2>1
    <2>2. CASE r # m.relation
      <3>1. relation'[r] = relation[r] /\ EventsFor(F, r) = EventsFor(relationEvents, r)
            /\ IF relation[r] = None THEN EventsFor(relationEvents, r) = {}
               ELSE IsOfHumans(relationEvents, r, relation[r])
        BY <1>1, <1>4, <2>2 DEF RelationInv
      <3>2. \A i \in EventsFor(relationEvents, r) :
               /\ F[i] = relationEvents[i] /\ Preceding(F, i) = Preceding(relationEvents, i)
               /\ \A j \in Preceding(relationEvents, i) : F[j] = relationEvents[j]
        BY <1>4 DEF EventsFor, Preceding
      <3> QED BY <3>1, <3>2 DEF IsOfHumans
    <2> QED BY <2>1, <2>2
  <1>8. RelationsAreOpenOnce'
    <2>1. RelationsAreOpenOnce
      BY DEF RelationInv
    <2>2. \A r \in Relations : relation'[r] = IF r = m.relation THEN row ELSE relation[r]
      BY <1>1
    <2> QED BY <1>1, <2>1, <2>2 DEF RelationsAreOpenOnce
  <1>9. RelationKeysOnce'
    <2>1. RelationKeysOnce
      BY DEF RelationInv
    <2>2. \A i \in DOMAIN relationEvents : relationEvents[i].key # m.key
      BY <1>3 DEF RelationEventOf
    <2> QED BY <1>3, <1>4, <2>1, <2>2 DEF RelationKeysOnce
  <1> QED BY <1>3, <1>4, <1>5, <1>6, <1>7, <1>8, <1>9 DEF RelationInv

LEMMA RelationInvariant == RelationSpec => []RelationInv
  <1>1. RelationInit /\ RequestsInit => RelationInv
    <2> SUFFICES ASSUME RelationInit, RequestsInit PROVE RelationInv
      OBVIOUS
    <2>1. relationEvents \in Seq(RelationAct) /\ DOMAIN relationEvents = {}
      BY DEF RelationInit
    <2>2. relation \in [Relations -> RelationRow \cup {None}]
          /\ \A r \in Relations : relation[r] = None
      BY DEF RelationInit
    <2>3. call \in [Calls -> RelationCall \cup {Idle}]
      BY DEF RequestsInit
    <2> QED BY <2>1, <2>2, <2>3
        DEF RelationInv, RelationTypeOK, RelationsAreOpenOnce, RelationKeysOnce, EventsFor
  <1>2. RelationInv /\ [RelationNext]_<<relationVars, requestVars>> => RelationInv'
    <2> SUFFICES ASSUME RelationInv, [RelationNext]_<<relationVars, requestVars>>
                 PROVE  RelationInv'
      OBVIOUS
    <2>1. ASSUME UNCHANGED relationVars, call' \in [Calls -> RelationCall \cup {Idle}]
          PROVE  RelationInv'
      BY <2>1 DEF relationVars, RelationInv, RelationTypeOK, RelationsAreOpenOnce, RelationKeysOnce
    <2>2. ASSUME NEW c \in Calls, NEW m \in Commands, LookUpRelation(c, m) PROVE RelationInv'
      <3>1. [pc |-> m.op, command |-> m] \in RelationCall
        BY <2>2 DEF LookUpRelation, RelationCall, RelationAct
      <3>2. PICK q \in RelationCall : call' = [call EXCEPT ![c] = q]
        BY <2>2, <3>1 DEF LookUpRelation, Begin
      <3>3. call' \in [Calls -> RelationCall \cup {Idle}]
        BY <3>2 DEF RelationInv
      <3> QED BY <2>1, <2>2, <3>3 DEF LookUpRelation
    <2>3. ASSUME NEW m \in Commands, ReplayRelation(m) PROVE RelationInv'
      BY <2>1, <2>3 DEF ReplayRelation, RelationInv
    <2>4. ASSUME NEW c \in Calls, RefuseRelation(c) PROVE RelationInv'
      <3>1. call' \in [Calls -> RelationCall \cup {Idle}]
        BY <2>4 DEF RefuseRelation, Refused, End, RelationInv
      <3> QED BY <2>1, <2>4, <3>1 DEF RefuseRelation
    <2>5. ASSUME NEW c \in Calls, ProposeRelation(c) PROVE RelationInv'
      <3>1. PICK m : m = call[c].command
        OBVIOUS
      <3>2. call[c] \in RelationCall /\ call[c].pc = "propose_relation"
        BY <2>5 DEF ProposeRelation, Step, RelationInv
      <3>3. m \in RelationAct /\ m.op = "propose_relation"
        BY <3>1, <3>2 DEF RelationCall
      <3>4. m.relation \in Relations /\ m.edge \in Edge
        BY <3>3, RelationActFits
      <3> DEFINE row == [edge |-> m.edge, status |-> "proposed", revision |-> 1]
      <3>5. row \in RelationRow /\ row.edge = m.edge /\ row.status = "proposed"
            /\ row.revision = 1
        BY <3>4 DEF RelationRow, RelationStatuses
      <3>6. /\ relation[m.relation] = None /\ m.edge \notin OpenEdges
            /\ relation' = [relation EXCEPT ![m.relation] = row]
            /\ RecordsRelation(c, m)
        BY <2>5, <3>1 DEF ProposeRelation
      <3> HIDE DEF row
      <3>7. EventsFor(relationEvents, m.relation) = {} /\ relationEvents \in Seq(RelationAct)
        BY <3>4, <3>6 DEF RelationInv
      <3>8. IsOfHumans(Append(relationEvents, m), m.relation, row)
        <4> DEFINE old == [edge |-> m.edge, status |-> "proposed", revision |-> 0]
        <4>1. old.edge = m.edge /\ old.revision = 0
          OBVIOUS
        <4>2. row.status = Makes(m.op)
          BY <3>3, <3>5 DEF Makes
        <4> HIDE DEF old
        <4>3. old.revision = Cardinality(EventsFor(relationEvents, m.relation))
          BY <3>7, <4>1, FS_EmptySet
        <4>4. row.edge = old.edge /\ row.revision = old.revision + 1 /\ m.edge = old.edge
          BY <3>5, <4>1
        <4> HIDE DEF RelationInv
        <4> QED BY <3>3, <3>7, <4>2, <4>3, <4>4, HistoryGrows
      <3>9. \A s \in Relations \ {m.relation} :
               relation[s] # None /\ relation[s].status \in {"proposed", "canonical"} =>
                  relation[s].edge # row.edge
        BY <3>5, <3>6 DEF OpenEdges
      <3> QED BY <3>3, <3>5, <3>6, <3>8, <3>9, RelationTakesEffect
    <2>6. ASSUME NEW c \in Calls, DecideRelation(c) PROVE RelationInv'
      <3>1. PICK m : m = call[c].command
        OBVIOUS
      <3>2. /\ call[c] \in RelationCall /\ call[c].pc \in DOMAIN Decision
            /\ relation[m.relation] # None /\ RelationDecidable(m)
            /\ RecordsRelation(c, m)
        BY <2>6, <3>1 DEF DecideRelation, Step, RelationInv
      <3>3. m \in RelationAct /\ m.op \in {"canonize_relation", "reject_relation", "retire_relation"}
        BY <3>1, <3>2 DEF RelationCall, Decision
      <3>4. m.relation \in Relations /\ m.by = "human"
        BY <3>3, RelationActFits
      <3>5. PICK old : old = relation[m.relation]
        OBVIOUS
      <3> DEFINE row == [edge |-> old.edge, status |-> Decision[m.op].to,
                         revision |-> old.revision + 1]
      <3>6. /\ old \in RelationRow /\ IsOfHumans(relationEvents, m.relation, old)
            /\ relationEvents \in Seq(RelationAct)
        BY <3>2, <3>4, <3>5 DEF RelationInv, RelationTypeOK
      <3>7. old.edge \in Edge /\ old.revision \in Nat \ {0}
        BY <3>6 DEF RelationRow
      <3>8. Decision[m.op].to \in RelationStatuses
        BY <3>3 DEF Decision, RelationStatuses
      <3>9. row \in RelationRow /\ row.edge = old.edge /\ row.status = Decision[m.op].to
            /\ row.revision = old.revision + 1
        BY <3>7, <3>8 DEF RelationRow
      <3>10. relation' = [relation EXCEPT ![m.relation] = row]
        BY <2>6, <3>1, <3>4, <3>5 DEF DecideRelation, RelationInv, RelationTypeOK
      <3> HIDE DEF row
      <3>11. old.status = Decision[m.op].from
        BY <3>2, <3>5 DEF RelationDecidable
      <3>12. old.status \in {"proposed", "canonical"}
        BY <3>3, <3>11 DEF Decision
      <3>13. IsOfHumans(Append(relationEvents, m), m.relation, row)
        <4>1. row.status = Makes(m.op)
          BY <3>3, <3>9 DEF Makes
        <4>2. old.revision = Cardinality(EventsFor(relationEvents, m.relation))
          BY <3>6 DEF IsOfHumans
        <4>3. CASE m.op = "retire_relation"
          <5>1. old.status = "canonical"
            BY <3>11, <4>3 DEF Decision
          <5> QED BY <3>3, <3>4, <3>6, <3>9, <4>1, <4>2, <4>3, <5>1, HistoryGrows, StatusTellsHistory
        <4>4. CASE m.op \in {"canonize_relation", "reject_relation"}
          <5>1. old.status = "proposed"
            BY <3>11, <4>4 DEF Decision
          <5> QED BY <3>3, <3>4, <3>6, <3>9, <4>1, <4>2, <4>4, <5>1, HistoryGrows, StatusTellsHistory
        <4> QED BY <3>3, <4>3, <4>4
      <3>14. \A s \in Relations \ {m.relation} :
               relation[s] # None /\ relation[s].status \in {"proposed", "canonical"} =>
                  relation[s].edge # row.edge
        BY <3>2, <3>4, <3>5, <3>9, <3>12 DEF RelationInv, RelationsAreOpenOnce
      <3> QED BY <3>2, <3>3, <3>9, <3>10, <3>13, <3>14, RelationTakesEffect
    <2>7. CASE UNCHANGED <<relationVars, requestVars>>
      BY <2>1, <2>7 DEF requestVars, RelationInv
    <2> QED BY <2>2, <2>3, <2>4, <2>5, <2>6, <2>7 DEF RelationNext
  <1> QED BY <1>1, <1>2, PTL DEF RelationSpec

\* RelationsAreSound holds of every reachable state: however many proposals and
\* decisions overlap, an edge is open in one relation, and what became of a
\* relation is what the humans in its history made of it.
THEOREM RelationsStaySound == RelationSpec => []RelationsAreSound
  <1>1. RelationInv => RelationsAreSound
    BY RelationsTold
    DEF RelationInv, RelationsAreSound, RelationsAreDecided, RelationsAreOpenOnce, RelationKeysOnce
  <1> QED BY <1>1, RelationInvariant, PTL

-----------------------------------------------------------------------------
(* Documents.  Revisions and postures are only appended, under a lock or a  *)
(* unique key, so that what was linked stays where it is.                   *)

DocumentCall ==
         {[pc |-> "linking", command |-> m] : m \in {n \in Commands : n.op = "link_revision"}}
    \cup {[pc |-> "recording", command |-> m] :
            m \in {n \in Commands : n.op = "record_version_event" /\ Recordable(n)}}
    \cup {q \in [pc : {"appending"}, command : Commands, seq : Nat,
                 previous : Posture \cup {None}] :
            q.command.op = "record_version_event" /\ Recordable(q.command)}

\* A link m that was answered with v is on record.
LinkOnRecord(m, v) ==
    /\ v \in Linked /\ v[1] = m.document
    /\ revisions[v[1]][v[2]].capture = m.capture
    /\ revisions[v[1]][v[2]].supersedes = m.supersedes

\* The revisions R of one Document are one history.
OneHistory(R) ==
    \A r, s \in DOMAIN R :
       /\ R[r].supersedes < r
       /\ r # s => /\ R[r].capture # R[s].capture
                   /\ R[r].supersedes = R[s].supersedes => R[r].supersedes = 0

\* The postures P of one revision are one line.
OneLine(P) ==
    \A i \in DOMAIN P :
       /\ P[i].previous = IF i = 1 THEN None ELSE P[i - 1].posture
       /\ P[i].by # "human" => P[i].posture.authority = "not_authoritative"

RevisionsInv ==
    /\ created \subseteq ProjectDocuments
    /\ revisions \in [ProjectDocuments -> Seq(ProjectRevision)]
    /\ \A d \in ProjectDocuments : /\ Len(revisions[d]) <= MaxRevisions
                                   /\ revisions[d] # <<>> => d \in created
                                   /\ OneHistory(revisions[d])

PosturesInv ==
    /\ postures \in [Versions -> Seq(PostureEvent)]
    /\ \A v \in Versions : /\ postures[v] # <<>> => v \in Linked
                           /\ OneLine(postures[v])
    /\ \A v, w \in Versions : \A i \in DOMAIN postures[v] : \A j \in DOMAIN postures[w] :
          postures[v][i].key = postures[w][j].key => v = w /\ i = j

ReferencesInv ==
    /\ IsFiniteSet(observed)
    /\ \A o \in observed : /\ o \in [key : Keys, version : Versions, value : References]
                           /\ o.version \in Linked

LinksInv ==
    /\ \A entry \in journal : /\ entry.command.op \in {"create_document", "link_revision"}
                              /\ entry.command.op = "link_revision" =>
                                 LinkOnRecord(entry.command, entry.result)
    /\ answer # None /\ answer.command.op = "link_revision" =>
          LinkOnRecord(answer.command, answer.expected)

\* Who holds a revision holds it alone, and read it as it still is.
HoldersInv ==
    \A c \in Calls : Step(c, "appending") =>
       LET v == call[c].command.version IN
       /\ v \in Linked /\ call[c].seq = Len(postures[v]) + 1
       /\ call[c].previous = LastPosture(v)
       /\ \A e \in Calls : Step(e, "appending") /\ call[e].command.version = v => e = c

DocumentInv ==
    /\ RevisionsInv /\ PosturesInv /\ ReferencesInv /\ LinksInv /\ HoldersInv
    /\ call \in [Calls -> DocumentCall \cup {Idle}]

LEMMA LinkAskedFits ==
    ASSUME NEW m \in Commands, m.op = "link_revision"
    PROVE  /\ m.document \in ProjectDocuments
           /\ [capture |-> m.capture, received |-> m.received, supersedes |-> m.supersedes]
                 \in ProjectRevision
  <1>1. m \in DocumentRequest
    BY DocumentAssumption DEF DocumentOps
  <1>2. m \in [op : {"link_revision"}, key : Keys, document : ProjectDocuments,
               capture : Captures, received : Nat, supersedes : Nat]
    BY <1>1 DEF DocumentRequest
  <1> QED BY <1>2 DEF ProjectRevision

LEMMA PostureAskedFits ==
    ASSUME NEW m \in Commands, m.op = "record_version_event", Recordable(m)
    PROVE  /\ m.version \in Versions /\ m.posture \in Posture /\ m.key \in Keys
           /\ m.by \in {"human", "system"}
           /\ m.by # "human" => m.posture.authority = "not_authoritative"
  <1>1. m \in DocumentRequest
    BY DocumentAssumption DEF DocumentOps
  <1>2. /\ m.key \in Keys /\ m.version \in Versions /\ m.by \in {"human", "system", "hermes"}
        /\ m.posture \in [status : {"draft", "issued"} \cup TerminalStatuses,
                     effect : WorkingEffects \cup {"issued_for_review"},
                     authority : {"not_authoritative"} \cup InternalAuthorities
                                 \cup ConsequentialAuthorities]
    BY <1>1 DEF DocumentRequest
  <1>3. /\ m.posture.authority \notin ConsequentialAuthorities
        /\ m.by # "hermes"
        /\ m.by = "system" => m.posture.authority = "not_authoritative"
    BY DEF Recordable
  <1>4. m.posture \in Posture
    <2>1. PICK p : p = m.posture
      OBVIOUS
    <2>2. /\ p \in [status : {"draft", "issued"} \cup TerminalStatuses,
                   effect : WorkingEffects \cup {"issued_for_review"},
                   authority : {"not_authoritative"} \cup InternalAuthorities
                               \cup ConsequentialAuthorities]
          /\ p.authority \in {"not_authoritative"} \cup InternalAuthorities
      BY <1>2, <1>3, <2>1
    <2>3. p \in Posture
      BY <2>2 DEF Posture
    <2> QED BY <2>1, <2>3
  <1>5. m.by \in {"human", "system"} /\ (m.by # "human" => m.by = "system")
    <2>1. m.by \in {"human", "system", "hermes"}
      BY <1>2
    <2> QED BY <1>3, <2>1
  <1>6. m.key \in Keys /\ m.version \in Versions
    BY <1>2
  <1> QED BY <1>3, <1>4, <1>5, <1>6

LEMMA ReferenceAskedFits ==
    ASSUME NEW m \in Commands, m.op = "record_issuer_reference"
    PROVE  m.key \in Keys /\ m.version \in Versions /\ m.value \in References
  <1>1. m \in DocumentRequest
    BY DocumentAssumption DEF DocumentOps
  <1> QED BY <1>1 DEF DocumentRequest

LEMMA LinkedTells ==
    ASSUME RevisionsInv
    PROVE  \A d, r : <<d, r>> \in Linked <=> d \in ProjectDocuments /\ r \in DOMAIN revisions[d]
  <1> SUFFICES ASSUME NEW d, NEW r, d \in ProjectDocuments, r \in DOMAIN revisions[d]
               PROVE  r \in 1..MaxRevisions
    BY DEF Linked, Versions
  <1>1. revisions[d] \in Seq(ProjectRevision) /\ Len(revisions[d]) <= MaxRevisions
    BY DEF RevisionsInv
  <1> QED BY <1>1, DocumentAssumption

\* A link that was on record stays on record.
LEMMA RecordedLinkStays ==
    ASSUME RevisionsInv, RevisionsInv', NEW m, NEW v, LinkOnRecord(m, v),
           \A d \in ProjectDocuments : \A r \in DOMAIN revisions[d] :
              r \in DOMAIN revisions'[d] /\ revisions'[d][r] = revisions[d][r]
    PROVE  LinkOnRecord(m, v)'
  <1>1. v \in Versions /\ v[1] \in ProjectDocuments /\ v[2] \in DOMAIN revisions[v[1]]
    BY DEF LinkOnRecord, Linked, Versions
  <1>2. v[2] \in DOMAIN revisions'[v[1]] /\ revisions'[v[1]][v[2]] = revisions[v[1]][v[2]]
    BY <1>1
  <1>3. v \in Linked'
    BY <1>1, <1>2 DEF Linked
  <1> QED BY <1>2, <1>3 DEF LinkOnRecord

\* One more revision of d.
LEMMA LinkKeepsRevisions ==
    ASSUME RevisionsInv, NEW d \in created, NEW row \in ProjectRevision,
           \A r \in DOMAIN revisions[d] : revisions[d][r].capture # row.capture,
           Len(revisions[d]) < MaxRevisions, Supersedable(d, row.supersedes),
           revisions' = [revisions EXCEPT ![d] = Append(@, row)], UNCHANGED created
    PROVE  /\ RevisionsInv'
           /\ \A e \in ProjectDocuments : \A r \in DOMAIN revisions[e] :
                 r \in DOMAIN revisions'[e] /\ revisions'[e][r] = revisions[e][r]
           /\ Len(revisions[d]) + 1 \in DOMAIN revisions'[d]
           /\ revisions'[d][Len(revisions[d]) + 1] = row
  <1>1. d \in ProjectDocuments /\ revisions[d] \in Seq(ProjectRevision)
    BY DEF RevisionsInv
  <1>2. PICK R : R = revisions[d]
    OBVIOUS
  <1>3. PICK T : T = Append(R, row)
    OBVIOUS
  <1>4. /\ R \in Seq(ProjectRevision) /\ T \in Seq(ProjectRevision) /\ Len(R) \in Nat
        /\ DOMAIN R = 1..Len(R) /\ DOMAIN T = 1..(Len(R) + 1) /\ Len(T) = Len(R) + 1
        /\ T[Len(R) + 1] = row /\ \A r \in DOMAIN R : T[r] = R[r]
    BY <1>1, <1>2, <1>3
  <1>5. revisions' = [revisions EXCEPT ![d] = T]
    BY <1>2, <1>3
  <1>6. OneHistory(T)
    <2>1. OneHistory(R) /\ row.supersedes \in Nat
      BY <1>1, <1>2 DEF RevisionsInv, ProjectRevision
    <2>2. /\ \A r \in DOMAIN R : R[r].capture # row.capture /\ R[r].supersedes \in Nat
          /\ \/ row.supersedes = 0
             \/ /\ row.supersedes \in DOMAIN R
                /\ \A r \in DOMAIN R : R[r].supersedes # row.supersedes
      <3>1. \A r \in DOMAIN R : R[r] \in ProjectRevision
        BY <1>4
      <3> QED BY <1>2, <3>1 DEF Supersedable, ProjectRevision
    <2>3. row.supersedes < Len(R) + 1
      BY <1>4, <2>1, <2>2
    <2>4. \A r \in DOMAIN T : \/ r \in DOMAIN R /\ T[r] = R[r]
                              \/ r = Len(R) + 1 /\ T[r] = row
      BY <1>4
    <2> QED BY <2>1, <2>2, <2>3, <2>4 DEF OneHistory
  <1>7. RevisionsInv'
    <2>1. \A e \in ProjectDocuments : revisions'[e] = IF e = d THEN T ELSE revisions[e]
      BY <1>1, <1>5 DEF RevisionsInv
    <2>2. revisions' \in [ProjectDocuments -> Seq(ProjectRevision)]
      BY <1>1, <1>4, <1>5 DEF RevisionsInv
    <2>3. Len(T) <= MaxRevisions
      BY <1>2, <1>4, DocumentAssumption
    <2> QED BY <1>6, <2>1, <2>2, <2>3 DEF RevisionsInv
  <1> QED BY <1>1, <1>2, <1>4, <1>5, <1>7 DEF RevisionsInv

LEMMA LinkedGrows ==
    ASSUME RevisionsInv,
           \A d \in ProjectDocuments : \A r \in DOMAIN revisions[d] : r \in DOMAIN revisions'[d]
    PROVE  Linked \subseteq Linked'
  BY DEF Linked, Versions

\* Who takes no revision and records nothing leaves those who hold one where they are.
LEMMA HoldersStay ==
    ASSUME HoldersInv, UNCHANGED postures, Linked \subseteq Linked',
           \A c \in Calls : Step(c, "appending")' => call'[c] = call[c]
    PROVE  HoldersInv'
  BY DEF HoldersInv, Step, LastPosture

LEMMA LastPostureFits ==
    ASSUME PosturesInv, NEW w \in Versions
    PROVE  LastPosture(w) \in Posture \cup {None}
  <1>1. PICK P : P = postures[w]
    OBVIOUS
  <1>2. P \in Seq(PostureEvent)
    BY <1>1 DEF PosturesInv
  <1>3. CASE P = <<>>
    BY <1>1, <1>3 DEF LastPosture
  <1>4. CASE P # <<>>
    <2>1. P[Len(P)] \in PostureEvent
      BY <1>2, <1>4
    <2> QED BY <1>1, <1>4, <2>1 DEF LastPosture, PostureEvent
  <1> QED BY <1>3, <1>4

\* One more posture of w.
LEMMA RecordKeepsPostures ==
    ASSUME PosturesInv, UNCHANGED revisions, NEW w \in Linked, NEW m \in Commands,
           m.op = "record_version_event", Recordable(m), PostureEventOf(m.key) = {},
           postures' = [postures EXCEPT ![w] = Append(@,
              [key |-> m.key, by |-> m.by, posture |-> m.posture, previous |-> LastPosture(w)])]
    PROVE  PosturesInv'
  <1> DEFINE event == [key |-> m.key, by |-> m.by, posture |-> m.posture,
                       previous |-> LastPosture(w)]
  <1>1. w \in Versions /\ postures[w] \in Seq(PostureEvent)
    BY DEF PosturesInv, Linked
  <1>2. PICK P : P = postures[w]
    OBVIOUS
  <1>3. /\ P \in Seq(PostureEvent) /\ Len(P) \in Nat /\ DOMAIN P = 1..Len(P)
        /\ P = <<>> <=> Len(P) = 0
    BY <1>1, <1>2
  <1>4. LastPosture(w) = IF Len(P) = 0 THEN None ELSE P[Len(P)].posture
    BY <1>2, <1>3 DEF LastPosture
  <1>5. event \in PostureEvent
    <2>1. m.posture \in Posture /\ m.key \in Keys /\ m.by \in {"human", "system"}
      BY PostureAskedFits
    <2>2. LastPosture(w) \in Posture \cup {None}
      BY <1>1, LastPostureFits
    <2> QED BY <2>1, <2>2 DEF PostureEvent
  <1>6. /\ event.key = m.key /\ event.posture = m.posture /\ event.by = m.by
        /\ event.previous = LastPosture(w)
    OBVIOUS
  <1>7. PICK T : T = Append(P, event)
    OBVIOUS
  <1>8. postures' = [postures EXCEPT ![w] = T]
    BY <1>2, <1>7
  <1> HIDE DEF event
  <1>9. /\ T \in Seq(PostureEvent) /\ DOMAIN T = 1..(Len(P) + 1) /\ T # <<>>
        /\ T[Len(P) + 1] = event /\ \A i \in DOMAIN P : T[i] = P[i]
    BY <1>3, <1>5, <1>7
  <1>10. \A i \in DOMAIN T : \/ i \in DOMAIN P /\ T[i] = P[i]
                             \/ i = Len(P) + 1 /\ T[i] = event
    BY <1>3, <1>9
  <1>11. OneLine(T)
    <2> SUFFICES ASSUME NEW i \in DOMAIN T
                 PROVE  /\ T[i].previous = IF i = 1 THEN None ELSE T[i - 1].posture
                        /\ T[i].by # "human" => T[i].posture.authority = "not_authoritative"
      BY DEF OneLine
    <2>1. CASE i \in DOMAIN P
      <3>1. OneLine(P) /\ T[i] = P[i] /\ (i # 1 => i - 1 \in DOMAIN P)
        BY <1>1, <1>2, <1>3, <1>9, <2>1 DEF PosturesInv
      <3> QED BY <1>9, <2>1, <3>1 DEF OneLine
    <2>2. CASE i = Len(P) + 1
      <3>1. i # 1 => i - 1 = Len(P) /\ Len(P) # 0 /\ Len(P) \in DOMAIN P
        BY <1>3, <2>2
      <3>2. event.previous = IF i = 1 THEN None ELSE T[i - 1].posture
        BY <1>3, <1>4, <1>6, <1>9, <2>2, <3>1
      <3>3. event.by # "human" => event.posture.authority = "not_authoritative"
        BY <1>6, PostureAskedFits
      <3> QED BY <1>9, <2>2, <3>2, <3>3
    <2> QED BY <1>10, <2>1, <2>2
  <1>12. \A v \in Versions : postures'[v] = IF v = w THEN T ELSE postures[v]
    BY <1>8 DEF PosturesInv
  <1>13. postures' \in [Versions -> Seq(PostureEvent)]
    BY <1>8, <1>9 DEF PosturesInv
  <1>14. Linked' = Linked
    BY DEF Linked
  <1>15. \A v \in Versions : \A i \in DOMAIN postures[v] : postures[v][i].key # m.key
    <2> SUFFICES ASSUME NEW v \in Versions, NEW i \in DOMAIN postures[v],
                        postures[v][i].key = m.key
                 PROVE  FALSE
      OBVIOUS
    <2>1. [version |-> v, seq |-> i, event |-> postures[v][i]] \in PostureEvents
      BY DEF PostureEvents
    <2> QED BY <2>1 DEF PostureEventOf
  <1>16. ASSUME NEW v \in Versions, NEW u \in Versions, NEW i \in DOMAIN postures'[v],
                NEW j \in DOMAIN postures'[u], postures'[v][i].key = postures'[u][j].key
         PROVE  v = u /\ i = j
    <2>1. \/ i \in DOMAIN postures[v] /\ postures'[v][i] = postures[v][i]
          \/ v = w /\ i = Len(P) + 1 /\ postures'[v][i] = event
      BY <1>2, <1>10, <1>12
    <2>2. \/ j \in DOMAIN postures[u] /\ postures'[u][j] = postures[u][j]
          \/ u = w /\ j = Len(P) + 1 /\ postures'[u][j] = event
      BY <1>2, <1>10, <1>12
    <2> QED BY <1>6, <1>15, <1>16, <2>1, <2>2 DEF PosturesInv
  <1>17. \A v \in Versions : /\ postures'[v] # <<>> => v \in Linked'
                             /\ OneLine(postures'[v])
    BY <1>11, <1>12, <1>14 DEF PosturesInv
  <1> QED BY <1>13, <1>16, <1>17 DEF PosturesInv

LEMMA DocumentInvariant == DocumentSpec => []DocumentInv
  <1>1. DocumentInit /\ RequestsInit => DocumentInv
    <2> SUFFICES ASSUME DocumentInit, RequestsInit PROVE DocumentInv
      OBVIOUS
    <2>1. \A d \in ProjectDocuments : revisions[d] = <<>>
      BY DEF DocumentInit
    <2>2. Len(<<>>) = 0 /\ DOMAIN <<>> = {} /\ <<>> \in Seq(ProjectRevision)
          /\ <<>> \in Seq(PostureEvent)
      OBVIOUS
    <2>3. RevisionsInv
      BY <2>1, <2>2, DocumentAssumption DEF DocumentInit, RevisionsInv, OneHistory
    <2>4. PosturesInv
      BY <2>2 DEF DocumentInit, PosturesInv, OneLine
    <2>5. ReferencesInv /\ LinksInv
      BY FS_EmptySet DEF DocumentInit, RequestsInit, ReferencesInv, LinksInv
    <2>6. HoldersInv
      BY DEF RequestsInit, HoldersInv, Step
    <2> QED BY <2>3, <2>4, <2>5, <2>6 DEF DocumentInv, RequestsInit
  <1>2. DocumentInv /\ [DocumentNext]_<<documentVars, requestVars>> => DocumentInv'
    <2> SUFFICES ASSUME DocumentInv, [DocumentNext]_<<documentVars, requestVars>>
                 PROVE  DocumentInv'
      OBVIOUS
    <2>1. ASSUME UNCHANGED documentVars, call' \in [Calls -> DocumentCall \cup {Idle}],
                 HoldersInv',
                 answer' # None /\ answer'.command.op = "link_revision" =>
                    LinkOnRecord(answer'.command, answer'.expected)
          PROVE  DocumentInv'
      BY <2>1 DEF documentVars, DocumentInv, RevisionsInv, PosturesInv, ReferencesInv, LinksInv,
                  LinkOnRecord, Linked
    <2>1a. ASSUME UNCHANGED postures, Linked \subseteq Linked',
                  UNCHANGED call \/ \E c \in Calls : End(c)
           PROVE  HoldersInv'
      <3>1. \A c \in Calls : Step(c, "appending")' => call'[c] = call[c]
        BY <2>1a DEF End, Step, DocumentInv
      <3> QED BY <2>1a, <3>1, HoldersStay DEF DocumentInv
    <2>1b. ASSUME UNCHANGED documentVars PROVE UNCHANGED postures /\ Linked \subseteq Linked'
      BY <2>1b DEF documentVars, Linked
    <2>2. ASSUME NEW m \in Commands, ReplayDocumentCommand(m) PROVE DocumentInv'
      <3>1. PICK entry \in journal : entry.command = m /\ Answers(m, entry.result)
        BY <2>2 DEF ReplayDocumentCommand
      <3>2. answer'.command = m /\ answer'.expected = entry.result
        BY <3>1 DEF Answers
      <3>3. m.op = "link_revision" => LinkOnRecord(m, entry.result)
        BY <3>1 DEF DocumentInv, LinksInv
      <3>4. UNCHANGED documentVars /\ call' \in [Calls -> DocumentCall \cup {Idle}]
            /\ UNCHANGED call
        BY <2>2 DEF ReplayDocumentCommand, DocumentInv
      <3> QED BY <2>1, <2>1a, <2>1b, <3>2, <3>3, <3>4
    <2>3. ASSUME NEW m \in Commands, CreateDocument(m) PROVE DocumentInv'
      <3>1. m.document \in ProjectDocuments
        <4>1. m \in DocumentRequest
          BY <2>3, DocumentAssumption DEF CreateDocument, DocumentOps
        <4> QED BY <2>3, <4>1 DEF CreateDocument, DocumentRequest
      <3>2. answer'.command = m /\ m.op = "create_document"
        BY <2>3 DEF CreateDocument, Answers
      <3>3. journal' = journal \cup {[command |-> m, result |-> m.document]}
            /\ created' = created \cup {m.document}
            /\ UNCHANGED <<revisions, postures, observed, call>>
        BY <2>3 DEF CreateDocument
      <3>4. RevisionsInv'
        BY <3>1, <3>3 DEF DocumentInv, RevisionsInv
      <3>5. Linked' = Linked
        BY <3>3 DEF Linked
      <3>6. PosturesInv' /\ ReferencesInv'
        BY <3>3, <3>5 DEF DocumentInv, PosturesInv, ReferencesInv
      <3>7. \A n, v : LinkOnRecord(n, v) => LinkOnRecord(n, v)'
        BY <3>3, <3>5 DEF LinkOnRecord
      <3>8. LinksInv'
        BY <3>2, <3>3, <3>7 DEF DocumentInv, LinksInv
      <3>9. HoldersInv'
        BY <2>1a, <3>3, <3>5
      <3> QED BY <3>3, <3>4, <3>6, <3>8, <3>9 DEF DocumentInv
    <2>4. ASSUME NEW m \in Commands,
                 \/ ReplayPosture(m) \/ ResolveReference(m) \/ ResolveCurrentness(m)
          PROVE  DocumentInv'
      <3>1. answer'.command = m /\ m.op # "link_revision"
        BY <2>4 DEF ReplayPosture, ResolveReference, ResolveCurrentness, Answers
      <3>2. UNCHANGED <<documentVars, call>>
        BY <2>4 DEF ReplayPosture, ResolveReference, ResolveCurrentness
      <3> QED BY <2>1, <2>1a, <2>1b, <3>1, <3>2 DEF DocumentInv
    <2>5. ASSUME NEW m \in Commands, RecordReference(m) PROVE DocumentInv'
      <3>1. answer'.command = m /\ m.op = "record_issuer_reference"
        BY <2>5 DEF RecordReference, Answers
      <3> DEFINE o == [key |-> m.key, version |-> m.version, value |-> m.value]
      <3>2. o \in [key : Keys, version : Versions, value : References] /\ o.version \in Linked
        BY <2>5, <3>1, ReferenceAskedFits DEF RecordReference
      <3>3. observed' = observed \cup {o} /\ UNCHANGED <<created, revisions, journal, postures, call>>
        BY <2>5 DEF RecordReference
      <3> HIDE DEF o
      <3>4. Linked' = Linked
        BY <3>3 DEF Linked
      <3>5. IsFiniteSet(observed')
        BY <3>3, FS_AddElement DEF DocumentInv, ReferencesInv
      <3>6. ReferencesInv'
        BY <3>2, <3>3, <3>4, <3>5 DEF DocumentInv, ReferencesInv
      <3>7. RevisionsInv' /\ PosturesInv'
        BY <3>3, <3>4 DEF DocumentInv, RevisionsInv, PosturesInv
      <3>8. \A n, v : LinkOnRecord(n, v) => LinkOnRecord(n, v)'
        BY <3>3, <3>4 DEF LinkOnRecord
      <3>9. LinksInv'
        BY <3>1, <3>3, <3>8 DEF DocumentInv, LinksInv
      <3>10. HoldersInv'
        BY <2>1a, <3>3, <3>4
      <3> QED BY <3>3, <3>6, <3>7, <3>9, <3>10 DEF DocumentInv
    <2>6. ASSUME NEW c \in Calls, NEW m \in Commands, LookUpLink(c, m) \/ LookUpPosture(c, m)
          PROVE  DocumentInv'
      <3>1. PICK q \in DocumentCall : call' = [call EXCEPT ![c] = q] /\ q.pc # "appending"
        <4>1. CASE LookUpLink(c, m)
          <5>1. PICK q : q = [pc |-> "linking", command |-> m]
            OBVIOUS
          <5>2. q \in DocumentCall /\ q.pc # "appending" /\ call' = [call EXCEPT ![c] = q]
            BY <4>1, <5>1 DEF LookUpLink, Begin, DocumentCall
          <5> QED BY <5>2
        <4>2. CASE LookUpPosture(c, m)
          <5>1. PICK q : q = [pc |-> "recording", command |-> m]
            OBVIOUS
          <5>2. q \in DocumentCall /\ q.pc # "appending" /\ call' = [call EXCEPT ![c] = q]
            BY <4>2, <5>1 DEF LookUpPosture, Begin, DocumentCall
          <5> QED BY <5>2
        <4> QED BY <2>6, <4>1, <4>2
      <3>2. call' \in [Calls -> DocumentCall \cup {Idle}]
        BY <3>1 DEF DocumentInv
      <3>3. UNCHANGED <<documentVars, answer>>
        BY <2>6 DEF LookUpLink, LookUpPosture
      <3>4. \A e \in Calls : Step(e, "appending")' => call'[e] = call[e]
        BY <3>1 DEF DocumentInv, Step
      <3>5. HoldersInv'
        BY <2>1b, <3>3, <3>4, HoldersStay DEF DocumentInv
      <3> QED BY <2>1, <3>2, <3>3, <3>5 DEF documentVars, DocumentInv, LinksInv
    <2>7. ASSUME NEW c \in Calls, End(c) PROVE call' \in [Calls -> DocumentCall \cup {Idle}]
      BY <2>7 DEF End, DocumentInv
    <2>8. ASSUME NEW c \in Calls, Step(c, "linking")
          PROVE  call[c].command \in Commands /\ call[c].command.op = "link_revision"
      BY <2>8 DEF DocumentInv, Step, DocumentCall
    <2>9. ASSUME NEW c \in Calls, LinkRevision(c) PROVE DocumentInv'
      <3>1. PICK m : m = call[c].command
        OBVIOUS
      <3>2. m \in Commands /\ m.op = "link_revision"
        BY <2>8, <2>9, <3>1 DEF LinkRevision
      <3>3. PICK d : d = m.document
        OBVIOUS
      <3> DEFINE row == [capture |-> m.capture, received |-> m.received,
                         supersedes |-> m.supersedes]
                 v == <<d, Len(revisions[d]) + 1>>
      <3>4. /\ d \in created /\ Len(revisions[d]) < MaxRevisions
            /\ Supersedable(d, m.supersedes)
            /\ \A r \in DOMAIN revisions[d] : revisions[d][r].capture # m.capture
            /\ revisions' = [revisions EXCEPT ![d] = Append(@, row)]
            /\ journal' = journal \cup {[command |-> m, result |-> v]}
            /\ answer' = [command |-> m, expected |-> v]
            /\ UNCHANGED <<created, postures, observed>>
            /\ End(c)
        BY <2>9, <3>1, <3>3 DEF LinkRevision, Answers
      <3>5. row \in ProjectRevision /\ d \in ProjectDocuments
            /\ row.capture = m.capture /\ row.supersedes = m.supersedes
        BY <3>2, <3>3, LinkAskedFits
      <3> HIDE DEF row
      <3>6. /\ RevisionsInv'
            /\ \A e \in ProjectDocuments : \A r \in DOMAIN revisions[e] :
                  r \in DOMAIN revisions'[e] /\ revisions'[e][r] = revisions[e][r]
            /\ Len(revisions[d]) + 1 \in DOMAIN revisions'[d]
            /\ revisions'[d][Len(revisions[d]) + 1] = row
        <4>1. RevisionsInv
          BY DEF DocumentInv
        <4>2. /\ Supersedable(d, row.supersedes)
              /\ \A r \in DOMAIN revisions[d] : revisions[d][r].capture # row.capture
          BY <3>4, <3>5
        <4>3. UNCHANGED created /\ revisions' = [revisions EXCEPT ![d] = Append(@, row)]
          BY <3>4
        <4> HIDE DEF DocumentInv
        <4> QED BY <3>4, <3>5, <4>1, <4>2, <4>3, LinkKeepsRevisions
      <3>7. Linked \subseteq Linked'
        BY <3>6, LinkedGrows DEF DocumentInv
      <3>8. v \in Linked' /\ v[1] = d /\ v[2] = Len(revisions[d]) + 1
        <4>1. Len(revisions[d]) + 1 \in 1..MaxRevisions
          BY <3>4, <3>5, DocumentAssumption DEF DocumentInv, RevisionsInv
        <4> QED BY <3>5, <3>6, <4>1 DEF Linked, Versions
      <3>9. PICK w : w = v
        OBVIOUS
      <3> HIDE DEF v
      <3>10. LinkOnRecord(m, w)'
        BY <3>3, <3>5, <3>6, <3>8, <3>9 DEF LinkOnRecord
      <3>11. \A n, u : LinkOnRecord(n, u) => LinkOnRecord(n, u)'
        BY <3>6, RecordedLinkStays DEF DocumentInv
      <3>12. LinksInv'
        <4>1. answer'.command = m /\ answer'.expected = w
          BY <3>4, <3>9
        <4>2. ASSUME NEW entry \in journal'
              PROVE  /\ entry.command.op \in {"create_document", "link_revision"}
                     /\ entry.command.op = "link_revision" =>
                        LinkOnRecord(entry.command, entry.result)'
          <5>1. CASE entry \in journal
            BY <3>11, <5>1 DEF DocumentInv, LinksInv
          <5>2. CASE entry = [command |-> m, result |-> w]
            BY <3>2, <3>10, <5>2
          <5> QED BY <3>4, <3>9, <5>1, <5>2
        <4> QED BY <3>10, <4>1, <4>2 DEF LinksInv
      <3>13. PosturesInv' /\ ReferencesInv'
        BY <3>4, <3>7 DEF DocumentInv, PosturesInv, ReferencesInv
      <3>14. HoldersInv'
        BY <2>1a, <3>4, <3>7
      <3> QED BY <2>7, <3>4, <3>6, <3>12, <3>13, <3>14 DEF DocumentInv
    <2>10. ASSUME NEW c \in Calls, ReuseRevision(c) PROVE DocumentInv'
      <3>1. PICK m : m = call[c].command
        OBVIOUS
      <3>2. m \in Commands /\ m.op = "link_revision"
        BY <2>8, <2>10, <3>1 DEF ReuseRevision
      <3>3. PICK r \in DOMAIN revisions[m.document] :
               /\ revisions[m.document][r].capture = m.capture
               /\ revisions[m.document][r].supersedes = m.supersedes
               /\ Answers(m, <<m.document, r>>)
        BY <2>10, <3>1 DEF ReuseRevision
      <3>4. <<m.document, r>> \in Linked
        BY <3>2, <3>3, LinkAskedFits, LinkedTells DEF DocumentInv
      <3>5. answer'.command = m /\ answer'.expected = <<m.document, r>>
        BY <3>3 DEF Answers
      <3>6. LinkOnRecord(m, <<m.document, r>>)
        BY <3>3, <3>4 DEF LinkOnRecord
      <3>7. UNCHANGED documentVars /\ End(c)
        BY <2>10 DEF ReuseRevision
      <3> QED BY <2>1, <2>7, <2>1a, <2>1b, <3>5, <3>6, <3>7
    <2>11. ASSUME NEW c \in Calls, RecordPosture(c) PROVE DocumentInv'
      <3>1. PICK m, w : m = call[c].command /\ w = m.version
        OBVIOUS
      <3>2. m \in Commands /\ m.op = "record_version_event" /\ Recordable(m)
        BY <2>11, <3>1 DEF RecordPosture, DocumentInv, Step, DocumentCall
      <3>3. Step(c, "appending") /\ w \in Linked /\ call[c].previous = LastPosture(w)
        BY <2>11, <3>1 DEF RecordPosture, DocumentInv, HoldersInv
      <3>4. /\ PostureEventOf(m.key) = {}
            /\ postures' = [postures EXCEPT ![w] = Append(@,
                  [key |-> m.key, by |-> m.by, posture |-> m.posture,
                   previous |-> LastPosture(w)])]
            /\ answer'.command = m /\ End(c)
            /\ UNCHANGED <<created, revisions, journal, observed>>
        BY <2>11, <3>1, <3>3 DEF RecordPosture, Answers
      <3>5. PosturesInv'
        BY <3>2, <3>3, <3>4, RecordKeepsPostures DEF DocumentInv
      <3>6. Linked' = Linked
        BY <3>4 DEF Linked
      <3>7. RevisionsInv' /\ ReferencesInv'
        BY <3>4, <3>6 DEF DocumentInv, RevisionsInv, ReferencesInv
      <3>8. \A n, v : LinkOnRecord(n, v) => LinkOnRecord(n, v)'
        BY <3>4, <3>6 DEF LinkOnRecord
      <3>9. LinksInv'
        BY <3>2, <3>4, <3>8 DEF DocumentInv, LinksInv
      <3>10. HoldersInv'
        <4>1. \A e \in Calls : Step(e, "appending")' =>
                 e # c /\ call'[e] = call[e] /\ Step(e, "appending")
          BY <3>4 DEF End, DocumentInv, Step
        <4>2. \A v \in Linked : v # w => postures'[v] = postures[v]
          BY <3>4 DEF Linked, DocumentInv, PosturesInv
        <4>3. ASSUME NEW e \in Calls, Step(e, "appending")'
              PROVE  LET v == call[e].command.version IN
                     v \in Linked /\ v # w /\ postures'[v] = postures[v]
          <5>1. call[e].command.version \in Linked /\ call[e].command.version # w
            BY <3>1, <3>3, <4>1, <4>3 DEF DocumentInv, HoldersInv
          <5> QED BY <4>2, <5>1
        <4>4. ASSUME NEW e \in Calls, Step(e, "appending")'
              PROVE  LET v == call[e].command.version IN
                     call[e].seq = Len(postures'[v]) + 1 /\ call[e].previous = LastPosture(v)'
          BY <4>1, <4>3, <4>4 DEF DocumentInv, HoldersInv, LastPosture
        <4> QED BY <3>6, <4>1, <4>3, <4>4 DEF DocumentInv, HoldersInv
      <3> QED BY <2>7, <3>4, <3>5, <3>7, <3>9, <3>10 DEF DocumentInv
    <2>11a. ASSUME NEW c \in Calls, LockRevision(c) PROVE DocumentInv'
      <3>1. PICK m, w : m = call[c].command /\ w = m.version
        OBVIOUS
      <3>2. m \in Commands /\ m.op = "record_version_event" /\ Recordable(m)
        BY <2>11a, <3>1 DEF LockRevision, DocumentInv, Step, DocumentCall
      <3>3. PICK q : /\ q = [pc |-> "appending", command |-> m, seq |-> Len(postures[w]) + 1,
                             previous |-> LastPosture(w)]
                     /\ call' = [call EXCEPT ![c] = q]
        BY <2>11a, <3>1 DEF LockRevision, PreviousPosture
      <3>4. w \in Linked /\ Holders(w) = {} /\ UNCHANGED <<documentVars, answer>>
        BY <2>11a, <3>1 DEF LockRevision
      <3>5. w \in Versions /\ postures[w] \in Seq(PostureEvent)
        BY <3>4 DEF Linked, DocumentInv, PosturesInv
      <3>6. q \in DocumentCall
        <4>1. LastPosture(w) \in Posture \cup {None} /\ Len(postures[w]) + 1 \in Nat
          BY <3>5, LastPostureFits DEF DocumentInv
        <4> QED BY <3>2, <3>3, <4>1 DEF DocumentCall
      <3>7. call' \in [Calls -> DocumentCall \cup {Idle}]
        BY <3>3, <3>6 DEF DocumentInv
      <3>8. /\ call'[c] = q /\ q.command = m /\ q.seq = Len(postures[w]) + 1
            /\ q.previous = LastPosture(w)
            /\ \A e \in Calls : e # c => call'[e] = call[e]
        BY <3>3 DEF DocumentInv
      <3>9. HoldersInv'
        <4>1. UNCHANGED postures /\ Linked' = Linked
          BY <3>4 DEF documentVars, Linked
        <4>2. \A e \in Calls : e # c =>
                 /\ Step(e, "appending")' <=> Step(e, "appending")
                 /\ Step(e, "appending") => call[e].command.version # w
          BY <3>4, <3>8 DEF Step, Holders
        <4>3. ASSUME NEW e \in Calls, e # c, Step(e, "appending")
              PROVE  LET v == call[e].command.version IN
                     /\ v \in Linked' /\ call'[e].seq = Len(postures'[v]) + 1
                     /\ call'[e].previous = LastPosture(v)'
                     /\ \A d \in Calls : Step(d, "appending")' /\ call'[d].command.version = v
                                         => d = e
          BY <3>1, <3>8, <4>1, <4>2, <4>3 DEF DocumentInv, HoldersInv, LastPosture
        <4>4. /\ w \in Linked' /\ call'[c].seq = Len(postures'[w]) + 1
              /\ call'[c].previous = LastPosture(w)'
              /\ \A d \in Calls : Step(d, "appending")' /\ call'[d].command.version = w => d = c
          BY <3>4, <3>8, <4>1, <4>2 DEF LastPosture
        <4> QED BY <3>1, <3>8, <4>2, <4>3, <4>4 DEF HoldersInv
      <3> QED BY <2>1, <3>4, <3>7, <3>9 DEF DocumentInv, LinksInv, documentVars
    <2>12. ASSUME NEW c \in Calls, RefuseDocument(c) PROVE DocumentInv'
      BY <2>1, <2>7, <2>12, <2>1a, <2>1b DEF RefuseDocument, Refused, DocumentInv, LinksInv
    <2>13. CASE UNCHANGED <<documentVars, requestVars>>
      BY <2>1, <2>13, <2>1a, <2>1b DEF requestVars, DocumentInv, LinksInv
    <2> QED BY <2>2, <2>3, <2>4, <2>5, <2>6, <2>9, <2>10, <2>11, <2>12, <2>13, <2>11a
            DEF DocumentNext
  <1> QED BY <1>1, <1>2, PTL DEF DocumentSpec

\* RecordsAreOneLine holds of every reachable state: whoever links and records at
\* the same time, the revisions of a Document and the postures of a revision are
\* one line each, which nobody who is about to record has left behind, and a link
\* that was answered stays on record as it was asked for.
THEOREM DocumentRecordsAreOneLine == DocumentSpec => []RecordsAreOneLine
  <1>1. DocumentInv => RecordsAreOneLine
    <2> SUFFICES ASSUME DocumentInv PROVE RecordsAreOneLine
      OBVIOUS
    <2>1. DocumentTypeOK
      <3>1. ASSUME NEW d \in ProjectDocuments, NEW r \in DOMAIN revisions[d]
            PROVE  d \in created /\ revisions[d][r] \in ProjectRevision
        <4>1. revisions[d] \in Seq(ProjectRevision) /\ (revisions[d] # <<>> => d \in created)
          BY DEF DocumentInv, RevisionsInv
        <4>2. revisions[d] # <<>>
          OBVIOUS
        <4> QED BY <4>1, <4>2
      <3>2. ASSUME NEW v \in Versions, NEW i \in DOMAIN postures[v]
            PROVE  postures[v][i] \in PostureEvent /\ v \in Linked
        <4>1. postures[v] \in Seq(PostureEvent) /\ (postures[v] # <<>> => v \in Linked)
          BY DEF DocumentInv, PosturesInv
        <4>2. postures[v] # <<>>
          OBVIOUS
        <4> QED BY <4>1, <4>2
      <3>3. \A e \in PostureEvents : e.event \in PostureEvent /\ e.version \in Linked
        BY <3>2 DEF PostureEvents
      <3>4. observed \subseteq [key : Keys, version : Linked, value : References]
        BY DEF DocumentInv, ReferencesInv
      <3> QED BY <3>1, <3>3, <3>4 DEF DocumentInv, RevisionsInv, DocumentTypeOK
    <2>2. HistoryIsOneLine
      BY DEF DocumentInv, RevisionsInv, OneHistory, LinksInv, LinkOnRecord, HistoryIsOneLine
    <2>3. PostureIsOneLine
      <3> SUFFICES ASSUME NEW v \in Linked, NEW i \in DOMAIN postures[v]
                   PROVE  /\ postures[v][i].previous =
                                IF i = 1 THEN None ELSE postures[v][i - 1].posture
                          /\ \A e \in PostureEventOf(postures[v][i].key) :
                                e.version = v /\ e.seq = i
                          /\ postures[v][i].by # "human" =>
                                postures[v][i].posture.authority = "not_authoritative"
        BY DEF PostureIsOneLine
      <3>1. v \in Versions /\ OneLine(postures[v])
        BY DEF Linked, DocumentInv, PosturesInv
      <3>2. ASSUME NEW e \in PostureEventOf(postures[v][i].key)
            PROVE  e.version = v /\ e.seq = i
        <4>1. PICK w \in Versions : \E k \in DOMAIN postures[w] :
                 e = [version |-> w, seq |-> k, event |-> postures[w][k]]
          BY DEF PostureEventOf, PostureEvents
        <4>2. PICK k \in DOMAIN postures[w] :
                 e = [version |-> w, seq |-> k, event |-> postures[w][k]]
          BY <4>1
        <4>3. postures[w][k].key = postures[v][i].key
          BY <4>2 DEF PostureEventOf
        <4> QED BY <3>1, <4>2, <4>3 DEF DocumentInv, PosturesInv
      <3> QED BY <3>1, <3>2 DEF OneLine
    <2>4. RecordersAreAtTheEnd
      BY DEF DocumentInv, HoldersInv, RecordersAreAtTheEnd
    <2> QED BY <2>1, <2>2, <2>3, <2>4 DEF RecordsAreOneLine
  <1> QED BY <1>1, DocumentInvariant, PTL

-----------------------------------------------------------------------------
(* What a reader is told.                                                  *)

LEMMA OnlyOneIsResolved ==
    ASSUME NEW S, IsFiniteSet(S), Resolution(S).status = "resolved"
    PROVE  S = {Resolution(S).of}
  <1>1. S # {} /\ ~(Cardinality(S) > 1)
    BY DEF Resolution
  <1>2. Resolution(S).of = CHOOSE v \in S : TRUE
    BY <1>1 DEF Resolution
  <1>3. PICK x \in S : x = Resolution(S).of
    BY <1>1, <1>2
  <1>4. ASSUME NEW y \in S PROVE y = x
    <2> SUFFICES ASSUME y # x PROVE FALSE
      OBVIOUS
    <2>1. IsFiniteSet({x}) /\ Cardinality({x}) = 1
      BY FS_Singleton
    <2>2. PICK X : X = {x}
      OBVIOUS
    <2>3. IsFiniteSet(X) /\ Cardinality(X) = 1 /\ y \notin X
      BY <2>1, <2>2
    <2>4. IsFiniteSet(X \cup {y}) /\ Cardinality(X \cup {y}) = 2
      BY <2>3, FS_AddElement
    <2>5. Cardinality(X \cup {y}) <= Cardinality(S)
      BY <2>2, FS_Subset
    <2>6. Cardinality(S) \in Nat
      BY FS_CardinalityType
    <2> QED BY <1>1, <2>4, <2>5, <2>6
  <1> QED BY <1>3, <1>4

LEMMA LastPostureTells ==
    ASSUME DocumentInv, NEW v \in Versions
    PROVE  /\ LastPosture(v) # None <=> postures[v] # <<>>
           /\ postures[v] # <<>> =>
                 /\ LastPosture(v) = postures[v][Len(postures[v])].posture
                 /\ postures[v][Len(postures[v])].by # "human" =>
                       LastPosture(v).authority = "not_authoritative"
  <1>1. postures[v] \in Seq(PostureEvent) /\ OneLine(postures[v])
    BY DEF DocumentInv, PosturesInv
  <1>2. CASE postures[v] = <<>>
    BY <1>2 DEF LastPosture
  <1>3. CASE postures[v] # <<>>
    <2>1. PICK n : n = Len(postures[v])
      OBVIOUS
    <2>2. n \in DOMAIN postures[v]
      BY <1>1, <1>3, <2>1
    <2>3. postures[v][n] \in PostureEvent
      BY <1>1, <2>2
    <2>4. postures[v][n].posture # None
      BY <2>3, DocumentAssumption DEF PostureEvent
    <2> QED BY <1>1, <1>3, <2>1, <2>2, <2>4 DEF LastPosture, OneLine
  <1> QED BY <1>2, <1>3

\* A resolution that names one names what the records say.
LEMMA ReferenceIsNamed ==
    ASSUME DocumentInv, NEW m, m.op = "resolve_reference",
           Resolution(ValuesOf(m.version)).status = "resolved"
    PROVE  NamedByRecords(m, Resolution(ValuesOf(m.version)).of)
  <1>1. IsFiniteSet(ValuesOf(m.version))
    <2>1. IsFiniteSet({x \in observed : x.version = m.version})
      BY FS_Subset DEF DocumentInv, ReferencesInv
    <2>2. PICK X : X = {x \in observed : x.version = m.version}
      OBVIOUS
    <2>3. [x \in X |-> x.value] \in Surjection(X, ValuesOf(m.version))
      BY <2>2 DEF ValuesOf, Surjection
    <2> QED BY <2>1, <2>2, <2>3, FS_Surjection
  <1>2. ValuesOf(m.version) = {Resolution(ValuesOf(m.version)).of}
    BY <1>1, OnlyOneIsResolved
  <1>3. \A o \in observed : o.version = m.version => o.value \in ValuesOf(m.version)
    BY DEF ValuesOf
  <1> QED BY <1>2, <1>3 DEF NamedByRecords

LEMMA LatestIsNamed ==
    ASSUME DocumentInv, NEW m, m.op = "resolve_currentness", m.purpose = "latest_received",
           m.document \in ProjectDocuments,
           Resolution(LatestReceived(m.document)).status = "resolved"
    PROVE  NamedByRecords(m, Resolution(LatestReceived(m.document)).of)
  <1>1. PICK d : d = m.document
    OBVIOUS
  <1>2. PICK R : R = revisions[d]
    OBVIOUS
  <1>3. R \in Seq(ProjectRevision)
    BY <1>1, <1>2 DEF DocumentInv, RevisionsInv
  <1>4. \A r \in DOMAIN R : r \in Nat /\ R[r] \in ProjectRevision
    BY <1>3
  <1>5. \A r \in DOMAIN R : R[r].received \in Nat
    BY <1>4 DEF ProjectRevision
  <1>6. LatestReceived(d) # {}
    BY <1>1 DEF Resolution
  <1>7. PICK named : named = Resolution(LatestReceived(d)).of
    OBVIOUS
  <1>8. named \in LatestReceived(d)
    BY <1>1, <1>6, <1>7 DEF Resolution
  <1>9. PICK n \in DOMAIN R : /\ named = <<d, n>>
                              /\ \A k \in DOMAIN R \ {n} : \/ R[k].received < R[n].received
                                                           \/ R[k].received = R[n].received /\ k < n
    BY <1>2, <1>8 DEF LatestReceived
  <1>10. \A k \in DOMAIN R : R[k].received <= R[n].received
    BY <1>5, <1>9
  <1>11. named[1] = d /\ named[2] = n
    BY <1>9
  <1>12. \A v \in Linked : v[1] = d => v[2] \in DOMAIN R
    BY <1>2 DEF Linked
  <1>13. \A v \in Linked : v[1] = m.document =>
            revisions[v[1]][v[2]].received <= revisions[named[1]][named[2]].received
    BY <1>1, <1>2, <1>10, <1>11, <1>12
  <1> QED BY <1>1, <1>7, <1>13 DEF NamedByRecords

LEMMA CurrentIsNamed ==
    ASSUME DocumentInv, NEW m, m.op = "resolve_currentness",
           m.purpose \in {"current_working", "current_for_coordination"},
           m.document \in ProjectDocuments,
           Resolution(Qualifying(m.document, m.purpose)).status = "resolved"
    PROVE  NamedByRecords(m, Resolution(Qualifying(m.document, m.purpose)).of)
  <1>1. PICK d, purpose : d = m.document /\ purpose = m.purpose
    OBVIOUS
  <1>2. PICK named : named = Resolution(Qualifying(d, purpose)).of
    OBVIOUS
  <1>3. IsFiniteSet(Qualifying(d, purpose))
    <2>1. IsFiniteSet(1..MaxRevisions) /\ IsFiniteSet({d})
      <3>1. MaxRevisions \in Int /\ 1 \in Int
        BY DocumentAssumption
      <3>2. IsFiniteSet(1..MaxRevisions)
        BY <3>1, FS_Interval
      <3> QED BY <3>2, FS_Singleton
    <2>2. IsFiniteSet({d} \X (1..MaxRevisions))
      BY <2>1, FS_Product
    <2>3. Qualifying(d, purpose) \subseteq {d} \X (1..MaxRevisions)
      BY DEF Qualifying, Linked, Versions
    <2> QED BY <2>2, <2>3, FS_Subset
  <1>4. Qualifying(d, purpose) = {named}
    BY <1>1, <1>2, <1>3, OnlyOneIsResolved
  <1>5. \A v \in Linked : v \in Versions
    BY DEF Linked
  <1>6. \A v \in Linked : v[1] = d =>
           (v = named <=> /\ postures[v] # <<>>
                          /\ Qualifies(postures[v][Len(postures[v])].posture, purpose))
    <2> SUFFICES ASSUME NEW v \in Linked, v[1] = d
                 PROVE  v = named <=>
                           /\ postures[v] # <<>>
                           /\ Qualifies(postures[v][Len(postures[v])].posture, purpose)
      OBVIOUS
    <2>1. v = named <=> LastPosture(v) # None /\ Qualifies(LastPosture(v), purpose)
      BY <1>4 DEF Qualifying
    <2> QED BY <1>5, <2>1, LastPostureTells
  <1>7. named \in Linked /\ LastPosture(named) # None /\ Qualifies(LastPosture(named), purpose)
    BY <1>4 DEF Qualifying
  <1>8. postures[named][Len(postures[named])].by = "human"
    <2>1. LastPosture(named).authority \in InternalAuthorities
      BY <1>7 DEF Qualifies
    <2>2. LastPosture(named).authority # "not_authoritative"
      BY <2>1 DEF InternalAuthorities
    <2> QED BY <1>5, <1>7, <2>2, LastPostureTells
  <1> QED BY <1>1, <1>2, <1>6, <1>8 DEF NamedByRecords

\* NothingIsGuessed holds of every behaviour: whatever is linked and recorded
\* while readers ask, nobody is told that a revision is current, or that a
\* reference is the issuer's, beyond what the records then say.
THEOREM CurrentnessIsNotGuessed == DocumentSpec => NothingIsGuessed
  <1>1. DocumentInv /\ [DocumentNext]_<<documentVars, requestVars>> =>
        [answer' # answer /\ answer'.command.op \in {"resolve_currentness", "resolve_reference"}
            /\ answer'.expected.status = "resolved" =>
         NamedByRecords(answer'.command, answer'.expected.of)]_<<documentVars, answer>>
    <2> SUFFICES ASSUME DocumentInv, [DocumentNext]_<<documentVars, requestVars>>,
                        answer' # answer,
                        answer'.command.op \in {"resolve_currentness", "resolve_reference"},
                        answer'.expected.status = "resolved"
                 PROVE  NamedByRecords(answer'.command, answer'.expected.of)
      OBVIOUS
    <2>1. ASSUME NEW m \in Commands, ResolveReference(m)
          PROVE  NamedByRecords(answer'.command, answer'.expected.of)
      <3>1. PICK told : told = Resolution(ValuesOf(m.version))
        OBVIOUS
      <3>2. m.op = "resolve_reference" /\ answer'.command = m /\ answer'.expected = told
        BY <2>1, <3>1 DEF ResolveReference, Answers
      <3>3. NamedByRecords(m, told.of)
        BY <3>1, <3>2, ReferenceIsNamed
      <3> QED BY <3>2, <3>3
    <2>2. ASSUME NEW m \in Commands, ResolveCurrentness(m)
          PROVE  NamedByRecords(answer'.command, answer'.expected.of)
      <3>1. PICK told : told = Resolution(Candidates(m.document, m.purpose))
        OBVIOUS
      <3>2. /\ m.op = "resolve_currentness" /\ answer'.command = m /\ answer'.expected = told
            /\ m.document \in ProjectDocuments
        BY <2>2, <3>1 DEF ResolveCurrentness, Answers, DocumentInv, RevisionsInv
      <3>3. told.status = "resolved"
        BY <3>2
      <3>4. CASE m.purpose = "latest_received"
        <4>1. told = Resolution(LatestReceived(m.document))
          BY <3>1, <3>4 DEF Candidates
        <4>2. NamedByRecords(m, told.of)
          BY <3>2, <3>3, <3>4, <4>1, LatestIsNamed
        <4> QED BY <3>2, <4>2
      <3>5. CASE m.purpose \in {"current_working", "current_for_coordination"}
        <4>1. told = Resolution(Qualifying(m.document, m.purpose))
          BY <3>1, <3>5 DEF Candidates
        <4>2. NamedByRecords(m, told.of)
          BY <3>2, <3>3, <3>5, <4>1, CurrentIsNamed
        <4> QED BY <3>2, <4>2
      <3>6. CASE m.purpose \notin {"latest_received", "current_working",
                                  "current_for_coordination"}
        <4>1. told = Resolution({})
          BY <3>1, <3>6 DEF Candidates
        <4>2. Resolution({}).status = "unresolved"
          BY FS_EmptySet DEF Resolution
        <4> QED BY <3>3, <4>1, <4>2
      <3> QED BY <3>4, <3>5, <3>6
    <2>3. ASSUME NEW m \in Commands, ReplayDocumentCommand(m) PROVE FALSE
      <3>1. m.op \in {"create_document", "link_revision"} /\ answer'.command = m
        BY <2>3 DEF ReplayDocumentCommand, Answers, DocumentInv, LinksInv
      <3> QED BY <3>1
    <2>4. ASSUME NEW m \in Commands,
                 CreateDocument(m) \/ ReplayPosture(m) \/ RecordReference(m)
          PROVE  FALSE
      <3>1. m.op \in {"create_document", "record_version_event", "record_issuer_reference"}
            /\ answer'.command = m
        BY <2>4 DEF CreateDocument, ReplayPosture, RecordReference, Answers
      <3> QED BY <3>1
    <2>5. ASSUME NEW c \in Calls, LinkRevision(c) \/ ReuseRevision(c) \/ RecordPosture(c)
          PROVE  FALSE
      <3>1. answer'.command = call[c].command
        <4>1. PICK v : Answers(call[c].command, v)
          <5>1. CASE LinkRevision(c)
            BY <5>1 DEF LinkRevision
          <5>2. CASE RecordPosture(c)
            BY <5>2 DEF RecordPosture
          <5>3. CASE ReuseRevision(c)
            BY <5>3 DEF ReuseRevision
          <5> QED BY <2>5, <5>1, <5>2, <5>3
        <4> QED BY <4>1 DEF Answers
      <3>2. call[c] \in DocumentCall
        BY <2>5 DEF LinkRevision, ReuseRevision, RecordPosture, Step, DocumentInv
      <3>3. call[c].command.op \in {"link_revision", "record_version_event"}
        BY <3>2 DEF DocumentCall
      <3> QED BY <3>1, <3>3
    <2>6. ASSUME UNCHANGED answer PROVE FALSE
      BY <2>6
    <2> QED BY <2>1, <2>2, <2>3, <2>4, <2>5, <2>6
            DEF DocumentNext, requestVars, LookUpLink, LookUpPosture, LockRevision, RefuseDocument,
                Refused
  <1> QED BY <1>1, DocumentInvariant, PTL DEF DocumentSpec, NothingIsGuessed

-----------------------------------------------------------------------------
(* People.  Rows of grants are never removed and keep what they grant, so   *)
(* that what a request found granted stays granted before what it writes.   *)

LEMMA FunctionIsRows ==
    ASSUME NEW S, NEW n \in Nat, NEW f \in [1..n -> S]
    PROVE  f \in Seq(S) /\ Len(f) = n /\ DOMAIN f = 1..n
  <1>1. f \in Seq(S)
    BY SeqDef
  <1>2. DOMAIN f = 1..n /\ Len(f) \in Nat /\ DOMAIN f = 1..Len(f)
    BY <1>1, LenProperties
  <1>3. Len(f) = n
    BY <1>2
  <1> QED BY <1>1, <1>2, <1>3

\* A row is inserted, after those that had lapsed were retired.
Revoked(row) == [row EXCEPT !.revoked = TRUE]

Inserted(rows, same, since, row) == Append(RetireLapsed(rows, same, since), row)

LEMMA RowIsInserted ==
    ASSUME NEW S, \A r \in S : Revoked(r) \in S,
           NEW rows \in Seq(S), NEW same, NEW since
    PROVE  /\ DOMAIN rows = 1..Len(rows)
           /\ \A row \in S : \A T : T = Inserted(rows, same, since, row) =>
                /\ T \in Seq(S) /\ Len(T) = Len(rows) + 1
                /\ DOMAIN T = 1..(Len(rows) + 1) /\ T[Len(rows) + 1] = row
                /\ \A i \in DOMAIN rows : T[i] # rows[i] =>
                      i \in since /\ T[i] = Revoked(rows[i])
  <1> DEFINE R == RetireLapsed(rows, same, since)
  <1>1. DOMAIN rows = 1..Len(rows) /\ Len(rows) \in Nat /\ \A i \in 1..Len(rows) : rows[i] \in S
    BY LenProperties
  <1>2. R \in [1..Len(rows) -> S]
    BY <1>1 DEF RetireLapsed, Revoked
  <1>3. R \in Seq(S) /\ Len(R) = Len(rows)
    BY <1>1, <1>2, FunctionIsRows
  <1>4. \A i \in 1..Len(rows) : R[i] # rows[i] => i \in since /\ R[i] = Revoked(rows[i])
    BY <1>1 DEF RetireLapsed, Revoked
  <1> HIDE DEF R
  <1> SUFFICES ASSUME NEW row \in S, NEW T, T = Append(R, row)
               PROVE  /\ T \in Seq(S) /\ Len(T) = Len(rows) + 1
                      /\ DOMAIN T = 1..(Len(rows) + 1) /\ T[Len(rows) + 1] = row
                      /\ \A i \in DOMAIN rows : T[i] # rows[i] =>
                            i \in since /\ T[i] = Revoked(rows[i])
    BY <1>1 DEF R, Inserted
  <1>6. /\ T \in Seq(S) /\ Len(T) = Len(R) + 1 /\ T[Len(R) + 1] = row
        /\ DOMAIN T = 1..(Len(R) + 1)
        /\ \A i \in 1..Len(R) : T[i] = R[i]
    BY <1>3
  <1> QED BY <1>1, <1>3, <1>4, <1>6

\* A row is revoked.
LEMMA RowIsRevoked ==
    ASSUME NEW S, \A row \in S : [row EXCEPT !.revoked = TRUE] \in S,
           NEW rows \in Seq(S), NEW i \in DOMAIN rows, NEW T,
           T = [rows EXCEPT ![i].revoked = TRUE]
    PROVE  /\ T \in Seq(S) /\ Len(T) = Len(rows)
           /\ DOMAIN rows = 1..Len(rows) /\ DOMAIN T = 1..Len(rows)
           /\ T[i] = [rows[i] EXCEPT !.revoked = TRUE]
           /\ \A j \in DOMAIN rows : j # i => T[j] = rows[j]
  <1>1. DOMAIN rows = 1..Len(rows) /\ Len(rows) \in Nat /\ \A j \in 1..Len(rows) : rows[j] \in S
    BY LenProperties
  <1>2. T = [rows EXCEPT ![i] = [rows[i] EXCEPT !.revoked = TRUE]]
    OBVIOUS
  <1>3. T \in [1..Len(rows) -> S]
    BY <1>1, <1>2
  <1>4. T \in Seq(S) /\ Len(T) = Len(rows) /\ DOMAIN T = 1..Len(rows)
    BY <1>1, <1>3, FunctionIsRows
  <1> QED BY <1>1, <1>2, <1>4

HeldNow(p, target) == Held(p, target, Len(grants) + 1)

RemoteCommand(m) ==
    /\ m.op \in RemoteOps
    /\ m.op = "grant_remote" => m.target[2] \in RemoteManageableActions

AccessCall ==
         [pc : {"binding"}, command : Commands, since : SUBSET Nat]
    \cup [pc : {"granting"}, command : Commands, by : Principals \cup {None}, since : SUBSET Nat]
    \cup [pc : {"resolved"}, command : Commands, by : Principals]
    \cup [pc : {"reading", "managing"}, command : Commands, by : Principals,
          since : SUBSET Nat, upto : Nat]
    \cup [pc : {"commenting"}, command : Commands, by : Principals]

\* What a call has read was there, and still is on record.
CallIsGranted(q) ==
    LET m == q.command IN
    /\ q.pc = "binding" => m.op = "bind" /\ q.since \subseteq lapsedBindings
    /\ q.pc = "resolved" => RemoteCommand(m)
    /\ q.pc \in {"reading", "managing", "commenting"} =>
          RemoteCommand(m) /\ HeldNow(q.by, ProjectRead)
    /\ q.pc \in {"reading", "managing"} => q.since \subseteq lapsed
    /\ q.pc = "managing" =>
          m.op \in {"grant_remote", "revoke_remote"} /\ HeldNow(q.by, ProjectManage)
    /\ q.pc = "granting" =>
          /\ m.op \in {"grant", "grant_remote"} /\ m.target \in Targets
          /\ q.since \subseteq lapsed
          /\ q.by # None => /\ HeldNow(q.by, ProjectRead) /\ HeldNow(q.by, ProjectManage)
                            /\ m.target # ProjectManage
                            /\ m.target # ProjectRead => HeldNow(m.principal, ProjectRead)
    /\ q.pc = "commenting" =>
          /\ m.op = "comment"
          /\ \A right \in {"document.read", "document.comment"} :
                HeldNow(q.by, <<DocumentOf[m.revision], right>>)

AccessTables ==
    /\ principals \in [Principals -> {"enabled", "disabled", None}]
    /\ bindings \in Seq(Binding) /\ grants \in Seq(Grant) /\ comments \in Seq(Comment)
    /\ lapsedBindings \subseteq DOMAIN bindings /\ lapsed \subseteq DOMAIN grants

AccessCalls ==
    /\ call \in [Calls -> AccessCall \cup {Idle}]
    /\ \A c \in Calls : CallIsGranted(call[c])

AccessAnswered ==
    answer # None =>
       /\ AccessOnRecord(answer.command)
       /\ answer.command.op = "revoke_remote" => answer.expected \in DOMAIN grants

AccessInv ==
    /\ AccessTables /\ AccessCalls
    /\ RightsComeFromTheOperator /\ CommentsAreGranted
    /\ AccessAnswered

-----------------------------------------------------------------------------
(* What stays.                                                             *)

GrantsKept ==
    /\ Len(grants) \in Nat /\ Len(grants') \in Nat /\ Len(grants) <= Len(grants')
    /\ DOMAIN grants = 1..Len(grants) /\ DOMAIN grants' = 1..Len(grants')
    /\ \A i \in DOMAIN grants : /\ grants'[i].principal = grants[i].principal
                                /\ grants'[i].target = grants[i].target
                                /\ grants'[i].by = grants[i].by
                                /\ grants[i].revoked => grants'[i].revoked

BindingsKept ==
    \A i \in DOMAIN bindings : /\ i \in DOMAIN bindings'
                               /\ bindings'[i].principal = bindings[i].principal
                               /\ bindings'[i].identity = bindings[i].identity

CommentsKept == \A j \in DOMAIN comments : j \in DOMAIN comments' /\ comments'[j] = comments[j]

LEMMA HeldStays ==
    ASSUME GrantsKept
    PROVE  /\ \A p, target : HeldNow(p, target) => HeldNow(p, target)'
           /\ \A p, target, i : i \in DOMAIN grants /\ Held(p, target, i) => Held(p, target, i)'
  BY DEF GrantsKept, HeldNow, Held

LEMMA CallsStayGranted ==
    ASSUME GrantsKept, lapsed \subseteq lapsed', lapsedBindings \subseteq lapsedBindings'
    PROVE  \A q : CallIsGranted(q) => CallIsGranted(q)'
  BY HeldStays DEF CallIsGranted

LEMMA AnswerStays ==
    ASSUME GrantsKept, BindingsKept, CommentsKept, AccessAnswered, UNCHANGED answer
    PROVE  AccessAnswered'
  <1> SUFFICES ASSUME answer # None PROVE AccessAnswered'
    BY DEF AccessAnswered
  <1>1. PICK m : m = answer.command
    OBVIOUS
  <1>2. AccessOnRecord(m) /\ (m.op = "revoke_remote" => answer.expected \in DOMAIN grants)
    BY <1>1 DEF AccessAnswered
  <1>3. AccessOnRecord(m)'
    <2>1. CASE m.op = "bind"
      BY <1>2, <2>1 DEF AccessOnRecord, BindingsKept
    <2>2. CASE m.op \in {"grant", "grant_remote"}
      BY <1>2, <2>2 DEF AccessOnRecord, GrantsKept
    <2>3. CASE m.op = "revoke_remote"
      BY <1>2, <2>3 DEF AccessOnRecord, GrantsKept
    <2>4. CASE m.op = "comment"
      BY <1>2, <2>4 DEF AccessOnRecord, CommentsKept, CommentOf
    <2>5. CASE m.op \notin {"bind", "grant", "grant_remote", "revoke_remote", "comment"}
      <3>1. m.op = "documents" => \A d \in answer.expected.documents :
               HeldNow(answer.expected.by, <<d, "document.read">>)
        BY <1>2, <2>5 DEF AccessOnRecord, HeldNow
      <3>2. m.op = "documents" => \A d \in answer.expected.documents :
               HeldNow(answer.expected.by, <<d, "document.read">>)'
        BY <3>1, HeldStays
      <3> QED BY <2>5, <3>2 DEF AccessOnRecord, HeldNow
    <2> QED BY <2>1, <2>2, <2>3, <2>4, <2>5
  <1>4. m.op = "revoke_remote" => answer.expected \in DOMAIN grants'
    BY <1>2 DEF GrantsKept
  <1> QED BY <1>1, <1>3, <1>4 DEF AccessAnswered

RightIsGranted(i) ==
    grants[i].by # None =>
       /\ grants[i].target # ProjectManage
       /\ Held(grants[i].by, ProjectManage, i) /\ Held(grants[i].by, ProjectRead, i)
       /\ grants[i].target # ProjectRead => Held(grants[i].principal, ProjectRead, i)

LEMMA RightsStay ==
    ASSUME GrantsKept, NEW i \in DOMAIN grants, RightIsGranted(i)
    PROVE  RightIsGranted(i)'
  <1>1. /\ grants'[i].by = grants[i].by /\ grants'[i].target = grants[i].target
        /\ grants'[i].principal = grants[i].principal
    BY DEF GrantsKept
  <1>2. \A k \in 1..(i - 1) : /\ grants'[k].principal = grants[k].principal
                              /\ grants'[k].target = grants[k].target
    BY DEF GrantsKept
  <1> QED BY <1>1, <1>2 DEF RightIsGranted, Held

\* The rights of every row, of the one that is inserted too.
LEMMA RightsStayGranted ==
    ASSUME RightsComeFromTheOperator, GrantsKept,
           \A i \in DOMAIN grants' \ DOMAIN grants : RightIsGranted(i)'
    PROVE  RightsComeFromTheOperator'
  <1>1. \A i \in DOMAIN grants : RightIsGranted(i)
    BY DEF RightsComeFromTheOperator, RightIsGranted
  <1>2. \A i \in DOMAIN grants' : RightIsGranted(i)'
    BY <1>1, RightsStay
  <1> QED BY <1>2 DEF RightsComeFromTheOperator, RightIsGranted

CommentIsGranted(j) ==
    LET comment == comments[j] IN
    /\ HeldNow(comment.by, ProjectRead)
    /\ \A right \in {"document.read", "document.comment"} :
          HeldNow(comment.by, <<DocumentOf[comment.revision], right>>)
    /\ comment.parent # 0 => /\ comment.parent < j
                             /\ comments[comment.parent].revision = comment.revision
    /\ \A k \in DOMAIN comments : comments[k].key = comment.key => k = j

LEMMA CommentsStayGranted ==
    ASSUME CommentsAreGranted, GrantsKept, UNCHANGED comments
    PROVE  CommentsAreGranted'
  <1>1. \A p, target : HeldNow(p, target) => HeldNow(p, target)'
    BY HeldStays
  <1>2. \A j \in DOMAIN comments : CommentIsGranted(j)
    BY DEF CommentsAreGranted, CommentIsGranted, HeldNow
  <1>3. \A j \in DOMAIN comments : CommentIsGranted(j)'
    BY <1>1, <1>2 DEF CommentIsGranted
  <1> QED BY <1>3 DEF CommentsAreGranted, CommentIsGranted, HeldNow

LEMMA RevokedHasItsType ==
    /\ \A row \in Binding : /\ [row EXCEPT !.revoked = TRUE] \in Binding
                            /\ [row EXCEPT !.revoked = TRUE].principal = row.principal
                            /\ [row EXCEPT !.revoked = TRUE].identity = row.identity
    /\ \A row \in Grant : /\ [row EXCEPT !.revoked = TRUE] \in Grant
                          /\ [row EXCEPT !.revoked = TRUE].principal = row.principal
                          /\ [row EXCEPT !.revoked = TRUE].target = row.target
                          /\ [row EXCEPT !.revoked = TRUE].by = row.by
                          /\ [row EXCEPT !.revoked = TRUE].revoked
  BY DEF Binding, Grant

\* A step that leaves the tables of comments and rights as they are, or only
\* revokes and lapses, is sound if the calls are.
LEMMA TablesMove ==
    ASSUME AccessInv, AccessTables', GrantsKept, BindingsKept, UNCHANGED comments,
           lapsed \subseteq lapsed', lapsedBindings \subseteq lapsedBindings',
           \A i \in DOMAIN grants' \ DOMAIN grants : RightIsGranted(i)',
           AccessAnswered', NEW c \in Calls, NEW q \in AccessCall \cup {Idle}, CallIsGranted(q)',
           call' = [call EXCEPT ![c] = q]
    PROVE  AccessInv'
  <1>1. RightsComeFromTheOperator'
    BY RightsStayGranted DEF AccessInv
  <1>2. CommentsAreGranted'
    BY CommentsStayGranted DEF AccessInv
  <1>3. call' \in [Calls -> AccessCall \cup {Idle}]
    BY DEF AccessInv, AccessCalls
  <1>4. ASSUME NEW d \in Calls PROVE CallIsGranted(call[d])'
    <2>1. PICK r : r = call'[d]
      OBVIOUS
    <2>2. CallIsGranted(r)'
      <3>1. \A u : CallIsGranted(u) => CallIsGranted(u)'
        BY CallsStayGranted
      <3>2. r = IF d = c THEN q ELSE call[d]
        BY <2>1 DEF AccessInv, AccessCalls
      <3>3. CASE d = c
        <4>1. r = q
          BY <3>2, <3>3
        <4> QED BY <4>1
      <3>4. CASE d # c
        <4>1. r = call[d]
          BY <3>2, <3>4
        <4>2. CallIsGranted(call[d])
          BY DEF AccessInv, AccessCalls
        <4> QED BY <3>1, <4>1, <4>2
      <3> QED BY <3>3, <3>4
    <2> QED BY <2>1, <2>2 DEF CallIsGranted
  <1> QED BY <1>1, <1>2, <1>3, <1>4 DEF AccessInv, AccessCalls

LEMMA AccessAskedFits ==
    ASSUME NEW m \in Commands
    PROVE  /\ m.op = "bind" => /\ m.principal \in Principals /\ m.identity \in Identities
                               /\ m.limited \in BOOLEAN
           /\ m.op \in {"grant", "grant_remote"} =>
                 m.principal \in Principals /\ m.limited \in BOOLEAN
           /\ m.op = "comment" => m.key \in Keys /\ m.revision \in Revisions
  <1>1. m.op \in AccessOps => m \in AccessRequest
    BY AccessAssumption
  <1>2. CASE m.op = "bind"
    BY <1>1, <1>2 DEF AccessOps, AccessRequest
  <1>3. CASE m.op = "grant"
    BY <1>1, <1>3 DEF AccessOps, AccessRequest
  <1>4. CASE m.op = "grant_remote"
    BY <1>1, <1>4 DEF AccessOps, AccessRequest
  <1>5. CASE m.op = "comment"
    BY <1>1, <1>5 DEF AccessOps, AccessRequest
  <1> QED BY <1>2, <1>3, <1>4, <1>5

LEMMA AccessIsHeld ==
    ASSUME AccessTables, NEW p, NEW target, NEW since, NEW upto,
           HasAccess(p, target, since, upto)
    PROVE  HeldNow(p, target)
  <1>1. DOMAIN grants = 1..Len(grants) /\ Len(grants) \in Nat
    BY LenProperties DEF AccessTables
  <1>2. PICK i \in DOMAIN grants : grants[i].principal = p /\ grants[i].target = target
    BY DEF HasAccess, GrantsInForce
  <1>3. i \in 1..((Len(grants) + 1) - 1)
    BY <1>1, <1>2
  <1> QED BY <1>2, <1>3 DEF HeldNow, Held

\* What may be granted remotely of the Project is the reading of it.
LEMMA RemoteTargets ==
    ASSUME NEW target \in Targets, target[2] \in RemoteManageableActions
    PROVE  /\ target # ProjectManage
           /\ target[1] = "project" => target = ProjectRead
  <1>1. CASE target \in {"project"} \X ProjectActions
    BY <1>1 DEF ProjectActions, RemoteManageableActions, DocumentActions, ProjectManage, ProjectRead
  <1>2. CASE target \in SharedDocuments \X DocumentActions
    <2>1. target[1] \in SharedDocuments /\ target[2] \in DocumentActions
      BY <1>2
    <2>2. target[1] # "project"
      BY <2>1, AccessAssumption
    <2> QED BY <2>2 DEF ProjectManage
  <1> QED BY <1>1, <1>2 DEF Targets

LEMMA CallFits ==
    ASSUME AccessInv, NEW c \in Calls, NEW pc, Step(c, pc)
    PROVE  call[c] \in AccessCall /\ call[c].pc = pc /\ CallIsGranted(call[c])
  BY DEF AccessInv, AccessCalls, Step

LEMMA NothingMoved ==
    ASSUME AccessTables, UNCHANGED <<grants, bindings, comments>>
    PROVE  GrantsKept /\ BindingsKept /\ CommentsKept
  <1>1. DOMAIN grants = 1..Len(grants) /\ Len(grants) \in Nat
    BY LenProperties DEF AccessTables
  <1> QED BY <1>1 DEF GrantsKept, BindingsKept, CommentsKept

\* A request goes on, and no table changes.
LEMMA RequestMoves ==
    ASSUME AccessInv, UNCHANGED <<accessVars, answer>>, NEW c \in Calls,
           NEW q \in AccessCall \cup {Idle}, CallIsGranted(q), call' = [call EXCEPT ![c] = q]
    PROVE  AccessInv'
  <1>1. UNCHANGED <<principals, bindings, lapsedBindings, grants, lapsed, comments>>
    BY DEF accessVars, bindingVars, grantVars
  <1>2. GrantsKept /\ BindingsKept /\ CommentsKept
    BY <1>1, NothingMoved DEF AccessInv
  <1>3. AccessTables'
    BY <1>1 DEF AccessInv, AccessTables
  <1>4. AccessAnswered'
    BY <1>2, AnswerStays DEF AccessInv
  <1>5. CallIsGranted(q)'
    BY <1>1, <1>2, CallsStayGranted
  <1> QED BY <1>1, <1>2, <1>3, <1>4, <1>5, TablesMove

LEMMA IdleIsGranted == Idle \in AccessCall \cup {Idle} /\ CallIsGranted(Idle)
  BY DEF Idle, CallIsGranted

\* What is answered from the tables, on record.
LEMMA AnswerIsFound ==
    ASSUME AccessInv, UNCHANGED <<accessVars, call>>, NEW m, NEW v, Answers(m, v),
           AccessOnRecord(m)', m.op # "revoke_remote"
    PROVE  AccessInv'
  <1>1. UNCHANGED <<principals, bindings, lapsedBindings, grants, lapsed, comments, call>>
    BY DEF accessVars, bindingVars, grantVars
  <1>2. AccessTables' /\ RightsComeFromTheOperator' /\ CommentsAreGranted'
    BY <1>1 DEF AccessInv, AccessTables, RightsComeFromTheOperator, CommentsAreGranted, Held
  <1>3. AccessCalls'
    BY <1>1 DEF AccessInv, AccessCalls, CallIsGranted, HeldNow, Held
  <1>4. AccessAnswered'
    <2>1. answer'.command = m
      BY DEF Answers
    <2> QED BY <2>1 DEF AccessAnswered, AccessOnRecord
  <1> QED BY <1>2, <1>3, <1>4 DEF AccessInv

LEMMA OperatorIsAnswered ==
    ASSUME AccessInv, NEW m \in Commands, ReplayBinding(m) \/ ReplayOperatorGrant(m)
    PROVE  AccessInv' /\ UNCHANGED <<bindings, grants>>
  <1>1. UNCHANGED <<accessVars, call>> /\ UNCHANGED <<bindings, grants>> /\ Answers(m, None)
    BY DEF ReplayBinding, ReplayOperatorGrant, accessVars, bindingVars, grantVars
  <1>2. CASE ReplayBinding(m)
    <2>1. m.op = "bind" /\ \E i \in DOMAIN bindings : /\ bindings[i].principal = m.principal
                                                     /\ bindings[i].identity = m.identity
      BY <1>2 DEF ReplayBinding, BindingsInForce
    <2>2. AccessOnRecord(m)'
      BY <1>1, <2>1 DEF AccessOnRecord
    <2> QED BY <1>1, <2>1, <2>2, AnswerIsFound
  <1>3. CASE ReplayOperatorGrant(m)
    <2>1. m.op = "grant" /\ \E i \in DOMAIN grants :
             grants[i].principal = m.principal /\ grants[i].target = m.target
      BY <1>3 DEF ReplayOperatorGrant, GrantsInForce
    <2>2. AccessOnRecord(m)'
      BY <1>1, <2>1 DEF AccessOnRecord
    <2> QED BY <1>1, <2>1, <2>2, AnswerIsFound
  <1> QED BY <1>2, <1>3

\* A request is answered, and no table changes.
LEMMA RequestIsAnswered ==
    ASSUME AccessInv, UNCHANGED accessVars, NEW c \in Calls, End(c), NEW m, NEW v, Answers(m, v),
           answer' # None => AccessOnRecord(m)' /\ m.op # "revoke_remote"
    PROVE  AccessInv'
  <1>1. UNCHANGED <<principals, bindings, lapsedBindings, grants, lapsed, comments>>
    BY DEF accessVars, bindingVars, grantVars
  <1>2. GrantsKept /\ BindingsKept /\ CommentsKept
    BY <1>1, NothingMoved DEF AccessInv
  <1>3. AccessTables'
    BY <1>1 DEF AccessInv, AccessTables
  <1>4. AccessAnswered'
    <2>1. answer'.command = m
      BY DEF Answers
    <2> QED BY <2>1 DEF AccessAnswered, AccessOnRecord
  <1>5. CallIsGranted(Idle)' /\ Idle \in AccessCall \cup {Idle}
    BY <1>1, <1>2, CallsStayGranted, IdleIsGranted
  <1>6. call' = [call EXCEPT ![c] = Idle]
    BY DEF End
  <1> QED BY <1>1, <1>2, <1>3, <1>4, <1>5, <1>6, TablesMove

LEMMA GrantIsRevoked ==
    ASSUME grants \in Seq(Grant), NEW i \in DOMAIN grants,
           grants' = [grants EXCEPT ![i].revoked = TRUE]
    PROVE  /\ GrantsKept /\ grants' \in Seq(Grant) /\ DOMAIN grants' = DOMAIN grants
           /\ grants'[i].revoked
           /\ \A j \in DOMAIN grants : j # i => grants'[j] = grants[j]
  <1>1. \A row \in Grant : [row EXCEPT !.revoked = TRUE] \in Grant
    BY RevokedHasItsType
  <1>2. PICK T : T = [grants EXCEPT ![i].revoked = TRUE]
    OBVIOUS
  <1>3. /\ T \in Seq(Grant) /\ Len(T) = Len(grants) /\ Len(grants) \in Nat
        /\ DOMAIN grants = 1..Len(grants) /\ DOMAIN T = 1..Len(grants)
        /\ T[i] = [grants[i] EXCEPT !.revoked = TRUE] /\ grants[i] \in Grant
        /\ \A j \in DOMAIN grants : j # i => T[j] = grants[j]
    BY <1>1, <1>2, RowIsRevoked
  <1>4. /\ T[i].principal = grants[i].principal /\ T[i].target = grants[i].target
        /\ T[i].by = grants[i].by /\ T[i].revoked
    BY <1>3, RevokedHasItsType
  <1>5. grants' = T
    BY <1>2
  <1>6. \A j \in DOMAIN grants : /\ T[j].principal = grants[j].principal
                                /\ T[j].target = grants[j].target
                                /\ T[j].by = grants[j].by
                                /\ grants[j].revoked => T[j].revoked
    BY <1>3, <1>4
  <1>7. /\ Len(grants) \in Nat /\ Len(grants') \in Nat /\ Len(grants) <= Len(grants')
        /\ DOMAIN grants = 1..Len(grants) /\ DOMAIN grants' = 1..Len(grants')
    BY <1>3, <1>5
  <1>8. \A j \in DOMAIN grants : /\ grants'[j].principal = grants[j].principal
                                /\ grants'[j].target = grants[j].target
                                /\ grants'[j].by = grants[j].by
                                /\ grants[j].revoked => grants'[j].revoked
    BY <1>5, <1>6
  <1>9. GrantsKept
    BY <1>7, <1>8 DEF GrantsKept
  <1> QED BY <1>3, <1>4, <1>5, <1>9

\* The operator's tables change, and no request does.
LEMMA OperatorMoves ==
    ASSUME AccessInv, AccessTables', GrantsKept, BindingsKept,
           UNCHANGED <<comments, call, answer>>, DOMAIN grants' = DOMAIN grants,
           lapsed \subseteq lapsed', lapsedBindings \subseteq lapsedBindings'
    PROVE  AccessInv'
  <1>1. RightsComeFromTheOperator' /\ CommentsAreGranted'
    BY RightsStayGranted, CommentsStayGranted DEF AccessInv
  <1>2. AccessAnswered'
    BY AnswerStays DEF AccessInv, CommentsKept
  <1>3. ASSUME NEW c \in Calls PROVE CallIsGranted(call[c])'
    <2>1. PICK q : q = call[c]
      OBVIOUS
    <2>2. CallIsGranted(q)'
      BY <2>1, CallsStayGranted DEF AccessInv, AccessCalls
    <2> QED BY <2>1, <2>2 DEF CallIsGranted
  <1> QED BY <1>1, <1>2, <1>3 DEF AccessInv, AccessCalls

LEMMA OperatorKeeps ==
    ASSUME AccessInv,
           \/ \E p \in Principals : CreatePrincipal(p) \/ DisablePrincipal(p)
           \/ \E i \in DOMAIN bindings : RevokeBinding(i) \/ LapseBinding(i)
           \/ \E i \in DOMAIN grants : RevokeGrant(i) \/ LapseGrant(i)
    PROVE  AccessInv'
  <1>1. ASSUME NEW p \in Principals, CreatePrincipal(p) \/ DisablePrincipal(p) PROVE AccessInv'
    <2>1. /\ principals' \in [Principals -> {"enabled", "disabled", None}]
          /\ UNCHANGED <<bindings, lapsedBindings, grants, lapsed, comments, call, answer>>
      BY <1>1 DEF CreatePrincipal, DisablePrincipal, bindingVars, grantVars, AccessInv, AccessTables
    <2>2. AccessTables'
      BY <2>1 DEF AccessInv, AccessTables
    <2> QED BY <2>1, <2>2, NothingMoved, OperatorMoves DEF AccessInv
  <1>2. ASSUME NEW i \in DOMAIN bindings, RevokeBinding(i) PROVE AccessInv'
    <2>1. /\ bindings' = [bindings EXCEPT ![i].revoked = TRUE]
          /\ UNCHANGED <<principals, lapsedBindings, grants, lapsed, comments, call, answer>>
      BY <1>2 DEF RevokeBinding, grantVars
    <2>2. bindings \in Seq(Binding)
      BY DEF AccessInv, AccessTables
    <2>3. \A row \in Binding : [row EXCEPT !.revoked = TRUE] \in Binding
      BY RevokedHasItsType
    <2>4. PICK T : T = [bindings EXCEPT ![i].revoked = TRUE]
      OBVIOUS
    <2>5. /\ T \in Seq(Binding) /\ DOMAIN T = DOMAIN bindings
          /\ T[i] = [bindings[i] EXCEPT !.revoked = TRUE] /\ bindings[i] \in Binding
          /\ \A j \in DOMAIN bindings : j # i => T[j] = bindings[j]
      BY <2>2, <2>3, <2>4, RowIsRevoked
    <2>6. BindingsKept
      BY <2>1, <2>4, <2>5, RevokedHasItsType DEF BindingsKept
    <2>7. AccessTables'
      BY <2>1, <2>4, <2>5 DEF AccessInv, AccessTables
    <2>8. GrantsKept
      <3>1. DOMAIN grants = 1..Len(grants) /\ Len(grants) \in Nat
        BY LenProperties DEF AccessInv, AccessTables
      <3> QED BY <2>1, <3>1 DEF GrantsKept
    <2> QED BY <2>1, <2>6, <2>7, <2>8, OperatorMoves
  <1>3. ASSUME NEW i \in DOMAIN grants, RevokeGrant(i) PROVE AccessInv'
    <2>1. /\ grants' = [grants EXCEPT ![i].revoked = TRUE]
          /\ UNCHANGED <<principals, bindings, lapsedBindings, lapsed, comments, call, answer>>
      BY <1>3 DEF RevokeGrant, bindingVars
    <2>2. grants \in Seq(Grant)
      BY DEF AccessInv, AccessTables
    <2>3. GrantsKept /\ grants' \in Seq(Grant) /\ DOMAIN grants' = DOMAIN grants
      BY <2>1, <2>2, GrantIsRevoked
    <2>4. AccessTables'
      BY <2>1, <2>3 DEF AccessInv, AccessTables
    <2> QED BY <2>1, <2>3, <2>4, OperatorMoves DEF BindingsKept
  <1>4. ASSUME NEW i \in DOMAIN bindings, LapseBinding(i) PROVE AccessInv'
    <2>1. /\ lapsedBindings' = lapsedBindings \cup {i}
          /\ UNCHANGED <<principals, bindings, grants, lapsed, comments, call, answer>>
      BY <1>4 DEF LapseBinding, grantVars
    <2>2. AccessTables'
      BY <2>1 DEF AccessInv, AccessTables
    <2> QED BY <2>1, <2>2, NothingMoved, OperatorMoves DEF AccessInv
  <1>5. ASSUME NEW i \in DOMAIN grants, LapseGrant(i) PROVE AccessInv'
    <2>1. /\ lapsed' = lapsed \cup {i}
          /\ UNCHANGED <<principals, bindings, lapsedBindings, grants, comments, call, answer>>
      BY <1>5 DEF LapseGrant, bindingVars
    <2>2. AccessTables'
      BY <2>1 DEF AccessInv, AccessTables
    <2> QED BY <2>1, <2>2, NothingMoved, OperatorMoves DEF AccessInv
  <1> QED BY <1>1, <1>2, <1>3, <1>4, <1>5

\* Requests that read and go on, or end.
LEMMA ReadersKeep ==
    ASSUME AccessInv, NEW c \in Calls,
           \/ \E m \in Commands : LookUpBinding(c, m) \/ LookUpGrant(c, m)
           \/ \E m \in Commands, i \in DOMAIN bindings : Resolve(c, m, i)
           \/ RequireProjectRead(c) \/ RequireManager(c) \/ GrantRemotely(c)
           \/ RequireComment(c) \/ RefuseAccess(c)
    PROVE  AccessInv'
  <1>1. lapsed \in SUBSET Nat /\ lapsedBindings \in SUBSET Nat
    <2>1. DOMAIN grants = 1..Len(grants) /\ DOMAIN bindings = 1..Len(bindings)
      BY LenProperties DEF AccessInv, AccessTables
    <2> QED BY <2>1 DEF AccessInv, AccessTables
  <1>2. AccessTables
    BY DEF AccessInv
  <1>3. ASSUME NEW m \in Commands, LookUpBinding(c, m) PROVE AccessInv'
    <2>1. PICK q : q = [pc |-> "binding", command |-> m, since |-> lapsedBindings]
      OBVIOUS
    <2>2. q \in AccessCall /\ CallIsGranted(q)
      BY <1>1, <1>3, <2>1 DEF AccessCall, CallIsGranted, LookUpBinding
    <2>3. UNCHANGED <<accessVars, answer>> /\ call' = [call EXCEPT ![c] = q]
      BY <1>3, <2>1 DEF LookUpBinding, Begin
    <2> QED BY <2>2, <2>3, RequestMoves
  <1>4. ASSUME NEW m \in Commands, LookUpGrant(c, m) PROVE AccessInv'
    <2>1. PICK q : q = [pc |-> "granting", command |-> m, by |-> None, since |-> lapsed]
      OBVIOUS
    <2>2. q \in AccessCall /\ CallIsGranted(q)
      BY <1>1, <1>4, <2>1 DEF AccessCall, CallIsGranted, LookUpGrant
    <2>3. UNCHANGED <<accessVars, answer>> /\ call' = [call EXCEPT ![c] = q]
      BY <1>4, <2>1 DEF LookUpGrant, Begin
    <2> QED BY <2>2, <2>3, RequestMoves
  <1>5. ASSUME NEW m \in Commands, NEW i \in DOMAIN bindings, Resolve(c, m, i) PROVE AccessInv'
    <2>1. PICK q : q = [pc |-> "resolved", command |-> m, by |-> bindings[i].principal]
      OBVIOUS
    <2>2. bindings[i].principal \in Principals
      <3>1. bindings[i] \in Binding
        BY <1>2 DEF AccessTables
      <3> QED BY <3>1 DEF Binding
    <2>3. q \in AccessCall /\ CallIsGranted(q)
      BY <1>5, <2>1, <2>2 DEF AccessCall, CallIsGranted, Resolve, RemoteCommand
    <2>4. UNCHANGED <<accessVars, answer>> /\ call' = [call EXCEPT ![c] = q]
      BY <1>5, <2>1 DEF Resolve, Begin
    <2> QED BY <2>3, <2>4, RequestMoves
  <1>6. CASE RequireProjectRead(c)
    <2>1. PICK old : old = call[c]
      OBVIOUS
    <2>2. old \in AccessCall /\ old.pc = "resolved" /\ CallIsGranted(old)
      BY <1>6, <2>1, CallFits DEF RequireProjectRead
    <2>3. PICK q : q = [pc |-> "reading", command |-> old.command, by |-> old.by,
                        since |-> lapsed, upto |-> Len(grants)]
      OBVIOUS
    <2>4. q \in AccessCall
      <3>1. Len(grants) \in Nat
        BY <1>2, LenProperties DEF AccessTables
      <3> QED BY <1>1, <2>2, <2>3, <3>1 DEF AccessCall
    <2>5. HeldNow(old.by, ProjectRead)
      BY <1>2, <1>6, <2>1, AccessIsHeld DEF RequireProjectRead
    <2>6. CallIsGranted(q)
      BY <2>2, <2>3, <2>5 DEF CallIsGranted
    <2>7. UNCHANGED <<accessVars, answer>> /\ call' = [call EXCEPT ![c] = q]
      BY <1>6, <2>1, <2>3 DEF RequireProjectRead, AccessInv, AccessCalls
    <2> QED BY <2>4, <2>6, <2>7, RequestMoves
  <1>7. CASE RequireManager(c)
    <2>1. PICK old : old = call[c]
      OBVIOUS
    <2>2. /\ old \in AccessCall /\ old.pc = "reading" /\ CallIsGranted(old)
          /\ old.command.op \in {"grant_remote", "revoke_remote"}
      BY <1>7, <2>1, CallFits DEF RequireManager
    <2>3. PICK q : q = [old EXCEPT !.pc = "managing"]
      OBVIOUS
    <2>4. /\ q \in AccessCall /\ q.pc = "managing" /\ q.command = old.command /\ q.by = old.by
          /\ q.since = old.since
      BY <2>2, <2>3 DEF AccessCall
    <2>5. HeldNow(old.by, ProjectManage)
      BY <1>2, <1>7, <2>1, AccessIsHeld DEF RequireManager
    <2>6. CallIsGranted(q)
      BY <2>2, <2>4, <2>5 DEF CallIsGranted
    <2>7. UNCHANGED <<accessVars, answer>> /\ call' = [call EXCEPT ![c] = q]
      BY <1>7, <2>1, <2>3 DEF RequireManager, AccessInv, AccessCalls
    <2> QED BY <2>4, <2>6, <2>7, RequestMoves
  <1>8. CASE GrantRemotely(c)
    <2>1. PICK old : old = call[c]
      OBVIOUS
    <2>2. /\ old \in AccessCall /\ old.pc = "managing" /\ CallIsGranted(old)
          /\ old.command.op = "grant_remote" /\ Grantable(c)
      BY <1>8, <2>1, CallFits DEF GrantRemotely
    <2>3. PICK q : q = [pc |-> "granting", command |-> old.command, by |-> old.by,
                        since |-> old.since]
      OBVIOUS
    <2>4. /\ q \in AccessCall /\ q.pc = "granting" /\ q.command = old.command /\ q.by = old.by
          /\ q.since = old.since
      BY <2>2, <2>3 DEF AccessCall
    <2>5. PICK m : m = old.command
      OBVIOUS
    <2>6. /\ m.target \in Targets /\ m.target[2] \in RemoteManageableActions
          /\ m.target[1] # "project" => HeldNow(m.principal, ProjectRead)
      BY <1>2, <2>1, <2>2, <2>5, AccessIsHeld DEF Grantable, CallIsGranted, RemoteCommand
    <2>7. /\ m.target # ProjectManage
          /\ m.target # ProjectRead => HeldNow(m.principal, ProjectRead)
      BY <2>6, RemoteTargets
    <2>8. CallIsGranted(q)
      BY <2>2, <2>4, <2>5, <2>6, <2>7 DEF CallIsGranted
    <2>9. UNCHANGED <<accessVars, answer>> /\ call' = [call EXCEPT ![c] = q]
      BY <1>8, <2>1, <2>3 DEF GrantRemotely, AccessInv, AccessCalls
    <2> QED BY <2>4, <2>8, <2>9, RequestMoves
  <1>9. CASE RequireComment(c)
    <2>1. PICK old : old = call[c]
      OBVIOUS
    <2>2. /\ old \in AccessCall /\ old.pc = "reading" /\ CallIsGranted(old)
          /\ old.command.op = "comment"
          /\ Commentable(old.by, old.command.revision, old.since, old.upto)
      BY <1>9, <2>1, CallFits DEF RequireComment
    <2>3. PICK q : q = [pc |-> "commenting", command |-> old.command, by |-> old.by]
      OBVIOUS
    <2>4. q \in AccessCall /\ q.pc = "commenting" /\ q.command = old.command /\ q.by = old.by
      BY <2>2, <2>3 DEF AccessCall
    <2>5. \A right \in {"document.read", "document.comment"} :
             HeldNow(old.by, <<DocumentOf[old.command.revision], right>>)
      BY <1>2, <2>2, AccessIsHeld DEF Commentable
    <2>6. CallIsGranted(q)
      BY <2>2, <2>4, <2>5 DEF CallIsGranted
    <2>7. UNCHANGED <<accessVars, answer>> /\ call' = [call EXCEPT ![c] = q]
      BY <1>9, <2>1, <2>3 DEF RequireComment, AccessInv, AccessCalls
    <2> QED BY <2>4, <2>6, <2>7, RequestMoves
  <1>10. CASE RefuseAccess(c)
    <2>1. UNCHANGED <<accessVars, answer>> /\ call' = [call EXCEPT ![c] = Idle]
      BY <1>10 DEF RefuseAccess, Refused, End
    <2> QED BY <2>1, IdleIsGranted, RequestMoves
  <1> QED BY <1>3, <1>4, <1>5, <1>6, <1>7, <1>8, <1>9, <1>10

\* Requests that are answered, and write nothing.
LEMMA AnsweredKeep ==
    ASSUME AccessInv, NEW c \in Calls, ListDocuments(c) \/ ReplayGrant(c) \/ ReplayComment(c)
    PROVE  AccessInv'
  <1>1. PICK q : q = call[c]
    OBVIOUS
  <1>2. PICK m : m = q.command
    OBVIOUS
  <1>3. DOMAIN grants = 1..Len(grants) /\ Len(grants) \in Nat
    BY LenProperties DEF AccessInv, AccessTables
  <1>4. CASE ListDocuments(c)
    <2>1. PICK v : v = [by |-> q.by,
             documents |-> {d \in SharedDocuments :
                GrantsInForce(q.by, <<d, "document.read">>, q.since, q.upto) # {}}]
      OBVIOUS
    <2>2. UNCHANGED accessVars /\ End(c) /\ Answers(m, v) /\ m.op = "documents"
      BY <1>1, <1>2, <1>4, <2>1 DEF ListDocuments
    <2>3. ASSUME NEW d \in v.documents PROVE HeldNow(v.by, <<d, "document.read">>)
      <3>1. PICK i \in DOMAIN grants : /\ grants[i].principal = q.by
                                       /\ grants[i].target = <<d, "document.read">>
        BY <2>1, <2>3 DEF GrantsInForce
      <3>2. i \in 1..((Len(grants) + 1) - 1) /\ v.by = q.by
        BY <1>3, <2>1, <3>1
      <3> QED BY <3>1, <3>2 DEF HeldNow, Held
    <2>4. answer'.expected = v /\ UNCHANGED grants
      BY <2>2 DEF Answers, accessVars, grantVars
    <2>5. AccessOnRecord(m)'
      BY <2>2, <2>3, <2>4 DEF AccessOnRecord, HeldNow, Held
    <2> QED BY <2>2, <2>5, RequestIsAnswered
  <1>5. CASE ReplayGrant(c)
    <2>1. /\ UNCHANGED accessVars /\ End(c) /\ Answers(m, q.by) /\ m.op = "grant_remote"
          /\ GrantsInForce(m.principal, m.target, q.since, q.upto) # {}
      BY <1>1, <1>2, <1>5 DEF ReplayGrant
    <2>2. AccessOnRecord(m)'
      BY <2>1 DEF AccessOnRecord, GrantsInForce, accessVars, grantVars
    <2> QED BY <2>1, <2>2, RequestIsAnswered
  <1>6. CASE ReplayComment(c)
    <2>1. /\ UNCHANGED accessVars /\ End(c) /\ Answers(m, q.by) /\ q.pc = "commenting"
          /\ \E j \in CommentOf(m.key) : comments[j].revision = m.revision /\ comments[j].by = q.by
      BY <1>1, <1>2, <1>6 DEF ReplayComment, Step
    <2>2. m.op = "comment"
      BY <1>1, <1>2, <1>6, <2>1, CallFits DEF ReplayComment, CallIsGranted
    <2>3. answer'.expected = q.by /\ UNCHANGED comments
      BY <2>1 DEF Answers, accessVars
    <2>4. AccessOnRecord(m)'
      BY <2>1, <2>2, <2>3 DEF AccessOnRecord, CommentOf
    <2> QED BY <2>1, <2>2, <2>4, RequestIsAnswered
  <1> QED BY <1>4, <1>5, <1>6

-----------------------------------------------------------------------------
(* Requests that write.                                                    *)

\* What the trigger leaves open of a tuple had neither lapsed nor been revoked.
LEMMA NothingElseIsOpen ==
    ASSUME NEW rows, NEW same, same \subseteq DOMAIN rows, NEW since, Insertable(rows, same, since)
    PROVE  \A i \in same : i \in since \/ rows[i].revoked
  <1> SUFFICES ASSUME NEW i \in same, i \notin since PROVE rows[i].revoked
    OBVIOUS
  <1>1. RetireLapsed(rows, same, since)[i] = rows[i]
    BY DEF RetireLapsed
  <1>2. Open(RetireLapsed(rows, same, since), same) = {}
    BY DEF Insertable
  <1> QED BY <1>1, <1>2 DEF Open

LEMMA BindingIsInserted ==
    ASSUME AccessInv, NEW c \in Calls, InsertBinding(c)
    PROVE  /\ AccessInv'
           /\ UNCHANGED grants
           /\ \A i \in DOMAIN bindings' \ DOMAIN bindings :
                 BindingsInForce(bindings'[i].identity, lapsedBindings) = {}
           /\ \A k \in DOMAIN bindings : bindings'[k] # bindings[k] => k \in lapsedBindings
  <1>1. PICK q : q = call[c]
    OBVIOUS
  <1>2. PICK m : m = q.command
    OBVIOUS
  <1>3. q \in AccessCall /\ q.pc = "binding" /\ CallIsGranted(q)
    BY <1>1, CallFits DEF InsertBinding
  <1>4. m \in Commands /\ m.op = "bind" /\ q.since \subseteq lapsedBindings
    BY <1>2, <1>3 DEF AccessCall, CallIsGranted
  <1>5. PICK same : same = {i \in DOMAIN bindings : bindings[i].identity = m.identity}
    OBVIOUS
  <1>6. PICK row : row = [principal |-> m.principal, identity |-> m.identity,
                          limited |-> m.limited, revoked |-> FALSE]
    OBVIOUS
  <1>7. row \in Binding
    BY <1>4, <1>6, AccessAskedFits DEF Binding
  <1> PICK since : since = q.since
    OBVIOUS
  <1>8. PICK T : T = Inserted(bindings, same, since, row)
    OBVIOUS
  <1>9. /\ Insertable(bindings, same, since) /\ bindings' = T
        /\ Answers(m, None) /\ End(c)
        /\ UNCHANGED <<principals, lapsedBindings, grants, lapsed, comments>>
    BY <1>1, <1>2, <1>5, <1>6, <1>8 DEF InsertBinding, grantVars, Inserted
  <1>10. bindings \in Seq(Binding)
    BY DEF AccessInv, AccessTables
  <1>11. \A r \in Binding : Revoked(r) \in Binding
    BY RevokedHasItsType DEF Revoked
  <1>12. /\ T \in Seq(Binding) /\ Len(bindings) \in Nat
         /\ DOMAIN bindings = 1..Len(bindings) /\ DOMAIN T = 1..(Len(bindings) + 1)
         /\ T[Len(bindings) + 1] = row
         /\ \A i \in DOMAIN bindings : bindings[i] \in Binding
         /\ \A i \in DOMAIN bindings : T[i] # bindings[i] =>
               i \in since /\ T[i] = Revoked(bindings[i])
    <2>1. /\ T \in Seq(Binding)
          /\ DOMAIN bindings = 1..Len(bindings) /\ DOMAIN T = 1..(Len(bindings) + 1)
          /\ T[Len(bindings) + 1] = row
          /\ \A i \in DOMAIN bindings : T[i] # bindings[i] =>
               i \in since /\ T[i] = Revoked(bindings[i])
      BY <1>7, <1>8, <1>10, <1>11, RowIsInserted
    <2> QED BY <1>10, <2>1, LenProperties
  <1>13. BindingsKept
    <2>1. bindings' = T
      BY <1>9
    <2>2. \A i \in DOMAIN bindings : i \in DOMAIN T
      BY <1>12
    <2>3. \A i \in DOMAIN bindings : /\ T[i].principal = bindings[i].principal
                                    /\ T[i].identity = bindings[i].identity
      BY <1>12, RevokedHasItsType DEF Revoked
    <2> QED BY <2>1, <2>2, <2>3 DEF BindingsKept
  <1>14. GrantsKept
    <2>1. DOMAIN grants = 1..Len(grants) /\ Len(grants) \in Nat
      BY LenProperties DEF AccessInv, AccessTables
    <2> QED BY <1>9, <2>1 DEF GrantsKept
  <1>15. AccessTables'
    BY <1>9, <1>12 DEF AccessInv, AccessTables
  <1>16. AccessAnswered'
    <2>1. answer'.command = m
      BY <1>9 DEF Answers
    <2>2. /\ bindings'[Len(bindings) + 1].principal = m.principal
          /\ bindings'[Len(bindings) + 1].identity = m.identity
          /\ Len(bindings) + 1 \in DOMAIN bindings'
      BY <1>6, <1>9, <1>12
    <2>3. AccessOnRecord(m)'
      BY <1>4, <2>2 DEF AccessOnRecord
    <2> QED BY <1>4, <2>1, <2>3 DEF AccessAnswered
  <1>17. CallIsGranted(Idle)'
    BY <1>9, <1>14, CallsStayGranted, IdleIsGranted
  <1>18. AccessInv'
    <2>1. call' = [call EXCEPT ![c] = Idle]
      BY <1>9 DEF End
    <2> QED BY <1>9, <1>13, <1>14, <1>15, <1>16, <1>17, <2>1, IdleIsGranted, TablesMove
  <1>19. \A i \in same : i \in q.since \/ bindings[i].revoked
    BY <1>5, <1>9, NothingElseIsOpen
  <1>20. BindingsInForce(m.identity, lapsedBindings) = {}
    BY <1>4, <1>5, <1>19 DEF BindingsInForce
  <1>21. \A i \in DOMAIN bindings' \ DOMAIN bindings : bindings'[i].identity = m.identity
    BY <1>6, <1>9, <1>12
  <1>22. \A k \in DOMAIN bindings : bindings'[k] # bindings[k] => k \in lapsedBindings
    BY <1>4, <1>9, <1>12
  <1> QED BY <1>9, <1>18, <1>20, <1>21, <1>22

LEMMA GrantIsInserted ==
    ASSUME AccessInv, NEW c \in Calls, InsertGrant(c)
    PROVE  /\ AccessInv'
           /\ UNCHANGED bindings
           /\ \A i \in DOMAIN grants' \ DOMAIN grants :
                 GrantsInForce(grants'[i].principal, grants'[i].target, lapsed, Len(grants)) = {}
           /\ \A k \in DOMAIN grants : grants'[k] # grants[k] => k \in lapsed
  <1>1. PICK q : q = call[c]
    OBVIOUS
  <1>2. PICK m : m = q.command
    OBVIOUS
  <1>3. q \in AccessCall /\ q.pc = "granting" /\ CallIsGranted(q)
    BY <1>1, CallFits DEF InsertGrant
  <1>4. /\ m \in Commands /\ m.op \in {"grant", "grant_remote"} /\ q.since \subseteq lapsed
        /\ m.target \in Targets /\ q.by \in Principals \cup {None}
    BY <1>2, <1>3 DEF AccessCall, CallIsGranted
  <1>5. PICK same : same = {i \in DOMAIN grants :
                              grants[i].principal = m.principal /\ grants[i].target = m.target}
    OBVIOUS
  <1>6. PICK row : row = [principal |-> m.principal, target |-> m.target, by |-> q.by,
                          limited |-> m.limited, revoked |-> FALSE]
    OBVIOUS
  <1>7. row \in Grant
    BY <1>4, <1>6, AccessAskedFits DEF Grant
  <1> PICK since : since = q.since
    OBVIOUS
  <1>8. PICK T : T = Inserted(grants, same, since, row)
    OBVIOUS
  <1>9. /\ Insertable(grants, same, since) /\ grants' = T
        /\ Answers(m, q.by) /\ End(c)
        /\ UNCHANGED <<principals, bindings, lapsedBindings, lapsed, comments>>
    BY <1>1, <1>2, <1>5, <1>6, <1>8 DEF InsertGrant, bindingVars, Inserted
  <1>10. grants \in Seq(Grant)
    BY DEF AccessInv, AccessTables
  <1>11. \A r \in Grant : Revoked(r) \in Grant
    BY RevokedHasItsType DEF Revoked
  <1>12. /\ T \in Seq(Grant) /\ Len(grants) \in Nat /\ Len(T) = Len(grants) + 1
         /\ DOMAIN grants = 1..Len(grants) /\ DOMAIN T = 1..(Len(grants) + 1)
         /\ T[Len(grants) + 1] = row
         /\ \A i \in DOMAIN grants : grants[i] \in Grant
         /\ \A i \in DOMAIN grants : T[i] # grants[i] =>
               i \in since /\ T[i] = Revoked(grants[i])
    <2>1. /\ T \in Seq(Grant) /\ Len(T) = Len(grants) + 1
          /\ DOMAIN grants = 1..Len(grants) /\ DOMAIN T = 1..(Len(grants) + 1)
          /\ T[Len(grants) + 1] = row
          /\ \A i \in DOMAIN grants : T[i] # grants[i] =>
               i \in since /\ T[i] = Revoked(grants[i])
      BY <1>7, <1>8, <1>10, <1>11, RowIsInserted
    <2> QED BY <1>10, <2>1, LenProperties
  <1>13. /\ \A i \in DOMAIN grants : /\ T[i].principal = grants[i].principal
                                    /\ T[i].target = grants[i].target
                                    /\ T[i].by = grants[i].by
         /\ \A i \in DOMAIN grants : grants[i].revoked => T[i].revoked
    BY <1>12, RevokedHasItsType DEF Revoked
  <1>14. GrantsKept
    <2>1. grants' = T
      BY <1>9
    <2>2. /\ Len(grants) \in Nat /\ Len(T) \in Nat /\ Len(grants) <= Len(T)
          /\ DOMAIN grants = 1..Len(grants) /\ DOMAIN T = 1..Len(T)
      BY <1>12
    <2> QED BY <1>13, <2>1, <2>2 DEF GrantsKept
  <1>15. AccessTables'
    BY <1>9, <1>12 DEF AccessInv, AccessTables
  <1>16. AccessAnswered'
    <2>1. answer'.command = m
      BY <1>9 DEF Answers
    <2>2. /\ grants'[Len(grants) + 1].principal = m.principal
          /\ grants'[Len(grants) + 1].target = m.target
          /\ Len(grants) + 1 \in DOMAIN grants'
      BY <1>6, <1>9, <1>12
    <2>3. AccessOnRecord(m)'
      BY <1>4, <2>2 DEF AccessOnRecord
    <2> QED BY <1>4, <2>1, <2>3 DEF AccessAnswered
  <1>17. CallIsGranted(Idle)'
    BY <1>9, <1>14, CallsStayGranted, IdleIsGranted
  <1>18. \A i \in DOMAIN grants' \ DOMAIN grants : RightIsGranted(i)'
    <2> SUFFICES ASSUME NEW i \in DOMAIN grants' \ DOMAIN grants PROVE RightIsGranted(i)'
      OBVIOUS
    <2>1. i = Len(grants) + 1 /\ grants'[i] = row
      BY <1>9, <1>12
    <2>2. \A p, target : HeldNow(p, target) => Held(p, target, i)'
      <3>1. \A k \in 1..Len(grants) : /\ grants'[k].principal = grants[k].principal
                                      /\ grants'[k].target = grants[k].target
        <4>1. grants' = T
          BY <1>9
        <4>2. DOMAIN grants = 1..Len(grants)
          BY <1>12
        <4> QED BY <1>13, <4>1, <4>2
      <3>2. (Len(grants) + 1) - 1 = Len(grants)
        BY <1>12
      <3> QED BY <2>1, <3>1, <3>2 DEF HeldNow, Held
    <2>3. q.by # None => /\ HeldNow(q.by, ProjectRead) /\ HeldNow(q.by, ProjectManage)
                         /\ m.target # ProjectManage
                         /\ m.target # ProjectRead => HeldNow(m.principal, ProjectRead)
      BY <1>2, <1>3 DEF CallIsGranted
    <2>4. row.by = q.by /\ row.target = m.target /\ row.principal = m.principal
      BY <1>6
    <2> QED BY <2>1, <2>2, <2>3, <2>4 DEF RightIsGranted, ProjectRead, ProjectManage
  <1>19. AccessInv'
    <2>1. call' = [call EXCEPT ![c] = Idle]
      BY <1>9 DEF End
    <2>2. BindingsKept
      BY <1>9 DEF BindingsKept
    <2> QED BY <1>9, <1>14, <1>15, <1>16, <1>17, <1>18, <2>1, <2>2, IdleIsGranted, TablesMove
  <1>20. \A i \in same : i \in q.since \/ grants[i].revoked
    BY <1>5, <1>9, NothingElseIsOpen
  <1>21. GrantsInForce(m.principal, m.target, lapsed, Len(grants)) = {}
    BY <1>4, <1>5, <1>20 DEF GrantsInForce
  <1>22. \A i \in DOMAIN grants' \ DOMAIN grants :
            grants'[i].principal = m.principal /\ grants'[i].target = m.target
    BY <1>6, <1>9, <1>12
  <1>23. \A k \in DOMAIN grants : grants'[k] # grants[k] => k \in lapsed
    BY <1>4, <1>9, <1>12
  <1> QED BY <1>9, <1>19, <1>21, <1>22, <1>23

LEMMA RemoteRevocationKeeps ==
    ASSUME AccessInv, NEW c \in Calls, NEW i \in DOMAIN grants, RevokeRemotely(c, i)
    PROVE  AccessInv' /\ UNCHANGED bindings /\ DOMAIN grants' = DOMAIN grants
  <1>1. PICK m : m = call[c].command
    OBVIOUS
  <1>2. /\ grants' = [grants EXCEPT ![i].revoked = TRUE] /\ m.op = "revoke_remote"
        /\ Answers(m, i) /\ End(c)
        /\ UNCHANGED <<principals, bindings, lapsedBindings, lapsed, comments>>
    BY <1>1 DEF RevokeRemotely, bindingVars
  <1>3. grants \in Seq(Grant)
    BY DEF AccessInv, AccessTables
  <1>4. /\ GrantsKept /\ grants' \in Seq(Grant) /\ DOMAIN grants' = DOMAIN grants
        /\ grants'[i].revoked
    BY <1>2, <1>3, GrantIsRevoked
  <1>5. AccessTables'
    BY <1>2, <1>4 DEF AccessInv, AccessTables
  <1>6. AccessAnswered'
    <2>1. answer'.command = m /\ answer'.expected = i
      BY <1>2 DEF Answers
    <2>2. AccessOnRecord(m)'
      BY <1>2, <1>4, <2>1 DEF AccessOnRecord
    <2> QED BY <1>4, <2>1, <2>2 DEF AccessAnswered
  <1>7. CallIsGranted(Idle)' /\ call' = [call EXCEPT ![c] = Idle]
    BY <1>2, <1>4, CallsStayGranted, IdleIsGranted DEF End
  <1>8. BindingsKept
    BY <1>2 DEF BindingsKept
  <1> QED BY <1>2, <1>4, <1>5, <1>6, <1>7, <1>8, IdleIsGranted, TablesMove

\* The comment is new, and its parent is on its revision.
LEMMA CommentIsCreated ==
    ASSUME AccessInv, NEW c \in Calls, NEW parent \in 0..Len(comments), CreateComment(c, parent)
    PROVE  AccessInv' /\ UNCHANGED <<bindings, grants>>
  <1>1. PICK q : q = call[c]
    OBVIOUS
  <1>2. PICK m : m = q.command
    OBVIOUS
  <1>3. q \in AccessCall /\ q.pc = "commenting" /\ CallIsGranted(q)
    BY <1>1, CallFits DEF CreateComment
  <1>4. /\ m \in Commands /\ m.op = "comment" /\ q.by \in Principals
        /\ HeldNow(q.by, ProjectRead)
        /\ \A right \in {"document.read", "document.comment"} :
              HeldNow(q.by, <<DocumentOf[m.revision], right>>)
    BY <1>2, <1>3 DEF AccessCall, CallIsGranted
  <1>5. PICK row : row = [key |-> m.key, revision |-> m.revision, parent |-> parent, by |-> q.by]
    OBVIOUS
  <1>6. /\ CommentOf(m.key) = {} /\ parent \in ParentOf(m)
        /\ comments' = Append(comments, row) /\ Answers(m, q.by) /\ End(c)
        /\ UNCHANGED <<principals, bindings, lapsedBindings, grants, lapsed>>
    BY <1>1, <1>2, <1>5 DEF CreateComment, bindingVars, grantVars
  <1>7. comments \in Seq(Comment) /\ Len(comments) \in Nat /\ DOMAIN comments = 1..Len(comments)
    BY LenProperties DEF AccessInv, AccessTables
  <1>8. row \in Comment
    BY <1>4, <1>5, <1>7, AccessAskedFits DEF Comment
  <1>9. /\ comments' \in Seq(Comment) /\ DOMAIN comments' = 1..(Len(comments) + 1)
        /\ comments'[Len(comments) + 1] = row
        /\ \A j \in DOMAIN comments : comments'[j] = comments[j]
    BY <1>6, <1>7, <1>8
  <1>10. GrantsKept
    <2>1. DOMAIN grants = 1..Len(grants) /\ Len(grants) \in Nat
      BY LenProperties DEF AccessInv, AccessTables
    <2> QED BY <1>6, <2>1 DEF GrantsKept
  <1>11. AccessTables'
    BY <1>6, <1>9 DEF AccessInv, AccessTables
  <1>12. RightsComeFromTheOperator'
    BY <1>6, <1>10, RightsStayGranted DEF AccessInv
  <1>13. \A p, target : HeldNow(p, target) => HeldNow(p, target)'
    BY <1>10, HeldStays
  <1>14. ASSUME NEW j \in DOMAIN comments' PROVE CommentIsGranted(j)'
    <2>1. \A k \in DOMAIN comments : CommentIsGranted(k)
      BY DEF AccessInv, CommentsAreGranted, CommentIsGranted, HeldNow
    <2>2. \A k \in DOMAIN comments : comments[k].key # m.key
      BY <1>6 DEF CommentOf
    <2>3. CASE j \in DOMAIN comments
      <3>1. PICK comment : comment = comments[j]
        OBVIOUS
      <3>2. comment.key # m.key /\ comments'[j] = comment /\ row.key = m.key
        BY <1>5, <1>9, <2>2, <2>3, <3>1
      <3>3. /\ HeldNow(comment.by, ProjectRead)'
            /\ \A right \in {"document.read", "document.comment"} :
                  HeldNow(comment.by, <<DocumentOf[comment.revision], right>>)'
        BY <1>13, <2>1, <2>3, <3>1 DEF CommentIsGranted
      <3>4. comment.parent # 0 => /\ comment.parent < j
                                  /\ comments'[comment.parent].revision = comment.revision
        <4>1. comment.parent # 0 => /\ comment.parent < j
                                    /\ comments[comment.parent].revision = comment.revision
          BY <2>1, <2>3, <3>1 DEF CommentIsGranted
        <4>2. comments[j] \in Comment
          BY <1>7, <2>3
        <4>3. comment.parent \in Nat
          BY <3>1, <4>2 DEF Comment
        <4>4. comment.parent # 0 => comment.parent \in DOMAIN comments
          BY <1>7, <2>3, <4>1, <4>3
        <4> QED BY <1>9, <4>1, <4>4
      <3>5. \A k \in DOMAIN comments' : comments'[k].key = comment.key => k = j
        <4>1. \A k \in DOMAIN comments : comments[k].key = comment.key => k = j
          BY <2>1, <2>3, <3>1 DEF CommentIsGranted
        <4> QED BY <1>7, <1>9, <3>2, <4>1
      <3> QED BY <3>2, <3>3, <3>4, <3>5 DEF CommentIsGranted
    <2>4. CASE j \notin DOMAIN comments
      <3>1. j = Len(comments) + 1 /\ comments'[j] = row
        BY <1>7, <1>9, <2>4
      <3>2. /\ HeldNow(q.by, ProjectRead)'
            /\ \A right \in {"document.read", "document.comment"} :
                  HeldNow(q.by, <<DocumentOf[m.revision], right>>)'
        BY <1>4, <1>13
      <3>3. parent # 0 => /\ parent < j
                          /\ comments'[parent].revision = m.revision
        <4>1. parent # 0 => parent \in DOMAIN comments /\ comments[parent].revision = m.revision
          BY <1>6 DEF ParentOf, CommentOf
        <4> QED BY <1>7, <1>9, <3>1, <4>1
      <3>4. \A k \in DOMAIN comments' : comments'[k].key = m.key => k = j
        BY <1>7, <1>9, <2>2, <3>1
      <3>5. row.by = q.by /\ row.revision = m.revision /\ row.parent = parent /\ row.key = m.key
        BY <1>5
      <3> QED BY <3>1, <3>2, <3>3, <3>4, <3>5 DEF CommentIsGranted
    <2> QED BY <2>3, <2>4
  <1>15. CommentsAreGranted'
    BY <1>14 DEF CommentsAreGranted, CommentIsGranted, HeldNow
  <1>16. AccessAnswered'
    <2>1. answer'.command = m /\ answer'.expected = q.by
      BY <1>6 DEF Answers
    <2>2. /\ Len(comments) + 1 \in DOMAIN comments'
          /\ comments'[Len(comments) + 1].key = m.key
          /\ comments'[Len(comments) + 1].by = q.by
          /\ comments'[Len(comments) + 1].revision = m.revision
      BY <1>5, <1>7, <1>9
    <2>3. AccessOnRecord(m)'
      BY <1>4, <2>1, <2>2 DEF AccessOnRecord, CommentOf
    <2> QED BY <1>4, <2>1, <2>3 DEF AccessAnswered
  <1>17. AccessCalls'
    <2>1. call' = [call EXCEPT ![c] = Idle]
      BY <1>6 DEF End
    <2>2. call' \in [Calls -> AccessCall \cup {Idle}]
      BY <2>1 DEF AccessInv, AccessCalls
    <2>3. ASSUME NEW d \in Calls PROVE CallIsGranted(call[d])'
      <3>1. PICK r : r = call'[d]
        OBVIOUS
      <3>2. r = IF d = c THEN Idle ELSE call[d]
        BY <2>1, <3>1 DEF AccessInv, AccessCalls
      <3>3. CallIsGranted(r)
        BY <3>2, IdleIsGranted DEF AccessInv, AccessCalls
      <3>4. CallIsGranted(r)'
        BY <1>6, <1>10, <3>3, CallsStayGranted
      <3> QED BY <3>1, <3>4 DEF CallIsGranted
    <2> QED BY <2>2, <2>3 DEF AccessCalls
  <1> QED BY <1>6, <1>11, <1>12, <1>15, <1>16, <1>17 DEF AccessInv

LEMMA AccessStartsGranted ==
    ASSUME AccessInit, RequestsInit
    PROVE  AccessInv
  <1>1. /\ bindings = <<>> /\ grants = <<>> /\ comments = <<>>
        /\ lapsed = {} /\ lapsedBindings = {} /\ answer = None
        /\ principals \in [Principals -> {"enabled", "disabled", None}]
        /\ call \in [Calls -> {Idle}]
    BY DEF AccessInit, RequestsInit
  <1>2. AccessTables
    BY <1>1 DEF AccessTables
  <1>3. AccessCalls
    BY <1>1, IdleIsGranted DEF AccessCalls
  <1>4. DOMAIN grants = {} /\ DOMAIN comments = {}
    BY <1>1
  <1>5. RightsComeFromTheOperator /\ CommentsAreGranted
    BY <1>4 DEF RightsComeFromTheOperator, CommentsAreGranted
  <1> QED BY <1>1, <1>2, <1>3, <1>5 DEF AccessInv, AccessAnswered

LEMMA AccessStepKeeps ==
    ASSUME AccessInv, [AccessNext]_<<accessVars, requestVars>>
    PROVE  AccessInv'
  <1>1. CASE UNCHANGED <<accessVars, requestVars>>
    <2>1. UNCHANGED <<principals, bindings, lapsedBindings, grants, lapsed, comments, call, answer>>
      BY <1>1 DEF accessVars, bindingVars, grantVars, requestVars
    <2>2. AccessTables'
      BY <2>1 DEF AccessInv, AccessTables
    <2> QED BY <2>1, <2>2, NothingMoved, OperatorMoves DEF AccessInv
  <1>2. CASE AccessNext
    BY <1>2, OperatorKeeps, OperatorIsAnswered, ReadersKeep, AnsweredKeep, BindingIsInserted,
       GrantIsInserted, RemoteRevocationKeeps, CommentIsCreated DEF AccessNext
  <1> QED BY <1>1, <1>2

LEMMA AccessInvariant == AccessSpec => []AccessInv
  BY AccessStartsGranted, AccessStepKeeps, PTL DEF AccessSpec

\* OnlyGrantedActs holds of every behaviour: a right that was granted remotely
\* rests on the operator's own grants, a comment on the rights of its author, and
\* a success that was answered is on record, however the statements of requests,
\* revocations and lapses interleave.
THEOREM WhoActsWasGranted == AccessSpec => []OnlyGrantedActs
  <1>1. AccessInv => OnlyGrantedActs
    <2> SUFFICES ASSUME AccessInv PROVE OnlyGrantedActs
      OBVIOUS
    <2>1. AccessTypeOK
      <3>1. /\ \A i \in DOMAIN bindings : bindings[i] \in Binding
            /\ \A i \in DOMAIN grants : grants[i] \in Grant
            /\ \A j \in DOMAIN comments : comments[j] \in Comment
        BY LenProperties DEF AccessInv, AccessTables
      <3> QED BY <3>1 DEF AccessTypeOK, AccessInv, AccessTables
    <2> QED BY <2>1 DEF OnlyGrantedActs, AccessInv, AccessAnswered
  <1> QED BY <1>1, AccessInvariant, PTL

\* NothingIsTakenOver holds of every behaviour: the lookup, the trigger and the
\* unique index let no binding or grant in beside one that is in force, and what
\* the trigger retires had lapsed.
THEOREM RightsAreNotTakenOver == AccessSpec => NothingIsTakenOver
  <1> DEFINE Untouched ==
        /\ \A i \in DOMAIN bindings' \ DOMAIN bindings :
              /\ BindingsInForce(bindings'[i].identity, lapsedBindings) = {}
              /\ \A k \in DOMAIN bindings :
                    bindings'[k] # bindings[k] => k \in lapsedBindings
        /\ \A i \in DOMAIN grants' \ DOMAIN grants :
              /\ GrantsInForce(grants'[i].principal, grants'[i].target, lapsed, Len(grants)) = {}
              /\ \A k \in DOMAIN grants : grants'[k] # grants[k] => k \in lapsed
  <1>1. AccessInv /\ [AccessNext]_<<accessVars, requestVars>> => [Untouched]_accessVars
    <2> SUFFICES ASSUME AccessInv, [AccessNext]_<<accessVars, requestVars>> PROVE Untouched
      OBVIOUS
    <2>1. ASSUME DOMAIN bindings' = DOMAIN bindings, DOMAIN grants' = DOMAIN grants
          PROVE  Untouched
      BY <2>1
    <2>2. ASSUME NEW i \in DOMAIN bindings, RevokeBinding(i) PROVE Untouched
      BY <2>1, <2>2 DEF RevokeBinding, grantVars
    <2>3. ASSUME NEW i \in DOMAIN grants, RevokeGrant(i) PROVE Untouched
      BY <2>1, <2>3 DEF RevokeGrant, bindingVars
    <2>4. ASSUME NEW i \in DOMAIN bindings, LapseBinding(i) PROVE Untouched
      BY <2>1, <2>4 DEF LapseBinding, grantVars
    <2>5. ASSUME NEW i \in DOMAIN grants, LapseGrant(i) PROVE Untouched
      BY <2>1, <2>5 DEF LapseGrant, bindingVars
    <2>6. ASSUME NEW c \in Calls, InsertBinding(c) PROVE Untouched
      BY <2>6, BindingIsInserted
    <2>7. ASSUME NEW c \in Calls, InsertGrant(c) PROVE Untouched
      BY <2>7, GrantIsInserted
    <2>8. ASSUME NEW c \in Calls, NEW i \in DOMAIN grants, RevokeRemotely(c, i) PROVE Untouched
      BY <2>1, <2>8, RemoteRevocationKeeps
    <2>9. ASSUME NEW c \in Calls, NEW j \in 0..Len(comments), CreateComment(c, j) PROVE Untouched
      BY <2>1, <2>9, CommentIsCreated
    <2>10. ASSUME UNCHANGED <<bindings, grants>> PROVE Untouched
      BY <2>1, <2>10
    <2>11. ASSUME NEW p \in Principals, CreatePrincipal(p) \/ DisablePrincipal(p) PROVE Untouched
      BY <2>10, <2>11 DEF CreatePrincipal, DisablePrincipal, bindingVars, grantVars
    <2>12. ASSUME NEW c \in Calls, NEW m \in Commands,
                  \/ LookUpBinding(c, m) \/ LookUpGrant(c, m)
                  \/ \E i \in DOMAIN bindings : Resolve(c, m, i)
           PROVE  Untouched
      BY <2>10, <2>12 DEF LookUpBinding, LookUpGrant, Resolve, accessVars, bindingVars, grantVars
    <2>13. ASSUME NEW c \in Calls,
                  \/ RequireProjectRead(c) \/ ListDocuments(c) \/ RequireManager(c)
                  \/ GrantRemotely(c) \/ ReplayGrant(c) \/ RequireComment(c) \/ ReplayComment(c)
                  \/ RefuseAccess(c)
           PROVE  Untouched
      BY <2>10, <2>13 DEF RequireProjectRead, ListDocuments, RequireManager, GrantRemotely,
            ReplayGrant, RequireComment, ReplayComment, RefuseAccess, accessVars, bindingVars,
            grantVars
    <2>14. ASSUME NEW m \in Commands, ReplayBinding(m) \/ ReplayOperatorGrant(m)
           PROVE  Untouched
      BY <2>10, <2>14, OperatorIsAnswered
    <2>15. CASE UNCHANGED <<accessVars, requestVars>>
      BY <2>10, <2>15 DEF accessVars, bindingVars, grantVars
    <2> HIDE DEF Untouched
    <2> QED BY <2>2, <2>3, <2>4, <2>5, <2>6, <2>7, <2>8, <2>9, <2>11, <2>12, <2>13, <2>14, <2>15
            DEF AccessNext
  <1> HIDE DEF Untouched
  <1>2. AccessSpec => [][Untouched]_accessVars
    BY <1>1, AccessInvariant, PTL DEF AccessSpec
  <1> QED BY <1>2 DEF NothingIsTakenOver, Untouched

-----------------------------------------------------------------------------
(* Categories.  The hierarchy is a forest: a new category is a leaf, and one *)
(* that moves goes under a category that is not below it, for which it holds *)
(* the lock of the hierarchy from the check of the parent to the write.      *)

Exist(C) == {k \in Categories : C[k] # None}

Forest(C) == \A S \in (SUBSET Exist(C)) \ {{}} : \E k \in S : C[k].parent \notin S

\* IsBelow for the categories C.
Below(C, j, k) ==
    \A S \in SUBSET Categories :
       (\A i \in Categories : C[i] # None /\ C[i].parent \in S \cup {k} => i \in S) => j \in S

ParentsExist(C) == \A k \in Exist(C) : C[k].parent # None => C[k].parent \in Exist(C)

SameHierarchy(C, D) == Exist(D) = Exist(C) /\ \A k \in Exist(C) : D[k].parent = C[k].parent

LEMMA SameHierarchyIsForest ==
    ASSUME NEW C, NEW D, SameHierarchy(C, D)
    PROVE  /\ Forest(C) => Forest(D)
           /\ ParentsExist(C) => ParentsExist(D)
           /\ \A j, k : Below(D, j, k) => Below(C, j, k)
  <1>1. Forest(C) => Forest(D)
    BY DEF SameHierarchy, Forest
  <1>2. ParentsExist(C) => ParentsExist(D)
    BY DEF SameHierarchy, ParentsExist
  <1>3. \A j, k : Below(D, j, k) => Below(C, j, k)
    BY DEF SameHierarchy, Below, Exist
  <1> QED BY <1>1, <1>2, <1>3

LEMMA EmptyIsForest ==
    ASSUME NEW C, Exist(C) = {}
    PROVE  Forest(C)
  <1> SUFFICES ASSUME NEW S \in SUBSET Exist(C), S # {} PROVE \E k \in S : C[k].parent \notin S
    BY DEF Forest
  <1>1. PICK k : k \in S
    OBVIOUS
  <1> QED BY <1>1

LEMMA NewCategoryIsLeaf ==
    ASSUME NEW C, NEW D, Forest(C), ParentsExist(C), NEW x \in Categories, C[x] = None,
           \A k \in Categories : k # x => D[k] = C[k],
           D[x].parent # None => D[x].parent # x /\ D[x].parent \in Exist(C),
           D[x] # None, None \notin Categories
    PROVE  /\ Forest(D) /\ ParentsExist(D)
           /\ \A j \in Categories, k \in Categories : j # x /\ Below(D, j, k) => Below(C, j, k)
  <1>1. Exist(D) = Exist(C) \cup {x} /\ x \notin Exist(C)
    BY DEF Exist
  <1>2. \A k \in Exist(C) : D[k] = C[k] /\ C[k].parent # x
    BY <1>1 DEF ParentsExist, Exist
  <1>3. Forest(D)
    <2> SUFFICES ASSUME NEW S \in SUBSET Exist(D), S # {}, \A k \in S : D[k].parent \in S
                 PROVE  FALSE
      BY DEF Forest
    <2>1. PICK U : U = S \ {x}
      OBVIOUS
    <2>2. U \subseteq Exist(C)
      BY <1>1, <2>1
    <2>3. \A k \in U : C[k].parent \in U
      BY <1>2, <2>1, <2>2
    <2>4. U # {}
      <3>1. CASE x \in S
        <4>1. D[x].parent \in S /\ D[x].parent # None
          BY <3>1 DEF Exist
        <4> QED BY <2>1, <4>1
      <3>2. CASE x \notin S
        BY <2>1, <3>2
      <3> QED BY <3>1, <3>2
    <2> QED BY <2>2, <2>3, <2>4 DEF Forest
  <1>4. ParentsExist(D)
    BY <1>1, <1>2 DEF ParentsExist
  <1>5. ASSUME NEW j \in Categories, NEW k \in Categories, j # x, Below(D, j, k)
        PROVE  Below(C, j, k)
    <2> SUFFICES ASSUME NEW S \in SUBSET Categories,
                        \A i \in Categories : C[i] # None /\ C[i].parent \in S \cup {k} => i \in S
                 PROVE  j \in S
      BY DEF Below
    <2>1. PICK T : T = S \cup {x}
      OBVIOUS
    <2>2. \A i \in Categories : D[i] # None /\ D[i].parent \in T \cup {k} => i \in T
      <3> SUFFICES ASSUME NEW i \in Categories, D[i] # None, D[i].parent \in T \cup {k}, i # x
                   PROVE  i \in S
        BY <2>1
      <3>1. i \in Exist(C) /\ D[i] = C[i] /\ C[i].parent # x
        BY <1>1, <1>2 DEF Exist
      <3>2. C[i] # None /\ C[i].parent \in S \cup {k}
        BY <2>1, <3>1 DEF Exist
      <3> QED BY <3>2
    <2>3. j \in T
      BY <1>5, <2>1, <2>2 DEF Below
    <2> QED BY <1>5, <2>1, <2>3
  <1> QED BY <1>3, <1>4, <1>5

LEMMA MovedStaysForest ==
    ASSUME NEW C, NEW D, Forest(C), ParentsExist(C), NEW k \in Exist(C), NEW p,
           Exist(D) = Exist(C), \A i \in Exist(C) : i # k => D[i].parent = C[i].parent,
           D[k].parent = p, p # None => p \in Exist(C) /\ p # k /\ ~Below(C, p, k),
           None \notin Categories
    PROVE  Forest(D) /\ ParentsExist(D)
  <1>1. Forest(D)
    <2> SUFFICES ASSUME NEW S \in SUBSET Exist(C), S # {}, \A i \in S : D[i].parent \in S
                 PROVE  FALSE
      BY DEF Forest
    <2>1. k \in S
      <3> SUFFICES ASSUME k \notin S PROVE FALSE
        OBVIOUS
      <3>1. \A i \in S : C[i].parent \in S
        OBVIOUS
      <3> QED BY <3>1 DEF Forest
    <2>2. p \in S /\ p # None
      BY <2>1 DEF Exist
    <2>3. PICK T \in SUBSET Categories :
             /\ \A i \in Categories : C[i] # None /\ C[i].parent \in T \cup {k} => i \in T
             /\ p \notin T
      BY <2>2 DEF Below
    <2>4. PICK U : U = S \ (T \cup {k})
      OBVIOUS
    <2>5. p \in U
      BY <2>2, <2>3, <2>4
    <2>6. \A i \in U : C[i].parent \in U
      <3> SUFFICES ASSUME NEW i \in U PROVE C[i].parent \in U
        OBVIOUS
      <3>1. i \in S /\ i \in Exist(C) /\ i # k /\ i \notin T
        BY <2>4
      <3>2. C[i].parent \in S
        BY <3>1
      <3>3. C[i].parent \notin T \cup {k}
        BY <2>3, <3>1 DEF Exist
      <3> QED BY <2>4, <3>2, <3>3
    <2> QED BY <2>4, <2>5, <2>6 DEF Forest
  <1>2. ParentsExist(D)
    BY DEF ParentsExist
  <1> QED BY <1>1, <1>2

-----------------------------------------------------------------------------
MoveCall == [pc : {"locked", "serialized", "moving"},
             command : {m \in Commands : m.op = "update_category" /\ "parent" \in DOMAIN m.changes}]

Target(c) == call[c].command.changes["parent"]

ActiveParents ==
    \A k \in Categories : ActiveCategory(k) /\ category[k].parent # None =>
       ActiveCategory(category[k].parent)

FiledRight ==
    \A a, b \in Assignments : assignment[a] # None /\ ~assignment[a].retired =>
       /\ ActiveCategory(assignment[a].category)
       /\ TypeOf[assignment[a].entity] \in category[assignment[a].category].applies
       /\ a # b /\ b \in ActiveIn(assignment[a].category) =>
             assignment[a].entity # assignment[b].entity

MovesAreOrdered ==
    /\ \A c, d \in Calls : (\E pc \in Serialized : Step(c, pc)) /\ (\E pc \in Serialized : Step(d, pc))
          => c = d
    /\ \A c \in Calls : Step(c, "moving") => ParentAllowed(call[c].command.category, Target(c))

ClassificationInv ==
    /\ category \in [Categories -> CategoryRow \cup {None}]
    /\ assignment \in [Assignments -> AssignmentRow \cup {None}]
    /\ call \in [Calls -> MoveCall \cup {Idle}]
    /\ Forest(category) /\ ParentsExist(category)
    /\ ActiveParents /\ FiledRight
    /\ MovesAreOrdered

LEMMA CategoryAsked ==
    ASSUME NEW m \in Commands, CategoryCommand(m)
    PROVE  CategoryRequest(m) /\ None \notin Categories /\ None \notin CategoryRow
  BY ClassificationAssumption

LEMMA BelowIsBelow == \A j, k : IsBelow(j, k) <=> Below(category, j, k)
  BY DEF IsBelow, Below

LEMMA MoverFits ==
    ASSUME ClassificationInv, NEW c \in Calls, NEW pc, Step(c, pc)
    PROVE  /\ call[c] \in MoveCall /\ call[c].pc = pc
           /\ call[c].command \in Commands /\ call[c].command.op = "update_category"
           /\ call[c].command.category \in Categories
           /\ "parent" \in DOMAIN call[c].command.changes
           /\ Target(c) \in Categories \cup {None}
  <1>1. call[c] \in MoveCall /\ call[c].pc = pc
    BY DEF ClassificationInv, Step
  <1>2. PICK m : m = call[c].command
    OBVIOUS
  <1>3. m \in Commands /\ m.op = "update_category" /\ "parent" \in DOMAIN m.changes
    BY <1>1, <1>2 DEF MoveCall
  <1>4. CategoryRequest(m)
    BY <1>3, CategoryAsked DEF CategoryCommand
  <1>5. m.category \in Categories /\ m.changes["parent"] \in Categories \cup {None}
    BY <1>3, <1>4 DEF CategoryRequest
  <1> QED BY <1>1, <1>2, <1>3, <1>5 DEF Target

\* A call moves, and the tables stay.
LEMMA MoverSteps ==
    ASSUME ClassificationInv, UNCHANGED <<category, assignment>>, NEW c \in Calls,
           NEW q \in MoveCall \cup {Idle}, call' = [call EXCEPT ![c] = q],
           q.pc \in Serialized => \A d \in Calls \ {c} : ~\E pc \in Serialized : Step(d, pc),
           q.pc = "moving" => ParentAllowed(q.command.category, q.command.changes["parent"])
    PROVE  ClassificationInv'
  <1>1. call' \in [Calls -> MoveCall \cup {Idle}]
    BY DEF ClassificationInv
  <1>2. /\ \A k : ActiveCategory(k)' <=> ActiveCategory(k)
        /\ \A j, k : IsBelow(j, k)' <=> IsBelow(j, k)
        /\ \A k : ActiveIn(k)' = ActiveIn(k)
    BY DEF ActiveCategory, IsBelow, ActiveIn
  <1>3. \A k, p : ParentAllowed(k, p) => ParentAllowed(k, p)'
    BY <1>2 DEF ParentAllowed
  <1>4. ActiveParents' /\ FiledRight'
    BY <1>2 DEF ClassificationInv, ActiveParents, FiledRight
  <1>5. \A d \in Calls : call'[d] = IF d = c THEN q ELSE call[d]
    BY DEF ClassificationInv
  <1>6. Idle.pc = "idle"
    BY DEF Idle
  <1>7. \A d \in Calls, pc \in {"serialized", "moving"} :
           Step(d, pc)' <=> IF d = c THEN q.pc = pc ELSE Step(d, pc)
    BY <1>5, <1>6 DEF Step
  <1>8. MovesAreOrdered'
    <2>1. ASSUME NEW d \in Calls, NEW e \in Calls,
                 (\E pc \in Serialized : Step(d, pc))', (\E pc \in Serialized : Step(e, pc))'
          PROVE  d = e
      BY <1>7, <2>1 DEF ClassificationInv, MovesAreOrdered, Serialized
    <2>2. ASSUME NEW d \in Calls, Step(d, "moving")'
          PROVE  ParentAllowed(call[d].command.category, Target(d))'
      <3>1. PICK r : r = call'[d]
        OBVIOUS
      <3>2. ParentAllowed(r.command.category, r.command.changes["parent"])
        <4>1. CASE d = c
          BY <1>5, <1>7, <2>2, <3>1, <4>1
        <4>2. CASE d # c
          BY <1>5, <1>7, <2>2, <3>1, <4>2 DEF ClassificationInv, MovesAreOrdered, Target
        <4> QED BY <4>1, <4>2
      <3>3. ParentAllowed(r.command.category, r.command.changes["parent"])'
        BY <1>3, <3>2
      <3> QED BY <3>1, <3>3 DEF Target, ParentAllowed, ActiveCategory, IsBelow
    <2> QED BY <2>1, <2>2 DEF MovesAreOrdered
  <1> QED BY <1>1, <1>4, <1>8 DEF ClassificationInv

\* An active row is written, and what is under it and filed there agrees.
LEMMA RowIsWritten ==
    ASSUME ClassificationInv, NEW x \in Categories, ActiveCategory(x), NEW row \in CategoryRow,
           category' = [category EXCEPT ![x] = row], UNCHANGED assignment,
           row.parent # None => ActiveCategory(row.parent),
           row.archived => Archivable(x),
           \A a \in ActiveIn(x) : TypeOf[assignment[a].entity] \in row.applies
    PROVE  /\ category' \in [Categories -> CategoryRow \cup {None}]
           /\ ActiveParents' /\ FiledRight'
           /\ Exist(category') = Exist(category) /\ category'[x] = row
           /\ \A k \in Categories \ {x} : category'[k] = category[k]
  <1>1. /\ category' \in [Categories -> CategoryRow \cup {None}] /\ category'[x] = row
        /\ \A k \in Categories \ {x} : category'[k] = category[k]
    BY DEF ClassificationInv
  <1>2. row # None
    BY ClassificationAssumption
  <1>3. Exist(category') = Exist(category)
    BY <1>1, <1>2 DEF Exist, ActiveCategory
  <1>4. /\ \A k \in Categories \ {x} : ActiveCategory(k)' <=> ActiveCategory(k)
        /\ ActiveCategory(x)' <=> ~row.archived
    BY <1>1, <1>2 DEF ActiveCategory
  <1>5. \A k \in Categories : k # x /\ ActiveCategory(k)' => ActiveCategory(k)
    BY <1>4
  <1>6. ActiveParents'
    <2> SUFFICES ASSUME NEW k \in Categories, ActiveCategory(k)', category'[k].parent # None
                 PROVE  ActiveCategory(category[k].parent)'
      BY DEF ActiveParents
    <2>1. PICK p : p = category'[k].parent
      OBVIOUS
    <2>2. p \in Categories
      <3>1. category'[k] \in CategoryRow
        BY <1>1, <1>4 DEF ActiveCategory
      <3> QED BY <2>1, <3>1 DEF CategoryRow
    <2>3. ActiveCategory(p) /\ (p = x => ~row.archived)
      <3>1. CASE k = x
        BY <1>1, <1>4, <2>1, <3>1
      <3>2. CASE k # x
        <4>1. ActiveCategory(k) /\ category[k].parent = p
          BY <1>1, <1>4, <2>1, <3>2
        <4>2. ActiveCategory(p)
          BY <2>1, <4>1 DEF ClassificationInv, ActiveParents
        <4>3. row.archived => category[k].parent # x
          BY <4>1 DEF Archivable
        <4> QED BY <4>1, <4>2, <4>3
      <3> QED BY <3>1, <3>2
    <2>4. ActiveCategory(p)'
      BY <1>4, <2>2, <2>3
    <2> QED BY <2>1, <2>4 DEF ActiveCategory
  <1>7. FiledRight'
    <2> SUFFICES ASSUME NEW a \in Assignments, NEW b \in Assignments,
                        assignment[a] # None, ~assignment[a].retired
                 PROVE  /\ ActiveCategory(assignment[a].category)'
                        /\ TypeOf[assignment[a].entity]
                              \in category'[assignment[a].category].applies
                        /\ a # b /\ b \in ActiveIn(assignment[a].category) =>
                              assignment[a].entity # assignment[b].entity
      BY DEF FiledRight, ActiveIn
    <2>1. PICK k : k = assignment[a].category
      OBVIOUS
    <2>2. /\ k \in Categories /\ ActiveCategory(k)
          /\ TypeOf[assignment[a].entity] \in category[k].applies
          /\ a # b /\ b \in ActiveIn(k) => assignment[a].entity # assignment[b].entity
      <3>1. assignment[a] \in AssignmentRow
        BY DEF ClassificationInv
      <3>2. k \in Categories
        BY <2>1, <3>1 DEF AssignmentRow
      <3> QED BY <2>1, <3>2 DEF ClassificationInv, FiledRight
    <2>3. a \in ActiveIn(k)
      BY <2>1 DEF ActiveIn
    <2>4. ActiveCategory(k)'
      BY <1>4, <2>2, <2>3 DEF Archivable
    <2>5. TypeOf[assignment[a].entity] \in category'[k].applies
      BY <1>1, <2>2, <2>3
    <2> QED BY <2>1, <2>2, <2>4, <2>5 DEF ActiveCategory
  <1> QED BY <1>1, <1>3, <1>6, <1>7

\* A category that nobody moves anything under, itself in no move, is written.
LEMMA StillRowKeeps ==
    ASSUME ClassificationInv, NEW x \in Categories, ActiveCategory(x), NEW row \in CategoryRow,
           category' = [category EXCEPT ![x] = row], UNCHANGED <<assignment, call>>,
           row.parent = category[x].parent, row.archived => Archivable(x),
           \A a \in ActiveIn(x) : TypeOf[assignment[a].entity] \in row.applies,
           Free(x)
    PROVE  ClassificationInv'
  <1>1. row.parent # None => ActiveCategory(row.parent)
    BY DEF ClassificationInv, ActiveParents
  <1>2. /\ category' \in [Categories -> CategoryRow \cup {None}]
        /\ ActiveParents' /\ FiledRight'
        /\ Exist(category') = Exist(category) /\ category'[x] = row
        /\ \A k \in Categories \ {x} : category'[k] = category[k]
    BY <1>1, RowIsWritten
  <1>3. SameHierarchy(category, category')
    BY <1>2 DEF SameHierarchy, Exist
  <1>4. /\ Forest(category') /\ ParentsExist(category')
        /\ \A j, k : Below(category', j, k) => Below(category, j, k)
    BY <1>3, SameHierarchyIsForest DEF ClassificationInv
  <1>5. MovesAreOrdered'
    <2>1. ASSUME NEW c \in Calls, Step(c, "moving")
          PROVE  ParentAllowed(call[c].command.category, Target(c))'
      <3>1. PICK p : p = Target(c)
        OBVIOUS
      <3>2. PICK k : k = call[c].command.category
        OBVIOUS
      <3>3. p # None => /\ p \in Categories /\ p # x /\ ActiveCategory(p) /\ p # k
                        /\ ~Below(category, p, k)
        <4>1. p \in Categories \cup {None}
          BY <2>1, <3>1, MoverFits
        <4>2. ParentAllowed(k, p)
          BY <2>1, <3>1, <3>2 DEF ClassificationInv, MovesAreOrdered
        <4>3. p # x
          BY <2>1, <3>1 DEF Free, SharedBy, Target
        <4> QED BY <4>1, <4>2, <4>3, BelowIsBelow DEF ParentAllowed
      <3>4. p # None => ActiveCategory(p)' /\ ~IsBelow(p, k)'
        BY <1>2, <1>4, <3>3 DEF ActiveCategory, IsBelow, Below
      <3>5. ParentAllowed(k, p)'
        BY <3>3, <3>4 DEF ParentAllowed
      <3> QED BY <3>1, <3>2, <3>5 DEF Target, ParentAllowed, ActiveCategory, IsBelow
    <2> QED BY <2>1 DEF ClassificationInv, MovesAreOrdered, Step
  <1> QED BY <1>2, <1>4, <1>5 DEF ClassificationInv

LEMMA CategoryUpdateKeeps ==
    ASSUME ClassificationInv, NEW m \in Commands, UpdateCategory(m) \/ ArchiveCategory(m)
    PROVE  ClassificationInv'
  <1>1. CategoryRequest(m) /\ m.op \in {"update_category", "archive_category"}
    BY CategoryAsked DEF UpdateCategory, ArchiveCategory, CategoryCommand
  <1>2. PICK x : x = m.category
    OBVIOUS
  <1>3. /\ x \in Categories /\ ActiveCategory(x) /\ Free(x) /\ UNCHANGED <<assignment, call>>
    BY <1>1, <1>2 DEF CategoryRequest, UpdateCategory, ArchiveCategory, WriteCategory
  <1>4. PICK old : old = category[x]
    OBVIOUS
  <1>5. /\ old.parent \in Categories \cup {None} /\ old.applies \subseteq EntityTypes
        /\ old.archived = FALSE /\ old.revision \in Nat \ {0} /\ old \in CategoryRow
    <2>1. old \in CategoryRow /\ ~old.archived
      BY <1>3, <1>4 DEF ClassificationInv, ActiveCategory
    <2> QED BY <2>1 DEF CategoryRow
  <1>6. \A a \in ActiveIn(x) : TypeOf[assignment[a].entity] \in old.applies
    BY <1>3, <1>4 DEF ClassificationInv, FiledRight, ActiveIn
  <1>7. CASE UpdateCategory(m)
    <2>1. PICK applies : applies = IF "applies" \in DOMAIN m.changes THEN m.changes["applies"]
                                   ELSE old.applies
      OBVIOUS
    <2>2. applies \subseteq EntityTypes
      BY <1>1, <1>5, <1>7, <2>1 DEF CategoryRequest, UpdateCategory
    <2>3. PICK row : row = [parent |-> old.parent, applies |-> applies, archived |-> FALSE,
                            revision |-> old.revision + 1]
      OBVIOUS
    <2>4. /\ row \in CategoryRow /\ row.parent = old.parent /\ row.archived = FALSE
          /\ row.applies = applies
      BY <1>5, <2>2, <2>3 DEF CategoryRow
    <2>5. category' = [category EXCEPT ![x] = row]
      <3>2. /\ Changed(m, "parent", old.parent) = old.parent
            /\ Changed(m, "applies", old.applies) = applies
        BY <1>7, <2>1 DEF UpdateCategory, Changed
      <3> QED BY <1>2, <1>4, <1>5, <1>7, <2>3, <3>2 DEF UpdateCategory, WriteCategory
    <2>6. \A a \in ActiveIn(x) : TypeOf[assignment[a].entity] \in applies
      BY <1>2, <1>6, <1>7, <2>1 DEF UpdateCategory, WriteCategory, StillApplies
    <2> QED BY <1>3, <1>4, <2>4, <2>5, <2>6, StillRowKeeps
  <1>8. CASE ArchiveCategory(m)
    <2>1. PICK row : row = [parent |-> old.parent, applies |-> old.applies, archived |-> TRUE,
                            revision |-> old.revision + 1]
      OBVIOUS
    <2>2. /\ row \in CategoryRow /\ row.parent = old.parent /\ row.applies = old.applies
      BY <1>5, <2>1 DEF CategoryRow
    <2>3. category' = [category EXCEPT ![x] = row]
      BY <1>2, <1>4, <1>8, <2>1 DEF ArchiveCategory
    <2>4. Archivable(x)
      BY <1>2, <1>8 DEF ArchiveCategory
    <2> QED BY <1>3, <1>4, <1>6, <2>2, <2>3, <2>4, StillRowKeeps
  <1> QED BY <1>7, <1>8

LEMMA CategoryCreationKeeps ==
    ASSUME ClassificationInv, NEW m \in Commands, CreateCategory(m)
    PROVE  ClassificationInv'
  <1>1. CategoryRequest(m) /\ m.op = "create_category"
    BY CategoryAsked DEF CreateCategory, CategoryCommand
  <1>2. PICK x : x = m.category
    OBVIOUS
  <1>3. PICK row : row = [parent |-> m.parent, applies |-> m.applies, archived |-> FALSE,
                          revision |-> 1]
    OBVIOUS
  <1>4. /\ x \in Categories /\ row \in CategoryRow /\ row # None
        /\ row.parent = m.parent /\ row.archived = FALSE /\ m.parent \in Categories \cup {None}
    <2>1. x \in Categories /\ m.parent \in Categories \cup {None} /\ m.applies \subseteq EntityTypes
      BY <1>1, <1>2 DEF CategoryRequest
    <2>2. /\ row \in CategoryRow /\ row.parent = m.parent /\ row.archived = FALSE
      BY <1>3, <2>1 DEF CategoryRow
    <2>3. row # None
      BY <2>2, ClassificationAssumption
    <2> QED BY <2>1, <2>2, <2>3
  <1>5. /\ category[x] = None /\ category' = [category EXCEPT ![x] = row]
        /\ UNCHANGED <<assignment, call>>
        /\ m.parent # None => ActiveCategory(m.parent) /\ m.parent # x
    BY <1>2, <1>3 DEF CreateCategory, ParentAllowed
  <1>6. /\ category' \in [Categories -> CategoryRow \cup {None}] /\ category'[x] = row
        /\ \A k \in Categories : k # x => category'[k] = category[k]
    BY <1>4, <1>5 DEF ClassificationInv
  <1>7. m.parent # None => m.parent # x /\ m.parent \in Exist(category)
    BY <1>4, <1>5 DEF Exist, ActiveCategory
  <1>8. /\ Forest(category') /\ ParentsExist(category')
        /\ \A j \in Categories, k \in Categories :
              j # x /\ Below(category', j, k) => Below(category, j, k)
    BY <1>4, <1>5, <1>6, <1>7, NewCategoryIsLeaf, ClassificationAssumption DEF ClassificationInv
  <1>9. \A k \in Categories : ActiveCategory(k) => k # x /\ ActiveCategory(k)'
    BY <1>5, <1>6 DEF ActiveCategory
  <1>10. ActiveParents'
    <2> SUFFICES ASSUME NEW k \in Categories, ActiveCategory(k)', category'[k].parent # None
                 PROVE  ActiveCategory(category[k].parent)'
      BY DEF ActiveParents
    <2>1. PICK p : p = category'[k].parent
      OBVIOUS
    <2>2. p \in Categories /\ ActiveCategory(p)
      <3>1. CASE k = x
        BY <1>4, <1>5, <1>6, <2>1, <3>1
      <3>2. CASE k # x
        <4>1. ActiveCategory(k) /\ category[k].parent = p /\ category[k] \in CategoryRow
          BY <1>6, <2>1, <3>2 DEF ActiveCategory, ClassificationInv
        <4>2. p \in Categories
          BY <2>1, <4>1 DEF CategoryRow
        <4> QED BY <2>1, <4>1, <4>2 DEF ClassificationInv, ActiveParents
      <3> QED BY <3>1, <3>2
    <2> QED BY <1>9, <2>1, <2>2 DEF ActiveCategory
  <1>11. FiledRight'
    <2> SUFFICES ASSUME NEW a \in Assignments, NEW b \in Assignments,
                        assignment[a] # None, ~assignment[a].retired
                 PROVE  /\ ActiveCategory(assignment[a].category)'
                        /\ TypeOf[assignment[a].entity]
                              \in category'[assignment[a].category].applies
                        /\ a # b /\ b \in ActiveIn(assignment[a].category) =>
                              assignment[a].entity # assignment[b].entity
      BY <1>5 DEF FiledRight, ActiveIn
    <2>1. PICK k : k = assignment[a].category
      OBVIOUS
    <2>2. k \in Categories
      <3>1. assignment[a] \in AssignmentRow
        BY DEF ClassificationInv
      <3> QED BY <2>1, <3>1 DEF AssignmentRow
    <2>3. /\ ActiveCategory(k)
          /\ TypeOf[assignment[a].entity] \in category[k].applies
          /\ a # b /\ b \in ActiveIn(k) => assignment[a].entity # assignment[b].entity
      BY <2>1 DEF ClassificationInv, FiledRight
    <2>4. ActiveCategory(k)' /\ category'[k] = category[k]
      BY <1>6, <1>9, <2>2, <2>3
    <2>5. ActiveCategory(assignment[a].category)'
      BY <1>5, <2>1, <2>4 DEF ActiveCategory
    <2> QED BY <2>1, <2>3, <2>4, <2>5
  <1>12. MovesAreOrdered'
    <2>1. ASSUME NEW c \in Calls, Step(c, "moving")
          PROVE  ParentAllowed(call[c].command.category, Target(c))'
      <3>1. PICK p : p = Target(c)
        OBVIOUS
      <3>2. PICK k : k = call[c].command.category
        OBVIOUS
      <3>3. p # None => /\ p \in Categories /\ ActiveCategory(p) /\ p # k
                        /\ k \in Categories /\ ~Below(category, p, k)
        <4>1. p \in Categories \cup {None} /\ k \in Categories
          BY <2>1, <3>1, <3>2, MoverFits
        <4>2. ParentAllowed(k, p)
          BY <2>1, <3>1, <3>2 DEF ClassificationInv, MovesAreOrdered
        <4> QED BY <4>1, <4>2, BelowIsBelow DEF ParentAllowed
      <3>4. p # None => ActiveCategory(p)' /\ ~Below(category', p, k)
        BY <1>8, <1>9, <3>3
      <3>5. ParentAllowed(k, p)'
        BY <3>3, <3>4 DEF ParentAllowed, IsBelow, Below
      <3> QED BY <1>5, <3>1, <3>2, <3>5 DEF Target, ParentAllowed, ActiveCategory, IsBelow
    <2> QED BY <1>5, <2>1 DEF ClassificationInv, MovesAreOrdered, Step
  <1> QED BY <1>5, <1>6, <1>8, <1>10, <1>11, <1>12 DEF ClassificationInv

LEMMA MoveKeeps ==
    ASSUME ClassificationInv, NEW c \in Calls, MoveCategory(c)
    PROVE  ClassificationInv'
  <1>1. PICK m : m = call[c].command
    OBVIOUS
  <1>2. PICK p : p = m.changes["parent"]
    OBVIOUS
  <1>3. PICK x : x = m.category
    OBVIOUS
  <1>4. /\ m \in Commands /\ m.op = "update_category" /\ x \in Categories
        /\ "parent" \in DOMAIN m.changes /\ p \in Categories \cup {None} /\ p = Target(c)
    <2>1. Step(c, "moving")
      BY DEF MoveCategory
    <2> QED BY <1>1, <1>2, <1>3, <2>1, MoverFits DEF Target
  <1>5. CategoryRequest(m)
    BY <1>4, CategoryAsked DEF CategoryCommand
  <1>6. ParentAllowed(x, p)
    BY <1>1, <1>2, <1>3 DEF MoveCategory, ClassificationInv, MovesAreOrdered, Target
  <1>7. PICK old : old = category[x]
    OBVIOUS
  <1>8. /\ ActiveCategory(x)
        /\ old.applies \subseteq EntityTypes /\ old.archived = FALSE /\ old.revision \in Nat \ {0}
        /\ old \in CategoryRow
    <2>1. ActiveCategory(x)
      BY <1>1, <1>3 DEF MoveCategory, WriteCategory, Changed
    <2>2. old \in CategoryRow /\ ~old.archived
      BY <1>4, <1>7, <2>1 DEF ClassificationInv, ActiveCategory
    <2> QED BY <2>1, <2>2 DEF CategoryRow
  <1>9. PICK applies : applies = IF "applies" \in DOMAIN m.changes THEN m.changes["applies"]
                                 ELSE old.applies
    OBVIOUS
  <1>10. applies \subseteq EntityTypes
    BY <1>4, <1>5, <1>8, <1>9 DEF CategoryRequest
  <1>11. PICK row : row = [parent |-> p, applies |-> applies, archived |-> FALSE,
                           revision |-> old.revision + 1]
    OBVIOUS
  <1>12. /\ row \in CategoryRow /\ row.parent = p /\ row.archived = FALSE /\ row.applies = applies
    BY <1>4, <1>8, <1>10, <1>11 DEF CategoryRow
  <1>13. category' = [category EXCEPT ![x] = row]
    <2>2. Changed(m, "parent", old.parent) = p /\ Changed(m, "applies", old.applies) = applies
      BY <1>2, <1>4, <1>9 DEF Changed
    <2> QED BY <1>1, <1>3, <1>7, <1>8, <1>11, <2>2 DEF MoveCategory, WriteCategory
  <1>14. \A a \in ActiveIn(x) : TypeOf[assignment[a].entity] \in applies
    <2>1. \A a \in ActiveIn(x) : TypeOf[assignment[a].entity] \in old.applies
      BY <1>7, <1>8 DEF ClassificationInv, FiledRight, ActiveIn
    <2> QED BY <1>1, <1>3, <1>9, <2>1 DEF MoveCategory, WriteCategory, StillApplies
  <1>15. row.parent # None => ActiveCategory(row.parent)
    BY <1>6, <1>12 DEF ParentAllowed
  <1>16. /\ category' \in [Categories -> CategoryRow \cup {None}]
         /\ ActiveParents' /\ FiledRight'
         /\ Exist(category') = Exist(category) /\ category'[x] = row
         /\ \A k \in Categories \ {x} : category'[k] = category[k]
    <2>1. UNCHANGED assignment
      BY DEF MoveCategory
    <2> QED BY <1>4, <1>8, <1>12, <1>13, <1>14, <1>15, <2>1, RowIsWritten
  <1>17. Forest(category') /\ ParentsExist(category')
    <2>1. x \in Exist(category) /\ (p # None => p \in Exist(category))
      BY <1>4, <1>6, <1>8 DEF Exist, ActiveCategory, ParentAllowed
    <2>2. p # None => p # x /\ ~Below(category, p, x)
      BY <1>6, BelowIsBelow DEF ParentAllowed
    <2>3. \A i \in Exist(category) : i # x => category'[i].parent = category[i].parent
      BY <1>16 DEF Exist
    <2>4. category'[x].parent = p
      BY <1>12, <1>16
    <2>5. Forest(category) /\ ParentsExist(category) /\ None \notin Categories
      BY ClassificationAssumption DEF ClassificationInv
    <2> QED BY <1>16, <2>1, <2>2, <2>3, <2>4, <2>5, MovedStaysForest
  <1>18. call' = [call EXCEPT ![c] = Idle]
    BY DEF MoveCategory, End
  <1>19. call' \in [Calls -> MoveCall \cup {Idle}]
    BY <1>18 DEF ClassificationInv
  <1>20. MovesAreOrdered'
    <2>1. \A d \in Calls, pc \in {"serialized", "moving"} : Step(d, pc)' => d # c /\ Step(d, pc)
      BY <1>18 DEF Step, ClassificationInv
    <2>2. \A d \in Calls, pc \in {"serialized", "moving"} : ~Step(d, pc)'
      <3>1. Step(c, "moving")
        BY DEF MoveCategory
      <3> QED BY <2>1, <3>1 DEF ClassificationInv, MovesAreOrdered, Serialized
    <2>3. \A d \in Calls, pc \in Serialized : ~Step(d, pc)'
      BY <2>2 DEF Serialized
    <2> QED BY <2>2, <2>3 DEF MovesAreOrdered
  <1> QED BY <1>16, <1>17, <1>19, <1>20 DEF ClassificationInv, MoveCategory

LEMMA MoversKeep ==
    ASSUME ClassificationInv, NEW c \in Calls,
           \/ \E m \in Commands : LockCategory(c, m)
           \/ LockHierarchy(c) \/ CheckParent(c) \/ RefuseMove(c)
    PROVE  ClassificationInv'
  <1>1. UNCHANGED <<category, assignment>>
    BY DEF LockCategory, LockHierarchy, CheckParent, RefuseMove, classificationVars
  <1>2. ASSUME NEW m \in Commands, LockCategory(c, m) PROVE ClassificationInv'
    <2>1. PICK q : q = [pc |-> "locked", command |-> m]
      OBVIOUS
    <2>2. q \in MoveCall /\ q.pc = "locked" /\ call' = [call EXCEPT ![c] = q]
      BY <1>2, <2>1 DEF LockCategory, MoveCall, Begin
    <2> QED BY <1>1, <2>2, MoverSteps DEF Serialized
  <1>3. CASE LockHierarchy(c)
    <2>1. PICK old : old = call[c]
      OBVIOUS
    <2>2. PICK q : q = [old EXCEPT !.pc = "serialized"]
      OBVIOUS
    <2>3. old \in MoveCall
      BY <1>3, <2>1, MoverFits DEF LockHierarchy, HierarchyFree
    <2>4. q \in MoveCall /\ q.pc = "serialized"
      BY <2>2, <2>3 DEF MoveCall
    <2>5. /\ call' = [call EXCEPT ![c] = q]
          /\ \A d \in Calls \ {c} : ~\E pc \in Serialized : Step(d, pc)
      BY <1>3, <2>1, <2>2 DEF LockHierarchy, HierarchyFree
    <2> QED BY <1>1, <2>4, <2>5, MoverSteps
  <1>4. CASE CheckParent(c)
    <2>1. PICK old : old = call[c]
      OBVIOUS
    <2>2. PICK q : q = [old EXCEPT !.pc = "moving"]
      OBVIOUS
    <2>3. old \in MoveCall /\ Step(c, "serialized")
      BY <1>4, <2>1, MoverFits DEF CheckParent
    <2>4. q \in MoveCall /\ q.pc = "moving" /\ q.command = old.command
      BY <2>2, <2>3 DEF MoveCall
    <2>5. call' = [call EXCEPT ![c] = q]
      BY <1>4, <2>1, <2>2 DEF CheckParent
    <2>6. \A d \in Calls \ {c} : ~\E pc \in Serialized : Step(d, pc)
      BY <2>3 DEF ClassificationInv, MovesAreOrdered, Serialized
    <2>7. ParentAllowed(q.command.category, q.command.changes["parent"])
      BY <1>4, <2>1, <2>4 DEF CheckParent, ParentAllowed
    <2> QED BY <1>1, <2>4, <2>5, <2>6, <2>7, MoverSteps
  <1>5. CASE RefuseMove(c)
    <2>1. call' = [call EXCEPT ![c] = Idle] /\ Idle.pc = "idle"
      BY <1>5 DEF RefuseMove, Refused, End, Idle
    <2>2. Idle.pc \notin Serialized /\ Idle.pc # "moving"
      BY <2>1 DEF Serialized
    <2> QED BY <1>1, <2>1, <2>2, MoverSteps
  <1> QED BY <1>2, <1>3, <1>4, <1>5

LEMMA FilingKeeps ==
    ASSUME ClassificationInv, NEW m \in Commands, AssignCategory(m) \/ RetireAssignment(m)
    PROVE  ClassificationInv'
  <1>1. CategoryRequest(m) /\ m.op \in {"assign_category", "retire_category_assignment"}
    BY CategoryAsked DEF AssignCategory, RetireAssignment, CategoryCommand
  <1>2. PICK a : a = m.assignment
    OBVIOUS
  <1>3. a \in Assignments /\ UNCHANGED <<category, call>>
    BY <1>1, <1>2 DEF CategoryRequest, AssignCategory, RetireAssignment
  <1>4. Forest(category') /\ ParentsExist(category') /\ ActiveParents' /\ MovesAreOrdered'
    BY <1>3 DEF ClassificationInv, ActiveParents, ActiveCategory, MovesAreOrdered, Step, Target,
                ParentAllowed, IsBelow
  <1>5. /\ \A k : ActiveCategory(k)' <=> ActiveCategory(k)
    BY <1>3 DEF ActiveCategory
  <1>6. CASE AssignCategory(m)
    <2>1. PICK row : row = [category |-> m.category, entity |-> m.entity, retired |-> FALSE,
                            revision |-> 1]
      OBVIOUS
    <2>2. /\ row \in AssignmentRow /\ row.category = m.category /\ row.entity = m.entity
      <3>1. m.category \in Categories /\ m.entity \in DOMAIN TypeOf
        BY <1>1, <1>6 DEF CategoryRequest, AssignCategory
      <3> QED BY <2>1, <3>1 DEF AssignmentRow
    <2>3. /\ assignment[a] = None /\ assignment' = [assignment EXCEPT ![a] = row]
          /\ ActiveCategory(m.category) /\ TypeOf[m.entity] \in category[m.category].applies
          /\ \A b \in ActiveIn(m.category) : assignment[b].entity # m.entity
      BY <1>2, <1>6, <2>1 DEF AssignCategory
    <2>4. /\ assignment' \in [Assignments -> AssignmentRow \cup {None}] /\ assignment'[a] = row
          /\ \A b \in Assignments \ {a} : assignment'[b] = assignment[b]
      BY <1>3, <2>2, <2>3 DEF ClassificationInv
    <2>5. FiledRight'
      <3> SUFFICES ASSUME NEW b \in Assignments, NEW d \in Assignments,
                          assignment'[b] # None, ~assignment'[b].retired
                   PROVE  /\ ActiveCategory(assignment[b].category)'
                          /\ TypeOf[assignment'[b].entity]
                                \in category'[assignment'[b].category].applies
                          /\ b # d /\ (d \in ActiveIn(assignment[b].category))' =>
                                assignment'[b].entity # assignment'[d].entity
        BY DEF FiledRight
      <3>1. PICK k : k = assignment'[b].category
        OBVIOUS
      <3>2. ActiveCategory(k) /\ TypeOf[assignment'[b].entity] \in category[k].applies
        <4>1. CASE b = a
          BY <2>2, <2>3, <2>4, <3>1, <4>1
        <4>2. CASE b # a
          BY <2>4, <3>1, <4>2 DEF ClassificationInv, FiledRight
        <4> QED BY <4>1, <4>2
      <3>3. b # d /\ assignment'[d] # None /\ assignment'[d].category = k /\ ~assignment'[d].retired
               => assignment'[b].entity # assignment'[d].entity
        <4> SUFFICES ASSUME b # d, assignment'[d] # None, assignment'[d].category = k,
                            ~assignment'[d].retired
                     PROVE  assignment'[b].entity # assignment'[d].entity
          OBVIOUS
        <4>1. CASE b = a
          <5>1. assignment'[d] = assignment[d] /\ k = m.category
            BY <2>2, <2>4, <3>1, <4>1
          <5>2. d \in ActiveIn(m.category)
            BY <5>1 DEF ActiveIn
          <5> QED BY <2>2, <2>3, <2>4, <4>1, <5>1, <5>2
        <4>2. CASE d = a
          <5>1. assignment'[b] = assignment[b] /\ k = m.category
            BY <2>2, <2>4, <3>1, <4>2
          <5>2. b \in ActiveIn(m.category)
            BY <3>1, <5>1 DEF ActiveIn
          <5> QED BY <2>2, <2>3, <2>4, <4>2, <5>1, <5>2
        <4>3. CASE b # a /\ d # a
          <5>1. assignment'[b] = assignment[b] /\ assignment'[d] = assignment[d]
            BY <2>4, <4>3
          <5>2. d \in ActiveIn(assignment[b].category)
            BY <3>1, <5>1 DEF ActiveIn
          <5> QED BY <5>1, <5>2 DEF ClassificationInv, FiledRight
        <4> QED BY <4>1, <4>2, <4>3
      <3>4. (d \in ActiveIn(assignment[b].category))' =>
               assignment'[d] # None /\ assignment'[d].category = k /\ ~assignment'[d].retired
        BY <3>1 DEF ActiveIn
      <3>5. ActiveCategory(assignment[b].category)'
        BY <1>3, <3>1, <3>2 DEF ActiveCategory
      <3> QED BY <1>3, <3>1, <3>2, <3>3, <3>4, <3>5
    <2> QED BY <1>3, <1>4, <2>4, <2>5 DEF ClassificationInv
  <1>7. CASE RetireAssignment(m)
    <2>1. PICK old : old = assignment[a]
      OBVIOUS
    <2>2. PICK row : row = [old EXCEPT !.retired = TRUE, !.revision = old.revision + 1]
      OBVIOUS
    <2>3. assignment[a] # None /\ assignment' = [assignment EXCEPT ![a] = row]
      BY <1>2, <1>7, <2>1, <2>2 DEF RetireAssignment
    <2>4. old \in AssignmentRow
      BY <1>3, <2>1, <2>3 DEF ClassificationInv
    <2>5. row \in AssignmentRow /\ row.retired
      <3>1. old = [category |-> old.category, entity |-> old.entity, retired |-> old.retired,
                   revision |-> old.revision]
        BY <2>4 DEF AssignmentRow
      <3>2. row = [category |-> old.category, entity |-> old.entity, retired |-> TRUE,
                   revision |-> old.revision + 1]
        BY <2>2, <3>1
      <3>3. /\ old.category \in Categories /\ old.entity \in DOMAIN TypeOf
            /\ old.revision \in Nat \ {0}
        BY <2>4 DEF AssignmentRow
      <3> QED BY <3>2, <3>3 DEF AssignmentRow
    <2>6. /\ assignment' \in [Assignments -> AssignmentRow \cup {None}] /\ assignment'[a] = row
          /\ \A b \in Assignments \ {a} : assignment'[b] = assignment[b]
      BY <1>3, <2>3, <2>5 DEF ClassificationInv
    <2>7. FiledRight'
      <3> SUFFICES ASSUME NEW b \in Assignments, NEW d \in Assignments,
                          assignment'[b] # None, ~assignment'[b].retired
                   PROVE  /\ ActiveCategory(assignment[b].category)'
                          /\ TypeOf[assignment'[b].entity]
                                \in category'[assignment'[b].category].applies
                          /\ b # d /\ (d \in ActiveIn(assignment[b].category))' =>
                                assignment'[b].entity # assignment'[d].entity
        BY DEF FiledRight
      <3>1. b # a /\ assignment'[b] = assignment[b]
        BY <2>5, <2>6
      <3>2. (d \in ActiveIn(assignment[b].category))' =>
               d # a /\ d \in ActiveIn(assignment[b].category)
        BY <2>5, <2>6, <3>1 DEF ActiveIn
      <3>3. /\ ActiveCategory(assignment[b].category)
            /\ TypeOf[assignment[b].entity] \in category[assignment[b].category].applies
            /\ b # d /\ d \in ActiveIn(assignment[b].category) =>
                  assignment[b].entity # assignment[d].entity
        BY <3>1 DEF ClassificationInv, FiledRight
      <3>4. d # a => assignment'[d] = assignment[d]
        BY <2>6
      <3>5. ActiveCategory(assignment[b].category)'
        BY <1>3, <3>1, <3>3 DEF ActiveCategory
      <3> QED BY <1>3, <3>1, <3>2, <3>3, <3>4, <3>5
    <2> QED BY <1>3, <1>4, <2>6, <2>7 DEF ClassificationInv
  <1> QED BY <1>6, <1>7

LEMMA ClassificationInvariant == ClassificationSpec => []ClassificationInv
  <1>1. ClassificationInit /\ RequestsInit => ClassificationInv
    <2> SUFFICES ASSUME ClassificationInit, RequestsInit PROVE ClassificationInv
      OBVIOUS
    <2>1. /\ \A k \in Categories : category[k] = None
          /\ \A a \in Assignments : assignment[a] = None
          /\ category \in [Categories -> CategoryRow \cup {None}]
          /\ assignment \in [Assignments -> AssignmentRow \cup {None}]
          /\ call \in [Calls -> MoveCall \cup {Idle}]
      BY DEF ClassificationInit, RequestsInit
    <2>2. Forest(category) /\ ParentsExist(category)
      <3>1. Exist(category) = {}
        BY <2>1 DEF Exist
      <3>2. Forest(category)
        BY <3>1, EmptyIsForest
      <3> QED BY <3>1, <3>2 DEF ParentsExist
    <2>3. ActiveParents /\ FiledRight
      BY <2>1 DEF ActiveParents, FiledRight, ActiveCategory
    <2>4. MovesAreOrdered
      BY DEF RequestsInit, MovesAreOrdered, Step
    <2> QED BY <2>1, <2>2, <2>3, <2>4 DEF ClassificationInv
  <1>2. ClassificationInv /\ [ClassificationNext]_<<classificationVars, requestVars>> =>
        ClassificationInv'
    <2> SUFFICES ASSUME ClassificationInv,
                        [ClassificationNext]_<<classificationVars, requestVars>>
                 PROVE  ClassificationInv'
      OBVIOUS
    <2>1. CASE UNCHANGED <<classificationVars, requestVars>>
      <3>1. UNCHANGED <<category, assignment, call>>
        BY <2>1 DEF classificationVars, requestVars
      <3>2. ActiveParents' /\ FiledRight'
        BY <3>1 DEF ClassificationInv, ActiveParents, FiledRight, ActiveCategory, ActiveIn
      <3>3. MovesAreOrdered'
        BY <3>1 DEF ClassificationInv, MovesAreOrdered, Step, Target, ParentAllowed, IsBelow,
                    ActiveCategory
      <3> QED BY <3>1, <3>2, <3>3 DEF ClassificationInv
    <2>2. CASE ClassificationNext
      BY <2>2, CategoryCreationKeeps, CategoryUpdateKeeps, FilingKeeps, MoversKeep, MoveKeeps
         DEF ClassificationNext
    <2> QED BY <2>1, <2>2
  <1> QED BY <1>1, <1>2, PTL DEF ClassificationSpec

\* CategoriesAreSound holds of every behaviour: opposite moves, archivals and
\* filings at the same time leave a forest, and nothing active under, or filed
\* in, what is archived.
THEOREM HierarchyStaysSound == ClassificationSpec => []CategoriesAreSound
  <1>1. ClassificationInv => CategoriesAreSound
    <2> SUFFICES ASSUME ClassificationInv PROVE CategoriesAreSound
      OBVIOUS
    <2>1. ClassificationTypeOK
      BY DEF ClassificationInv, ClassificationTypeOK
    <2>2. HierarchyIsSound
      BY DEF ClassificationInv, HierarchyIsSound, Forest, Exist, ActiveParents, FiledRight
    <2> QED BY <2>1, <2>2 DEF CategoriesAreSound
  <1> QED BY <1>1, ClassificationInvariant, PTL

=============================================================================
