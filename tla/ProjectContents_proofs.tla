----------------------- MODULE ProjectContents_proofs -----------------------
(***************************************************************************)
(* Theorems about what a Project says: its Information cards, its claims,  *)
(* the candidates to change it, its row and its anatomy; for every number  *)
(* of Projects, cards, executions, requests, keys and revisions.           *)
(***************************************************************************)
EXTENDS ProjectChanges, ProjectClaims, Information, ProjectAnatomy,
        FiniteSetTheorems, SequenceTheorems, TLAPS

-----------------------------------------------------------------------------
(* Sets of numbers and sets of which any two members are the same.          *)

HasLast(S) == S # {} => \E k \in S : \A l \in S : l <= k

LEMMA AtMostOne ==
    ASSUME NEW S, \A i, j \in S : i = j
    PROVE  Cardinality(S) <= 1
  <1>1. CASE S = {}
    BY <1>1, FS_EmptySet
  <1>2. CASE S # {}
    <2>1. PICK x : S = {x}
      BY <1>2
    <2> QED BY <2>1, FS_Singleton
  <1> QED BY <1>1, <1>2

\* The image of a finite set under a function is finite.
LEMMA FiniteImage ==
    ASSUME NEW S, IsFiniteSet(S), NEW f, DOMAIN f = S
    PROVE  IsFiniteSet({f[x] : x \in S})
  <1> DEFINE T == {f[x] : x \in S}
             g == [x \in S |-> f[x]]
  <1>1. g \in Surjection(S, T)
    BY DEF Surjection
  <1> QED BY <1>1, FS_Surjection

\* The revision a row is at: a row that is not there is at 0.
RowRevision(row) == IF row = None THEN 0 ELSE row.revision

-----------------------------------------------------------------------------
(* Execution results.  What was said of an item stays as it was said, and   *)
(* there is a last word as soon as there is one.                           *)

DispositionsOf(D, r) == {j \in DOMAIN D : D[j].result = r}

ReviewInv ==
    /\ stored \in [Executions -> Execution \cup {None}]
    /\ dispositions \in Seq(Disposition)
    /\ \A r : HasLast(Of(r))

\* The dispositions D are those of C, and perhaps one more, "row".
FollowedBy(C, D, row) ==
    /\ \A j \in DOMAIN C : j \in DOMAIN D /\ D[j] = C[j]
    /\ \A r : r # row.result => DispositionsOf(D, r) = DispositionsOf(C, r)
    /\ \A j \in DOMAIN D \ DOMAIN C : D[j] = row

LEMMA OneMoreDisposition ==
    ASSUME NEW C \in Seq(Disposition), NEW row \in Disposition
    PROVE  /\ Append(C, row) \in Seq(Disposition)
           /\ FollowedBy(C, Append(C, row), row)
           /\ Len(C) + 1 \in DispositionsOf(Append(C, row), row.result)
           /\ Append(C, row)[Len(C) + 1] = row
           /\ \A r : HasLast(DispositionsOf(C, r)) => HasLast(DispositionsOf(Append(C, row), r))
  <1> DEFINE D == Append(C, row)
             n == Len(C) + 1
  <1>1. D \in Seq(Disposition) /\ Len(C) \in Nat /\ DOMAIN C = 1..Len(C) /\ DOMAIN D = 1..n
        /\ D[n] = row /\ \A i \in 1..Len(C) : D[i] = C[i]
    OBVIOUS
  <1>2. DOMAIN D = DOMAIN C \cup {n} /\ n \notin DOMAIN C
    BY <1>1
  <1> HIDE DEF D
  <1>3. \A r : DispositionsOf(D, r) =
           IF row.result = r THEN DispositionsOf(C, r) \cup {n} ELSE DispositionsOf(C, r)
    BY <1>1, <1>2 DEF DispositionsOf
  <1>4. \A r : HasLast(DispositionsOf(C, r)) => HasLast(DispositionsOf(D, r))
    <2> SUFFICES ASSUME NEW r, HasLast(DispositionsOf(C, r)) PROVE HasLast(DispositionsOf(D, r))
      OBVIOUS
    <2>1. CASE row.result = r
      <3>1. n \in DispositionsOf(D, r) /\ \A l \in DispositionsOf(D, r) : l <= n
        BY <1>1, <1>3, <2>1 DEF DispositionsOf
      <3> QED BY <3>1 DEF HasLast
    <2>2. CASE row.result # r
      BY <1>3, <2>2
    <2> QED BY <2>1, <2>2
  <1>5. FollowedBy(C, D, row)
    BY <1>1, <1>2, <1>3 DEF FollowedBy
  <1>6. n \in DispositionsOf(D, row.result)
    BY <1>3
  <1> QED BY <1>1, <1>4, <1>5, <1>6 DEF D

LEMMA OfIsDispositionsOf == \A r : Of(r) = DispositionsOf(dispositions, r)
  BY DEF Of, DispositionsOf

LEMMA DispositionIsAppended ==
    ASSUME ReviewInv, NEW row \in Disposition, Appends(row), UNCHANGED stored
    PROVE  ReviewInv' /\ FollowedBy(dispositions, dispositions', row)
  <1>1. PICK C : C = dispositions
    OBVIOUS
  <1>2. PICK D : D = dispositions'
    OBVIOUS
  <1>3. C \in Seq(Disposition) /\ \A r : HasLast(DispositionsOf(C, r))
    BY <1>1, OfIsDispositionsOf DEF ReviewInv
  <1>4. D \in Seq(Disposition) /\ FollowedBy(C, D, row) /\ \A r : HasLast(DispositionsOf(D, r))
    <2>1. CASE D = Append(C, row)
      BY <1>3, <2>1, OneMoreDisposition
    <2>2. CASE D = C
      BY <1>3, <2>2 DEF FollowedBy
    <2> QED BY <1>1, <1>2, <2>1, <2>2 DEF Appends
  <1>5. \A r : HasLast(Of(r))'
    BY <1>2, <1>4 DEF Of, DispositionsOf, HasLast
  <1> QED BY <1>1, <1>2, <1>4, <1>5 DEF ReviewInv

LEMMA StoringKeeps ==
    ASSUME ReviewInv, NEW m, StoreResult(m),
           m.execution \in Executions, Content(m) \in Execution
    PROVE  ReviewInv'
  <1>1. stored' \in [Executions -> Execution \cup {None}] /\ UNCHANGED dispositions
    BY DEF StoreResult, ReviewInv
  <1> QED BY <1>1 DEF ReviewInv, Of

\* What was said of r, when nothing more is.
LEMMA LastWordStays ==
    ASSUME ReviewInv, NEW row, FollowedBy(dispositions, dispositions', row),
           NEW r, r # row.result
    PROVE  /\ Of(r)' = Of(r) /\ Latest(r)' = Latest(r)
           /\ Accepted(r) => Accepted(r)'
  <1>1. Of(r)' = Of(r)
    BY OfIsDispositionsOf DEF FollowedBy, Of, DispositionsOf
  <1>2. Latest(r)' = Latest(r)
    BY <1>1 DEF Latest
  <1>3. Accepted(r) => Accepted(r)'
    <2> SUFFICES ASSUME Accepted(r) PROVE Accepted(r)'
      OBVIOUS
    <2>1. PICK j : j = Latest(r)
      OBVIOUS
    <2>2. PICK k \in Of(r) : \A l \in Of(r) : l <= k
      BY DEF Accepted, ReviewInv, HasLast
    <2>3. j \in Of(r)
      BY <2>1, <2>2 DEF Latest
    <2>4. dispositions'[j] = dispositions[j]
      BY <2>3 DEF FollowedBy, Of
    <2> QED BY <1>1, <1>2, <2>1, <2>4 DEF Accepted
  <1> QED BY <1>1, <1>2, <1>3

LEMMA AppendedIsThere ==
    ASSUME ReviewInv, NEW row \in Disposition, Appends(row)
    PROVE  \E j \in DOMAIN dispositions' : dispositions'[j] = row
  <1>1. CASE {j \in DOMAIN dispositions : dispositions[j].key = row.key} = {}
    <2>1. dispositions' = Append(dispositions, row) /\ dispositions \in Seq(Disposition)
      BY <1>1 DEF Appends, ReviewInv
    <2>2. Len(dispositions) + 1 \in DOMAIN dispositions' /\ dispositions'[Len(dispositions) + 1] = row
      BY <2>1
    <2> QED BY <2>2
  <1>2. CASE {j \in DOMAIN dispositions : dispositions[j].key = row.key} # {}
    BY <1>2 DEF Appends
  <1> QED BY <1>1, <1>2

-----------------------------------------------------------------------------
(* Information.  The history of a link is told over the events alone, so    *)
(* that what precedes an event does not change when others follow.         *)

LinkEventsOf(E, i, d) ==
    {j \in DOMAIN E : /\ E[j].type # "projection_metadata_updated"
                      /\ E[j].command.card = i /\ E[j].command.document = d}

\* The last of the events S leaves a link.
LeavesLink(E, S) == \E k \in S : (\A l \in S : l <= k) /\ E[k].type # "document_link_removed"

\* LinkHistoryIsTrue for one link, whose role is given.
TellsLink(E, i, d, role) ==
    LET events == LinkEventsOf(E, i, d) IN
    /\ \A j \in events :
          /\ HasLast({k \in events : k < j})
          /\ LeavesLink(E, {k \in events : k < j}) <=> E[j].type # "document_link_added"
    /\ HasLast(events)
    /\ LeavesLink(E, events) <=> role # None

ProjectionEvent == [command : ProjectionCommand, type : EventTypes, expected : Nat]

ProjectionCallFits(q) ==
    /\ q.pc = "projecting" /\ q.command \in ProjectionCommand /\ q.expected \in 0..MaxProjection

\* In and what is said of a series, for the rows C of the cards.
Stands(C, i, S) == C[i] # None /\ C[i].status \in S

CardsFit(C) ==
    /\ C \in [Cards -> CardRow \cup {None}]
    /\ \A i, j \in Cards : Stands(C, i, Working) /\ Stands(C, j, Working)
                           /\ C[i].series = C[j].series => i = j
    /\ \A i, j \in Cards : Stands(C, i, {"acted"}) /\ Stands(C, j, {"acted"})
                           /\ C[i].series = C[j].series => i = j
    /\ \A i \in Cards : C[i] # None =>
          IF C[i].base = None THEN C[i].series = i
          ELSE Stands(C, C[i].base, {"acted", "superseded"})

ProjectionFits ==
    /\ metadata \in [Cards -> Metadata \cup {None}]
    /\ link \in [Cards -> [Documents -> LinkRoles \cup {None}]]
    /\ projectionEvents \in Seq(ProjectionEvent)
    /\ \A i \in Cards, d \in Documents : TellsLink(projectionEvents, i, d, link[i][d])

ProjectionCalls ==
    /\ DOMAIN call = Calls
    /\ \A c \in Calls : call[c] = Idle \/ ProjectionCallFits(call[c])

CallsHaveCard == \A c \in Calls : call[c] # Idle => card[call[c].command.card] # None

InformationInv == CardsFit(card) /\ ProjectionFits /\ ProjectionCalls /\ CallsHaveCard

LEMMA ProjectionCommandFits ==
    ASSUME NEW m \in ProjectionCommand
    PROVE  /\ m.card \in Cards
           /\ m.op = "update_projection_metadata" => m.text \in Texts
           /\ m.op \in {"add_document_link", "remove_document_link"} => m.document \in Documents
           /\ m.op = "add_document_link" => m.role \in LinkRoles
           /\ m.op \in {"update_projection_metadata", "add_document_link", "remove_document_link"}
  BY DEF ProjectionCommand

\* One more event about one link.
LEMMA OneMoreLinkEvent ==
    ASSUME NEW S, NEW E \in Seq(S), NEW e \in S
    PROVE  /\ Append(E, e) \in Seq(S)
           /\ \A j \in DOMAIN E : j \in Nat /\ j < Len(E) + 1 /\ Append(E, e)[j] = E[j]
           /\ Append(E, e)[Len(E) + 1] = e
           /\ \A i, d : LinkEventsOf(Append(E, e), i, d) =
                 IF /\ e.type # "projection_metadata_updated"
                    /\ e.command.card = i /\ e.command.document = d
                 THEN LinkEventsOf(E, i, d) \cup {Len(E) + 1} ELSE LinkEventsOf(E, i, d)
  <1> DEFINE F == Append(E, e)
             n == Len(E) + 1
  <1>1. F \in Seq(S) /\ Len(E) \in Nat /\ DOMAIN E = 1..Len(E) /\ DOMAIN F = 1..n
        /\ F[n] = e /\ \A i \in 1..Len(E) : F[i] = E[i]
    OBVIOUS
  <1>2. DOMAIN F = DOMAIN E \cup {n} /\ n \notin DOMAIN E
    BY <1>1
  <1> HIDE DEF F
  <1>3. ASSUME NEW i, NEW d
        PROVE  LinkEventsOf(F, i, d) =
                  IF /\ e.type # "projection_metadata_updated"
                     /\ e.command.card = i /\ e.command.document = d
                  THEN LinkEventsOf(E, i, d) \cup {n} ELSE LinkEventsOf(E, i, d)
    BY <1>1, <1>2 DEF LinkEventsOf
  <1> QED BY <1>1, <1>3 DEF F

LEMMA OtherLinkIsTold ==
    ASSUME NEW S, NEW E \in Seq(S), NEW e \in S, NEW i, NEW d, NEW role, TellsLink(E, i, d, role),
           ~(/\ e.type # "projection_metadata_updated"
             /\ e.command.card = i /\ e.command.document = d)
    PROVE  TellsLink(Append(E, e), i, d, role)
  <1>1. PICK F : F = Append(E, e)
    OBVIOUS
  <1>2. PICK h : h = LinkEventsOf(E, i, d)
    OBVIOUS
  <1>3. LinkEventsOf(F, i, d) = h /\ \A j \in h : F[j] = E[j]
    BY <1>1, <1>2, OneMoreLinkEvent DEF LinkEventsOf
  <1>4. \A T \in SUBSET h : LeavesLink(F, T) <=> LeavesLink(E, T)
    BY <1>3 DEF LeavesLink
  <1>5. \A j \in h : {k \in h : k < j} \in SUBSET h
    OBVIOUS
  <1> QED BY <1>1, <1>2, <1>3, <1>4, <1>5 DEF TellsLink

LEMMA LinkIsTold ==
    ASSUME NEW S, NEW E \in Seq(S), NEW e \in S, NEW i, NEW d, NEW role, NEW next,
           TellsLink(E, i, d, role),
           e.type # "projection_metadata_updated", e.command.card = i, e.command.document = d,
           role # None <=> e.type # "document_link_added",
           next # None <=> e.type # "document_link_removed"
    PROVE  TellsLink(Append(E, e), i, d, next)
  <1>1. PICK F : F = Append(E, e)
    OBVIOUS
  <1>2. PICK h : h = LinkEventsOf(E, i, d)
    OBVIOUS
  <1>3. PICK n : n = Len(E) + 1
    OBVIOUS
  <1>4. /\ LinkEventsOf(F, i, d) = h \cup {n} /\ F[n] = e
        /\ \A j \in h : j \in Nat /\ j < n /\ F[j] = E[j]
        /\ n \in Nat
    BY <1>1, <1>2, <1>3, OneMoreLinkEvent, LenProperties DEF LinkEventsOf
  <1>5. \A T \in SUBSET h : LeavesLink(F, T) <=> LeavesLink(E, T)
    BY <1>4 DEF LeavesLink
  <1>6. \A j \in h : {k \in h \cup {n} : k < j} = {k \in h : k < j}
    BY <1>4
  <1>7. {k \in h \cup {n} : k < n} = h
    BY <1>4
  <1>8. \A j \in h : {k \in h : k < j} \in SUBSET h
    OBVIOUS
  <1>9. HasLast(h \cup {n}) /\ (LeavesLink(F, h \cup {n}) <=> next # None)
    <2>1. n \in h \cup {n} /\ \A l \in h \cup {n} : l <= n
      BY <1>4
    <2>2. \A k \in h \cup {n} : (\A l \in h \cup {n} : l <= k) => k = n
      BY <1>4
    <2>3. F[n] = e
      BY <1>4
    <2> QED BY <2>1, <2>2, <2>3 DEF HasLast, LeavesLink
  <1>10. /\ HasLast(h) /\ (LeavesLink(E, h) <=> role # None)
         /\ \A j \in h : /\ HasLast({k \in h : k < j})
                         /\ LeavesLink(E, {k \in h : k < j}) <=> E[j].type # "document_link_added"
    BY <1>2 DEF TellsLink
  <1>11. \A j \in h \cup {n} :
            /\ HasLast({k \in h \cup {n} : k < j})
            /\ LeavesLink(F, {k \in h \cup {n} : k < j}) <=> F[j].type # "document_link_added"
    <2>1. \A j \in h :
            /\ HasLast({k \in h \cup {n} : k < j})
            /\ LeavesLink(F, {k \in h \cup {n} : k < j}) <=> F[j].type # "document_link_added"
      BY <1>4, <1>5, <1>6, <1>8, <1>10
    <2>2. /\ HasLast({k \in h \cup {n} : k < n})
          /\ LeavesLink(F, {k \in h \cup {n} : k < n}) <=> F[n].type # "document_link_added"
      BY <1>4, <1>5, <1>7, <1>10
    <2> QED BY <2>1, <2>2
  <1>12. LinkEventsOf(F, i, d) = h \cup {n}
    BY <1>4
  <1>13. TellsLink(F, i, d, next)
    BY <1>9, <1>11, <1>12 DEF TellsLink
  <1> QED BY <1>1, <1>13

\* What is told over the events is LinkHistoryIsTrue.
LEMMA HistoryTold == ProjectionFits => LinkHistoryIsTrue
  <1> SUFFICES ASSUME ProjectionFits PROVE LinkHistoryIsTrue
    OBVIOUS
  <1>1. PICK E : E = projectionEvents
    OBVIOUS
  <1> DEFINE Last(S) == CHOOSE k \in S : \A l \in S : l <= k
             Leaves(S) == S # {} /\ E[Last(S)].type # "document_link_removed"
  <1>2. E \in Seq(ProjectionEvent) /\ DOMAIN E = 1..Len(E) /\ Len(E) \in Nat
    BY <1>1 DEF ProjectionFits
  <1>3. ASSUME NEW S \in SUBSET DOMAIN E, HasLast(S)
        PROVE  Leaves(S) <=> LeavesLink(E, S)
    <2>1. CASE S = {}
      BY <2>1 DEF LeavesLink
    <2>2. CASE S # {}
      <3>1. PICK k \in S : \A l \in S : l <= k
        BY <1>3, <2>2 DEF HasLast
      <3>2. \A j \in S : (\A l \in S : l <= j) => j = k
        BY <1>2, <3>1
      <3>3. Last(S) = k
        BY <3>1, <3>2
      <3> HIDE DEF Last
      <3> QED BY <2>2, <3>1, <3>2, <3>3 DEF LeavesLink
    <2> QED BY <2>1, <2>2
  <1>4. ASSUME NEW i \in Cards, NEW d \in Documents
        PROVE  LET events == LinkEvents(i, d) IN
               /\ \A j \in events :
                     Leaves({k \in events : k < j}) <=> E[j].type # "document_link_added"
               /\ Leaves({k \in events : k < Len(E) + 1}) <=> link[i][d] # None
    <2>1. PICK h : h = LinkEvents(i, d)
      OBVIOUS
    <2>2. h = LinkEventsOf(E, i, d) /\ TellsLink(E, i, d, link[i][d])
      BY <1>1, <2>1 DEF LinkEvents, LinkEventsOf, ProjectionFits
    <2>3. h \in SUBSET DOMAIN E /\ \A j \in h : {k \in h : k < j} \in SUBSET DOMAIN E
      BY <2>2 DEF LinkEventsOf
    <2>4. {k \in h : k < Len(E) + 1} = h
      BY <1>2, <2>3
    <2> HIDE DEF Leaves
    <2>5. \A j \in h : Leaves({k \in h : k < j}) <=> E[j].type # "document_link_added"
      BY <1>3, <2>2, <2>3 DEF TellsLink
    <2>6. Leaves(h) <=> link[i][d] # None
      BY <1>3, <2>2, <2>3 DEF TellsLink
    <2> QED BY <2>1, <2>4, <2>5, <2>6
  <1>5. ASSUME NEW i \in Cards, NEW d \in Documents
        PROVE  LET events == LinkEvents(i, d)
                   Earlier(j) == {k \in events : k < j}
                   There(j) ==
                      /\ Earlier(j) # {}
                      /\ projectionEvents[CHOOSE k \in Earlier(j) : \A l \in Earlier(j) : l <= k].type
                            # "document_link_removed"
               IN  /\ \A j \in events :
                         There(j) <=> projectionEvents[j].type # "document_link_added"
                   /\ There(Len(projectionEvents) + 1) <=> link[i][d] # None
    BY <1>1, <1>4
  <1> QED BY <1>5 DEF LinkHistoryIsTrue

-----------------------------------------------------------------------------
(* The cards.                                                              *)

LEMMA CardRowFits ==
    ASSUME NEW row \in CardRow
    PROVE  /\ row # None /\ row.series \in Cards /\ row.text \in Texts
           /\ row.status \in CardStatuses /\ row.revision \in 1..CardRevisions
           /\ row.base \in Cards \cup {None}
  BY InformationAssumption DEF CardRow

LEMMA UpdatedFits ==
    ASSUME NEW row \in CardRow, NEW text \in Texts, NEW status \in CardStatuses,
           row.revision < CardRevisions
    PROVE  /\ Updated(row, text, status) \in CardRow
           /\ Updated(row, text, status).series = row.series
           /\ Updated(row, text, status).status = status
           /\ Updated(row, text, status).base = row.base
  <1>1. row.revision + 1 \in 1..CardRevisions
    <2>1. row.revision \in 1..CardRevisions /\ CardRevisions \in Nat
      BY CardRowFits, InformationAssumption
    <2> QED BY <2>1
  <1>2. row.series \in Cards /\ row.base \in Cards \cup {None}
    BY CardRowFits
  <1> QED BY <1>1, <1>2 DEF Updated, CardRow

\* The state of a card whose row is known.
LEMMA CardIs ==
    ASSUME NEW D, NEW i \in Cards, NEW row \in CardRow, D[i] = row
    PROVE  /\ \A S : Stands(D, i, S) <=> row.status \in S
           /\ D[i] # None
  <1>1. row # None
    BY CardRowFits
  <1> QED BY <1>1 DEF Stands

LEMMA CardWas ==
    ASSUME NEW C, CardsFit(C), NEW i \in Cards, C[i] # None
    PROVE  C[i] \in CardRow /\ \A S : Stands(C, i, S) <=> C[i].status \in S
  BY DEF CardsFit, Stands

\* A working version of a series that had none is added.
LEMMA NewVersionKeeps ==
    ASSUME NEW C, NEW D, CardsFit(C), NEW i \in Cards, NEW row \in CardRow, C[i] = None,
           D = [C EXCEPT ![i] = row], row.status \in Working,
           \A j \in Cards : Stands(C, j, Working) => C[j].series # row.series,
           IF row.base = None THEN row.series = i
           ELSE row.base \in Cards /\ Stands(C, row.base, {"acted", "superseded"})
    PROVE  CardsFit(D)
  <1>1. /\ D[i] = row /\ \A j \in Cards : j # i => D[j] = C[j]
        /\ D \in [Cards -> CardRow \cup {None}]
    BY DEF CardsFit
  <1>2. D[i] # None /\ \A S : Stands(D, i, S) <=> row.status \in S
    BY <1>1, CardIs
  <1>3. ~Stands(D, i, {"acted"}) /\ Stands(D, i, Working)
    BY <1>2 DEF Working, Stands
  <1>4. \A j \in Cards : j # i => \A S : Stands(D, j, S) <=> Stands(C, j, S)
    BY <1>1 DEF Stands
  <1>5. \A S : ~Stands(C, i, S)
    BY DEF Stands
  <1>6. \A j, k \in Cards : Stands(D, j, Working) /\ Stands(D, k, Working)
                            /\ D[j].series = D[k].series => j = k
    <2> SUFFICES ASSUME NEW j \in Cards, NEW k \in Cards, Stands(D, j, Working), Stands(D, k, Working),
                        D[j].series = D[k].series, j # k
                 PROVE  FALSE
      BY DEF Stands
    <2>1. CASE j = i
      BY <1>1, <1>4, <2>1
    <2>2. CASE k = i
      BY <1>1, <1>4, <2>2
    <2>3. CASE j # i /\ k # i
      BY <1>1, <1>4, <2>3 DEF CardsFit
    <2> QED BY <2>1, <2>2, <2>3
  <1>7. \A j, k \in Cards : Stands(D, j, {"acted"}) /\ Stands(D, k, {"acted"})
                            /\ D[j].series = D[k].series => j = k
    BY <1>1, <1>3, <1>4 DEF CardsFit, Stands
  <1>8. \A j \in Cards : D[j] # None =>
           IF D[j].base = None THEN D[j].series = j
           ELSE Stands(D, D[j].base, {"acted", "superseded"})
    <2> SUFFICES ASSUME NEW j \in Cards, D[j] # None
                 PROVE  IF D[j].base = None THEN D[j].series = j
                        ELSE Stands(D, D[j].base, {"acted", "superseded"})
      OBVIOUS
    <2>1. CASE j = i
      BY <1>1, <1>4, <1>5, <2>1
    <2>2. CASE j # i
      <3>1. D[j] = C[j] /\ C[j] # None
        BY <1>1, <2>2
      <3>2. C[j] \in CardRow
        BY <3>1, CardWas
      <3>3. C[j].base \in Cards \cup {None}
        BY <3>2, CardRowFits
      <3>4. IF C[j].base = None THEN C[j].series = j
            ELSE Stands(C, C[j].base, {"acted", "superseded"})
        BY <3>1 DEF CardsFit
      <3> QED BY <1>4, <1>5, <3>1, <3>3, <3>4
    <2> QED BY <2>1, <2>2
  <1> QED BY <1>1, <1>6, <1>7, <1>8 DEF CardsFit

\* Rows of which none changes its series or its base, and of which those that were
\* effective once stay so.
LEMMA VersionsKeep ==
    ASSUME NEW C, NEW D, CardsFit(C), D \in [Cards -> CardRow \cup {None}],
           \A j \in Cards : D[j] = None <=> C[j] = None,
           \A j \in Cards : C[j] # None => /\ D[j].series = C[j].series
                                              /\ D[j].base = C[j].base,
           \A j \in Cards : Stands(C, j, {"acted", "superseded"}) => Stands(D, j, {"acted", "superseded"}),
           \A j \in Cards : Stands(D, j, Working) => Stands(C, j, Working),
           \A j, k \in Cards : Stands(D, j, {"acted"}) /\ Stands(D, k, {"acted"})
                               /\ C[j].series = C[k].series => j = k
    PROVE  CardsFit(D)
  <1>1. \A j \in Cards : C[j] # None => C[j].base \in Cards \cup {None}
    BY CardWas, CardRowFits
  <1>2. \A j \in Cards : \A S : Stands(D, j, S) => C[j] # None
    BY DEF Stands
  <1>3. \A j, k \in Cards : Stands(D, j, Working) /\ Stands(D, k, Working)
                            /\ D[j].series = D[k].series => j = k
    BY <1>2 DEF CardsFit, Stands
  <1>4. \A j, k \in Cards : Stands(D, j, {"acted"}) /\ Stands(D, k, {"acted"})
                            /\ D[j].series = D[k].series => j = k
    BY <1>2
  <1>5. \A j \in Cards : D[j] # None =>
           IF D[j].base = None THEN D[j].series = j
           ELSE Stands(D, D[j].base, {"acted", "superseded"})
    BY <1>1 DEF CardsFit
  <1> QED BY <1>3, <1>4, <1>5 DEF CardsFit

LEMMA EditKeeps ==
    ASSUME NEW C, NEW D, CardsFit(C), NEW i \in Cards, NEW text \in Texts,
           NEW status \in Working, Stands(C, i, Working), C[i].revision < CardRevisions,
           D = [C EXCEPT ![i] = Updated(C[i], text, status)]
    PROVE  /\ CardsFit(D)
           /\ \A j \in Cards : C[j] # None => D[j] # None
           /\ \A j \in Cards : Stands(C, j, {"acted", "superseded"}) => D[j] = C[j]
  <1>1. Stands(C, i, Working)
    OBVIOUS
  <1>2. C[i] # None /\ status \in CardStatuses
    BY <1>1 DEF Stands, CardStatuses
  <1>3. PICK old : old = C[i]
    OBVIOUS
  <1>4. old \in CardRow /\ old.status \in Working
    BY <1>1, <1>2, <1>3, CardWas
  <1>5. PICK row : row = Updated(old, text, status)
    OBVIOUS
  <1>6. row \in CardRow /\ row.series = old.series /\ row.status = status /\ row.base = old.base
    BY <1>1, <1>2, <1>3, <1>4, <1>5, UpdatedFits
  <1>7. /\ D[i] = row /\ \A j \in Cards : j # i => D[j] = C[j]
        /\ D \in [Cards -> CardRow \cup {None}]
    BY <1>1, <1>3, <1>5, <1>6 DEF CardsFit
  <1>8. D[i] # None /\ \A S : Stands(D, i, S) <=> status \in S
    BY <1>6, <1>7, CardIs
  <1>9. \A j \in Cards : j # i => \A S : Stands(D, j, S) <=> Stands(C, j, S)
    BY <1>7 DEF Stands
  <1>10. ~Stands(D, i, {"acted"}) /\ Stands(D, i, Working) /\ ~Stands(C, i, {"acted", "superseded"})
    BY <1>1, <1>8 DEF Stands, Working
  <1>11. \A j, k \in Cards : Stands(D, j, {"acted"}) /\ Stands(D, k, {"acted"})
                             /\ C[j].series = C[k].series => j = k
    BY <1>9, <1>10 DEF CardsFit, Stands
  <1>12. \A j \in Cards : D[j] = None <=> C[j] = None
    BY <1>2, <1>7, <1>8
  <1>13. \A j \in Cards : C[j] # None => /\ D[j].series = C[j].series
                                            /\ D[j].base = C[j].base
    BY <1>3, <1>6, <1>7
  <1>14. \A j \in Cards : Stands(D, j, Working) => Stands(C, j, Working)
    BY <1>1, <1>9
  <1>15. \A j \in Cards : Stands(C, j, {"acted", "superseded"}) => Stands(D, j, {"acted", "superseded"})
    BY <1>9, <1>10
  <1>16. CardsFit(D)
    BY <1>7, <1>11, <1>12, <1>13, <1>14, <1>15, VersionsKeep
  <1>17. ~Stands(C, i, {"acted", "superseded"})
    BY <1>10
  <1> QED BY <1>7, <1>12, <1>16, <1>17

\* Card i is acted, and what was acted of its series is superseded.
Supersedes(C, D, i, acted) ==
    /\ CardsFit(C) /\ Stands(C, i, Working)
    /\ \A j : j \in acted <=> j \in Cards /\ Stands(C, j, {"acted"}) /\ C[j].series = C[i].series
    /\ \A j \in acted \cup {i} : C[j].revision < CardRevisions
    /\ D = [j \in Cards |-> D[j]] /\ D[i] = Updated(C[i], C[i].text, "acted")
    /\ \A j \in acted \ {i} : D[j] = Updated(C[j], C[j].text, "superseded")
    /\ \A j \in Cards \ (acted \cup {i}) : D[j] = C[j]

VersionsKept(C, D) ==
    /\ \A j \in Cards : C[j] # None => D[j] # None
    /\ \A j \in Cards : Stands(C, j, {"acted", "superseded"}) =>
          \/ D[j] = C[j]
          \/ /\ C[j].status = "acted"
             /\ D[j] = Updated(C[j], C[j].text, "superseded")
             /\ \E k \in Cards : /\ Stands(C, k, Working) /\ C[k].series = C[j].series
                                 /\ D[k].status = "acted"

LEMMA ActKeeps ==
    ASSUME NEW C, NEW D, NEW i \in Cards, NEW acted, Supersedes(C, D, i, acted)
    PROVE  CardsFit(D) /\ VersionsKept(C, D)
  <1>1. /\ CardsFit(C) /\ Stands(C, i, Working)
        /\ \A j \in acted \cup {i} : C[j].revision < CardRevisions
        /\ \A j : j \in acted <=> j \in Cards /\ Stands(C, j, {"acted"}) /\ C[j].series = C[i].series
        /\ D = [j \in Cards |-> D[j]] /\ D[i] = Updated(C[i], C[i].text, "acted")
        /\ \A j \in acted \ {i} : D[j] = Updated(C[j], C[j].text, "superseded")
        /\ \A j \in Cards \ (acted \cup {i}) : D[j] = C[j]
    BY DEF Supersedes
  <1>2. /\ i \notin acted
        /\ \A j \in Cards : j \in acted <=> Stands(C, j, {"acted"}) /\ C[j].series = C[i].series
    BY <1>1 DEF Stands, Working
  <1>3. ASSUME NEW j \in acted \cup {i}, NEW status \in CardStatuses
        PROVE  /\ Updated(C[j], C[j].text, status) \in CardRow
               /\ Updated(C[j], C[j].text, status).series = C[j].series
               /\ Updated(C[j], C[j].text, status).status = status
               /\ Updated(C[j], C[j].text, status).base = C[j].base
    <2>1. j \in Cards /\ C[j] # None
      BY <1>1, <1>2, <1>3 DEF Stands
    <2>2. C[j] \in CardRow /\ C[j].text \in Texts /\ C[j].revision < CardRevisions
      BY <1>1, <1>3, <2>1, CardWas, CardRowFits
    <2> QED BY <2>2, UpdatedFits
  <1>4. "acted" \in CardStatuses /\ "superseded" \in CardStatuses /\ acted \subseteq Cards
    BY <1>1 DEF CardStatuses
  <1>5. /\ D[i] = Updated(C[i], C[i].text, "acted")
        /\ D[i] \in CardRow /\ D[i].series = C[i].series
        /\ D[i].status = "acted" /\ D[i].base = C[i].base
    BY <1>1, <1>3, <1>4
  <1>6. \A j \in acted :
           /\ D[j] = Updated(C[j], C[j].text, "superseded")
           /\ D[j] \in CardRow /\ D[j].series = C[j].series
           /\ D[j].status = "superseded" /\ D[j].base = C[j].base
    BY <1>1, <1>2, <1>3, <1>4
  <1>7. \A j \in Cards : j # i /\ j \notin acted => D[j] = C[j]
    BY <1>1
  <1>8. D \in [Cards -> CardRow \cup {None}]
    <2>1. \A j \in Cards : D[j] \in CardRow \cup {None}
      BY <1>1, <1>5, <1>6, <1>7 DEF CardsFit
    <2>2. D = [j \in Cards |-> D[j]]
      BY <1>1
    <2> QED BY <2>1, <2>2
  <1>9. \A S : Stands(D, i, S) <=> "acted" \in S
    BY <1>5, CardIs
  <1>10. \A j \in acted : \A S : Stands(D, j, S) <=> "superseded" \in S
    BY <1>4, <1>6, CardIs
  <1>11. \A j \in Cards : j # i /\ j \notin acted => \A S : Stands(D, j, S) <=> Stands(C, j, S)
    BY <1>7 DEF Stands
  <1>12. \A j \in Cards : D[j] = None <=> C[j] = None
    <2>1. C[i] # None /\ \A j \in acted : C[j] # None
      BY <1>1, <1>2, <1>4 DEF Stands
    <2>2. D[i] # None /\ \A j \in acted : D[j] # None
      BY <1>5, <1>6, CardRowFits
    <2> QED BY <1>7, <2>1, <2>2
  <1>13. \A j \in Cards : C[j] # None => /\ D[j].series = C[j].series
                                            /\ D[j].base = C[j].base
    BY <1>5, <1>6, <1>7
  <1>14. \A j \in Cards : Stands(C, j, {"acted", "superseded"}) => Stands(D, j, {"acted", "superseded"})
    BY <1>9, <1>10, <1>11
  <1>15. \A j \in Cards : Stands(D, j, Working) => Stands(C, j, Working)
    BY <1>1, <1>10, <1>11 DEF Working
  <1>16. \A j, k \in Cards : Stands(D, j, {"acted"}) /\ Stands(D, k, {"acted"})
                             /\ C[j].series = C[k].series => j = k
    <2> SUFFICES ASSUME NEW j \in Cards, NEW k \in Cards, Stands(D, j, {"acted"}), Stands(D, k, {"acted"}),
                        C[j].series = C[k].series, j # k
                 PROVE  FALSE
      BY DEF Stands
    <2>1. j \notin acted /\ k \notin acted
      BY <1>10
    <2>2. CASE j = i
      BY <1>2, <1>11, <2>1, <2>2
    <2>3. CASE k = i
      BY <1>2, <1>11, <2>1, <2>3
    <2>4. CASE j # i /\ k # i
      BY <1>1, <1>11, <2>1, <2>4 DEF CardsFit
    <2> QED BY <2>2, <2>3, <2>4
  <1>17. CardsFit(D)
    BY <1>1, <1>8, <1>12, <1>13, <1>14, <1>15, <1>16, VersionsKeep
  <1>18. \A j \in acted : C[j].status = "acted" /\ C[j].series = C[i].series
    BY <1>2, <1>4 DEF Stands
  <1>19. ~Stands(C, i, {"acted", "superseded"})
    BY <1>1 DEF Stands, Working
  <1> QED BY <1>1, <1>5, <1>6, <1>7, <1>12, <1>17, <1>18, <1>19 DEF VersionsKept

LEMMA InStands == \A i, S : In(i, S) <=> Stands(card, i, S)
  BY DEF In, Stands

CardsKept ==
    /\ \A j \in Cards : card[j] # None => card'[j] # None
    /\ \A j \in Cards : In(j, {"acted", "superseded"}) =>
          \/ card'[j] = card[j]
          \/ /\ card[j].status = "acted"
             /\ card'[j] = Updated(card[j], card[j].text, "superseded")
             /\ \E k \in Cards : /\ In(k, Working) /\ card[k].series = card[j].series
                                 /\ card'[k].status = "acted"

LEMMA CreationKeeps ==
    ASSUME InformationInv, NEW i \in Cards, NEW text \in Texts, NEW status \in Working,
           CreateCard(i, text, status)
    PROVE  CardsFit(card') /\ CardsKept
  <1>1. PICK C : C = card
    OBVIOUS
  <1>2. PICK D : D = card'
    OBVIOUS
  <1>3. PICK row : row = NewVersion(i, text, status, None)
    OBVIOUS
  <1>4. row \in CardRow
    <2>1. 1 \in 1..CardRevisions /\ status \in CardStatuses
      BY InformationAssumption DEF CardStatuses
    <2> QED BY <1>3, <2>1 DEF NewVersion, CardRow
  <1>5. row.series = i /\ row.status \in Working /\ row.base = None
    BY <1>3 DEF NewVersion
  <1>6. C[i] = None /\ D = [C EXCEPT ![i] = row] /\ CardsFit(C)
        /\ \A j \in Cards : C[j] # None => C[j].series # i
    BY <1>1, <1>2, <1>3 DEF CreateCard, InformationInv
  <1>7. \A j \in Cards : Stands(C, j, Working) => C[j].series # row.series
    BY <1>5, <1>6 DEF Stands
  <1>8. CardsFit(D)
    BY <1>4, <1>5, <1>6, <1>7, NewVersionKeeps
  <1>9. \A j \in Cards : C[j] # None => D[j] = C[j]
    BY <1>6 DEF CardsFit
  <1>10. CardsKept
    BY <1>1, <1>2, <1>9 DEF CardsKept, In
  <1> QED BY <1>2, <1>8, <1>10

LEMMA DerivationKeeps ==
    ASSUME InformationInv, NEW a \in Cards, NEW i \in Cards, DeriveCard(a, i)
    PROVE  CardsFit(card') /\ CardsKept
  <1>1. PICK C : C = card
    OBVIOUS
  <1>2. PICK D : D = card'
    OBVIOUS
  <1>3. PICK row : row = NewVersion(C[a].series, C[a].text, "draft", a)
    OBVIOUS
  <1>4. CardsFit(C) /\ C[i] = None /\ D = [C EXCEPT ![i] = row]
        /\ Stands(C, a, {"acted"}) /\ SeriesOf(a, Working) = {}
    BY <1>1, <1>2, <1>3, InStands DEF DeriveCard, Derivable, InformationInv
  <1>5. C[a] \in CardRow
    BY <1>4, CardWas DEF Stands
  <1>6. row \in CardRow
    <2>1. 1 \in 1..CardRevisions /\ "draft" \in CardStatuses
      BY InformationAssumption DEF CardStatuses, Working
    <2>2. C[a].series \in Cards /\ C[a].text \in Texts
      BY <1>5, CardRowFits
    <2> QED BY <1>3, <2>1, <2>2 DEF NewVersion, CardRow
  <1>7. row.series = C[a].series /\ row.status \in Working /\ row.base = a /\ a # None
    BY <1>3, InformationAssumption DEF NewVersion, Working
  <1>8. \A j \in Cards : Stands(C, j, Working) => C[j].series # row.series
    BY <1>1, <1>4, <1>7, InStands DEF SeriesOf
  <1>9. Stands(C, row.base, {"acted", "superseded"})
    BY <1>4, <1>7 DEF Stands
  <1>10. CardsFit(D)
    BY <1>4, <1>6, <1>7, <1>8, <1>9, NewVersionKeeps
  <1>11. \A j \in Cards : C[j] # None => D[j] = C[j]
    BY <1>4 DEF CardsFit
  <1>12. CardsKept
    BY <1>1, <1>2, <1>11 DEF CardsKept, In
  <1> QED BY <1>2, <1>10, <1>12

LEMMA EditionKeeps ==
    ASSUME InformationInv, NEW i \in Cards, NEW v \in 1..CardRevisions, NEW text \in Texts,
           NEW status \in Working, EditCard(i, v, text, status)
    PROVE  CardsFit(card') /\ CardsKept
  <1>1. PICK C : C = card
    OBVIOUS
  <1>2. PICK D : D = card'
    OBVIOUS
  <1>3. /\ CardsFit(C) /\ Stands(C, i, Working) /\ C[i].revision < CardRevisions
        /\ D = [C EXCEPT ![i] = Updated(C[i], text, status)]
    BY <1>1, <1>2, InStands DEF EditCard, Editable, InformationInv, CardsFit
  <1>4. /\ CardsFit(D)
        /\ \A j \in Cards : C[j] # None => D[j] # None
        /\ \A j \in Cards : Stands(C, j, {"acted", "superseded"}) => D[j] = C[j]
    BY <1>3, EditKeeps
  <1>5. CardsKept
    BY <1>1, <1>2, <1>4, InStands DEF CardsKept
  <1> QED BY <1>2, <1>4, <1>5

LEMMA ActingKeeps ==
    ASSUME InformationInv, NEW i \in Cards, NEW v \in 1..CardRevisions, ActCard(i, v)
    PROVE  CardsFit(card') /\ CardsKept
  <1>1. PICK C : C = card
    OBVIOUS
  <1>2. PICK D : D = card'
    OBVIOUS
  <1>3. PICK acted : acted = SeriesOf(i, {"acted"})
    OBVIOUS
  <1>4. /\ CardsFit(C) /\ Stands(C, i, Working)
        /\ \A j : j \in acted <=> j \in Cards /\ Stands(C, j, {"acted"}) /\ C[j].series = C[i].series
    BY <1>1, <1>3, InStands DEF ActCard, SeriesOf, InformationInv
  <1>5. \A j \in acted \cup {i} : C[j].revision < CardRevisions
    BY <1>1, <1>3 DEF ActCard
  <1>6. /\ D = [j \in Cards |-> D[j]] /\ D[i] = Updated(C[i], C[i].text, "acted")
        /\ \A j \in acted \ {i} : D[j] = Updated(C[j], C[j].text, "superseded")
        /\ \A j \in Cards \ (acted \cup {i}) : D[j] = C[j]
    <2>1. D = [j \in Cards |->
                 IF j = i THEN Updated(C[j], C[j].text, "acted")
                 ELSE IF j \in acted THEN Updated(C[j], C[j].text, "superseded") ELSE C[j]]
      BY <1>1, <1>2, <1>3 DEF ActCard
    <2>2. \A j \in acted : j \in Cards
      BY <1>4
    <2> QED BY <2>1, <2>2
  <1>7. Supersedes(C, D, i, acted)
    BY <1>4, <1>5, <1>6 DEF Supersedes
  <1>8. CardsFit(D) /\ VersionsKept(C, D)
    BY <1>7, ActKeeps
  <1>9. CardsKept
    BY <1>1, <1>2, <1>8, InStands DEF CardsKept, VersionsKept
  <1> QED BY <1>2, <1>8, <1>9

LEMMA CardStepKeeps ==
    ASSUME InformationInv, CardNext
    PROVE  CardsFit(card') /\ CardsKept /\ CardsOnly
  <1>1. CardsOnly
    BY DEF CardNext, CreateCard, DeriveCard, EditCard, ActCard
  <1>2. CardsFit(card') /\ CardsKept
    BY CreationKeeps, DerivationKeeps, EditionKeeps, ActingKeeps DEF CardNext
  <1> QED BY <1>1, <1>2

-----------------------------------------------------------------------------
(* The projection.                                                         *)

LEMMA ReadKeeps ==
    ASSUME InformationInv, NEW c \in Calls, NEW m, NEW v \in 0..MaxProjection,
           ReadMetadata(c, m, v)
    PROVE  InformationInv'
  <1>0. PICK q : q = [pc |-> "projecting", command |-> m, expected |-> v,
                      locked |-> metadata[m.card] # None,
                      linked |-> /\ m.op # "update_projection_metadata"
                                 /\ link[m.card][m.document] # None]
    OBVIOUS
  <1>1. /\ call' = [call EXCEPT ![c] = q] /\ q.pc = "projecting"
        /\ q.command = m /\ q.expected = v
    BY <1>0 DEF ReadMetadata, Begin
  <1>2. /\ m \in ProjectionCommand /\ card[m.card] # None
        /\ UNCHANGED <<card, metadata, link, projectionEvents>>
    BY DEF ReadMetadata, cardVars, projectionVars
  <1>3. ProjectionCallFits(q)
    BY <1>1, <1>2 DEF ProjectionCallFits
  <1>4. /\ DOMAIN call' = Calls /\ call'[c] = q
        /\ \A d \in Calls : d # c => call'[d] = call[d]
    BY <1>1 DEF InformationInv, ProjectionCalls
  <1>5. ProjectionCalls'
    <2>1. \A d \in Calls : call'[d] = Idle \/ ProjectionCallFits(call[d])'
      <3> SUFFICES ASSUME NEW d \in Calls, call'[d] # Idle PROVE ProjectionCallFits(call[d])'
        OBVIOUS
      <3>1. PICK r : r = call'[d]
        OBVIOUS
      <3>2. ProjectionCallFits(r)
        BY <1>3, <1>4, <3>1 DEF InformationInv, ProjectionCalls
      <3> QED BY <3>1, <3>2 DEF ProjectionCallFits
    <2> QED BY <1>4, <2>1 DEF ProjectionCalls
  <1>6. CallsHaveCard'
    BY <1>1, <1>2, <1>4 DEF CallsHaveCard, InformationInv
  <1>7. CardsFit(card') /\ ProjectionFits'
    BY <1>2 DEF InformationInv, ProjectionFits
  <1> QED BY <1>5, <1>6, <1>7 DEF InformationInv

\* A call that ends leaves the others.
LEMMA EndedCallsFit ==
    ASSUME ProjectionCalls, CallsHaveCard, NEW c \in Calls, End(c),
           \A j \in Cards : card[j] # None => card'[j] # None
    PROVE  ProjectionCalls' /\ CallsHaveCard'
  <1>1. /\ DOMAIN call' = Calls /\ call'[c] = Idle
        /\ \A d \in Calls : d # c => call'[d] = call[d]
    BY DEF End, ProjectionCalls
  <1>2. ProjectionCalls'
    <2>1. \A d \in Calls : call'[d] = Idle \/ ProjectionCallFits(call[d])'
      <3> SUFFICES ASSUME NEW d \in Calls, call'[d] # Idle PROVE ProjectionCallFits(call[d])'
        OBVIOUS
      <3>1. PICK r : r = call'[d]
        OBVIOUS
      <3>2. ProjectionCallFits(r)
        BY <1>1, <3>1 DEF ProjectionCalls
      <3> QED BY <3>1, <3>2 DEF ProjectionCallFits
    <2> QED BY <1>1, <2>1 DEF ProjectionCalls
  <1>3. \A d \in Calls : call[d] # Idle => call[d].command.card \in Cards
    BY ProjectionCommandFits DEF ProjectionCalls, ProjectionCallFits
  <1>4. CallsHaveCard'
    BY <1>1, <1>3 DEF CallsHaveCard
  <1> QED BY <1>2, <1>4

\* The role of every link after the write of m.
LEMMA LinkIsWritten ==
    ASSUME NEW m \in ProjectionCommand, link \in [Cards -> [Documents -> LinkRoles \cup {None}]],
           CASE m.op = "add_document_link" ->
                   link' = [link EXCEPT ![m.card][m.document] = m.role]
             [] m.op = "remove_document_link" ->
                   link' = [link EXCEPT ![m.card][m.document] = None]
             [] OTHER -> UNCHANGED link
    PROVE  /\ link' \in [Cards -> [Documents -> LinkRoles \cup {None}]]
           /\ \A i \in Cards, d \in Documents :
                 ~(m.op # "update_projection_metadata" /\ m.card = i /\ m.document = d) =>
                    link'[i][d] = link[i][d]
           /\ m.op = "add_document_link" => link'[m.card][m.document] # None
           /\ m.op = "remove_document_link" => link'[m.card][m.document] = None
  <1>1. m.card \in Cards
    BY ProjectionCommandFits
  <1>2. CASE m.op = "add_document_link"
    <2>1. link' = [link EXCEPT ![m.card][m.document] = m.role]
          /\ m.document \in Documents /\ m.role \in LinkRoles
      BY <1>2, ProjectionCommandFits
    <2>2. m.role # None
      BY <2>1, InformationAssumption
    <2> QED BY <1>1, <1>2, <2>1, <2>2
  <1>3. CASE m.op = "remove_document_link"
    <2>1. link' = [link EXCEPT ![m.card][m.document] = None] /\ m.document \in Documents
      BY <1>3, ProjectionCommandFits
    <2> QED BY <1>1, <1>3, <2>1
  <1>4. CASE m.op = "update_projection_metadata"
    BY <1>4
  <1> QED BY <1>2, <1>3, <1>4, ProjectionCommandFits

LEMMA WriteKeeps ==
    ASSUME InformationInv, NEW c \in Calls, WriteProjection(c)
    PROVE  InformationInv'
  <1>1. PICK m : m = call[c].command
    OBVIOUS
  <1>2. PICK v : v = call[c].expected
    OBVIOUS
  <1>3. PICK e : e = [command |-> m, type |-> EffectOf(c), expected |-> v]
    OBVIOUS
  <1>4. PICK E : E = projectionEvents
    OBVIOUS
  <1>5. /\ Step(c, "projecting") /\ v < MaxProjection
        /\ m.op = "remove_document_link" => Existed(c)
        /\ projectionEvents' = Append(E, e)
        /\ End(c) /\ UNCHANGED card
    BY <1>1, <1>2, <1>3, <1>4 DEF WriteProjection, cardVars
  <1>6. /\ m \in ProjectionCommand /\ v \in 0..MaxProjection /\ card[m.card] # None
    BY <1>1, <1>2, <1>5
       DEF Step, InformationInv, ProjectionCalls, ProjectionCallFits, CallsHaveCard
  <1>7. /\ m.card \in Cards
        /\ m.op \in {"update_projection_metadata", "add_document_link", "remove_document_link"}
        /\ m.op # "update_projection_metadata" => m.document \in Documents
    BY <1>6, ProjectionCommandFits
  <1>8. /\ m.op = "update_projection_metadata" => e.type = "projection_metadata_updated"
        /\ m.op = "remove_document_link" => e.type = "document_link_removed"
        /\ m.op = "add_document_link" =>
              e.type = IF link[m.card][m.document] # None
                       THEN "document_link_updated" ELSE "document_link_added"
        /\ e.command = m
    BY <1>1, <1>3, <1>7 DEF EffectOf, Existed
  <1>9. e \in ProjectionEvent
    <2>1. e.type \in EventTypes
      BY <1>7, <1>8 DEF EventTypes
    <2>2. v \in Nat
      BY <1>6
    <2>3. e = [command |-> m, type |-> e.type, expected |-> v]
      BY <1>3
    <2> QED BY <1>6, <2>1, <2>2, <2>3 DEF ProjectionEvent
  <1>10. /\ link' \in [Cards -> [Documents -> LinkRoles \cup {None}]]
         /\ \A i \in Cards, d \in Documents :
               ~(m.op # "update_projection_metadata" /\ m.card = i /\ m.document = d) =>
                  link'[i][d] = link[i][d]
         /\ m.op = "add_document_link" => link'[m.card][m.document] # None
         /\ m.op = "remove_document_link" => link'[m.card][m.document] = None
    <2>1. link \in [Cards -> [Documents -> LinkRoles \cup {None}]]
      BY DEF InformationInv, ProjectionFits
    <2>2. (CASE m.op = "add_document_link" ->
                   link' = [link EXCEPT ![m.card][m.document] = m.role]
             [] m.op = "remove_document_link" ->
                   link' = [link EXCEPT ![m.card][m.document] = None]
             [] OTHER -> UNCHANGED link)
      BY <1>1 DEF WriteProjection
    <2> QED BY <1>6, <2>1, <2>2, LinkIsWritten
  <1>11. E \in Seq(ProjectionEvent)
    BY <1>4 DEF InformationInv, ProjectionFits
  <1>12. metadata' \in [Cards -> Metadata \cup {None}]
    <2>1. PICK text : metadata' = [metadata EXCEPT ![m.card] = [text |-> text, revision |-> v + 1]]
                      /\ text = IF m.op = "update_projection_metadata" THEN m.text
                                ELSE IF metadata[m.card] # None THEN metadata[m.card].text
                                ELSE Default
      BY <1>1, <1>2 DEF WriteProjection
    <2>2. metadata \in [Cards -> Metadata \cup {None}]
      BY DEF InformationInv, ProjectionFits
    <2>3. text \in Texts
      <3>1. card[m.card] \in CardRow
        BY <1>6, <1>7, CardWas DEF InformationInv
      <3>2. card[m.card].text \in Texts
        BY <3>1, CardRowFits
      <3>3. Default \in Texts
        BY <3>2 DEF Default
      <3>4. metadata[m.card] # None => metadata[m.card].text \in Texts
        BY <1>7, <2>2 DEF Metadata
      <3> QED BY <1>6, <2>1, <3>3, <3>4, ProjectionCommandFits
    <2>4. v + 1 \in 1..MaxProjection
      BY <1>5, <1>6, InformationAssumption
    <2>5. [text |-> text, revision |-> v + 1] \in Metadata
      BY <2>3, <2>4 DEF Metadata
    <2> QED BY <2>1, <2>2, <2>5
  <1>13. ASSUME NEW i \in Cards, NEW d \in Documents
         PROVE  TellsLink(Append(E, e), i, d, link'[i][d])
    <2>1. TellsLink(E, i, d, link[i][d])
      BY <1>4 DEF InformationInv, ProjectionFits
    <2>2. PICK next : next = link'[i][d]
      OBVIOUS
    <2>3. CASE m.op # "update_projection_metadata" /\ m.card = i /\ m.document = d
      <3>1. e.type # "projection_metadata_updated" /\ e.command.card = i /\ e.command.document = d
        BY <1>7, <1>8, <2>3
      <3>2. m.op = "remove_document_link" => link[i][d] # None
        BY <1>1, <1>5, <2>3 DEF Existed
      <3>3. link[i][d] # None <=> e.type # "document_link_added"
        BY <1>7, <1>8, <2>3, <3>2
      <3>4. next # None <=> e.type # "document_link_removed"
        BY <1>7, <1>8, <1>10, <2>2, <2>3
      <3>5. TellsLink(Append(E, e), i, d, next)
        BY <1>9, <1>11, <2>1, <3>1, <3>3, <3>4, LinkIsTold
      <3> QED BY <2>2, <3>5
    <2>4. CASE ~(m.op # "update_projection_metadata" /\ m.card = i /\ m.document = d)
      <3>1. ~(/\ e.type # "projection_metadata_updated"
              /\ e.command.card = i /\ e.command.document = d)
        BY <1>7, <1>8, <2>4
      <3>2. next = link[i][d]
        BY <1>10, <2>2, <2>4
      <3>3. TellsLink(Append(E, e), i, d, next)
        BY <1>9, <1>11, <2>1, <3>1, <3>2, OtherLinkIsTold
      <3> QED BY <2>2, <3>3
    <2> QED BY <2>3, <2>4
  <1>14. projectionEvents' \in Seq(ProjectionEvent)
    BY <1>5, <1>9, <1>11
  <1>15. ProjectionFits'
    BY <1>5, <1>10, <1>12, <1>13, <1>14 DEF ProjectionFits
  <1>16. ProjectionCalls' /\ CallsHaveCard'
    BY <1>5, EndedCallsFit DEF InformationInv
  <1> QED BY <1>5, <1>15, <1>16 DEF InformationInv

LEMMA InformationInvariant == InformationSpec => []InformationInv
  <1>1. InformationInit /\ RequestsInit => InformationInv
    <2> SUFFICES ASSUME InformationInit, RequestsInit PROVE InformationInv
      OBVIOUS
    <2>1. card \in [Cards -> CardRow \cup {None}] /\ \A i \in Cards : card[i] = None
      BY DEF InformationInit
    <2>2. CardsFit(card)
      BY <2>1 DEF CardsFit, Stands
    <2>3. metadata \in [Cards -> Metadata \cup {None}]
          /\ link \in [Cards -> [Documents -> LinkRoles \cup {None}]]
          /\ \A i \in Cards, d \in Documents : link[i][d] = None
      BY DEF InformationInit
    <2>4. projectionEvents \in Seq(ProjectionEvent) /\ DOMAIN projectionEvents = {}
      BY DEF InformationInit
    <2>5. \A i, d : LinkEventsOf(projectionEvents, i, d) = {}
      BY <2>4 DEF LinkEventsOf
    <2>6. \A i \in Cards, d \in Documents : TellsLink(projectionEvents, i, d, link[i][d])
      <3> SUFFICES ASSUME NEW i \in Cards, NEW d \in Documents
                   PROVE  TellsLink(projectionEvents, i, d, link[i][d])
        OBVIOUS
      <3>1. HasLast({}) /\ ~LeavesLink(projectionEvents, {})
        BY DEF HasLast, LeavesLink
      <3> QED BY <2>3, <2>5, <3>1 DEF TellsLink
    <2>7. DOMAIN call = Calls /\ \A c \in Calls : call[c] = Idle
      BY DEF RequestsInit
    <2> QED BY <2>2, <2>3, <2>4, <2>6, <2>7
            DEF InformationInv, ProjectionFits, ProjectionCalls, CallsHaveCard
  <1>2. /\ InformationInv
        /\ [CardNext \/ ProjectionNext]_<<cardVars, projectionVars, requestVars>>
        => InformationInv'
    <2> SUFFICES ASSUME InformationInv,
                        [CardNext \/ ProjectionNext]_<<cardVars, projectionVars, requestVars>>
                 PROVE  InformationInv'
      OBVIOUS
    <2>1. ASSUME CardNext PROVE InformationInv'
      <3>1. /\ CardsFit(card') /\ CardsKept
            /\ UNCHANGED <<metadata, link, projectionEvents, call>>
        BY <2>1, CardStepKeeps DEF CardsOnly, projectionVars
      <3>2. ProjectionFits' /\ ProjectionCalls'
        BY <3>1 DEF InformationInv, ProjectionFits, ProjectionCalls
      <3>3. \A c \in Calls : call[c] # Idle => call[c].command.card \in Cards
        BY ProjectionCommandFits DEF InformationInv, ProjectionCalls, ProjectionCallFits
      <3>4. CallsHaveCard'
        BY <3>1, <3>3 DEF InformationInv, CallsHaveCard, CardsKept
      <3> QED BY <3>1, <3>2, <3>4 DEF InformationInv
    <2>2. ASSUME NEW m, ReplayProjection(m) PROVE InformationInv'
      BY <2>2 DEF ReplayProjection, cardVars, projectionVars, InformationInv, ProjectionFits,
                  ProjectionCalls, CallsHaveCard
    <2>3. ASSUME NEW c \in Calls, RefuseProjection(c) PROVE InformationInv'
      <3>1. End(c) /\ UNCHANGED <<card, metadata, link, projectionEvents>>
        BY <2>3 DEF RefuseProjection, Refused, cardVars, projectionVars
      <3>2. ProjectionCalls' /\ CallsHaveCard'
        BY <3>1, EndedCallsFit DEF InformationInv
      <3> QED BY <3>1, <3>2 DEF InformationInv, ProjectionFits
    <2>4. CASE UNCHANGED <<cardVars, projectionVars, requestVars>>
      BY <2>4 DEF cardVars, projectionVars, requestVars, InformationInv, ProjectionFits,
                  ProjectionCalls, CallsHaveCard
    <2> QED BY <2>1, <2>2, <2>3, <2>4, ReadKeeps, WriteKeeps DEF ProjectionNext
  <1> QED BY <1>1, <1>2, PTL DEF InformationSpec

\* CardsAreSound holds of every behaviour: whatever versions are created, derived,
\* edited and acted while projections are changed, a series keeps one version that
\* is worked on and one that is effective, and the history of the links is true.
THEOREM CardsStaySound == InformationSpec => CardsAreSound
  <1>1. InformationInv => InformationTypeOK /\ SeriesAreSingle /\ LinkHistoryIsTrue
    <2> SUFFICES ASSUME InformationInv
                 PROVE  InformationTypeOK /\ SeriesAreSingle /\ LinkHistoryIsTrue
      OBVIOUS
    <2>1. InformationTypeOK
      <3>1. projectionEvents \in Seq(ProjectionEvent)
        BY DEF InformationInv, ProjectionFits
      <3>2. \A j \in DOMAIN projectionEvents : projectionEvents[j] \in ProjectionEvent
        BY <3>1
      <3>3. \A j \in DOMAIN projectionEvents : projectionEvents[j].type \in EventTypes
        BY <3>2 DEF ProjectionEvent
      <3> QED BY <3>3 DEF InformationInv, ProjectionFits, CardsFit, InformationTypeOK
    <2>2. SeriesAreSingle
      <3> SUFFICES ASSUME NEW i \in Cards, card[i] # None
                   PROVE  /\ Cardinality(SeriesOf(i, Working)) <= 1
                          /\ Cardinality(SeriesOf(i, {"acted"})) <= 1
                          /\ IF card[i].base = None THEN card[i].series = i
                             ELSE In(card[i].base, {"acted", "superseded"})
        BY DEF SeriesAreSingle
      <3>1. \A j, k \in SeriesOf(i, Working) : j = k
        BY InStands DEF SeriesOf, InformationInv, CardsFit
      <3>2. \A j, k \in SeriesOf(i, {"acted"}) : j = k
        BY InStands DEF SeriesOf, InformationInv, CardsFit
      <3>3. IF card[i].base = None THEN card[i].series = i
            ELSE In(card[i].base, {"acted", "superseded"})
        BY InStands DEF InformationInv, CardsFit
      <3> QED BY <3>1, <3>2, <3>3, AtMostOne
    <2>3. LinkHistoryIsTrue
      BY HistoryTold DEF InformationInv
    <2> QED BY <2>1, <2>2, <2>3
  <1>2. /\ InformationInv
        /\ [CardNext \/ ProjectionNext]_<<cardVars, projectionVars, requestVars>>
        => [\A i \in Cards : In(i, {"acted", "superseded"}) =>
              \/ card'[i] = card[i]
              \/ /\ card[i].status = "acted"
                 /\ card'[i] = Updated(card[i], card[i].text, "superseded")
                 /\ \E j \in Cards : /\ In(j, Working) /\ card[j].series = card[i].series
                                     /\ card'[j].status = "acted"]_card
    <2> SUFFICES ASSUME InformationInv,
                        [CardNext \/ ProjectionNext]_<<cardVars, projectionVars, requestVars>>,
                        card' # card
                 PROVE  CardsKept
      BY DEF CardsKept
    <2>1. ASSUME ProjectionNext PROVE UNCHANGED card
      BY <2>1 DEF ProjectionNext, ReplayProjection, ReadMetadata, WriteProjection,
                  RefuseProjection, cardVars
    <2> QED BY <2>1, CardStepKeeps DEF cardVars
  <1> QED BY <1>1, <1>2, InformationInvariant, PTL
          DEF InformationSpec, CardsAreSound, ActedIsImmutable

-----------------------------------------------------------------------------
(* Claims.  A claim never changes, so that what the trigger read when a     *)
(* call inserted its row is told from the claims that are there later.     *)

RowsWith(C, read, id, row) == [i \in read \cup {id} |-> IF i = id THEN row ELSE C[i]]

\* What a call that inserts a claim holds, by itself.
ClaimCallFits(q) ==
    /\ q.pc = "claiming" /\ q.id \in ClaimIds /\ q.row \in ClaimRow
    /\ q.id \in Results =>
          /\ q.row.project = ItemOf[q.id].project /\ q.row.type = ItemOf[q.id].type
          /\ q.row.observed = ItemOf[q.id].observed

\* And what it owes to the claims and to the dispositions.
ClaimStands(q) ==
    /\ claim[q.id] = None
    /\ q.read \subseteq Recorded
    /\ q.shown = Projection(RowsWith(claim, q.read, q.id, q.row), q.row.project)
    /\ q.id \in Results => Accepted(q.id) /\ q.row.accepted = Latest(q.id)

ClaimCalls ==
    /\ DOMAIN call = Calls
    /\ \A c \in Calls : call[c] = Idle \/ (ClaimCallFits(call[c]) /\ ClaimStands(call[c]))
    /\ \A c, d \in Calls : call[c] # Idle /\ call[d] # Idle /\ call[c].id = call[d].id => c = d

ClaimTables ==
    /\ claim \in [ClaimIds -> ClaimRow \cup {None}]
    /\ cache \in [Projects -> [Types -> SUBSET ClaimIds]]

ClaimInv == ReviewInv /\ ClaimTables /\ ClaimCalls

LEMMA ClaimRowFits ==
    ASSUME NEW row \in ClaimRow
    PROVE  /\ row # None /\ row.project \in Projects /\ row.type \in Types
           /\ row.observed \in Times /\ row.retired \in BOOLEAN
           /\ row.supersedes \in ClaimIds \cup {None}
  BY ClaimAssumption DEF ClaimRow

\* What is shown of some claims is among them.
LEMMA ShownAreClaims ==
    ASSUME NEW rows, NEW p, \A i \in DOMAIN rows : rows[i] \in ClaimRow, DOMAIN rows \subseteq ClaimIds
    PROVE  Projection(rows, p) \in [Types -> SUBSET ClaimIds]
  <1> SUFFICES ASSUME NEW t \in Types PROVE Projection(rows, p)[t] \in SUBSET ClaimIds
    BY DEF Projection
  <1> DEFINE shown == {i \in Active(rows) : rows[i].project = p /\ rows[i].type = t}
  <1>1. Projection(rows, p)[t] =
           IF t \in Listed \/ shown = {} THEN shown ELSE {Newest(rows, shown)}
    BY DEF Projection
  <1>2. shown \subseteq DOMAIN rows
    BY DEF Active
  <1> HIDE DEF shown
  <1>3. ASSUME shown # {} PROVE Newest(rows, shown) \in shown
    <2>1. PICK T : T = {rows[i].observed : i \in shown}
      OBVIOUS
    <2>2. T \in (SUBSET Times) \ {{}}
      <3>1. \A i \in shown : rows[i].observed \in Times
        BY <1>2, ClaimRowFits
      <3> QED BY <1>3, <2>1, <3>1
    <2>3. PICK u \in T : \A v \in T : v <= u
      BY <2>2, ClaimAssumption
    <2>4. PICK i \in shown : rows[i].observed = u
      BY <2>1, <2>3
    <2>5. \A j \in shown : rows[j].observed <= rows[i].observed
      BY <2>1, <2>3, <2>4
    <2> QED BY <2>4, <2>5 DEF Newest
  <1> QED BY <1>1, <1>2, <1>3

\* The claims that were read do not change.
LEMMA ClaimStandsStill ==
    ASSUME NEW q, ClaimCallFits(q), ClaimStands(q),
           \A i \in Recorded : i \in Recorded' /\ claim'[i] = claim[i],
           claim'[q.id] = None,
           q.id \in Results => /\ Latest(q.id)' = Latest(q.id)
                               /\ Accepted(q.id) => Accepted(q.id)'
    PROVE  ClaimStands(q)'
  <1>1. PICK D : D = claim'
    OBVIOUS
  <1>2. RowsWith(D, q.read, q.id, q.row) = RowsWith(claim, q.read, q.id, q.row)
    BY <1>1 DEF RowsWith, ClaimStands
  <1>3. q.read \subseteq Recorded'
    BY DEF ClaimStands
  <1>4. q.shown = Projection(RowsWith(D, q.read, q.id, q.row), q.row.project)
    BY <1>2 DEF ClaimStands
  <1>5. q.shown = Projection(RowsWith(claim, q.read, q.id, q.row), q.row.project)'
    BY <1>1, <1>4
  <1>6. q.id \in Results => Accepted(q.id)' /\ q.row.accepted = Latest(q.id)'
    BY DEF ClaimStands
  <1> QED BY <1>3, <1>5, <1>6 DEF ClaimStands

LEMMA ClaimAskedFits ==
    ASSUME NEW m \in ClaimRequests
    PROVE  /\ m.op = "store" => m.execution \in Executions /\ Content(m) \in Execution
           /\ m.op = "review" => /\ m.result \in Results
                                 /\ m.key \in Keys /\ m.disposition \in Dispositions
           /\ m.op = "claim" => /\ m.project \in Projects /\ m.type \in Types
                                /\ m.observed \in Times /\ m.retired \in BOOLEAN
           /\ m.op = "claim_candidate" => m.result \in Results
  <1>1. m \in ClaimCommand
    BY ClaimAssumption
  <1> QED BY <1>1 DEF ClaimCommand, Content, Execution

LEMMA CallsOfOthers ==
    ASSUME ClaimCalls, NEW d \in Calls, call[d] # Idle
    PROVE  ClaimCallFits(call[d]) /\ ClaimStands(call[d]) /\ Step(d, "claiming") /\ d \in Inserting
  BY DEF ClaimCalls, ClaimCallFits, Step, Inserting

LEMMA NoClaimMoves ==
    ASSUME ClaimCalls, UNCHANGED <<claim, dispositions, call>>
    PROVE  ClaimCalls'
  <1>1. \A c \in Calls : call'[c] = Idle \/ (ClaimCallFits(call[c])' /\ ClaimStands(call[c])')
    <2> SUFFICES ASSUME NEW c \in Calls, call[c] # Idle
                 PROVE  ClaimCallFits(call[c])' /\ ClaimStands(call[c])'
      OBVIOUS
    <2>1. PICK q : q = call[c] /\ q = call'[c]
      OBVIOUS
    <2>2. ClaimCallFits(q) /\ ClaimStands(q)
      BY <2>1, CallsOfOthers
    <2>3. ClaimCallFits(q)' /\ ClaimStands(q)'
      BY <2>2 DEF ClaimCallFits, ClaimStands, Recorded, Accepted, Of, Latest
    <2> QED BY <2>1, <2>3 DEF ClaimCallFits, ClaimStands
  <1> QED BY <1>1 DEF ClaimCalls

LEMMA DepositsKeep ==
    ASSUME ClaimInv, NEW m \in ClaimRequests, DepositClaims(m)
    PROVE  ClaimInv'
  <1>1. UNCHANGED <<claim, cache, call>>
    BY DEF DepositClaims, claimVars
  <1>2. ClaimTables'
    BY <1>1 DEF ClaimInv, ClaimTables
  <1>3. CASE StoreResult(m)
    <2>1. m.op = "store" /\ UNCHANGED dispositions
      BY <1>3 DEF StoreResult
    <2>2. ReviewInv'
      BY <1>3, <2>1, ClaimAskedFits, StoringKeeps DEF ClaimInv
    <2> QED BY <1>1, <1>2, <2>1, <2>2, NoClaimMoves DEF ClaimInv
  <1>4. CASE ReplayStore(m)
    <2>1. UNCHANGED <<stored, dispositions>>
      BY <1>4 DEF ReplayStore
    <2>2. ReviewInv'
      BY <2>1 DEF ClaimInv, ReviewInv, Of
    <2> QED BY <1>1, <1>2, <2>1, <2>2, NoClaimMoves DEF ClaimInv
  <1>5. CASE ReviewItem(m)
    <2>1. m.op = "review" /\ Reviewable(m.result) /\ UNCHANGED stored
      BY <1>5 DEF ReviewItem, Reviews
    <2>2. PICK row : row = [key |-> Sent(m.key), result |-> m.result, disposition |-> m.disposition]
      OBVIOUS
    <2>3. row \in Disposition /\ row.result = m.result
      BY <2>1, <2>2, ClaimAskedFits DEF Disposition, Sent, Key, Suffixes
    <2>4. Appends(row)
      BY <1>5, <2>2 DEF ReviewItem, Reviews
    <2>5. ReviewInv' /\ FollowedBy(dispositions, dispositions', row)
      BY <2>1, <2>3, <2>4, DispositionIsAppended DEF ClaimInv
    <2>6. \A c \in Calls : call'[c] = Idle \/ (ClaimCallFits(call[c])' /\ ClaimStands(call[c])')
      <3> SUFFICES ASSUME NEW c \in Calls, call[c] # Idle
                   PROVE  ClaimCallFits(call[c])' /\ ClaimStands(call[c])'
        BY <1>1
      <3>1. PICK q : q = call[c] /\ q = call'[c]
        BY <1>1
      <3>2. ClaimCallFits(q) /\ ClaimStands(q) /\ c \in Inserting
        BY <3>1, CallsOfOthers DEF ClaimInv
      <3>3. q.id # row.result
        BY <2>1, <2>3, <3>1, <3>2 DEF Reviewable, ItemHeld
      <3>4. PICK r : r = q.id
        OBVIOUS
      <3>5. Latest(r)' = Latest(r) /\ (Accepted(r) => Accepted(r)')
        BY <2>5, <3>3, <3>4, LastWordStays DEF ClaimInv
      <3>6. ClaimStands(q)'
        BY <1>1, <3>2, <3>4, <3>5 DEF ClaimStands, Recorded
      <3> QED BY <3>1, <3>2, <3>6 DEF ClaimCallFits, ClaimStands
    <2>7. ClaimCalls'
      BY <1>1, <2>6 DEF ClaimCalls, ClaimInv
    <2> QED BY <1>2, <2>5, <2>7 DEF ClaimInv
  <1> QED BY <1>3, <1>4, <1>5 DEF DepositClaims

LEMMA InsertionKeeps ==
    ASSUME ClaimInv, NEW c \in Calls, NEW m, NEW id \in ClaimIds, NEW row \in ClaimRow,
           Insert(c, m, id, row), UNCHANGED reviewVars,
           id \in Results =>
              /\ row.project = ItemOf[id].project /\ row.type = ItemOf[id].type
              /\ row.observed = ItemOf[id].observed
              /\ Accepted(id) /\ row.accepted = Latest(id)
    PROVE  ClaimInv'
  <1>1. PICK q : q = [pc |-> "claiming", command |-> m, id |-> id, row |-> row,
                      read |-> Recorded,
                      shown |-> Projection(Visible(id, row), row.project)]
    OBVIOUS
  <1>2. /\ call[c] = Idle /\ call' = [call EXCEPT ![c] = q]
        /\ claim[id] = None /\ \A d \in Inserting : call[d].id # id
        /\ UNCHANGED <<claim, cache, stored, dispositions>>
    BY <1>1 DEF Insert, Begin, claimVars, reviewVars
  <1>3. /\ q.pc = "claiming" /\ q.id = id /\ q.row = row /\ q.read = Recorded
        /\ q.shown = Projection(Visible(id, row), row.project)
    BY <1>1
  <1>4. ClaimCallFits(q)
    BY <1>3 DEF ClaimCallFits
  <1>5. ClaimStands(q)
    <2>1. Visible(id, row) = RowsWith(claim, Recorded, id, row)
      BY DEF Visible, RowsWith
    <2> QED BY <1>2, <1>3, <2>1 DEF ClaimStands
  <1>6. /\ DOMAIN call' = Calls /\ call'[c] = q
        /\ \A d \in Calls : d # c => call'[d] = call[d]
    BY <1>2 DEF ClaimInv, ClaimCalls
  <1>7. \A d \in Calls : call'[d] = Idle \/ (ClaimCallFits(call[d])' /\ ClaimStands(call[d])')
    <2> SUFFICES ASSUME NEW d \in Calls, call'[d] # Idle
                 PROVE  ClaimCallFits(call[d])' /\ ClaimStands(call[d])'
      OBVIOUS
    <2>1. PICK s : s = call'[d]
      OBVIOUS
    <2>2. ClaimCallFits(s) /\ ClaimStands(s)
      BY <1>4, <1>5, <1>6, <2>1, CallsOfOthers DEF ClaimInv
    <2>3. ClaimCallFits(s)' /\ ClaimStands(s)'
      BY <1>2, <2>2 DEF ClaimCallFits, ClaimStands, Recorded, Accepted, Of, Latest
    <2> QED BY <2>1, <2>3 DEF ClaimCallFits, ClaimStands
  <1>8. \A d, e \in Calls : call'[d] # Idle /\ call'[e] # Idle /\ call'[d].id = call'[e].id => d = e
    <2>1. \A d \in Calls : call[d] # Idle => d \in Inserting
      BY CallsOfOthers DEF ClaimInv
    <2> QED BY <1>2, <1>3, <1>6, <2>1 DEF ClaimInv, ClaimCalls
  <1>9. ClaimCalls'
    BY <1>6, <1>7, <1>8 DEF ClaimCalls
  <1>10. ReviewInv' /\ ClaimTables'
    BY <1>2 DEF ClaimInv, ReviewInv, ClaimTables, Of
  <1> QED BY <1>9, <1>10 DEF ClaimInv

LEMMA DirectClaimKeeps ==
    ASSUME ClaimInv, NEW c \in Calls, NEW m \in ClaimRequests, NEW id \in Claims,
           NEW s \in ClaimIds \cup {None}, InsertDirect(c, m, id, s)
    PROVE  ClaimInv'
  <1>1. PICK row : row = [project |-> m.project, type |-> m.type, observed |-> m.observed,
                          retired |-> m.retired, supersedes |-> s, accepted |-> 0]
    OBVIOUS
  <1>2. row \in ClaimRow
    BY <1>1, ClaimAskedFits DEF InsertDirect, ClaimRow
  <1>3. Insert(c, m, id, row) /\ UNCHANGED reviewVars
    BY <1>1 DEF InsertDirect, Insert
  <1>4. id \in ClaimIds /\ id \notin Results
    BY ClaimAssumption DEF ClaimIds
  <1> QED BY <1>2, <1>3, <1>4, InsertionKeeps

LEMMA CandidateClaimKeeps ==
    ASSUME ClaimInv, NEW c \in Calls, NEW m \in ClaimRequests, NEW s \in ClaimIds \cup {None},
           InsertFromCandidate(c, m, s)
    PROVE  ClaimInv'
  <1>1. PICK r : r = m.result
    OBVIOUS
  <1>2. PICK row : row = [project |-> ItemOf[r].project, type |-> ItemOf[r].type,
                          observed |-> ItemOf[r].observed, retired |-> FALSE,
                          supersedes |-> s, accepted |-> Latest(r)]
    OBVIOUS
  <1>3. /\ m.op = "claim_candidate" /\ ItemOf[r].kind = "project_claim_candidate" /\ Accepted(r)
        /\ Insert(c, m, r, row)
    BY <1>1, <1>2 DEF InsertFromCandidate, Claimable
  <1>4. r \in Results /\ r \in ClaimIds
    BY <1>1, <1>3, ClaimAskedFits DEF ClaimIds
  <1>5. ItemOf[r] \in ClaimItem
    BY <1>3, <1>4, ClaimAssumption
  <1>6. ItemOf[r].project \in Projects /\ ItemOf[r].type \in Types /\ ItemOf[r].observed \in Times
    BY <1>5 DEF ClaimItem
  <1>7. Latest(r) \in Nat
    <2>1. PICK k \in Of(r) : \A l \in Of(r) : l <= k
      BY <1>3 DEF Accepted, ClaimInv, ReviewInv, HasLast
    <2>2. Latest(r) \in Of(r)
      BY <2>1 DEF Latest
    <2> QED BY <2>2 DEF Of, ClaimInv, ReviewInv
  <1>8. row \in ClaimRow
    BY <1>2, <1>6, <1>7 DEF ClaimRow
  <1>9. /\ row.project = ItemOf[r].project /\ row.type = ItemOf[r].type
        /\ row.observed = ItemOf[r].observed /\ row.accepted = Latest(r)
    BY <1>2
  <1>10. UNCHANGED reviewVars
    BY <1>3 DEF Insert, reviewVars
  <1> QED BY <1>3, <1>4, <1>8, <1>9, <1>10, InsertionKeeps

\* A commit writes the claim that was held, as it was held, or nothing at all.
LEMMA CommitWrites ==
    ASSUME ClaimInv, NEW c \in Calls, Commit(c)
    PROVE  \E q : /\ q = call[c] /\ ClaimCallFits(q) /\ ClaimStands(q)
                  /\ call' = [call EXCEPT ![c] = Idle] /\ UNCHANGED <<stored, dispositions>>
                  /\ \/ UNCHANGED <<claim, cache>>
                     \/ /\ claim' = [claim EXCEPT ![q.id] = q.row]
                        /\ cache' = [cache EXCEPT ![q.row.project] = q.shown]
  <1>1. PICK q : q = call[c]
    OBVIOUS
  <1>2. call[c] # Idle
    BY DEF Commit, Step
  <1>3. ClaimCallFits(q) /\ ClaimStands(q)
    BY <1>1, <1>2, CallsOfOthers DEF ClaimInv
  <1>4. \/ UNCHANGED <<claim, cache>>
        \/ /\ claim' = [claim EXCEPT ![q.id] = q.row]
           /\ cache' = [cache EXCEPT ![q.row.project] = q.shown]
    BY <1>1 DEF Commit, claimVars
  <1>5. call' = [call EXCEPT ![c] = Idle] /\ UNCHANGED <<stored, dispositions>>
    BY DEF Commit, End, reviewVars
  <1> QED BY <1>1, <1>3, <1>4, <1>5

\* A call that ends leaves what the others hold true.
LEMMA ClaimEnds ==
    ASSUME ClaimInv, NEW c \in Calls, call[c] # Idle, call' = [call EXCEPT ![c] = Idle],
           UNCHANGED <<stored, dispositions>>, ClaimTables',
           \/ UNCHANGED claim
           \/ claim' = [claim EXCEPT ![call[c].id] = call[c].row]
    PROVE  ClaimInv'
  <1>1. /\ DOMAIN call' = Calls /\ call'[c] = Idle
        /\ \A d \in Calls : d # c => call'[d] = call[d]
    BY DEF ClaimInv, ClaimCalls
  <1>2. PICK q : q = call[c]
    OBVIOUS
  <1>3. ClaimCallFits(q) /\ ClaimStands(q)
    BY <1>2, CallsOfOthers DEF ClaimInv
  <1>4. \A i \in ClaimIds : i # q.id => claim'[i] = claim[i]
    BY <1>2 DEF ClaimInv, ClaimTables
  <1>5. q.id \notin Recorded
    BY <1>3 DEF ClaimStands, Recorded
  <1>6. \A i \in Recorded : i \in Recorded' /\ claim'[i] = claim[i]
    BY <1>4, <1>5 DEF Recorded
  <1>7. \A d \in Calls : call'[d] = Idle \/ (ClaimCallFits(call[d])' /\ ClaimStands(call[d])')
    <2> SUFFICES ASSUME NEW d \in Calls, call'[d] # Idle
                 PROVE  ClaimCallFits(call[d])' /\ ClaimStands(call[d])'
      OBVIOUS
    <2>1. PICK s : s = call[d] /\ s = call'[d]
      BY <1>1
    <2>2. d # c /\ call[d] # Idle
      BY <1>1
    <2>3. ClaimCallFits(s) /\ ClaimStands(s)
      BY <2>1, <2>2, CallsOfOthers DEF ClaimInv
    <2>4. s.id # q.id
      BY <1>2, <2>1, <2>2 DEF ClaimInv, ClaimCalls
    <2>5. claim'[s.id] = None
      BY <1>4, <2>3, <2>4 DEF ClaimCallFits, ClaimStands
    <2>6. PICK r : r = s.id
      OBVIOUS
    <2>7. Latest(r)' = Latest(r) /\ (Accepted(r) => Accepted(r)')
      BY DEF Latest, Of, Accepted
    <2>8. ClaimStands(s)'
      BY <1>6, <2>3, <2>5, <2>6, <2>7, ClaimStandsStill
    <2> QED BY <2>1, <2>3, <2>8 DEF ClaimCallFits, ClaimStands
  <1>8. \A d, e \in Calls : call'[d] # Idle /\ call'[e] # Idle /\ call'[d].id = call'[e].id => d = e
    BY <1>1 DEF ClaimInv, ClaimCalls
  <1>9. ClaimCalls'
    BY <1>1, <1>7, <1>8 DEF ClaimCalls
  <1>10. ReviewInv'
    BY DEF ClaimInv, ReviewInv, Of
  <1> QED BY <1>9, <1>10 DEF ClaimInv

LEMMA CommitKeeps ==
    ASSUME ClaimInv, NEW c \in Calls, Commit(c)
    PROVE  ClaimInv'
  <1>1. PICK q : /\ q = call[c] /\ ClaimCallFits(q) /\ ClaimStands(q)
                 /\ call' = [call EXCEPT ![c] = Idle] /\ UNCHANGED <<stored, dispositions>>
                 /\ \/ UNCHANGED <<claim, cache>>
                    \/ /\ claim' = [claim EXCEPT ![q.id] = q.row]
                       /\ cache' = [cache EXCEPT ![q.row.project] = q.shown]
    BY CommitWrites
  <1>2. call[c] # Idle
    BY DEF Commit, Step
  <1>3. PICK rows : rows = RowsWith(claim, q.read, q.id, q.row)
    OBVIOUS
  <1>4. DOMAIN rows \subseteq ClaimIds /\ \A i \in DOMAIN rows : rows[i] \in ClaimRow
    <2>1. DOMAIN rows = q.read \cup {q.id}
          /\ \A i \in DOMAIN rows : rows[i] = IF i = q.id THEN q.row ELSE claim[i]
      BY <1>3 DEF RowsWith
    <2>2. q.id \in ClaimIds /\ q.row \in ClaimRow
      BY <1>1 DEF ClaimCallFits
    <2>3. \A i \in q.read : i \in ClaimIds /\ claim[i] \in ClaimRow
      BY <1>1 DEF ClaimStands, Recorded, ClaimInv, ClaimTables
    <2> QED BY <2>1, <2>2, <2>3
  <1>5. q.shown \in [Types -> SUBSET ClaimIds]
    <2>1. q.shown = Projection(rows, q.row.project)
      BY <1>1, <1>3 DEF ClaimStands
    <2> QED BY <1>4, <2>1, ShownAreClaims
  <1>6. ClaimTables'
    <2>1. q.id \in ClaimIds /\ q.row \in ClaimRow
      BY <1>1 DEF ClaimCallFits
    <2>2. claim' \in [ClaimIds -> ClaimRow \cup {None}]
      BY <1>1, <2>1 DEF ClaimInv, ClaimTables
    <2>3. cache' \in [Projects -> [Types -> SUBSET ClaimIds]]
      BY <1>1, <1>5 DEF ClaimInv, ClaimTables
    <2> QED BY <2>2, <2>3 DEF ClaimTables
  <1>7. \/ UNCHANGED claim
        \/ claim' = [claim EXCEPT ![call[c].id] = call[c].row]
    BY <1>1
  <1> QED BY <1>1, <1>2, <1>6, <1>7, ClaimEnds

LEMMA ClaimInvariant == ClaimSpec => []ClaimInv
  <1>1. ClaimInit /\ RequestsInit => ClaimInv
    <2> SUFFICES ASSUME ClaimInit, RequestsInit PROVE ClaimInv
      OBVIOUS
    <2>1. ReviewInv
      <3>1. dispositions \in Seq(Disposition) /\ DOMAIN dispositions = {}
        BY DEF ClaimInit, ReviewInit
      <3>2. \A r : HasLast(Of(r))
        BY <3>1 DEF Of, HasLast
      <3>3. stored \in [Executions -> Execution \cup {None}]
        BY DEF ClaimInit, ReviewInit
      <3> QED BY <3>1, <3>2, <3>3 DEF ReviewInv
    <2>2. ClaimTables
      BY DEF ClaimInit, ClaimTables
    <2>3. DOMAIN call = Calls /\ \A c \in Calls : call[c] = Idle
      BY DEF RequestsInit
    <2> QED BY <2>1, <2>2, <2>3 DEF ClaimInv, ClaimCalls
  <1>2. ClaimInv /\ [ClaimNext]_<<reviewVars, claimVars, requestVars>> => ClaimInv'
    <2> SUFFICES ASSUME ClaimInv, [ClaimNext]_<<reviewVars, claimVars, requestVars>>
                 PROVE  ClaimInv'
      OBVIOUS
    <2>1. ASSUME UNCHANGED <<stored, dispositions, claim, cache, call>> PROVE ClaimInv'
      <3>1. ReviewInv' /\ ClaimTables'
        BY <2>1 DEF ClaimInv, ReviewInv, ClaimTables, Of
      <3> QED BY <2>1, <3>1, NoClaimMoves DEF ClaimInv
    <2>2. ASSUME NEW m \in ClaimRequests, ReplayClaim(m) PROVE ClaimInv'
      BY <2>1, <2>2 DEF ReplayClaim, reviewVars, claimVars
    <2>3. ASSUME NEW c \in Calls, RefuseClaim(c) PROVE ClaimInv'
      <3>1. /\ call[c] # Idle /\ call' = [call EXCEPT ![c] = Idle]
            /\ UNCHANGED <<stored, dispositions, claim, cache>>
        BY <2>3 DEF RefuseClaim, Refused, End, reviewVars, claimVars
      <3>2. ClaimTables'
        BY <3>1 DEF ClaimInv, ClaimTables
      <3> QED BY <3>1, <3>2, ClaimEnds
    <2>4. CASE UNCHANGED <<reviewVars, claimVars, requestVars>>
      BY <2>1, <2>4 DEF reviewVars, claimVars, requestVars
    <2> QED BY <2>2, <2>3, <2>4, DepositsKeep, DirectClaimKeeps, CandidateClaimKeeps, CommitKeeps
            DEF ClaimNext
  <1> QED BY <1>1, <1>2, PTL DEF ClaimSpec

\* Only the commit of a claim changes claims: it adds the one that its call held.
LEMMA OnlyCommitsClaim ==
    ASSUME ClaimInv, [ClaimNext]_<<reviewVars, claimVars, requestVars>>,
           NEW i \in ClaimIds, claim'[i] # claim[i]
    PROVE  \E c \in Calls : \E q :
              /\ q = call[c] /\ call[c] # Idle /\ q.id = i
              /\ ClaimCallFits(q) /\ ClaimStands(q)
              /\ claim' = [claim EXCEPT ![i] = q.row]
              /\ cache' = [cache EXCEPT ![q.row.project] = q.shown]
              /\ UNCHANGED <<stored, dispositions>>
  <1>1. ASSUME NEW c \in Calls, Commit(c)
        PROVE  \E q :
                 /\ q = call[c] /\ call[c] # Idle /\ q.id = i
                 /\ ClaimCallFits(q) /\ ClaimStands(q)
                 /\ claim' = [claim EXCEPT ![i] = q.row]
                 /\ cache' = [cache EXCEPT ![q.row.project] = q.shown]
                 /\ UNCHANGED <<stored, dispositions>>
    <2>1. PICK q : /\ q = call[c] /\ ClaimCallFits(q) /\ ClaimStands(q)
                   /\ call' = [call EXCEPT ![c] = Idle] /\ UNCHANGED <<stored, dispositions>>
                   /\ \/ UNCHANGED <<claim, cache>>
                      \/ /\ claim' = [claim EXCEPT ![q.id] = q.row]
                         /\ cache' = [cache EXCEPT ![q.row.project] = q.shown]
      BY <1>1, CommitWrites
    <2>2. /\ claim' = [claim EXCEPT ![q.id] = q.row]
          /\ cache' = [cache EXCEPT ![q.row.project] = q.shown]
      BY <2>1
    <2>3. q.id = i
      BY <2>2 DEF ClaimInv, ClaimTables
    <2>4. call[c] # Idle
      BY <1>1 DEF Commit, Step
    <2> QED BY <2>1, <2>2, <2>3, <2>4
  <1>2. \E c \in Calls : Commit(c)
    <2>1. ASSUME NEW m, DepositClaims(m) PROVE FALSE
      BY <2>1 DEF DepositClaims, claimVars
    <2>2. ASSUME NEW m, ReplayClaim(m) PROVE FALSE
      BY <2>2 DEF ReplayClaim, claimVars
    <2>3. ASSUME NEW c, NEW m, NEW id, NEW row, Insert(c, m, id, row) PROVE FALSE
      BY <2>3 DEF Insert, claimVars
    <2>4. ASSUME NEW c, NEW m, NEW s, InsertFromCandidate(c, m, s) PROVE FALSE
      BY <2>3, <2>4 DEF InsertFromCandidate
    <2>5. ASSUME NEW c, NEW m, NEW id, NEW s, InsertDirect(c, m, id, s) PROVE FALSE
      BY <2>3, <2>5 DEF InsertDirect
    <2>6. ASSUME NEW c, RefuseClaim(c) PROVE FALSE
      BY <2>6 DEF RefuseClaim, claimVars
    <2>7. CASE UNCHANGED <<reviewVars, claimVars, requestVars>>
      BY <2>7 DEF claimVars
    <2> QED BY <2>1, <2>2, <2>4, <2>5, <2>6, <2>7 DEF ClaimNext
  <1> QED BY <1>1, <1>2

\* ClaimsAreKept holds of every behaviour: whatever humans say of an item while it
\* becomes a claim, it becomes one on their last word, and a claim that overlaps no
\* other leaves the cache that the claims then call for.
THEOREM ClaimsStayKept == ClaimSpec => ClaimsAreKept
  <1>1. ClaimInv => ClaimTypeOK
    <2> SUFFICES ASSUME ClaimInv PROVE ClaimTypeOK
      OBVIOUS
    <2>1. ReviewTypeOK
      BY DEF ClaimInv, ReviewInv, ReviewTypeOK
    <2>2. \A c \in Inserting : call[c].row \in ClaimRow /\ call[c].id \in ClaimIds
      BY CallsOfOthers DEF Inserting, Step, ClaimInv, ClaimCallFits
    <2> QED BY <2>1, <2>2 DEF ClaimTypeOK, ClaimInv, ClaimTables
  <1>2. ClaimInv /\ [ClaimNext]_<<reviewVars, claimVars, requestVars>> =>
        [\A r \in Results : claim[r] = None /\ claim'[r] # None =>
            /\ dispositions' = dispositions
            /\ Accepted(r) /\ claim'[r].accepted = Latest(r)
            /\ claim'[r].project = ItemOf[r].project
            /\ claim'[r].type = ItemOf[r].type
            /\ claim'[r].observed = ItemOf[r].observed]_<<dispositions, claim>>
    <2> SUFFICES ASSUME ClaimInv, [ClaimNext]_<<reviewVars, claimVars, requestVars>>,
                        NEW r \in Results, claim[r] = None, claim'[r] # None
                 PROVE  /\ dispositions' = dispositions
                        /\ Accepted(r) /\ claim'[r].accepted = Latest(r)
                        /\ claim'[r].project = ItemOf[r].project
                        /\ claim'[r].type = ItemOf[r].type
                        /\ claim'[r].observed = ItemOf[r].observed
      OBVIOUS
    <2>1. r \in ClaimIds
      BY DEF ClaimIds
    <2>2. PICK c \in Calls : \E q :
              /\ q = call[c] /\ call[c] # Idle /\ q.id = r
              /\ ClaimCallFits(q) /\ ClaimStands(q)
              /\ claim' = [claim EXCEPT ![r] = q.row]
              /\ cache' = [cache EXCEPT ![q.row.project] = q.shown]
              /\ UNCHANGED <<stored, dispositions>>
      BY <2>1, OnlyCommitsClaim
    <2>3. PICK q : /\ q.id = r /\ ClaimCallFits(q) /\ ClaimStands(q)
                   /\ claim' = [claim EXCEPT ![r] = q.row] /\ UNCHANGED <<stored, dispositions>>
      BY <2>2
    <2>4. claim'[r] = q.row
      BY <2>1, <2>3 DEF ClaimInv, ClaimTables
    <2>5. Accepted(r) /\ q.row.accepted = Latest(r)
      BY <2>3 DEF ClaimStands
    <2> QED BY <2>3, <2>4, <2>5 DEF ClaimCallFits
  <1>3. ClaimInv /\ [ClaimNext]_<<reviewVars, claimVars, requestVars>> =>
        [\A i \in ClaimIds : claim[i] = None /\ claim'[i] # None =>
            \A c \in Calls :
               Step(c, "claiming") /\ call[c].id = i /\ call[c].read = Recorded =>
                  cache'[claim'[i].project]
                     = Projection([j \in Recorded \cup {i} |-> claim'[j]], claim'[i].project)
        ]_claimVars
    <2> SUFFICES ASSUME ClaimInv, [ClaimNext]_<<reviewVars, claimVars, requestVars>>,
                        NEW i \in ClaimIds, claim[i] = None, claim'[i] # None,
                        NEW c \in Calls, Step(c, "claiming"), call[c].id = i,
                        call[c].read = Recorded
                 PROVE  cache'[claim'[i].project]
                           = Projection([j \in Recorded \cup {i} |-> claim'[j]], claim'[i].project)
      OBVIOUS
    <2>1. PICK d \in Calls : \E q :
              /\ q = call[d] /\ call[d] # Idle /\ q.id = i
              /\ ClaimCallFits(q) /\ ClaimStands(q)
              /\ claim' = [claim EXCEPT ![i] = q.row]
              /\ cache' = [cache EXCEPT ![q.row.project] = q.shown]
              /\ UNCHANGED <<stored, dispositions>>
      BY OnlyCommitsClaim
    <2>2. c = d
      BY <2>1 DEF Step, ClaimInv, ClaimCalls
    <2>3. PICK q : /\ q = call[c] /\ q.id = i /\ ClaimCallFits(q) /\ ClaimStands(q)
                   /\ claim' = [claim EXCEPT ![i] = q.row]
                   /\ cache' = [cache EXCEPT ![q.row.project] = q.shown]
      BY <2>1, <2>2
    <2>4. PICK D : D = claim'
      OBVIOUS
    <2>5. D[i] = q.row /\ \A j \in ClaimIds : j # i => D[j] = claim[j]
      BY <2>3, <2>4 DEF ClaimInv, ClaimTables
    <2>6. PICK read : read = Recorded
      OBVIOUS
    <2>7. q.read = read /\ read \subseteq ClaimIds
      BY <2>3, <2>6 DEF Recorded
    <2>8. RowsWith(claim, read, i, q.row) = [j \in read \cup {i} |-> D[j]]
      BY <2>5, <2>7 DEF RowsWith
    <2>9. q.row.project \in Projects
      BY <2>3, ClaimRowFits DEF ClaimCallFits
    <2>10. cache'[q.row.project] = q.shown
      BY <2>3, <2>9 DEF ClaimInv, ClaimTables
    <2>11. q.shown = Projection([j \in read \cup {i} |-> D[j]], q.row.project)
      BY <2>3, <2>7, <2>8 DEF ClaimStands
    <2>12. D[i].project = q.row.project
      BY <2>5
    <2>13. cache'[D[i].project] = Projection([j \in read \cup {i} |-> D[j]], D[i].project)
      BY <2>10, <2>11, <2>12
    <2> QED BY <2>4, <2>6, <2>13
  <1> QED BY <1>1, <1>2, <1>3, ClaimInvariant, PTL
          DEF ClaimSpec, ClaimsAreKept, ClaimsFollowAcceptance, LoneClaimRefreshes

-----------------------------------------------------------------------------
(* Changes of Projects.  Nothing that is on record is taken back, so that   *)
(* what an answer told stays true, and what a call that holds a candidate  *)
(* has read of the Project is one of the snapshots of its ledger.          *)

\* The events of a Project p that explain its row.
LedgerOf(E, p, row) ==
    LET rows == {e \in E : e.project = p} IN
    /\ {e.expected : e \in rows} = 0..(RowRevision(row) - 1)
    /\ Cardinality(rows) = RowRevision(row)
    /\ \A e \in rows : e.expected = RowRevision(row) - 1 => e.snapshot = row

\* What the ledger E tells of an applied candidate.
AppliedOn(row, E) ==
    \E e, d \in E :
       /\ e.project = row.project /\ e.expected = row.base
       /\ e.key[2] = ":project-apply" /\ row.applied = row.base + 1
       /\ d.project = row.project /\ d.snapshot.revision = row.base
       /\ e.snapshot.attributes = Merged(row.changes, d.snapshot.attributes)

IsVariant(r) == ItemOf[r].kind = "project_change_variant"

SameScope(r, s) ==
    ItemOf[r].project = ItemOf[s].project /\ ItemOf[r].scope = ItemOf[s].scope

CandidateStands(k, row) ==
    /\ project[row.project] # None
    /\ row.status = "applied" => AppliedOn(row, projectEvents)
    /\ row.source # None =>
          /\ IsVariant(row.source)
          /\ \E j \in Of(row.source) : dispositions[j].key = <<k[1], ":selection">>

\* What a call holds, by itself.
ChangeCallFits(q) ==
    /\ q \in Handling /\ q.command \in ChangeRequests
    /\ q.pc = "proposing" => /\ q.command.op = "propose"
                             /\ q.base \in 1..MaxRevision
                             /\ Differing(q.command.changes, q.before) # {}
    /\ q.pc = "selecting" => q.command.op = "select" /\ IsVariant(q.command.result)
    /\ q.pc = "applying" => q.command.op = "apply" /\ q.read \in Row

\* And what it owes to the tables.
ChangeCallStands(q) ==
    /\ q.pc = "proposing" => project[q.command.project] # None
    /\ q.pc = "applying" =>
          /\ candidate[q.command.candidate] # None
          /\ candidate[q.command.candidate].status = "pending_review"
          /\ \E d \in projectEvents :
                /\ d.project = candidate[q.command.candidate].project
                /\ d.snapshot = q.read

Applying(q) == q # Idle /\ q.pc = "applying"

ProjectTables ==
    /\ project \in [Projects -> Row \cup {None}]
    /\ projectEvents \subseteq ProjectEvent
    /\ IsFiniteSet(projectEvents)
    /\ \A p \in Projects : LedgerOf(projectEvents, p, project[p])

CandidateTables ==
    /\ candidate \in [CandidateKeys -> Candidate \cup {None}]
    /\ candidateEvents \subseteq CandidateEvent
    /\ \A k \in CandidateKeys : candidate[k] # None => CandidateStands(k, candidate[k])
    /\ \A k, l \in CandidateKeys :
          /\ candidate[k] # None /\ candidate[k].source # None
          /\ candidate[l] # None /\ candidate[l].source # None
          /\ SameScope(candidate[k].source, candidate[l].source)
          => k = l

ChangeCalls ==
    /\ DOMAIN call = Calls
    /\ \A c \in Calls : call[c] = Idle \/ (ChangeCallFits(call[c]) /\ ChangeCallStands(call[c]))
    /\ \A c, d \in Calls :
          /\ Applying(call[c]) /\ Applying(call[d])
          /\ call[c].command.candidate = call[d].command.candidate
          => c = d

ChangesInv == ReviewInv /\ ProjectTables /\ CandidateTables /\ ChangeCalls

ChangeAnswered ==
    answer # None =>
       /\ answer.command \in ChangeRequests
       /\ Autocommit => ChangeOnRecord(answer.command, answer.expected)

\* What a step may do to what is on record.
Grows ==
    /\ \A x \in Executions : stored[x] # None => stored'[x] = stored[x]
    /\ \A j \in DOMAIN dispositions :
          j \in DOMAIN dispositions' /\ dispositions'[j] = dispositions[j]
    /\ projectEvents \subseteq projectEvents' /\ candidateEvents \subseteq candidateEvents'
    /\ \A p \in Projects : project[p] # None => project'[p] # None
    /\ \A k \in CandidateKeys : candidate[k] # None =>
          \/ candidate'[k] = candidate[k]
          \/ /\ candidate'[k] # None /\ candidate[k].status = "pending_review"
             /\ Proposal(candidate'[k]) = Proposal(candidate[k])

LEMMA ChangeAskedFits ==
    ASSUME NEW m \in ChangeRequests
    PROVE  /\ m.op = "store" => m.execution \in Executions /\ Content(m) \in Execution
           /\ m.op = "review" => m.result \in Results /\ m.disposition \in Dispositions
           /\ m.op = "select" => m.result \in Results
           /\ m.op \in {"create", "update"} => m.project \in Projects /\ m.attributes \in Attributes
           /\ m.op = "propose" =>
                 m.project \in Projects /\ m.changes \in Changes /\ m.by \in Proposers
           /\ m.op \in Outcomes => m.candidate \in CandidateKeys
           /\ m.key \in Keys
  <1>1. m \in Command
    BY ChangesAssumption
  <1>2. m.op = "store" => m.execution \in Executions /\ Content(m) \in Execution
    BY <1>1 DEF Command, Content, Execution, Outcomes
  <1>3. /\ m.op = "review" => m.result \in Results /\ m.disposition \in Dispositions
        /\ m.op = "select" => m.result \in Results
        /\ m.op \in {"create", "update"} => m.project \in Projects /\ m.attributes \in Attributes
        /\ m.op = "propose" =>
              m.project \in Projects /\ m.changes \in Changes /\ m.by \in Proposers
        /\ m.op \in Outcomes => m.candidate \in CandidateKeys
        /\ m.key \in Keys
    BY <1>1 DEF Command, Outcomes
  <1> QED BY <1>2, <1>3

\* A key as an operation uses it.
LEMMA ChangeKeys ==
    ASSUME NEW m \in ChangeRequests
    PROVE  /\ Sent(m.key) \in Key /\ <<m.key, ":selection">> \in Key
           /\ <<m.key, ":proposed">> \in Key /\ <<m.key, ":project-apply">> \in Key
           /\ Sent(m.key) \in CandidateKeys /\ <<m.key, ":change-candidate">> \in CandidateKeys
  <1>1. m.key \in Keys
    BY ChangeAskedFits
  <1> QED BY <1>1 DEF Sent, Key, Suffixes, CandidateKeys

LEMMA ChangeRowFits ==
    ASSUME NEW row \in Row
    PROVE  row # None /\ row.revision \in 1..MaxRevision /\ row.attributes \in Attributes
  BY ChangesAssumption DEF Row

LEMMA CandidateFits ==
    ASSUME NEW row \in Candidate
    PROVE  /\ row # None /\ row.project \in Projects /\ row.base \in 1..MaxRevision
           /\ row.changes \in Changes /\ row.by \in Proposers /\ row.source \in Results \cup {None}
           /\ row.status \in Statuses
  BY ChangesAssumption DEF Candidate

\* Some of the proposed attributes are proposed attributes.
LEMMA RestrictedAreChanges ==
    ASSUME NEW changes \in Changes, NEW F \in SUBSET (DOMAIN changes), F # {}
    PROVE  Restricted(changes, F) \in Changes
  <1>1. PICK G \in (SUBSET Fields) \ {{}} : changes \in [G -> Values]
    BY DEF Changes
  <1>2. Restricted(changes, F) \in [F -> Values] /\ F \in (SUBSET Fields) \ {{}}
    BY <1>1 DEF Restricted
  <1> QED BY <1>2 DEF Changes

LEMMA MergedAreAttributes ==
    ASSUME NEW changes \in Changes, NEW attributes \in Attributes
    PROVE  Merged(changes, attributes) \in Attributes
  <1>1. PICK G \in (SUBSET Fields) \ {{}} : changes \in [G -> Values]
    BY DEF Changes
  <1> QED BY <1>1 DEF Merged, Attributes

LEMMA DifferingAreProposed == \A changes, attributes : Differing(changes, attributes) \subseteq DOMAIN changes
  BY DEF Differing

LEMMA RevisionsAreNat ==
    ASSUME NEW row \in Row \cup {None}
    PROVE  RowRevision(row) \in 0..MaxRevision /\ (row # None => RowRevision(row) > 0)
  <1>1. MaxRevision \in Nat \ {0}
    BY ChangesAssumption
  <1> QED BY <1>1, ChangeRowFits DEF RowRevision

\* A ledger grows with the row that it explains.
LEMMA LedgerIsExtended ==
    ASSUME NEW E, IsFiniteSet(E), NEW p, NEW row, LedgerOf(E, p, row),
           RowRevision(row) \in Nat,
           NEW e, e \notin E, e.project = p, e.expected = RowRevision(row),
           NEW new, e.snapshot = new, RowRevision(new) = RowRevision(row) + 1
    PROVE  LedgerOf(E \cup {e}, p, new)
  <1> DEFINE rows == {f \in E : f.project = p}
  <1>1. PICK n \in Nat : n = RowRevision(row)
    OBVIOUS
  <1>2. {f \in E \cup {e} : f.project = p} = rows \cup {e} /\ e \notin rows
    OBVIOUS
  <1>3. IsFiniteSet(rows)
    BY FS_Subset
  <1>4. /\ {f.expected : f \in rows} = 0..(n - 1) /\ Cardinality(rows) = n
    BY <1>1 DEF LedgerOf
  <1> HIDE DEF rows
  <1>5. Cardinality(rows \cup {e}) = n + 1
    BY <1>2, <1>3, <1>4, FS_AddElement
  <1>6. {f.expected : f \in rows \cup {e}} = 0..n
    <2>1. {f.expected : f \in rows \cup {e}} = {f.expected : f \in rows} \cup {n}
      BY <1>1
    <2> QED BY <1>4, <2>1
  <1>7. \A f \in rows : f.expected # n
    BY <1>4
  <1>8. (n + 1) - 1 = n
    OBVIOUS
  <1> QED BY <1>1, <1>2, <1>5, <1>6, <1>7, <1>8 DEF LedgerOf

LEMMA LedgerOfOthers ==
    ASSUME NEW E, NEW p, NEW row, LedgerOf(E, p, row), NEW e, e.project # p
    PROVE  LedgerOf(E \cup {e}, p, row)
  <1>1. {f \in E \cup {e} : f.project = p} = {f \in E : f.project = p}
    OBVIOUS
  <1> QED BY <1>1 DEF LedgerOf

\* The last snapshot of the ledger is the row.
LEMMA LedgerHasRow ==
    ASSUME ProjectTables, NEW p \in Projects, project[p] # None
    PROVE  \E d \in projectEvents : d.project = p /\ d.snapshot = project[p]
  <1>1. PICK n : n = RowRevision(project[p])
    OBVIOUS
  <1>2. n \in Nat /\ n > 0
    <2>1. MaxRevision \in Nat
      BY ChangesAssumption
    <2>2. project[p] \in Row \cup {None}
      BY DEF ProjectTables
    <2> QED BY <1>1, <2>1, <2>2, RevisionsAreNat
  <1>3. /\ {e.expected : e \in {f \in projectEvents : f.project = p}} = 0..(n - 1)
        /\ \A e \in projectEvents : e.project = p /\ e.expected = n - 1 => e.snapshot = project[p]
    BY <1>1 DEF ProjectTables, LedgerOf
  <1>4. PICK e \in projectEvents : e.project = p /\ e.expected = n - 1
    BY <1>2, <1>3
  <1> QED BY <1>3, <1>4

LEMMA CandidateStandsStill ==
    ASSUME Grows, NEW k, NEW row \in Candidate, CandidateStands(k, row)
    PROVE  CandidateStands(k, row)'
  <1>1. project'[row.project] # None
    BY CandidateFits DEF CandidateStands, Grows
  <1>2. row.status = "applied" => AppliedOn(row, projectEvents)'
    <2> SUFFICES ASSUME row.status = "applied" PROVE AppliedOn(row, projectEvents)'
      OBVIOUS
    <2>1. PICK e, d \in projectEvents :
             /\ e.project = row.project /\ e.expected = row.base
             /\ e.key[2] = ":project-apply" /\ row.applied = row.base + 1
             /\ d.project = row.project /\ d.snapshot.revision = row.base
             /\ e.snapshot.attributes = Merged(row.changes, d.snapshot.attributes)
      BY DEF CandidateStands, AppliedOn
    <2>2. e \in projectEvents' /\ d \in projectEvents'
      BY DEF Grows
    <2> QED BY <2>1, <2>2 DEF AppliedOn
  <1>3. row.source # None => \E j \in Of(row.source)' : dispositions'[j].key = <<k[1], ":selection">>
    BY DEF CandidateStands, Grows, Of
  <1> QED BY <1>1, <1>2, <1>3 DEF CandidateStands

LEMMA ChangeCallStandsStill ==
    ASSUME Grows, NEW q, ChangeCallFits(q), ChangeCallStands(q),
           q.pc = "applying" =>
              candidate'[q.command.candidate] = candidate[q.command.candidate]
    PROVE  ChangeCallStands(q)'
  <1>1. q.pc = "proposing" => project'[q.command.project] # None
    <2>1. q.pc = "proposing" => q.command.project \in Projects
      BY ChangeAskedFits DEF ChangeCallFits
    <2> QED BY <2>1 DEF ChangeCallStands, Grows
  <1>2. q.pc = "applying" =>
           \E d \in projectEvents' :
              d.project = candidate[q.command.candidate].project /\ d.snapshot = q.read
    BY DEF ChangeCallStands, Grows
  <1> QED BY <1>1, <1>2 DEF ChangeCallStands

LEMMA ChangeCallOf ==
    ASSUME ChangeCalls, NEW c \in Calls, call[c] # Idle
    PROVE  ChangeCallFits(call[c]) /\ ChangeCallStands(call[c])
  BY DEF ChangeCalls

\* Calls that wait or end leave what the others hold true.
LEMMA ChangeCallsGoOn ==
    ASSUME ChangeCalls, Grows, DOMAIN call' = Calls,
           \A d \in Calls : call'[d] = call[d] \/ call'[d] = Idle,
           \A d \in Calls : Applying(call[d]) /\ call'[d] = call[d] =>
              candidate'[call[d].command.candidate] = candidate[call[d].command.candidate]
    PROVE  ChangeCalls'
  <1>1. ASSUME NEW d \in Calls, call'[d] # Idle
        PROVE  ChangeCallFits(call[d])' /\ ChangeCallStands(call[d])'
    <2>1. PICK q : q = call[d] /\ q = call'[d]
      BY <1>1
    <2>2. ChangeCallFits(q) /\ ChangeCallStands(q)
      BY <1>1, <2>1, ChangeCallOf
    <2>3. q.pc = "applying" => candidate'[q.command.candidate] = candidate[q.command.candidate]
      BY <1>1, <2>1 DEF Applying
    <2>4. ChangeCallStands(q)'
      BY <2>2, <2>3, ChangeCallStandsStill
    <2> QED BY <2>1, <2>2, <2>4 DEF ChangeCallFits, ChangeCallStands
  <1>2. \A c, d \in Calls :
           /\ Applying(call[c])' /\ Applying(call[d])'
           /\ call'[c].command.candidate = call'[d].command.candidate
           => c = d
    <2>1. \A d \in Calls : Applying(call[d])' => call'[d] = call[d] /\ Applying(call[d])
      BY DEF Applying
    <2> QED BY <2>1 DEF ChangeCalls
  <1> QED BY <1>1, <1>2 DEF ChangeCalls

LEMMA ChangeCallBegins ==
    ASSUME ChangeCalls, Grows, UNCHANGED candidate, NEW c \in Calls, NEW q,
           Begin(c, q), ChangeCallFits(q), ChangeCallStands(q),
           q.pc = "applying" => ~CandidateHeld(q.command.candidate)
    PROVE  ChangeCalls'
  <1>1. /\ DOMAIN call' = Calls /\ call'[c] = q /\ call[c] = Idle
        /\ \A d \in Calls : d # c => call'[d] = call[d]
    BY DEF Begin, ChangeCalls
  <1>2. ASSUME NEW d \in Calls, call'[d] # Idle
        PROVE  ChangeCallFits(call[d])' /\ ChangeCallStands(call[d])'
    <2>1. PICK s : s = call'[d]
      OBVIOUS
    <2>2. ChangeCallFits(s) /\ ChangeCallStands(s)
      BY <1>1, <1>2, <2>1, ChangeCallOf
    <2>3. ChangeCallStands(s)'
      BY <2>2, ChangeCallStandsStill
    <2> QED BY <2>1, <2>2, <2>3 DEF ChangeCallFits, ChangeCallStands
  <1>3. \A d, e \in Calls :
           /\ Applying(call[d])' /\ Applying(call[e])'
           /\ call'[d].command.candidate = call'[e].command.candidate
           => d = e
    <2>1. \A d \in Calls : d # c /\ Applying(call[d])' => Applying(call[d]) /\ Step(d, "applying")
      BY <1>1 DEF Applying, Step
    <2>2. Applying(call[c])' => \A d \in Calls : d # c /\ Applying(call[d])' =>
             call'[d].command.candidate # q.command.candidate
      BY <1>1, <2>1 DEF Applying, CandidateHeld
    <2> QED BY <1>1, <2>1, <2>2 DEF ChangeCalls
  <1> QED BY <1>1, <1>2, <1>3 DEF ChangeCalls

LEMMA EndsCall ==
    ASSUME DOMAIN call = Calls, NEW c \in Calls, End(c)
    PROVE  /\ DOMAIN call' = Calls /\ call'[c] = Idle
           /\ \A d \in Calls : d # c => call'[d] = call[d]
  BY DEF End

LEMMA SiblingsShareScope ==
    ASSUME CandidateTables, NEW r
    PROVE  \A k : k \in Siblings(r) <=>
              /\ k \in CandidateKeys /\ candidate[k] # None /\ candidate[k].source # None
              /\ SameScope(candidate[k].source, r)
  <1>1. ASSUME NEW k \in Siblings(r)
        PROVE  /\ k \in CandidateKeys /\ candidate[k] # None /\ candidate[k].source # None
               /\ SameScope(candidate[k].source, r)
    <2>1. PICK s \in Results : SameScope(s, r) /\ k \in FromSource(s)
      BY <1>1 DEF Siblings, SameScope
    <2> QED BY <2>1, ChangesAssumption DEF FromSource
  <1>2. ASSUME NEW k \in CandidateKeys, candidate[k] # None, candidate[k].source # None,
               SameScope(candidate[k].source, r)
        PROVE  k \in Siblings(r)
    <2>1. PICK s : s = candidate[k].source
      OBVIOUS
    <2>2. s \in Results /\ IsVariant(s)
      BY <1>2, <2>1, CandidateFits DEF CandidateTables, CandidateStands
    <2>3. k \in FromSource(s)
      BY <1>2, <2>1 DEF FromSource
    <2> QED BY <1>2, <2>1, <2>2, <2>3 DEF Siblings, SameScope, IsVariant
  <1> QED BY <1>1, <1>2

LEMMA CandidatesKept ==
    ASSUME CandidateTables, Grows, UNCHANGED candidate, candidateEvents' \subseteq CandidateEvent
    PROVE  CandidateTables'
  <1>1. ASSUME NEW k \in CandidateKeys, candidate'[k] # None
        PROVE  CandidateStands(k, candidate[k])'
    <2>1. PICK row : row = candidate[k] /\ row = candidate'[k]
      OBVIOUS
    <2>2. row \in Candidate /\ CandidateStands(k, row)
      BY <1>1, <2>1 DEF CandidateTables
    <2>3. CandidateStands(k, row)'
      BY <2>2, CandidateStandsStill
    <2> QED BY <2>1, <2>3 DEF CandidateStands
  <1> QED BY <1>1 DEF CandidateTables

LEMMA CandidateIsAdded ==
    ASSUME CandidateTables, Grows, NEW k \in CandidateKeys, candidate[k] = None,
           NEW row \in Candidate, candidate' = [candidate EXCEPT ![k] = row],
           CandidateStands(k, row)', candidateEvents' \subseteq CandidateEvent,
           row.source # None => Siblings(row.source) = {}
    PROVE  CandidateTables'
  <1>1. /\ candidate'[k] = row /\ \A l \in CandidateKeys : l # k => candidate'[l] = candidate[l]
        /\ candidate' \in [CandidateKeys -> Candidate \cup {None}]
    BY DEF CandidateTables
  <1>2. ASSUME NEW l \in CandidateKeys, candidate'[l] # None
        PROVE  CandidateStands(l, candidate[l])'
    <2>1. PICK other : other = candidate'[l]
      OBVIOUS
    <2>2. CASE l # k
      <3>1. other \in Candidate /\ CandidateStands(l, other)
        BY <1>1, <1>2, <2>1, <2>2 DEF CandidateTables
      <3>2. CandidateStands(l, other)'
        BY <3>1, CandidateStandsStill
      <3> QED BY <2>1, <3>2 DEF CandidateStands
    <2>3. CASE l = k
      <3>1. other = row
        BY <1>1, <2>1, <2>3
      <3> QED BY <2>1, <2>3, <3>1 DEF CandidateStands
    <2> QED BY <2>2, <2>3
  <1>3. \A l \in CandidateKeys :
           /\ l # k /\ row.source # None /\ candidate[l] # None /\ candidate[l].source # None
           => ~SameScope(row.source, candidate[l].source)
    <2>1. \A l : SameScope(row.source, candidate[l].source) => SameScope(candidate[l].source, row.source)
      BY DEF SameScope
    <2> QED BY <2>1, SiblingsShareScope
  <1>4. \A l \in CandidateKeys :
           /\ l # k /\ row.source # None /\ candidate[l] # None /\ candidate[l].source # None
           => ~SameScope(candidate[l].source, row.source)
    BY SiblingsShareScope
  <1>5. \A l, m \in CandidateKeys :
           /\ candidate'[l] # None /\ candidate'[l].source # None
           /\ candidate'[m] # None /\ candidate'[m].source # None
           /\ SameScope(candidate'[l].source, candidate'[m].source)
           => l = m
    <2> SUFFICES ASSUME NEW l \in CandidateKeys, NEW m \in CandidateKeys, l # m,
                        candidate'[l] # None, candidate'[l].source # None,
                        candidate'[m] # None, candidate'[m].source # None,
                        SameScope(candidate'[l].source, candidate'[m].source)
                 PROVE  FALSE
      OBVIOUS
    <2>1. CASE l = k
      BY <1>1, <1>3, <2>1
    <2>2. CASE m = k
      BY <1>1, <1>4, <2>2
    <2>3. CASE l # k /\ m # k
      BY <1>1, <2>3 DEF CandidateTables
    <2> QED BY <2>1, <2>2, <2>3
  <1>6. \A l, m \in CandidateKeys :
           SameScope(candidate[l].source, candidate[m].source)'
              <=> SameScope(candidate'[l].source, candidate'[m].source)
    BY DEF SameScope
  <1> QED BY <1>1, <1>2, <1>5, <1>6 DEF CandidateTables

LEMMA DecidedAsFits ==
    ASSUME NEW row \in Candidate, NEW status \in Statuses,
           NEW applied \in (1..MaxRevision) \cup {None}
    PROVE  /\ DecidedAs(row, status, applied) \in Candidate
           /\ DecidedAs(row, status, applied).status = status
           /\ DecidedAs(row, status, applied).applied = applied
           /\ DecidedAs(row, status, applied).project = row.project
           /\ DecidedAs(row, status, applied).base = row.base
           /\ DecidedAs(row, status, applied).changes = row.changes
           /\ DecidedAs(row, status, applied).source = row.source
           /\ DecidedAs(row, status, applied).by = row.by
           /\ Proposal(DecidedAs(row, status, applied)) = Proposal(row)
  BY DEF DecidedAs, Candidate, Proposal

LEMMA CandidateIsDecided ==
    ASSUME CandidateTables, Grows, NEW k \in CandidateKeys, candidate[k] # None,
           NEW row \in Candidate, row.source = candidate[k].source,
           row.project = candidate[k].project,
           candidate' = [candidate EXCEPT ![k] = row],
           candidateEvents' \subseteq CandidateEvent,
           row.status = "applied" => AppliedOn(row, projectEvents)'
    PROVE  CandidateTables'
  <1>1. /\ candidate'[k] = row /\ \A l \in CandidateKeys : l # k => candidate'[l] = candidate[l]
        /\ candidate' \in [CandidateKeys -> Candidate \cup {None}]
    BY DEF CandidateTables
  <1>2. CandidateStands(k, row)'
    <2>1. PICK was : was = candidate[k]
      OBVIOUS
    <2>2. was \in Candidate /\ CandidateStands(k, was)
      BY <2>1 DEF CandidateTables
    <2>3. CandidateStands(k, was)'
      BY <2>2, CandidateStandsStill
    <2> QED BY <2>1, <2>3 DEF CandidateStands
  <1>3. ASSUME NEW l \in CandidateKeys, candidate'[l] # None
        PROVE  CandidateStands(l, candidate[l])'
    <2>1. PICK other : other = candidate'[l]
      OBVIOUS
    <2>2. CASE l # k
      <3>1. other \in Candidate /\ CandidateStands(l, other)
        BY <1>1, <1>3, <2>1, <2>2 DEF CandidateTables
      <3>2. CandidateStands(l, other)'
        BY <3>1, CandidateStandsStill
      <3> QED BY <2>1, <3>2 DEF CandidateStands
    <2>3. CASE l = k
      <3>1. other = row
        BY <1>1, <2>1, <2>3
      <3> QED BY <1>2, <2>1, <2>3, <3>1 DEF CandidateStands
    <2> QED BY <2>2, <2>3
  <1>4. \A l \in CandidateKeys : /\ candidate[l] # None <=> candidate'[l] # None
                                 /\ candidate'[l].source = candidate[l].source
    BY <1>1, CandidateFits
  <1> QED BY <1>1, <1>3, <1>4 DEF CandidateTables, SameScope

\* The Projects, when one of them is written.
LEMMA WritesKeep ==
    ASSUME ProjectTables, NEW k \in Key, NEW p \in Projects, NEW v, NEW attributes \in Attributes,
           v = RowRevision(project[p]), Writes(k, p, v, attributes)
    PROVE  /\ ProjectTables'
           /\ projectEvents \subseteq projectEvents'
           /\ \A q \in Projects : project[q] # None => project'[q] # None
           /\ \E e \in projectEvents' :
                 /\ e.key = k /\ e.project = p /\ e.expected = v
                 /\ e.snapshot.attributes = attributes
  <1>1. MaxRevision \in Nat
    BY ChangesAssumption
  <1>2. v \in 0..MaxRevision /\ v < MaxRevision
    <2>1. project[p] \in Row \cup {None}
      BY DEF ProjectTables
    <2> QED BY <2>1, RevisionsAreNat DEF Writes
  <1>3. PICK row : row = [revision |-> v + 1, attributes |-> attributes]
    OBVIOUS
  <1>4. row \in Row /\ row.revision = v + 1 /\ row.attributes = attributes /\ row # None
    <2>1. v + 1 \in 1..MaxRevision
      BY <1>1, <1>2
    <2>2. row \in Row /\ row.revision = v + 1 /\ row.attributes = attributes
      BY <1>3, <2>1 DEF Row
    <2> QED BY <2>2, ChangeRowFits
  <1>5. PICK e : e = [key |-> k, project |-> p, expected |-> v, payload |-> attributes,
                      snapshot |-> row]
    OBVIOUS
  <1>6. /\ e.key = k /\ e.project = p /\ e.expected = v /\ e.snapshot = row
        /\ e \in ProjectEvent
    BY <1>2, <1>4, <1>5 DEF ProjectEvent
  <1>7. /\ project' = [project EXCEPT ![p] = row]
        /\ projectEvents' = projectEvents \cup {e}
        /\ \A f \in projectEvents : f.key # k
    BY <1>3, <1>5 DEF Writes, ProjectEventOf
  <1>8. /\ project' \in [Projects -> Row \cup {None}] /\ project'[p] = row
        /\ \A q \in Projects : q # p => project'[q] = project[q]
    BY <1>4, <1>7 DEF ProjectTables
  <1>9. \A q \in Projects : LedgerOf(projectEvents', q, project'[q])
    <2> SUFFICES ASSUME NEW q \in Projects PROVE LedgerOf(projectEvents', q, project'[q])
      OBVIOUS
    <2>1. CASE q = p
      <3>1. e \notin projectEvents
        BY <1>6, <1>7
      <3>2. RowRevision(row) = v + 1
        BY <1>4 DEF RowRevision
      <3>3. LedgerOf(projectEvents, p, project[p]) /\ IsFiniteSet(projectEvents)
        BY DEF ProjectTables
      <3>4. LedgerOf(projectEvents \cup {e}, p, row)
        BY <1>2, <1>6, <3>1, <3>2, <3>3, LedgerIsExtended
      <3> QED BY <1>7, <1>8, <2>1, <3>4
    <2>2. CASE q # p
      <3>1. LedgerOf(projectEvents, q, project[q])
        BY DEF ProjectTables
      <3>2. LedgerOf(projectEvents \cup {e}, q, project[q])
        BY <1>6, <2>2, <3>1, LedgerOfOthers
      <3> QED BY <1>7, <1>8, <2>2, <3>2
    <2> QED BY <2>1, <2>2
  <1>10. IsFiniteSet(projectEvents')
    BY <1>7, FS_AddElement DEF ProjectTables
  <1>11. ProjectTables'
    <2>1. projectEvents' \subseteq ProjectEvent
      BY <1>6, <1>7 DEF ProjectTables
    <2>2. \A q \in Projects : LedgerOf(projectEvents, q, project[q])'
      BY <1>9 DEF LedgerOf, RowRevision
    <2> QED BY <1>8, <1>10, <2>1, <2>2 DEF ProjectTables
  <1> QED BY <1>4, <1>6, <1>7, <1>8, <1>11

\* A candidate that is being applied is there.
LEMMA HeldIsThere ==
    ASSUME ChangeCalls, NEW c \in Calls, Applying(call[c])
    PROVE  /\ ChangeCallFits(call[c]) /\ ChangeCallStands(call[c])
           /\ call[c].command \in ChangeRequests /\ call[c].command.op = "apply"
           /\ call[c].command.candidate \in CandidateKeys
           /\ candidate[call[c].command.candidate] # None
  <1>1. PICK q : q = call[c]
    OBVIOUS
  <1>2. ChangeCallFits(q) /\ ChangeCallStands(q) /\ q.pc = "applying"
    BY <1>1, ChangeCallOf DEF Applying
  <1>3. q.command \in ChangeRequests /\ q.command.op = "apply"
    BY <1>2 DEF ChangeCallFits
  <1>4. q.command.candidate \in CandidateKeys
    BY <1>3, ChangeAskedFits DEF Outcomes
  <1> QED BY <1>1, <1>2, <1>3, <1>4 DEF ChangeCallStands

\* What is on record stays there.
LEMMA ChangesStayOnRecord ==
    ASSUME ReviewInv, CandidateTables, Grows,
           NEW m \in ChangeRequests, NEW v, ChangeOnRecord(m, v)
    PROVE  ChangeOnRecord(m, v)'
  <1>1. m.op = "store" => stored'[m.execution] = Content(m)
    <2> SUFFICES ASSUME m.op = "store" PROVE stored'[m.execution] = Content(m)
      OBVIOUS
    <2>1. m.execution \in Executions /\ Content(m) # None
      BY ChangeAskedFits, ChangesAssumption
    <2>2. stored[m.execution] = Content(m)
      BY DEF ChangeOnRecord
    <2> QED BY <2>1, <2>2 DEF Grows
  <1>2. m.op = "review" =>
           \E j \in Of(m.result)' : /\ dispositions'[j].key = Sent(m.key)
                                    /\ dispositions'[j].disposition = m.disposition
    BY DEF ChangeOnRecord, Grows, Of
  <1>3. m.op = "select" => FromSource(m.result)' # {}
    <2> SUFFICES ASSUME m.op = "select" PROVE FromSource(m.result)' # {}
      OBVIOUS
    <2>1. PICK k \in CandidateKeys : candidate[k] # None /\ candidate[k].source = m.result
      BY DEF ChangeOnRecord, FromSource
    <2>2. candidate'[k] # None /\ candidate'[k].source = m.result
      BY <2>1 DEF Grows, Proposal, DecidedAs
    <2> QED BY <2>2 DEF FromSource
  <1>4. m.op \in {"create", "update"} =>
           \E e \in ProjectEventOf(Sent(m.key))' : e.project = m.project /\ e.expected = v
    BY DEF ChangeOnRecord, Grows, ProjectEventOf
  <1>5. m.op = "propose" =>
           /\ candidate'[Sent(m.key)] # None
           /\ candidate'[Sent(m.key)].project = m.project
           /\ candidate'[Sent(m.key)].base = v
           /\ candidate'[Sent(m.key)].by = m.by
    <2> SUFFICES ASSUME m.op = "propose"
                 PROVE  /\ candidate'[Sent(m.key)] # None
                        /\ candidate'[Sent(m.key)].project = m.project
                        /\ candidate'[Sent(m.key)].base = v
                        /\ candidate'[Sent(m.key)].by = m.by
      OBVIOUS
    <2>1. PICK k \in CandidateKeys : k = Sent(m.key)
      BY ChangeKeys
    <2>2. /\ candidate[k] # None /\ candidate[k].project = m.project
          /\ candidate[k].base = v /\ candidate[k].by = m.by
      BY <2>1 DEF ChangeOnRecord
    <2>3. /\ candidate'[k] # None /\ candidate'[k].project = candidate[k].project
          /\ candidate'[k].base = candidate[k].base /\ candidate'[k].by = candidate[k].by
      BY <2>2 DEF Grows, Proposal, DecidedAs
    <2> QED BY <2>1, <2>2, <2>3
  <1>6. m.op \in Outcomes =>
           \E e \in Seen(m)' :
              /\ e.candidate = m.candidate
              /\ e.type = StatusOf(m.op) \/ (m.op = "apply" /\ e.type = "stale")
    BY DEF ChangeOnRecord, Grows, Seen
  <1> QED BY <1>1, <1>2, <1>3, <1>4, <1>5, <1>6 DEF ChangeOnRecord

LEMMA ChangeIsQuiet ==
    ASSUME ChangesInv, ChangeAnswered, Grows, UNCHANGED answer
    PROVE  ChangeAnswered'
  <1> SUFFICES ASSUME answer # None
               PROVE  /\ answer'.command \in ChangeRequests
                      /\ Autocommit => ChangeOnRecord(answer.command, answer.expected)'
    BY DEF ChangeAnswered
  <1>1. PICK m : m = answer.command /\ m = answer'.command
    OBVIOUS
  <1>2. PICK v : v = answer.expected /\ v = answer'.expected
    OBVIOUS
  <1>3. m \in ChangeRequests /\ (Autocommit => ChangeOnRecord(m, v))
    BY <1>1, <1>2 DEF ChangeAnswered
  <1>4. Autocommit => ChangeOnRecord(m, v)'
    BY <1>3, ChangesStayOnRecord DEF ChangesInv
  <1> QED BY <1>1, <1>2, <1>3, <1>4 DEF ChangeOnRecord

LEMMA ChangeIsAnswered ==
    ASSUME NEW m \in ChangeRequests, NEW v, Answers(m, v),
           Autocommit => ChangeOnRecord(m, v)'
    PROVE  ChangeAnswered'
  <1>1. answer'.command = m /\ answer'.expected = v
    BY DEF Answers
  <1> QED BY <1>1 DEF ChangeAnswered, ChangeOnRecord

LEMMA NothingIsChanged ==
    ASSUME ChangesInv, UNCHANGED <<reviewVars, projectVars, candidateVars>>
    PROVE  Grows /\ ReviewInv' /\ ProjectTables' /\ CandidateTables'
  <1>1. UNCHANGED <<stored, dispositions, project, projectEvents, candidate, candidateEvents>>
    BY DEF reviewVars, projectVars, candidateVars
  <1>2. Grows
    BY <1>1 DEF Grows
  <1>3. ReviewInv' /\ ProjectTables'
    <2>1. ReviewInv'
      BY <1>1 DEF ChangesInv, ReviewInv, Of
    <2>2. ProjectTables'
      BY <1>1 DEF ChangesInv, ProjectTables, LedgerOf, RowRevision
    <2> QED BY <2>1, <2>2
  <1>4. CandidateTables'
    BY <1>1, <1>2, CandidatesKept DEF ChangesInv, CandidateTables
  <1> QED BY <1>2, <1>3, <1>4

LEMMA ChangeCallsWait ==
    ASSUME ChangesInv, Grows, UNCHANGED <<candidate, call>>
    PROVE  ChangeCalls'
  BY ChangeCallsGoOn DEF ChangesInv, ChangeCalls

LEMMA ReplaysKeep ==
    ASSUME ChangesInv, NEW m \in ChangeRequests, NEW v,
           UNCHANGED <<reviewVars, projectVars, candidateVars, call>>,
           Answers(m, v), ChangeOnRecord(m, v)
    PROVE  Grows /\ ChangesInv' /\ ChangeAnswered'
  <1>1. Grows /\ ReviewInv' /\ ProjectTables' /\ CandidateTables'
    BY NothingIsChanged
  <1>2. ChangeOnRecord(m, v)'
    BY <1>1, ChangesStayOnRecord DEF ChangesInv
  <1>3. ChangeCalls'
    BY <1>1, ChangeCallsWait DEF candidateVars
  <1> QED BY <1>1, <1>2, <1>3, ChangeIsAnswered DEF ChangesInv

LEMMA DepositKeeps ==
    ASSUME ChangesInv, NEW m \in ChangeRequests, Deposit(m)
    PROVE  Grows /\ ChangesInv' /\ ChangeAnswered'
  <1>1. /\ Answers(m, 0)
        /\ UNCHANGED <<project, projectEvents, candidate, candidateEvents, call>>
    BY DEF Deposit, projectVars, candidateVars
  <1>2. ASSUME ReviewInv', ChangeOnRecord(m, 0)',
               \A x \in Executions : stored[x] # None => stored'[x] = stored[x],
               \A j \in DOMAIN dispositions :
                  j \in DOMAIN dispositions' /\ dispositions'[j] = dispositions[j]
        PROVE  Grows /\ ChangesInv' /\ ChangeAnswered'
    <2>1. Grows
      BY <1>1, <1>2 DEF Grows
    <2>2. ProjectTables'
      BY <1>1 DEF ChangesInv, ProjectTables, LedgerOf, RowRevision
    <2>3. CandidateTables'
      BY <1>1, <2>1, CandidatesKept DEF ChangesInv, CandidateTables
    <2>4. ChangeCalls'
      BY <1>1, <2>1, ChangeCallsWait
    <2> QED BY <1>1, <1>2, <2>1, <2>2, <2>3, <2>4, ChangeIsAnswered DEF ChangesInv
  <1>3. CASE StoreResult(m)
    <2>1. m.op = "store" /\ m.execution \in Executions /\ Content(m) \in Execution
      BY <1>3, ChangeAskedFits DEF StoreResult
    <2>2. /\ stored[m.execution] = None /\ UNCHANGED dispositions
          /\ stored' = [stored EXCEPT ![m.execution] = Content(m)]
      BY <1>3 DEF StoreResult
    <2>3. ReviewInv'
      BY <1>3, <2>1, StoringKeeps DEF ChangesInv
    <2>4. stored'[m.execution] = Content(m)
      BY <2>1, <2>2 DEF ChangesInv, ReviewInv
    <2>5. ChangeOnRecord(m, 0)'
      BY <2>1, <2>4 DEF ChangeOnRecord, Outcomes
    <2>6. \A x \in Executions : stored[x] # None => stored'[x] = stored[x]
      BY <2>2 DEF ChangesInv, ReviewInv
    <2> QED BY <1>2, <2>2, <2>3, <2>5, <2>6
  <1>4. CASE ReplayStore(m)
    <2>1. m.op = "store" /\ stored[m.execution] = Content(m) /\ UNCHANGED <<stored, dispositions>>
      BY <1>4 DEF ReplayStore
    <2>2. ReviewInv'
      BY <2>1 DEF ChangesInv, ReviewInv, Of
    <2>3. ChangeOnRecord(m, 0)'
      BY <2>1 DEF ChangeOnRecord, Outcomes
    <2> QED BY <1>2, <2>1, <2>2, <2>3
  <1>5. CASE Reviews(m)
    <2>1. PICK row : row = [key |-> Sent(m.key), result |-> m.result, disposition |-> m.disposition]
      OBVIOUS
    <2>2. m.op = "review" /\ Appends(row) /\ UNCHANGED stored
      BY <1>5, <2>1 DEF Reviews
    <2>3. /\ row \in Disposition /\ row.key = Sent(m.key) /\ row.result = m.result
          /\ row.disposition = m.disposition
      BY <2>1, <2>2, ChangeAskedFits, ChangeKeys DEF Disposition
    <2>4. ReviewInv' /\ FollowedBy(dispositions, dispositions', row)
      BY <2>2, <2>3, DispositionIsAppended DEF ChangesInv
    <2>5. \E j \in DOMAIN dispositions' : dispositions'[j] = row
      BY <2>2, <2>3, AppendedIsThere DEF ChangesInv
    <2>6. ChangeOnRecord(m, 0)'
      BY <2>2, <2>3, <2>5 DEF ChangeOnRecord, Outcomes, Of
    <2> QED BY <1>2, <2>2, <2>4, <2>6 DEF FollowedBy
  <1> QED BY <1>3, <1>4, <1>5 DEF Deposit

LEMMA ProjectIsWritten ==
    ASSUME ChangesInv, NEW m \in ChangeRequests, m.op \in {"create", "update"}, NEW v,
           v = RowRevision(project[m.project]),
           Writes(Sent(m.key), m.project, v, m.attributes), Answers(m, v),
           UNCHANGED <<reviewVars, candidateVars, call>>
    PROVE  Grows /\ ChangesInv' /\ ChangeAnswered'
  <1>1. /\ Sent(m.key) \in Key /\ m.project \in Projects /\ m.attributes \in Attributes
    BY ChangeAskedFits, ChangeKeys
  <1>2. /\ ProjectTables'
        /\ projectEvents \subseteq projectEvents'
        /\ \A q \in Projects : project[q] # None => project'[q] # None
        /\ \E e \in projectEvents' : e.key = Sent(m.key) /\ e.project = m.project /\ e.expected = v
    BY <1>1, WritesKeep DEF ChangesInv
  <1>3. UNCHANGED <<stored, dispositions, candidate, candidateEvents, call>>
    BY DEF reviewVars, candidateVars
  <1>4. Grows
    BY <1>2, <1>3 DEF Grows
  <1>5. ReviewInv'
    BY <1>3 DEF ChangesInv, ReviewInv, Of
  <1>6. CandidateTables'
    BY <1>3, <1>4, CandidatesKept DEF ChangesInv, CandidateTables
  <1>7. ChangeCalls'
    BY <1>3, <1>4, ChangeCallsWait
  <1>8. ChangeOnRecord(m, v)'
    BY <1>2 DEF ChangeOnRecord, ProjectEventOf, Outcomes
  <1> QED BY <1>2, <1>4, <1>5, <1>6, <1>7, <1>8, ChangeIsAnswered DEF ChangesInv

LEMMA CreateKeeps ==
    ASSUME ChangesInv, NEW m \in ChangeRequests, CreateProject(m)
    PROVE  Grows /\ ChangesInv' /\ ChangeAnswered'
  <1>1. /\ m.op \in {"create", "update"} /\ RowRevision(project[m.project]) = 0
        /\ Writes(Sent(m.key), m.project, 0, m.attributes) /\ Answers(m, 0)
        /\ UNCHANGED <<reviewVars, candidateVars, call>>
    BY DEF CreateProject, RowRevision
  <1> QED BY <1>1, ProjectIsWritten

LEMMA UpdateKeeps ==
    ASSUME ChangesInv, NEW m \in ChangeRequests, NEW v, UpdateProject(m, v)
    PROVE  Grows /\ ChangesInv' /\ ChangeAnswered'
  <1>1. /\ m.op \in {"create", "update"} /\ RowRevision(project[m.project]) = v
        /\ Writes(Sent(m.key), m.project, v, m.attributes) /\ Answers(m, v)
        /\ UNCHANGED <<reviewVars, candidateVars, call>>
    BY DEF UpdateProject, RowRevision, At
  <1> QED BY <1>1, ProjectIsWritten

LEMMA ReplayProjectKeeps ==
    ASSUME ChangesInv, NEW m \in ChangeRequests, NEW v, ReplayProject(m, v)
    PROVE  Grows /\ ChangesInv' /\ ChangeAnswered'
  <1>1. ChangeOnRecord(m, v)
    BY DEF ReplayProject, ChangeOnRecord, Outcomes
  <1> QED BY <1>1, ReplaysKeep DEF ReplayProject

LEMMA ReplaySelectionKeeps ==
    ASSUME ChangesInv, NEW m \in ChangeRequests, ReplaySelection(m)
    PROVE  Grows /\ ChangesInv' /\ ChangeAnswered'
  <1>1. m.op = "select" /\ FromSource(m.result) # {}
    BY DEF ReplaySelection, Selectable
  <1>2. PICK v : v = ItemOf[m.result].base
    OBVIOUS
  <1>3. ChangeOnRecord(m, v)
    BY <1>1 DEF ChangeOnRecord, Outcomes
  <1> QED BY <1>2, <1>3, ReplaysKeep DEF ReplaySelection

LEMMA ReplayDecisionKeeps ==
    ASSUME ChangesInv, NEW m \in ChangeRequests, ReplayDecision(m)
    PROVE  Grows /\ ChangesInv' /\ ChangeAnswered'
  <1>1. PICK v : v = candidate[m.candidate].base
    OBVIOUS
  <1>2. ChangeOnRecord(m, v)
    BY DEF ReplayDecision, Repeats, ChangeOnRecord, Outcomes
  <1> QED BY <1>1, <1>2, ReplaysKeep DEF ReplayDecision

\* A call that reads begins.
LEMMA ReadingKeeps ==
    ASSUME ChangesInv, ChangeAnswered, NEW c \in Calls, NEW q,
           Begin(c, q), ChangeCallFits(q), ChangeCallStands(q),
           q.pc = "applying" => ~CandidateHeld(q.command.candidate),
           UNCHANGED <<reviewVars, projectVars, candidateVars, answer>>
    PROVE  Grows /\ ChangesInv' /\ ChangeAnswered'
  <1>1. Grows /\ ReviewInv' /\ ProjectTables' /\ CandidateTables'
    BY NothingIsChanged
  <1>2. ChangeCalls'
    BY <1>1, ChangeCallBegins DEF ChangesInv, candidateVars
  <1>3. ChangeAnswered'
    BY <1>1, ChangeIsQuiet
  <1> QED BY <1>1, <1>2, <1>3 DEF ChangesInv

LEMMA ProjectReadKeeps ==
    ASSUME ChangesInv, ChangeAnswered, NEW c \in Calls, NEW m \in ChangeRequests,
           NEW v \in 1..MaxRevision, Read(c, m, v)
    PROVE  Grows /\ ChangesInv' /\ ChangeAnswered'
  <1>1. PICK before : before = project[m.project].attributes
    OBVIOUS
  <1>2. PICK q : q = [pc |-> "proposing", command |-> m, base |-> v, before |-> before]
    OBVIOUS
  <1>3. /\ m.op = "propose" /\ project[m.project] # None /\ Differing(m.changes, before) # {}
        /\ Begin(c, q) /\ UNCHANGED <<reviewVars, projectVars, candidateVars, answer>>
    BY <1>1, <1>2 DEF Read, At
  <1>4. before \in Attributes
    <2>1. project[m.project] \in Row
      BY <1>3, ChangeAskedFits DEF ChangesInv, ProjectTables
    <2> QED BY <1>1, <2>1, ChangeRowFits
  <1>5. /\ q.pc = "proposing" /\ q.command = m /\ q.base = v /\ q.before = before
        /\ q \in Handling
    BY <1>2, <1>4 DEF Handling, ChangeRequests
  <1>6. ChangeCallFits(q) /\ ChangeCallStands(q)
    BY <1>3, <1>5 DEF ChangeCallFits, ChangeCallStands
  <1> QED BY <1>3, <1>5, <1>6, ReadingKeeps

LEMMA CheckVariantKeeps ==
    ASSUME ChangesInv, ChangeAnswered, NEW c \in Calls, NEW m \in ChangeRequests,
           CheckVariant(c, m)
    PROVE  Grows /\ ChangesInv' /\ ChangeAnswered'
  <1>1. PICK q : q = [pc |-> "selecting", command |-> m]
    OBVIOUS
  <1>2. /\ m.op = "select" /\ IsVariant(m.result) /\ Begin(c, q)
        /\ UNCHANGED <<reviewVars, projectVars, candidateVars, answer>>
    BY <1>1 DEF CheckVariant, Selectable, IsVariant
  <1>3. q.pc = "selecting" /\ q.command = m /\ q \in Handling
    BY <1>1 DEF Handling, ChangeRequests
  <1>4. ChangeCallFits(q) /\ ChangeCallStands(q)
    BY <1>2, <1>3 DEF ChangeCallFits, ChangeCallStands
  <1> QED BY <1>2, <1>3, <1>4, ReadingKeeps

LEMMA LockCandidateKeeps ==
    ASSUME ChangesInv, ChangeAnswered, NEW c \in Calls, NEW m \in ChangeRequests,
           LockCandidate(c, m)
    PROVE  Grows /\ ChangesInv' /\ ChangeAnswered'
  <1>1. m.op = "apply" /\ m.candidate \in CandidateKeys
    BY ChangeAskedFits DEF LockCandidate, Outcomes
  <1>2. PICK row : row = candidate[m.candidate]
    OBVIOUS
  <1>3. PICK read : read = project[row.project]
    OBVIOUS
  <1>4. PICK q : q = [pc |-> "applying", command |-> m, read |-> read]
    OBVIOUS
  <1>5. /\ ~CandidateHeld(m.candidate) /\ row # None /\ row.status = "pending_review"
        /\ Begin(c, q) /\ UNCHANGED <<reviewVars, projectVars, candidateVars, answer>>
    BY <1>2, <1>3, <1>4 DEF LockCandidate, Decidable
  <1>6. row \in Candidate /\ CandidateStands(m.candidate, row)
    BY <1>1, <1>2, <1>5 DEF ChangesInv, CandidateTables
  <1>7. row.project \in Projects /\ project[row.project] # None
    BY <1>6, CandidateFits DEF CandidateStands
  <1>8. read \in Row
    BY <1>3, <1>7 DEF ChangesInv, ProjectTables
  <1>9. \E d \in projectEvents : d.project = row.project /\ d.snapshot = read
    BY <1>3, <1>7, LedgerHasRow DEF ChangesInv
  <1>10. q.pc = "applying" /\ q.command = m /\ q.read = read /\ q \in Handling
    BY <1>4, <1>8 DEF Handling, ChangeRequests
  <1>11. ChangeCallFits(q)
    BY <1>1, <1>8, <1>10 DEF ChangeCallFits
  <1>12. ChangeCallStands(q)
    BY <1>2, <1>5, <1>9, <1>10 DEF ChangeCallStands
  <1> QED BY <1>5, <1>10, <1>11, <1>12, ReadingKeeps

\* A call ends, and nothing else happens to the tables.
LEMMA NothingButAnEnd ==
    ASSUME ChangesInv, NEW c \in Calls, End(c), UNCHANGED <<reviewVars, projectVars, candidateVars>>
    PROVE  Grows /\ ChangesInv'
  <1>1. Grows /\ ReviewInv' /\ ProjectTables' /\ CandidateTables'
    BY NothingIsChanged
  <1>2. ChangeCalls'
    BY <1>1, EndsCall, ChangeCallsGoOn DEF ChangesInv, ChangeCalls, candidateVars
  <1> QED BY <1>1, <1>2 DEF ChangesInv

LEMMA RefuseKeeps ==
    ASSUME ChangesInv, ChangeAnswered, NEW c \in Calls, Refuse(c)
    PROVE  Grows /\ ChangesInv' /\ ChangeAnswered'
  <1>1. /\ End(c) /\ UNCHANGED answer
        /\ UNCHANGED <<reviewVars, projectVars, candidateVars>>
    BY DEF Refuse, Refused
  <1> QED BY <1>1, NothingButAnEnd, ChangeIsQuiet

\* What a call that proposes makes of what it read.
LEMMA ProposedFits ==
    ASSUME ChangesInv, NEW c \in Calls, Step(c, "proposing")
    PROVE  \E m \in ChangeRequests : \E v \in 1..MaxRevision :
              /\ m = call[c].command /\ v = call[c].base /\ m.op = "propose"
              /\ m.project \in Projects /\ project[m.project] # None
              /\ Proposed(c) \in Candidate /\ Proposed(c).project = m.project
              /\ Proposed(c).base = v /\ Proposed(c).by = m.by
              /\ Proposed(c).source = None /\ Proposed(c).status = "pending_review"
  <1>1. PICK q : q = call[c]
    OBVIOUS
  <1>2. ChangeCallFits(q) /\ ChangeCallStands(q) /\ q.pc = "proposing"
    BY <1>1, ChangeCallOf DEF Step, ChangesInv
  <1>3. PICK m : m = q.command
    OBVIOUS
  <1>4. /\ m \in ChangeRequests /\ m.op = "propose" /\ q.base \in 1..MaxRevision
        /\ Differing(m.changes, q.before) # {} /\ project[m.project] # None
    BY <1>2, <1>3 DEF ChangeCallFits, ChangeCallStands
  <1>5. m.project \in Projects /\ m.changes \in Changes /\ m.by \in Proposers
    BY <1>4, ChangeAskedFits
  <1>6. PICK changes : changes = Restricted(m.changes, Differing(m.changes, q.before))
    OBVIOUS
  <1>7. changes \in Changes
    BY <1>4, <1>5, <1>6, RestrictedAreChanges, DifferingAreProposed
  <1>8. PICK row : row = [project |-> m.project, base |-> q.base, changes |-> changes, by |-> m.by,
                          source |-> None, status |-> "pending_review", applied |-> None]
    OBVIOUS
  <1>9. row = Proposed(c)
    BY <1>1, <1>3, <1>6, <1>8 DEF Proposed, NewCandidate
  <1>10. /\ row \in Candidate /\ row.project = m.project /\ row.base = q.base /\ row.by = m.by
         /\ row.source = None /\ row.status = "pending_review"
    BY <1>4, <1>5, <1>7, <1>8 DEF Candidate, Statuses
  <1> QED BY <1>1, <1>3, <1>4, <1>5, <1>9, <1>10

LEMMA ProposeKeeps ==
    ASSUME ChangesInv, ChangeAnswered, NEW c \in Calls, Propose(c)
    PROVE  Grows /\ ChangesInv' /\ ChangeAnswered'
  <1>1. Step(c, "proposing")
    BY DEF Propose
  <1>2. PICK m \in ChangeRequests : \E v \in 1..MaxRevision :
              /\ m = call[c].command /\ v = call[c].base /\ m.op = "propose"
              /\ m.project \in Projects /\ project[m.project] # None
              /\ Proposed(c) \in Candidate /\ Proposed(c).project = m.project
              /\ Proposed(c).base = v /\ Proposed(c).by = m.by
              /\ Proposed(c).source = None /\ Proposed(c).status = "pending_review"
    BY <1>1, ProposedFits
  <1>3. PICK v : v = call[c].base
    OBVIOUS
  <1>4. PICK row : row = Proposed(c)
    OBVIOUS
  <1>5. PICK k : k = Sent(m.key)
    OBVIOUS
  <1>6. /\ m = call[c].command /\ m.op = "propose" /\ project[m.project] # None
        /\ row \in Candidate /\ row.project = m.project /\ row.base = v /\ row.by = m.by
        /\ row.source = None /\ row.status = "pending_review" /\ k \in CandidateKeys
    BY <1>2, <1>3, <1>4, <1>5, ChangeKeys
  <1>7. PICK e : e = [key |-> <<m.key, ":proposed">>, candidate |-> k, type |-> "proposed"]
    OBVIOUS
  <1>8. e \in CandidateEvent
    BY <1>6, <1>7, ChangeKeys DEF CandidateEvent
  <1>9. /\ candidate[k] = None /\ Answers(m, v) /\ End(c)
        /\ candidate' = IF Autocommit THEN [candidate EXCEPT ![k] = row] ELSE candidate
        /\ candidateEvents' = IF Autocommit THEN candidateEvents \cup {e} ELSE candidateEvents
        /\ UNCHANGED <<reviewVars, projectVars>>
    BY <1>3, <1>4, <1>5, <1>6, <1>7 DEF Propose, Keeps
  <1>10. Autocommit \in BOOLEAN
    BY ChangesAssumption
  <1>11. CASE ~Autocommit
    <2>1. UNCHANGED <<reviewVars, projectVars, candidateVars>>
      BY <1>9, <1>11 DEF candidateVars
    <2> QED BY <1>9, <1>11, <2>1, NothingButAnEnd, ChangeIsAnswered
  <1>12. CASE Autocommit
    <2>1. /\ candidate' = [candidate EXCEPT ![k] = row] /\ candidateEvents' = candidateEvents \cup {e}
          /\ UNCHANGED <<stored, dispositions, project, projectEvents>>
      BY <1>9, <1>12 DEF reviewVars, projectVars
    <2>2. candidate'[k] = row /\ \A l \in CandidateKeys : l # k => candidate'[l] = candidate[l]
      BY <1>6, <2>1 DEF ChangesInv, CandidateTables
    <2>3. Grows
      BY <1>9, <2>1, <2>2 DEF Grows
    <2>4. ReviewInv'
      BY <2>1 DEF ChangesInv, ReviewInv, Of
    <2>5. ProjectTables'
      BY <2>1 DEF ChangesInv, ProjectTables, LedgerOf, RowRevision
    <2>6. CandidateTables'
      <3>1. CandidateStands(k, row)'
        BY <1>6, <2>1 DEF CandidateStands
      <3>2. candidateEvents' \subseteq CandidateEvent
        BY <1>8, <2>1 DEF ChangesInv, CandidateTables
      <3> QED BY <1>6, <1>9, <2>1, <2>3, <3>1, <3>2, CandidateIsAdded DEF ChangesInv
    <2>7. ChangeCalls'
      <3>1. ASSUME NEW d \in Calls, Applying(call[d])
            PROVE  candidate'[call[d].command.candidate] = candidate[call[d].command.candidate]
        <4>1. PICK l : l = call[d].command.candidate
          OBVIOUS
        <4>2. l \in CandidateKeys /\ candidate[l] # None
          BY <3>1, <4>1, HeldIsThere DEF ChangesInv
        <4> QED BY <1>9, <2>2, <4>1, <4>2
      <3>2. /\ DOMAIN call' = Calls
            /\ \A d \in Calls : call'[d] = call[d] \/ call'[d] = Idle
        BY <1>9, EndsCall DEF ChangesInv, ChangeCalls
      <3> QED BY <2>3, <3>1, <3>2, ChangeCallsGoOn DEF ChangesInv
    <2>8. ChangeOnRecord(m, v)'
      <3>1. candidate'[Sent(m.key)] = row /\ row # None
        BY <1>5, <1>6, <2>2, CandidateFits
      <3> QED BY <1>6, <3>1 DEF ChangeOnRecord, Outcomes
    <2> QED BY <1>9, <2>3, <2>4, <2>5, <2>6, <2>7, <2>8, ChangeIsAnswered DEF ChangesInv
  <1> QED BY <1>10, <1>11, <1>12

LEMMA ReplayProposalKeeps ==
    ASSUME ChangesInv, ChangeAnswered, NEW c \in Calls, ReplayProposal(c)
    PROVE  Grows /\ ChangesInv' /\ ChangeAnswered'
  <1>1. Step(c, "proposing")
    BY DEF ReplayProposal
  <1>2. PICK m \in ChangeRequests : \E v \in 1..MaxRevision :
              /\ m = call[c].command /\ v = call[c].base /\ m.op = "propose"
              /\ m.project \in Projects /\ project[m.project] # None
              /\ Proposed(c) \in Candidate /\ Proposed(c).project = m.project
              /\ Proposed(c).base = v /\ Proposed(c).by = m.by
              /\ Proposed(c).source = None /\ Proposed(c).status = "pending_review"
    BY <1>1, ProposedFits
  <1>3. PICK v : v = call[c].base
    OBVIOUS
  <1>4. PICK row : row = candidate[Sent(m.key)]
    OBVIOUS
  <1>5. /\ row # None /\ Proposal(row) = Proposed(c) /\ Answers(m, v) /\ End(c)
        /\ UNCHANGED <<reviewVars, projectVars, candidateVars>>
    BY <1>2, <1>3, <1>4 DEF ReplayProposal
  <1>6. row.project = m.project /\ row.base = v /\ row.by = m.by
    BY <1>2, <1>3, <1>5 DEF Proposal, DecidedAs
  <1>7. ChangeOnRecord(m, v)
    BY <1>2, <1>4, <1>5, <1>6 DEF ChangeOnRecord, Outcomes
  <1>8. Grows /\ ChangesInv'
    BY <1>5, NothingButAnEnd
  <1>9. ChangeOnRecord(m, v)'
    BY <1>7, <1>8, ChangesStayOnRecord DEF ChangesInv
  <1> QED BY <1>5, <1>8, <1>9, ChangeIsAnswered

LEMMA SelectKeeps ==
    ASSUME ChangesInv, ChangeAnswered, NEW c \in Calls, SelectVariant(c)
    PROVE  Grows /\ ChangesInv' /\ ChangeAnswered'
  <1>1. PICK q : q = call[c]
    OBVIOUS
  <1>2. ChangeCallFits(q) /\ q.pc = "selecting"
    BY <1>1, ChangeCallOf DEF SelectVariant, Step, ChangesInv
  <1>3. PICK m : m = q.command
    OBVIOUS
  <1>4. m \in ChangeRequests /\ m.op = "select" /\ IsVariant(m.result)
    BY <1>2, <1>3 DEF ChangeCallFits
  <1>5. PICK r : r = m.result
    OBVIOUS
  <1>6. r \in Results /\ r # None /\ ItemOf[r] \in Variant
    BY <1>4, <1>5, ChangeAskedFits, ChangesAssumption DEF IsVariant
  <1>7. PICK p : p = ItemOf[r].project
    OBVIOUS
  <1>8. PICK v : v = ItemOf[r].base
    OBVIOUS
  <1>9. p \in Projects /\ v \in 1..MaxRevision /\ ItemOf[r].changes \in Changes
    BY <1>6, <1>7, <1>8 DEF Variant
  <1>10. PICK k : k = <<m.key, ":change-candidate">>
    OBVIOUS
  <1>11. PICK F : F = Differing(ItemOf[r].changes, project[p].attributes)
    OBVIOUS
  <1>12. PICK changes : changes = Restricted(ItemOf[r].changes, F)
    OBVIOUS
  <1>13. PICK row : row = [project |-> p, base |-> v, changes |-> changes, by |-> "human",
                           source |-> r, status |-> "pending_review", applied |-> None]
    OBVIOUS
  <1>14. PICK said : said = [key |-> <<m.key, ":selection">>, result |-> r,
                             disposition |-> "selected_for_change_candidate"]
    OBVIOUS
  <1>15. PICK e : e = [key |-> <<m.key, ":proposed">>, candidate |-> k, type |-> "proposed"]
    OBVIOUS
  <1>16. /\ Appends(said) /\ At(p, v) /\ F # {} /\ VariantInsertable(k, r)
         /\ candidate' = [candidate EXCEPT ![k] = row]
         /\ candidateEvents' = candidateEvents \cup {e}
         /\ Answers(m, v) /\ End(c) /\ UNCHANGED <<stored, projectVars>>
    BY <1>1, <1>3, <1>5, <1>7, <1>8, <1>10, <1>11, <1>12, <1>13, <1>14, <1>15
       DEF SelectVariant, NewCandidate
  <1>17. k \in CandidateKeys /\ k[1] = m.key /\ e \in CandidateEvent
    BY <1>4, <1>10, <1>15, ChangeKeys DEF CandidateEvent
  <1>18. said \in Disposition /\ said.key = <<m.key, ":selection">> /\ said.result = r
    BY <1>4, <1>6, <1>14, ChangeKeys DEF Disposition, Dispositions
  <1>19. changes \in Changes
    BY <1>9, <1>11, <1>12, <1>16, RestrictedAreChanges, DifferingAreProposed
  <1>20. /\ row \in Candidate /\ row.project = p /\ row.source = r
         /\ row.status = "pending_review"
    BY <1>6, <1>9, <1>13, <1>19 DEF Candidate, Proposers, Statuses
  <1>21. ReviewInv' /\ FollowedBy(dispositions, dispositions', said)
    BY <1>16, <1>18, DispositionIsAppended DEF ChangesInv
  <1>22. candidate[k] = None /\ Siblings(r) = {} /\ project[p] # None
    BY <1>16 DEF VariantInsertable, At
  <1>23. /\ UNCHANGED <<stored, project, projectEvents>>
         /\ candidate'[k] = row /\ \A l \in CandidateKeys : l # k => candidate'[l] = candidate[l]
    BY <1>16, <1>17 DEF projectVars, ChangesInv, CandidateTables
  <1>24. Grows
    BY <1>16, <1>21, <1>22, <1>23 DEF Grows, FollowedBy
  <1>25. ProjectTables'
    BY <1>23 DEF ChangesInv, ProjectTables, LedgerOf, RowRevision
  <1>26. CandidateTables'
    <2>1. PICK j \in DOMAIN dispositions' : dispositions'[j] = said
      BY <1>16, <1>18, AppendedIsThere DEF ChangesInv
    <2>2. \E i \in Of(r)' : dispositions'[i].key = <<k[1], ":selection">>
      BY <1>17, <1>18, <2>1 DEF Of
    <2>3. CandidateStands(k, row)'
      BY <1>4, <1>5, <1>20, <1>22, <1>23, <2>2 DEF CandidateStands
    <2>4. candidateEvents' \subseteq CandidateEvent
      BY <1>16, <1>17 DEF ChangesInv, CandidateTables
    <2> QED BY <1>16, <1>17, <1>20, <1>22, <1>24, <2>3, <2>4, CandidateIsAdded DEF ChangesInv
  <1>27. ChangeCalls'
    <2>1. ASSUME NEW d \in Calls, Applying(call[d])
          PROVE  candidate'[call[d].command.candidate] = candidate[call[d].command.candidate]
      <3>1. PICK l : l = call[d].command.candidate
        OBVIOUS
      <3>2. l \in CandidateKeys /\ candidate[l] # None
        BY <2>1, <3>1, HeldIsThere DEF ChangesInv
      <3> QED BY <1>22, <1>23, <3>1, <3>2
    <2>2. /\ DOMAIN call' = Calls
          /\ \A d \in Calls : call'[d] = call[d] \/ call'[d] = Idle
      BY <1>16, EndsCall DEF ChangesInv, ChangeCalls
    <2> QED BY <1>24, <2>1, <2>2, ChangeCallsGoOn DEF ChangesInv
  <1>28. ChangeOnRecord(m, v)'
    <2>1. k \in FromSource(r)'
      BY <1>17, <1>20, <1>23, CandidateFits DEF FromSource
    <2> QED BY <1>4, <1>5, <2>1 DEF ChangeOnRecord, Outcomes
  <1> QED BY <1>4, <1>16, <1>21, <1>24, <1>25, <1>26, <1>27, <1>28, ChangeIsAnswered DEF ChangesInv

\* A decision, made while no other call holds the candidate.
DecisionFits(m, row, status, new) ==
    /\ m \in ChangeRequests /\ m.op \in Outcomes
    /\ status \in Statuses
    /\ status = StatusOf(m.op) \/ (m.op = "apply" /\ status = "stale")
    /\ row = candidate[m.candidate] /\ row # None /\ row.status = "pending_review"
    /\ new.status = status /\ new.project = row.project /\ new.source = row.source
    /\ Proposal(new) = Proposal(row)
    /\ Autocommit => new \in Candidate

\* The tables and the calls, when it is written.
DecisionIsWritten(m, row, status, new, e) ==
    /\ candidate' = IF Autocommit THEN [candidate EXCEPT ![m.candidate] = new] ELSE candidate
    /\ candidateEvents' = IF Autocommit THEN candidateEvents \cup {e} ELSE candidateEvents
    /\ Answers(m, row.base) /\ UNCHANGED reviewVars
    /\ projectEvents \subseteq projectEvents'
    /\ \A p \in Projects : project[p] # None => project'[p] # None
    /\ Autocommit /\ status = "applied" => AppliedOn(new, projectEvents)'
    /\ DOMAIN call' = Calls
    /\ \A d \in Calls : call'[d] = call[d] \/ call'[d] = Idle
    /\ \A d \in Calls : Applying(call[d]) /\ call'[d] = call[d] =>
          call[d].command.candidate # m.candidate

LEMMA DecisionKeeps ==
    ASSUME ChangesInv, NEW m, NEW row, NEW status, NEW new, DecisionFits(m, row, status, new),
           NEW e \in CandidateEvent, e.key = Sent(m.key), e.candidate = m.candidate, e.type = status,
           DecisionIsWritten(m, row, status, new, e), ProjectTables'
    PROVE  Grows /\ ChangesInv' /\ ChangeAnswered'
  <1> USE DEF DecisionIsWritten
  <1>1. PICK k : k = m.candidate
    OBVIOUS
  <1>2. /\ m \in ChangeRequests /\ m.op \in Outcomes /\ status \in Statuses
        /\ status = StatusOf(m.op) \/ (m.op = "apply" /\ status = "stale")
        /\ row = candidate[k] /\ row # None /\ row.status = "pending_review"
        /\ new.status = status /\ new.project = row.project /\ new.source = row.source
        /\ Proposal(new) = Proposal(row)
        /\ Autocommit => new \in Candidate
    BY <1>1 DEF DecisionFits
  <1>3. k \in CandidateKeys
    BY <1>1, <1>2, ChangeAskedFits
  <1>4. UNCHANGED <<stored, dispositions>>
    BY DEF reviewVars
  <1>5. Autocommit =>
           /\ candidate'[k] = new /\ new # None
           /\ \A l \in CandidateKeys : l # k => candidate'[l] = candidate[l]
    BY <1>1, <1>2, <1>3, CandidateFits DEF ChangesInv, CandidateTables
  <1>6. Grows
    <2>1. candidateEvents \subseteq candidateEvents'
      OBVIOUS
    <2>2. \A l \in CandidateKeys : candidate[l] # None =>
             \/ candidate'[l] = candidate[l]
             \/ /\ candidate'[l] # None /\ candidate[l].status = "pending_review"
                /\ Proposal(candidate'[l]) = Proposal(candidate[l])
      <3> SUFFICES ASSUME NEW l \in CandidateKeys, candidate[l] # None
                   PROVE  \/ candidate'[l] = candidate[l]
                          \/ /\ candidate'[l] # None /\ candidate[l].status = "pending_review"
                             /\ Proposal(candidate'[l]) = Proposal(candidate[l])
        OBVIOUS
      <3>1. CASE ~Autocommit
        BY <3>1
      <3>2. CASE Autocommit /\ l # k
        BY <1>5, <3>2
      <3>3. CASE Autocommit /\ l = k
        BY <1>2, <1>5, <3>3 DEF Proposal
      <3> QED BY <3>1, <3>2, <3>3, ChangesAssumption
    <2> QED BY <1>4, <2>1, <2>2 DEF Grows
  <1>7. ReviewInv'
    BY <1>4 DEF ChangesInv, ReviewInv, Of
  <1>8. candidateEvents' \subseteq CandidateEvent
    BY DEF ChangesInv, CandidateTables
  <1>9. CandidateTables'
    <2>1. CASE ~Autocommit
      BY <1>6, <1>8, <2>1, CandidatesKept DEF ChangesInv
    <2>2. CASE Autocommit
      <3>1. /\ candidate' = [candidate EXCEPT ![k] = new]
            /\ new.status = "applied" => AppliedOn(new, projectEvents)'
        BY <1>1, <1>2, <2>2
      <3>2. /\ candidate[k] # None /\ new \in Candidate
            /\ new.source = candidate[k].source /\ new.project = candidate[k].project
        BY <1>2, <2>2
      <3> QED BY <1>3, <1>6, <1>8, <3>1, <3>2, CandidateIsDecided DEF ChangesInv
    <2> QED BY <2>1, <2>2, ChangesAssumption
  <1>10. ChangeCalls'
    <2>1. ASSUME NEW d \in Calls, Applying(call[d]), call'[d] = call[d]
          PROVE  candidate'[call[d].command.candidate] = candidate[call[d].command.candidate]
      <3>1. PICK l : l = call[d].command.candidate
        OBVIOUS
      <3>2. l \in CandidateKeys /\ l # k
        BY <1>1, <2>1, <3>1, HeldIsThere DEF ChangesInv
      <3> QED BY <1>5, <3>1, <3>2
    <2> QED BY <1>6, <2>1, ChangeCallsGoOn DEF ChangesInv
  <1>11. Autocommit => ChangeOnRecord(m, row.base)'
    <2> SUFFICES ASSUME Autocommit PROVE ChangeOnRecord(m, row.base)'
      OBVIOUS
    <2>1. e \in Seen(m)'
      BY DEF Seen
    <2> QED BY <1>2, <2>1 DEF ChangeOnRecord, Outcomes
  <1> QED BY <1>2, <1>6, <1>7, <1>9, <1>10, <1>11, ChangeIsAnswered DEF ChangesInv

LEMMA StatusOfFits ==
    /\ StatusOf("apply") = "applied" /\ StatusOf("reject") = "rejected"
    /\ StatusOf("revise") = "revision_requested"
  BY DEF StatusOf

LEMMA DismissKeeps ==
    ASSUME ChangesInv, NEW m \in ChangeRequests, Dismiss(m)
    PROVE  Grows /\ ChangesInv' /\ ChangeAnswered'
  <1>1. PICK k : k = m.candidate
    OBVIOUS
  <1>2. m.op \in {"reject", "revise"} /\ m.op \in Outcomes /\ k \in CandidateKeys
    BY <1>1, ChangeAskedFits DEF Dismiss, Outcomes
  <1>3. PICK row : row = candidate[k]
    OBVIOUS
  <1>4. ~CandidateHeld(k) /\ row # None /\ row.status = "pending_review"
    BY <1>1, <1>3 DEF Dismiss, Decidable
  <1>5. row \in Candidate
    BY <1>2, <1>3, <1>4 DEF ChangesInv, CandidateTables
  <1>6. PICK status : status = StatusOf(m.op)
    OBVIOUS
  <1>7. status \in {"rejected", "revision_requested"} /\ status \in Statuses
    BY <1>2, <1>6, StatusOfFits DEF Statuses
  <1>8. PICK new : new = DecidedAs(row, status, None)
    OBVIOUS
  <1>9. /\ new \in Candidate /\ new.status = status /\ new.project = row.project
        /\ new.source = row.source /\ Proposal(new) = Proposal(row)
    <2>1. PICK applied \in (1..MaxRevision) \cup {None} : applied = None
      OBVIOUS
    <2> QED BY <1>5, <1>7, <1>8, <2>1, DecidedAsFits
  <1>10. PICK e : e = [key |-> Sent(m.key), candidate |-> k, type |-> status]
    OBVIOUS
  <1>11. e \in CandidateEvent /\ e.key = Sent(m.key) /\ e.candidate = k /\ e.type = status
    BY <1>2, <1>7, <1>10, ChangeKeys DEF CandidateEvent
  <1>12. DecisionFits(m, row, status, new)
    BY <1>1, <1>2, <1>3, <1>4, <1>6, <1>7, <1>9 DEF DecisionFits
  <1>13. /\ candidate' = IF Autocommit THEN [candidate EXCEPT ![k] = new] ELSE candidate
         /\ candidateEvents' = IF Autocommit THEN candidateEvents \cup {e} ELSE candidateEvents
         /\ Answers(m, row.base) /\ UNCHANGED <<reviewVars, projectVars, call>>
    BY <1>1, <1>3, <1>6, <1>8, <1>10 DEF Dismiss, Decides, Keeps
  <1>14. UNCHANGED <<project, projectEvents, call>>
    BY <1>13 DEF projectVars
  <1>15. ProjectTables'
    BY <1>14 DEF ChangesInv, ProjectTables, LedgerOf, RowRevision
  <1>16. \A d \in Calls : Applying(call[d]) => call[d].command.candidate # k
    BY <1>4 DEF CandidateHeld, Applying, Step
  <1>17. DOMAIN call' = Calls /\ \A d \in Calls : call'[d] = call[d]
    BY <1>14 DEF ChangesInv, ChangeCalls
  <1>18. status # "applied"
    BY <1>7
  <1>19. DecisionIsWritten(m, row, status, new, e)
    BY <1>1, <1>13, <1>14, <1>16, <1>17, <1>18 DEF DecisionIsWritten
  <1> QED BY <1>1, <1>11, <1>12, <1>15, <1>19, DecisionKeeps

\* What a call that applies holds.
LEMMA AppliedFits ==
    ASSUME ChangesInv, NEW c \in Calls, Step(c, "applying")
    PROVE  \E m \in ChangeRequests : \E row \in Candidate :
              /\ m = call[c].command /\ m.op = "apply" /\ m.candidate \in CandidateKeys
              /\ row = candidate[m.candidate] /\ row.status = "pending_review"
              /\ call[c].read \in Row
              /\ \E d \in projectEvents : d.project = row.project /\ d.snapshot = call[c].read
              /\ \A d \in Calls : Applying(call[d]) /\ d # c => call[d].command.candidate # m.candidate
  <1>1. Applying(call[c])
    BY DEF Step, Applying
  <1>2. PICK q : q = call[c]
    OBVIOUS
  <1>3. PICK m : m = q.command
    OBVIOUS
  <1>4. PICK row : row = candidate[m.candidate]
    OBVIOUS
  <1>5. /\ ChangeCallFits(q) /\ ChangeCallStands(q) /\ m \in ChangeRequests /\ m.op = "apply"
        /\ m.candidate \in CandidateKeys /\ row # None
    BY <1>1, <1>2, <1>3, <1>4, HeldIsThere DEF ChangesInv
  <1>6. q.pc = "applying"
    BY <1>1, <1>2 DEF Applying
  <1>7. /\ q.read \in Row /\ row.status = "pending_review"
        /\ \E d \in projectEvents : d.project = row.project /\ d.snapshot = q.read
    BY <1>3, <1>4, <1>5, <1>6 DEF ChangeCallFits, ChangeCallStands
  <1>8. row \in Candidate
    BY <1>4, <1>5 DEF ChangesInv, CandidateTables
  <1>9. \A d \in Calls : Applying(call[d]) /\ d # c => call[d].command.candidate # m.candidate
    BY <1>1, <1>2, <1>3 DEF ChangesInv, ChangeCalls
  <1> QED BY <1>2, <1>3, <1>4, <1>5, <1>7, <1>8, <1>9

LEMMA MarkStaleKeeps ==
    ASSUME ChangesInv, NEW c \in Calls, MarkStale(c)
    PROVE  Grows /\ ChangesInv' /\ ChangeAnswered'
  <1>1. Step(c, "applying")
    BY DEF MarkStale
  <1>2. PICK m \in ChangeRequests : \E row \in Candidate :
              /\ m = call[c].command /\ m.op = "apply" /\ m.candidate \in CandidateKeys
              /\ row = candidate[m.candidate] /\ row.status = "pending_review"
              /\ call[c].read \in Row
              /\ \E d \in projectEvents : d.project = row.project /\ d.snapshot = call[c].read
              /\ \A d \in Calls : Applying(call[d]) /\ d # c => call[d].command.candidate # m.candidate
    BY <1>1, AppliedFits
  <1>3. PICK k : k = m.candidate
    OBVIOUS
  <1>4. PICK row \in Candidate : row = candidate[k] /\ row.status = "pending_review"
    BY <1>2, <1>3
  <1>5. row # None
    BY <1>4, CandidateFits
  <1>6. PICK new : new = DecidedAs(row, "stale", None)
    OBVIOUS
  <1>7. /\ new \in Candidate /\ new.status = "stale" /\ new.project = row.project
        /\ new.source = row.source /\ Proposal(new) = Proposal(row)
    <2>1. PICK applied \in (1..MaxRevision) \cup {None} : applied = None
      OBVIOUS
    <2>2. PICK status \in Statuses : status = "stale"
      BY DEF Statuses
    <2> QED BY <1>4, <1>6, <2>1, <2>2, DecidedAsFits
  <1>8. PICK e : e = [key |-> Sent(m.key), candidate |-> k, type |-> "stale"]
    OBVIOUS
  <1>9. e \in CandidateEvent /\ e.key = Sent(m.key) /\ e.candidate = k /\ e.type = "stale"
    BY <1>2, <1>3, <1>8, ChangeKeys DEF CandidateEvent, Statuses
  <1>10. DecisionFits(m, row, "stale", new)
    BY <1>2, <1>3, <1>4, <1>5, <1>7 DEF DecisionFits, Outcomes, Statuses
  <1>11. /\ candidate' = IF Autocommit THEN [candidate EXCEPT ![k] = new] ELSE candidate
         /\ candidateEvents' = IF Autocommit THEN candidateEvents \cup {e} ELSE candidateEvents
         /\ Answers(m, row.base) /\ End(c) /\ UNCHANGED <<reviewVars, projectVars>>
    BY <1>2, <1>3, <1>4, <1>6, <1>8 DEF MarkStale, Decides, Keeps
  <1>12. UNCHANGED <<project, projectEvents>>
    BY <1>11 DEF projectVars
  <1>13. ProjectTables'
    BY <1>12 DEF ChangesInv, ProjectTables, LedgerOf, RowRevision
  <1>14. /\ DOMAIN call' = Calls /\ call'[c] = Idle /\ call[c] # Idle
         /\ \A d \in Calls : d # c => call'[d] = call[d]
    BY <1>1, <1>11, EndsCall DEF ChangesInv, ChangeCalls, Step
  <1>15. \A d \in Calls : Applying(call[d]) /\ call'[d] = call[d] => call[d].command.candidate # k
    BY <1>2, <1>3, <1>14
  <1>16. DecisionIsWritten(m, row, "stale", new, e)
    BY <1>3, <1>11, <1>12, <1>14, <1>15 DEF DecisionIsWritten
  <1> QED BY <1>3, <1>9, <1>10, <1>13, <1>16, DecisionKeeps

LEMMA ApplyKeeps ==
    ASSUME ChangesInv, NEW c \in Calls, Apply(c)
    PROVE  Grows /\ ChangesInv' /\ ChangeAnswered'
  <1>1. Step(c, "applying")
    BY DEF Apply
  <1>2. PICK m \in ChangeRequests : \E row \in Candidate :
              /\ m = call[c].command /\ m.op = "apply" /\ m.candidate \in CandidateKeys
              /\ row = candidate[m.candidate] /\ row.status = "pending_review"
              /\ call[c].read \in Row
              /\ \E d \in projectEvents : d.project = row.project /\ d.snapshot = call[c].read
              /\ \A d \in Calls : Applying(call[d]) /\ d # c => call[d].command.candidate # m.candidate
    BY <1>1, AppliedFits
  <1>3. PICK k : k = m.candidate
    OBVIOUS
  <1>4. PICK read : read = call[c].read
    OBVIOUS
  <1>5. PICK row \in Candidate :
           /\ row = candidate[k] /\ row.status = "pending_review"
           /\ \E d \in projectEvents : d.project = row.project /\ d.snapshot = read
    BY <1>2, <1>3, <1>4
  <1>6. PICK p : p = row.project
    OBVIOUS
  <1>7. /\ row # None /\ p \in Projects /\ row.base \in 1..MaxRevision /\ row.changes \in Changes
        /\ read \in Row /\ read.attributes \in Attributes
    BY <1>2, <1>4, <1>5, <1>6, CandidateFits, ChangeRowFits
  <1>8. read.revision = row.base /\ project[p] # None /\ project[p].revision = row.base
    BY <1>2, <1>3, <1>4, <1>5, <1>6 DEF Apply, Current, At
  <1>9. PICK attributes : attributes = Merged(row.changes, read.attributes)
    OBVIOUS
  <1>10. attributes \in Attributes
    BY <1>7, <1>9, MergedAreAttributes
  <1>11. PICK applied : applied = row.base + 1
    OBVIOUS
  <1>12. PICK new : new = DecidedAs(row, "applied", applied)
    OBVIOUS
  <1>13. PICK e : e = [key |-> Sent(m.key), candidate |-> k, type |-> "applied"]
    OBVIOUS
  <1>14. e \in CandidateEvent /\ e.key = Sent(m.key) /\ e.candidate = k /\ e.type = "applied"
    BY <1>2, <1>3, <1>13, ChangeKeys DEF CandidateEvent, Statuses
  <1>15. /\ candidate' = IF Autocommit THEN [candidate EXCEPT ![k] = new] ELSE candidate
         /\ candidateEvents' = IF Autocommit THEN candidateEvents \cup {e} ELSE candidateEvents
         /\ Answers(m, row.base) /\ End(c) /\ UNCHANGED reviewVars
    BY <1>2, <1>3, <1>5, <1>11, <1>12, <1>13 DEF Apply, Decides, Keeps
  <1>16. IF Autocommit THEN Writes(<<m.key, ":project-apply">>, p, row.base, attributes)
         ELSE UNCHANGED projectVars
    BY <1>2, <1>3, <1>4, <1>5, <1>6, <1>8, <1>9 DEF Apply
  <1>17. /\ new.status = "applied" /\ new.project = p /\ new.source = row.source
         /\ new.base = row.base /\ new.changes = row.changes /\ new.applied = applied
         /\ Proposal(new) = Proposal(row)
    BY <1>6, <1>12 DEF DecidedAs, Proposal
  <1>18. /\ ProjectTables' /\ projectEvents \subseteq projectEvents'
         /\ \A q \in Projects : project[q] # None => project'[q] # None
         /\ Autocommit => new \in Candidate /\ AppliedOn(new, projectEvents)'
    <2>1. CASE ~Autocommit
      <3>1. UNCHANGED <<project, projectEvents>>
        BY <1>16, <2>1 DEF projectVars
      <3>2. ProjectTables'
        BY <3>1 DEF ChangesInv, ProjectTables, LedgerOf, RowRevision
      <3> QED BY <2>1, <3>1, <3>2
    <2>2. CASE Autocommit
      <3>1. PICK key \in Key : key = <<m.key, ":project-apply">>
        BY ChangeKeys
      <3>2. Writes(key, p, row.base, attributes) /\ RowRevision(project[p]) = row.base
        BY <1>8, <1>16, <2>2, <3>1 DEF RowRevision
      <3>3. /\ ProjectTables' /\ projectEvents \subseteq projectEvents'
            /\ \A q \in Projects : project[q] # None => project'[q] # None
            /\ \E f \in projectEvents' :
                  /\ f.key = key /\ f.project = p /\ f.expected = row.base
                  /\ f.snapshot.attributes = attributes
        BY <1>7, <1>10, <3>2, WritesKeep DEF ChangesInv
      <3>4. PICK f \in projectEvents' :
               /\ f.key = key /\ f.project = p /\ f.expected = row.base
               /\ f.snapshot.attributes = attributes
        BY <3>3
      <3>5. PICK d \in projectEvents : d.project = p /\ d.snapshot = read
        BY <1>5, <1>6
      <3>6. d \in projectEvents' /\ d.snapshot.revision = row.base /\ f.key[2] = ":project-apply"
        BY <1>8, <3>1, <3>3, <3>4, <3>5
      <3>7. f.snapshot.attributes = Merged(new.changes, d.snapshot.attributes)
        BY <1>9, <1>17, <3>4, <3>5
      <3>8. AppliedOn(new, projectEvents)'
        BY <1>11, <1>17, <3>4, <3>5, <3>6, <3>7 DEF AppliedOn
      <3>9. applied \in 1..MaxRevision
        <4>1. row.base < MaxRevision /\ MaxRevision \in Nat
          BY <3>2, ChangesAssumption DEF Writes
        <4> QED BY <1>7, <1>11, <4>1
      <3>10. new \in Candidate
        BY <1>12, <3>9, DecidedAsFits DEF Statuses
      <3> QED BY <3>3, <3>8, <3>10
    <2> QED BY <2>1, <2>2, ChangesAssumption
  <1>19. DecisionFits(m, row, "applied", new)
    BY <1>2, <1>3, <1>5, <1>6, <1>7, <1>17, <1>18, StatusOfFits DEF DecisionFits, Outcomes, Statuses
  <1>20. /\ DOMAIN call' = Calls /\ call'[c] = Idle /\ call[c] # Idle
         /\ \A d \in Calls : d # c => call'[d] = call[d]
    BY <1>1, <1>15, EndsCall DEF ChangesInv, ChangeCalls, Step
  <1>21. \A d \in Calls : Applying(call[d]) /\ call'[d] = call[d] => call[d].command.candidate # k
    BY <1>2, <1>3, <1>20
  <1>22. DecisionIsWritten(m, row, "applied", new, e)
    BY <1>3, <1>15, <1>18, <1>20, <1>21 DEF DecisionIsWritten
  <1> QED BY <1>3, <1>14, <1>18, <1>19, <1>22, DecisionKeeps

LEMMA ChangeStepKeeps ==
    ASSUME ChangesInv, ChangeAnswered,
           [ChangesNext]_<<reviewVars, projectVars, candidateVars, requestVars>>
    PROVE  Grows /\ ChangesInv' /\ ChangeAnswered'
  <1>1. CASE UNCHANGED <<reviewVars, projectVars, candidateVars, requestVars>>
    <2>1. UNCHANGED <<reviewVars, projectVars, candidateVars>> /\ UNCHANGED <<candidate, call, answer>>
      BY <1>1 DEF requestVars, candidateVars
    <2>2. Grows /\ ReviewInv' /\ ProjectTables' /\ CandidateTables'
      BY <2>1, NothingIsChanged
    <2> QED BY <2>1, <2>2, ChangeCallsWait, ChangeIsQuiet DEF ChangesInv
  <1>2. ASSUME NEW m \in ChangeRequests, Deposit(m) \/ CreateProject(m) \/ ReplaySelection(m)
        PROVE  Grows /\ ChangesInv' /\ ChangeAnswered'
    BY <1>2, DepositKeeps, CreateKeeps, ReplaySelectionKeeps
  <1>3. ASSUME NEW m \in ChangeRequests, ReplayDecision(m) \/ Dismiss(m)
        PROVE  Grows /\ ChangesInv' /\ ChangeAnswered'
    BY <1>3, ReplayDecisionKeeps, DismissKeeps
  <1>4. ASSUME NEW m \in ChangeRequests, NEW v \in 0..MaxRevision,
               UpdateProject(m, v) \/ ReplayProject(m, v)
        PROVE  Grows /\ ChangesInv' /\ ChangeAnswered'
    BY <1>4, UpdateKeeps, ReplayProjectKeeps
  <1>5. ASSUME NEW c \in Calls, NEW m \in ChangeRequests, CheckVariant(c, m) \/ LockCandidate(c, m)
        PROVE  Grows /\ ChangesInv' /\ ChangeAnswered'
    BY <1>5, CheckVariantKeeps, LockCandidateKeeps
  <1>6. ASSUME NEW c \in Calls, NEW m \in ChangeRequests, NEW v \in 1..MaxRevision, Read(c, m, v)
        PROVE  Grows /\ ChangesInv' /\ ChangeAnswered'
    BY <1>6, ProjectReadKeeps
  <1>7. ASSUME NEW c \in Calls, Propose(c) \/ ReplayProposal(c) \/ SelectVariant(c)
        PROVE  Grows /\ ChangesInv' /\ ChangeAnswered'
    BY <1>7, ProposeKeeps, ReplayProposalKeeps, SelectKeeps
  <1>8. ASSUME NEW c \in Calls, Apply(c) \/ MarkStale(c) \/ Refuse(c)
        PROVE  Grows /\ ChangesInv' /\ ChangeAnswered'
    BY <1>8, ApplyKeeps, MarkStaleKeeps, RefuseKeeps
  <1> QED BY <1>1, <1>2, <1>3, <1>4, <1>5, <1>6, <1>7, <1>8 DEF ChangesNext

LEMMA ChangesInvariant == ChangesSpec => [](ChangesInv /\ ChangeAnswered)
  <1>1. ChangesInit /\ RequestsInit => ChangesInv /\ ChangeAnswered
    <2> SUFFICES ASSUME ChangesInit, RequestsInit PROVE ChangesInv /\ ChangeAnswered
      OBVIOUS
    <2>1. ReviewInv
      <3>1. dispositions \in Seq(Disposition) /\ DOMAIN dispositions = {}
        BY DEF ChangesInit, ReviewInit
      <3>2. \A r : HasLast(Of(r))
        BY <3>1 DEF Of, HasLast
      <3>3. stored \in [Executions -> Execution \cup {None}]
        BY DEF ChangesInit, ReviewInit
      <3> QED BY <3>1, <3>2, <3>3 DEF ReviewInv
    <2>2. ProjectTables
      <3>1. projectEvents = {} /\ project = [p \in Projects |-> None]
        BY DEF ChangesInit
      <3>2. IsFiniteSet(projectEvents)
        BY <3>1, FS_EmptySet
      <3>3. ASSUME NEW p \in Projects PROVE LedgerOf(projectEvents, p, project[p])
        <4>1. {e \in projectEvents : e.project = p} = {} /\ RowRevision(project[p]) = 0
          BY <3>1 DEF RowRevision
        <4>2. {e.expected : e \in {e \in projectEvents : e.project = p}} = 0..(0 - 1)
          BY <4>1
        <4>3. Cardinality({e \in projectEvents : e.project = p}) = 0
          BY <4>1, FS_EmptySet
        <4> QED BY <4>1, <4>2, <4>3 DEF LedgerOf
      <3> QED BY <3>1, <3>2, <3>3 DEF ProjectTables
    <2>3. CandidateTables
      BY DEF ChangesInit, CandidateTables
    <2>4. DOMAIN call = Calls /\ (\A c \in Calls : call[c] = Idle) /\ answer = None
      BY DEF RequestsInit
    <2> QED BY <2>1, <2>2, <2>3, <2>4 DEF ChangesInv, ChangeCalls, ChangeAnswered, Applying
  <1>2. ChangesInv /\ ChangeAnswered
        /\ [ChangesNext]_<<reviewVars, projectVars, candidateVars, requestVars>>
        => ChangesInv' /\ ChangeAnswered'
    BY ChangeStepKeeps
  <1> QED BY <1>1, <1>2, PTL DEF ChangesSpec

\* Every number has the same meaning in the ledger and in the row.
LEMMA LedgersExplain == ChangesInv => LedgerExplainsProject
  <1> SUFFICES ASSUME ChangesInv PROVE LedgerExplainsProject
    OBVIOUS
  <1>1. ASSUME NEW p \in Projects
        PROVE  LET rows == {e \in projectEvents : e.project = p}
                   revision == IF project[p] = None THEN 0 ELSE project[p].revision
               IN  /\ {e.expected : e \in rows} = 0..(revision - 1)
                   /\ Cardinality(rows) = revision
                   /\ \A e \in rows : e.expected = revision - 1 => e.snapshot = project[p]
    <2>1. LedgerOf(projectEvents, p, project[p])
      BY DEF ChangesInv, ProjectTables
    <2> QED BY <2>1 DEF LedgerOf, RowRevision
  <1>2. ASSUME NEW k \in CandidateKeys, candidate[k] # None, candidate[k].status = "applied"
        PROVE  \E e, d \in projectEvents :
                  /\ e.project = candidate[k].project /\ e.expected = candidate[k].base
                  /\ e.key[2] = ":project-apply" /\ candidate[k].applied = candidate[k].base + 1
                  /\ d.project = candidate[k].project /\ d.snapshot.revision = candidate[k].base
                  /\ e.snapshot.attributes = Merged(candidate[k].changes, d.snapshot.attributes)
    BY <1>2 DEF ChangesInv, CandidateTables, CandidateStands, AppliedOn
  <1> QED BY <1>1, <1>2 DEF LedgerExplainsProject

LEMMA VariantsAreOne == ChangesInv => OneVariantPerScope
  <1> SUFFICES ASSUME ChangesInv, NEW r \in Results
               PROVE  /\ Cardinality(Siblings(r)) <= 1
                      /\ \A k \in FromSource(r) : \E j \in Of(r) :
                            dispositions[j].key = <<k[1], ":selection">>
    BY DEF OneVariantPerScope
  <1>1. \A k, l \in Siblings(r) : k = l
    <2> SUFFICES ASSUME NEW k \in Siblings(r), NEW l \in Siblings(r) PROVE k = l
      OBVIOUS
    <2>1. /\ k \in CandidateKeys /\ candidate[k] # None /\ candidate[k].source # None
          /\ SameScope(candidate[k].source, r)
          /\ l \in CandidateKeys /\ candidate[l] # None /\ candidate[l].source # None
          /\ SameScope(candidate[l].source, r)
      BY SiblingsShareScope DEF ChangesInv
    <2>2. SameScope(candidate[k].source, candidate[l].source)
      BY <2>1 DEF SameScope
    <2> QED BY <2>1, <2>2 DEF ChangesInv, CandidateTables
  <1>2. ASSUME NEW k \in FromSource(r)
        PROVE  \E j \in Of(r) : dispositions[j].key = <<k[1], ":selection">>
    <2>1. k \in CandidateKeys /\ candidate[k] # None /\ candidate[k].source = r /\ r # None
      BY <1>2, ChangesAssumption DEF FromSource
    <2> QED BY <2>1 DEF ChangesInv, CandidateTables, CandidateStands
  <1> QED BY <1>1, <1>2, AtMostOne

\* ChangesAreSound holds of every behaviour, of as many humans and runtimes as there
\* may be: the ledger explains each Project, one variant of a scope becomes a
\* candidate, a decision is final, and in autocommit mode a success is on record.
THEOREM ChangesStaySound == ChangesSpec => ChangesAreSound
  <1>1. ChangesInv => ChangesTypeOK
    <2> SUFFICES ASSUME ChangesInv PROVE ChangesTypeOK
      OBVIOUS
    <2>1. ReviewTypeOK
      BY DEF ChangesInv, ReviewInv, ReviewTypeOK
    <2>2. \A c \in Calls : (\E pc \in ChangeSteps : Step(c, pc)) => call[c] \in Handling
      BY ChangeCallOf DEF Step, ChangesInv, ChangeCallFits
    <2> QED BY <2>1, <2>2 DEF ChangesTypeOK, ChangesInv, ProjectTables, CandidateTables
  <1>2. ChangesInv => LedgerExplainsProject /\ OneVariantPerScope
    BY LedgersExplain, VariantsAreOne
  <1>3. ChangeAnswered => (Autocommit => AnswerIsOnRecord)
    BY DEF ChangeAnswered, AnswerIsOnRecord
  <1>4. ChangesInv /\ ChangeAnswered
        /\ [ChangesNext]_<<reviewVars, projectVars, candidateVars, requestVars>> =>
           [\A k \in CandidateKeys : candidate[k] # None =>
               /\ candidate'[k] # None
               /\ candidate[k].status # "pending_review" => candidate'[k] = candidate[k]]_candidate
    <2> SUFFICES ASSUME ChangesInv, ChangeAnswered,
                        [ChangesNext]_<<reviewVars, projectVars, candidateVars, requestVars>>,
                        NEW k \in CandidateKeys, candidate[k] # None
                 PROVE  /\ candidate'[k] # None
                        /\ candidate[k].status # "pending_review" => candidate'[k] = candidate[k]
      OBVIOUS
    <2>1. Grows
      BY ChangeStepKeeps
    <2> QED BY <2>1 DEF Grows
  <1>5. ChangesSpec => [](ChangesInv /\ ChangeAnswered)
    BY ChangesInvariant
  <1> QED BY <1>1, <1>2, <1>3, <1>4, <1>5, PTL DEF ChangesSpec, ChangesAreSound, DecisionsAreFinal

-----------------------------------------------------------------------------
(* The anatomy.  The acts of a chain stay on record: what was selected when *)
(* a command was prepared, and what authorized it when its authorization   *)
(* was read, are there when it is applied, whatever was said since.        *)

\* A review offered the object and selected it: id is its mapping and its key.
Selection(id, target) ==
    /\ target \in Offers[id[1]]
    /\ \E j \in ReviewsOf(id[1]) :
          mappingReviews[j].key = id[2] /\ mappingReviews[j].target = target

AuthorizedBy(id, key) ==
    \E a \in AuthorizationsOf(id) : a.key = key /\ a.action = "authorize_application"

ApplicationStands(e) ==
    /\ written[e.command] # None /\ written[e.command].expected = e.expected
    /\ AuthorizedBy(e.command, e.authorization)
    /\ Source[e.command[1]] \in represented

\* What a call holds, by itself.
AnatomyCallFits(q) ==
    /\ q.pc \in AnatomySteps /\ q.command \in AnatomyRequests
    /\ q.pc = "converting" => q.command.op = "convert"
    /\ q.pc = "reviewed" => q.command.op = "prepare" /\ q.review \in Keys
    /\ q.pc = "preparing" => /\ q.command.op = "prepare"
                             /\ q.id \in CommandIds /\ q.id[1] = q.command.mapping
                             /\ q.row \in WriteCommand /\ q.row.key = q.command.key
    /\ q.pc = "authorizing" => q.command.op = "authorize" /\ q.at \in Nat
    /\ q.pc \in {"chained", "authorized"} => q.command.op = "apply_match"

\* And what it owes to the tables.
AnatomyCallStands(q) ==
    /\ q.pc = "reviewed" => Selection(<<q.command.mapping, q.review>>, q.target)
    /\ q.pc = "preparing" => Selection(q.id, q.row.target)
    /\ q.pc \in {"chained", "authorized"} => written[q.command.command] # None
    /\ q.pc = "authorized" => AuthorizedBy(q.command.command, q.authorization)

MappingTables ==
    /\ verdict \in Verdicts \cup {None} /\ mapped \subseteq Mappings
    /\ mappingReviews \in Seq(MappingReview)
    /\ \A j \in DOMAIN mappingReviews :
          mappingReviews[j].action = "select_existing_object" =>
             mappingReviews[j].target \in Offers[mappingReviews[j].mapping]
    /\ \A i, j \in DOMAIN mappingReviews : mappingReviews[i].key = mappingReviews[j].key => i = j

CommandTables ==
    /\ written \in [CommandIds -> WriteCommand \cup {None}]
    /\ \A id \in CommandIds : written[id] # None => Selection(id, written[id].target)
    /\ authorizations \subseteq Authorization /\ IsFiniteSet(authorizations)

OwnerTables ==
    /\ owner \in Owner \cup {None}
    /\ represented \subseteq {Source[m] : m \in Mappings}
    /\ related = {Relation(e.command) : e \in Applications}
    /\ anatomyEvents \subseteq AnatomyEvent /\ IsFiniteSet(anatomyEvents)
    /\ {e.expected : e \in anatomyEvents} = 0..(RowRevision(owner) - 1)
    /\ Cardinality(anatomyEvents) = RowRevision(owner)
    /\ \A e \in anatomyEvents : e.expected = 0 <=> e.command = None
    /\ \A e \in Applications : ApplicationStands(e)
    /\ \A e, f \in Applications : Relation(e.command) = Relation(f.command) => e = f

AnatomyCalls ==
    /\ DOMAIN call = Calls
    /\ \A c \in Calls : call[c] = Idle \/ (AnatomyCallFits(call[c]) /\ AnatomyCallStands(call[c]))

AnatomyInv == MappingTables /\ CommandTables /\ OwnerTables /\ AnatomyCalls

AnatomyAnswered ==
    answer # None =>
       /\ answer.command \in AnatomyRequests
       /\ Autocommit => AnatomyOnRecord(answer.command, answer.expected)

\* No act is taken back.
ChainGrows ==
    /\ mapped \subseteq mapped'
    /\ \A j \in DOMAIN mappingReviews :
          j \in DOMAIN mappingReviews' /\ mappingReviews'[j] = mappingReviews[j]
    /\ \A id \in CommandIds : written[id] # None => written'[id] = written[id]
    /\ authorizations \subseteq authorizations'
    /\ represented \subseteq represented' /\ anatomyEvents \subseteq anatomyEvents'

LEMMA AnatomyAskedFits ==
    ASSUME NEW m \in AnatomyRequests
    PROVE  /\ m.key \in Keys
           /\ m.op = "dispose" => m.verdict \in Verdicts
           /\ m.op = "import" => m.objects \in SUBSET Objects
           /\ m.op = "review_mapping" => /\ m.mapping \in Mappings /\ m.action \in ReviewActions
                                         /\ m.target \in Objects \cup {None}
           /\ m.op = "prepare" => m.mapping \in Mappings
           /\ m.op = "authorize" => m.command \in CommandIds /\ m.action \in AuthorizationActions
           /\ m.op = "apply_match" => m.command \in CommandIds
  <1>1. m \in AnatomyCommand
    BY AnatomyAssumption
  <1> QED BY <1>1 DEF AnatomyCommand

LEMMA WriteCommandFits ==
    ASSUME NEW row \in WriteCommand
    PROVE  row # None /\ row.key \in Keys /\ row.target \in Objects /\ row.expected \in 1..OwnerRevisions
  BY AnatomyAssumption DEF WriteCommand

LEMMA OwnerFits ==
    ASSUME NEW row \in Owner
    PROVE  row # None /\ row.revision \in 1..OwnerRevisions /\ row.objects \in SUBSET Objects
  BY AnatomyAssumption DEF Owner

LEMMA ApplicationFits ==
    ASSUME OwnerTables, NEW e \in Applications
    PROVE  e \in anatomyEvents /\ e.command # None /\ e.command \in CommandIds
  BY DEF OwnerTables, Applications, AnatomyEvent

LEMMA SelectionStays ==
    ASSUME ChainGrows, NEW id, NEW target, Selection(id, target)
    PROVE  Selection(id, target)'
  BY DEF ChainGrows, Selection, ReviewsOf

LEMMA AuthorizationStays ==
    ASSUME ChainGrows, NEW id, NEW key, AuthorizedBy(id, key)
    PROVE  AuthorizedBy(id, key)'
  BY DEF ChainGrows, AuthorizedBy, AuthorizationsOf

LEMMA AnatomyCallStandsStill ==
    ASSUME ChainGrows, NEW q, AnatomyCallFits(q), AnatomyCallStands(q)
    PROVE  AnatomyCallStands(q)'
  <1>1. q.pc = "reviewed" => Selection(<<q.command.mapping, q.review>>, q.target)'
    <2>1. PICK id : id = <<q.command.mapping, q.review>>
      OBVIOUS
    <2>2. PICK t : t = q.target
      OBVIOUS
    <2>3. q.pc = "reviewed" => Selection(id, t)
      BY <2>1, <2>2 DEF AnatomyCallStands
    <2>4. q.pc = "reviewed" => Selection(id, t)'
      BY <2>3, SelectionStays
    <2> QED BY <2>1, <2>2, <2>4
  <1>2. q.pc = "preparing" => Selection(q.id, q.row.target)'
    <2>1. PICK id : id = q.id
      OBVIOUS
    <2>2. PICK t : t = q.row.target
      OBVIOUS
    <2>3. q.pc = "preparing" => Selection(id, t)
      BY <2>1, <2>2 DEF AnatomyCallStands
    <2>4. q.pc = "preparing" => Selection(id, t)'
      BY <2>3, SelectionStays
    <2> QED BY <2>1, <2>2, <2>4
  <1>3. q.pc \in {"chained", "authorized"} => written'[q.command.command] # None
    <2>1. q.pc \in {"chained", "authorized"} => q.command.command \in CommandIds
      BY AnatomyAskedFits DEF AnatomyCallFits
    <2> QED BY <2>1 DEF AnatomyCallStands, ChainGrows
  <1>4. q.pc = "authorized" => AuthorizedBy(q.command.command, q.authorization)'
    <2>1. PICK id : id = q.command.command
      OBVIOUS
    <2>2. PICK key : key = q.authorization
      OBVIOUS
    <2>3. q.pc = "authorized" => AuthorizedBy(id, key)
      BY <2>1, <2>2 DEF AnatomyCallStands
    <2>4. q.pc = "authorized" => AuthorizedBy(id, key)'
      BY <2>3, AuthorizationStays
    <2> QED BY <2>1, <2>2, <2>4
  <1> QED BY <1>1, <1>2, <1>3, <1>4 DEF AnatomyCallStands

LEMMA AnatomyCallOf ==
    ASSUME AnatomyCalls, NEW c \in Calls, call[c] # Idle
    PROVE  AnatomyCallFits(call[c]) /\ AnatomyCallStands(call[c])
  BY DEF AnatomyCalls

LEMMA AnatomyCallsWait ==
    ASSUME AnatomyCalls, ChainGrows, UNCHANGED call
    PROVE  AnatomyCalls'
  <1>1. ASSUME NEW d \in Calls, call'[d] # Idle
        PROVE  AnatomyCallFits(call[d])' /\ AnatomyCallStands(call[d])'
    <2>1. PICK q : q = call[d] /\ q = call'[d]
      OBVIOUS
    <2>2. AnatomyCallFits(q) /\ AnatomyCallStands(q)
      BY <1>1, <2>1, AnatomyCallOf
    <2>3. AnatomyCallStands(q)'
      BY <2>2, AnatomyCallStandsStill
    <2> QED BY <2>1, <2>2, <2>3 DEF AnatomyCallFits, AnatomyCallStands
  <1> QED BY <1>1 DEF AnatomyCalls

LEMMA AnatomyCallMoves ==
    ASSUME AnatomyCalls, ChainGrows, NEW c \in Calls, NEW q, call' = [call EXCEPT ![c] = q],
           q = Idle \/ (AnatomyCallFits(q) /\ AnatomyCallStands(q))
    PROVE  AnatomyCalls'
  <1>1. /\ DOMAIN call' = Calls /\ call'[c] = q
        /\ \A d \in Calls : d # c => call'[d] = call[d]
    BY DEF AnatomyCalls
  <1>2. ASSUME NEW d \in Calls, call'[d] # Idle
        PROVE  AnatomyCallFits(call[d])' /\ AnatomyCallStands(call[d])'
    <2>1. PICK s : s = call'[d]
      OBVIOUS
    <2>2. AnatomyCallFits(s) /\ AnatomyCallStands(s)
      BY <1>1, <1>2, <2>1, AnatomyCallOf
    <2>3. AnatomyCallStands(s)'
      BY <2>2, AnatomyCallStandsStill
    <2> QED BY <2>1, <2>2, <2>3 DEF AnatomyCallFits, AnatomyCallStands
  <1> QED BY <1>1, <1>2 DEF AnatomyCalls

LEMMA MappingTablesStay ==
    ASSUME MappingTables, UNCHANGED <<verdict, mapped, mappingReviews>>
    PROVE  MappingTables'
  BY DEF MappingTables

LEMMA CommandTablesStay ==
    ASSUME CommandTables, ChainGrows, UNCHANGED <<written, authorizations>>
    PROVE  CommandTables'
  <1>1. ASSUME NEW id \in CommandIds, written'[id] # None
        PROVE  Selection(id, written[id].target)'
    <2>1. PICK t : t = written[id].target /\ t = written'[id].target
      OBVIOUS
    <2>2. Selection(id, t)
      BY <1>1, <2>1 DEF CommandTables
    <2>3. Selection(id, t)'
      BY <2>2, SelectionStays
    <2> QED BY <2>1, <2>3 DEF Selection
  <1> QED BY <1>1 DEF CommandTables

LEMMA ApplicationStandsStill ==
    ASSUME ChainGrows, NEW e, e.command \in CommandIds, ApplicationStands(e)
    PROVE  ApplicationStands(e)'
  <1>1. PICK id : id = e.command
    OBVIOUS
  <1>2. PICK key : key = e.authorization
    OBVIOUS
  <1>3. AuthorizedBy(id, key)'
    BY <1>1, <1>2, AuthorizationStays DEF ApplicationStands
  <1> QED BY <1>1, <1>2, <1>3 DEF ApplicationStands, ChainGrows

LEMMA OwnerTablesStay ==
    ASSUME OwnerTables, ChainGrows, UNCHANGED ownerVars
    PROVE  OwnerTables'
  <1>1. UNCHANGED <<owner, represented, related, anatomyEvents>>
    BY DEF ownerVars
  <1>2. Applications' = Applications
    BY <1>1 DEF Applications
  <1>3. \A e \in Applications : ApplicationStands(e)'
    BY ApplicationFits, ApplicationStandsStill DEF OwnerTables
  <1>4. RowRevision(owner)' = RowRevision(owner)
    BY <1>1 DEF RowRevision
  <1> QED BY <1>1, <1>2, <1>3, <1>4 DEF OwnerTables

\* What is on record stays there.
LEMMA AnatomyStaysOnRecord ==
    ASSUME MappingTables', ChainGrows, NEW m \in AnatomyRequests, NEW v, AnatomyOnRecord(m, v)
    PROVE  AnatomyOnRecord(m, v)'
  <1>1. m.op = "convert" => mapped' = Mappings
    BY DEF AnatomyOnRecord, ChainGrows, MappingTables
  <1>2. m.op = "review_mapping" =>
           \E j \in ReviewsOf(m.mapping)' : /\ mappingReviews'[j].key = m.key
                                            /\ mappingReviews'[j].target = m.target
    BY DEF AnatomyOnRecord, ChainGrows, ReviewsOf
  <1>3. m.op = "prepare" =>
           \E key \in Keys : /\ written'[<<m.mapping, key>>] # None
                             /\ written'[<<m.mapping, key>>].key = m.key
    <2> SUFFICES ASSUME m.op = "prepare"
                 PROVE  \E key \in Keys : /\ written'[<<m.mapping, key>>] # None
                                          /\ written'[<<m.mapping, key>>].key = m.key
      OBVIOUS
    <2>1. PICK key \in Keys : written[<<m.mapping, key>>] # None /\ written[<<m.mapping, key>>].key = m.key
      BY DEF AnatomyOnRecord
    <2>2. <<m.mapping, key>> \in CommandIds
      BY AnatomyAskedFits DEF CommandIds
    <2> QED BY <2>1, <2>2 DEF ChainGrows
  <1>4. m.op = "authorize" =>
           \E a \in AuthorizationsOf(m.command)' : a.key = m.key /\ a.action = m.action
    BY DEF AnatomyOnRecord, ChainGrows, AuthorizationsOf
  <1>5. m.op = "apply_match" =>
           \E e \in AnatomyEventOf(m.key)' : e.command = m.command /\ e.authorization = v
    BY DEF AnatomyOnRecord, ChainGrows, AnatomyEventOf
  <1>6. m.op = "import" => \E e \in AnatomyEventOf(m.key)' : e.command = None
    BY DEF AnatomyOnRecord, ChainGrows, AnatomyEventOf
  <1> QED BY <1>1, <1>2, <1>3, <1>4, <1>5, <1>6 DEF AnatomyOnRecord

LEMMA AnatomyIsQuiet ==
    ASSUME AnatomyAnswered, MappingTables', ChainGrows, UNCHANGED answer
    PROVE  AnatomyAnswered'
  <1> SUFFICES ASSUME answer # None
               PROVE  /\ answer'.command \in AnatomyRequests
                      /\ Autocommit => AnatomyOnRecord(answer.command, answer.expected)'
    BY DEF AnatomyAnswered
  <1>1. PICK m : m = answer.command /\ m = answer'.command
    OBVIOUS
  <1>2. PICK v : v = answer.expected /\ v = answer'.expected
    OBVIOUS
  <1>3. m \in AnatomyRequests /\ (Autocommit => AnatomyOnRecord(m, v))
    BY <1>1, <1>2 DEF AnatomyAnswered
  <1>4. Autocommit => AnatomyOnRecord(m, v)'
    BY <1>3, AnatomyStaysOnRecord
  <1> QED BY <1>1, <1>2, <1>3, <1>4 DEF AnatomyOnRecord

LEMMA AnatomyIsAnswered ==
    ASSUME NEW m \in AnatomyRequests, NEW v, Answers(m, v),
           Autocommit => AnatomyOnRecord(m, v)'
    PROVE  AnatomyAnswered'
  <1>1. answer'.command = m /\ answer'.expected = v
    BY DEF Answers
  <1> QED BY <1>1 DEF AnatomyAnswered, AnatomyOnRecord

LEMMA NoActIsAdded ==
    ASSUME AnatomyInv, UNCHANGED anatomyVars
    PROVE  ChainGrows /\ MappingTables' /\ CommandTables' /\ OwnerTables'
  <1>1. /\ UNCHANGED <<verdict, mapped, mappingReviews, written, authorizations>>
        /\ UNCHANGED ownerVars /\ UNCHANGED <<represented, anatomyEvents>>
    BY DEF anatomyVars, chainVars, ownerVars
  <1>2. ChainGrows
    BY <1>1 DEF ChainGrows
  <1> QED BY <1>1, <1>2, MappingTablesStay, CommandTablesStay, OwnerTablesStay DEF AnatomyInv

\* A call begins or goes on with what it read.
LEMMA AnatomyReadingKeeps ==
    ASSUME AnatomyInv, AnatomyAnswered, NEW c \in Calls, NEW q,
           call' = [call EXCEPT ![c] = q],
           q = Idle \/ (AnatomyCallFits(q) /\ AnatomyCallStands(q)),
           UNCHANGED <<anatomyVars, answer>>
    PROVE  ChainGrows /\ AnatomyInv' /\ AnatomyAnswered'
  <1>1. ChainGrows /\ MappingTables' /\ CommandTables' /\ OwnerTables'
    BY NoActIsAdded
  <1>2. AnatomyCalls'
    BY <1>1, AnatomyCallMoves DEF AnatomyInv
  <1>3. AnatomyAnswered'
    BY <1>1, AnatomyIsQuiet
  <1> QED BY <1>1, <1>2, <1>3 DEF AnatomyInv

\* A call is answered from what is on record.
LEMMA AnatomyReplayKeeps ==
    ASSUME AnatomyInv, NEW m \in AnatomyRequests, NEW v, Answers(m, v), AnatomyOnRecord(m, v),
           UNCHANGED call \/ (\E c \in Calls : End(c)), UNCHANGED anatomyVars
    PROVE  ChainGrows /\ AnatomyInv' /\ AnatomyAnswered'
  <1>1. ChainGrows /\ MappingTables' /\ CommandTables' /\ OwnerTables'
    BY NoActIsAdded
  <1>2. AnatomyCalls'
    BY <1>1, AnatomyCallMoves, AnatomyCallsWait DEF AnatomyInv, End
  <1>3. AnatomyOnRecord(m, v)'
    BY <1>1, AnatomyStaysOnRecord
  <1> QED BY <1>1, <1>2, <1>3, AnatomyIsAnswered DEF AnatomyInv

LEMMA RefuseAnatomyKeeps ==
    ASSUME AnatomyInv, AnatomyAnswered, NEW c \in Calls, RefuseAnatomy(c)
    PROVE  ChainGrows /\ AnatomyInv' /\ AnatomyAnswered'
  <1>1. call' = [call EXCEPT ![c] = Idle] /\ UNCHANGED <<anatomyVars, answer>>
    BY DEF RefuseAnatomy, Refused, End
  <1> QED BY <1>1, AnatomyReadingKeeps

LEMMA DisposeKeeps ==
    ASSUME AnatomyInv, NEW m \in AnatomyRequests, Dispose(m)
    PROVE  ChainGrows /\ AnatomyInv' /\ AnatomyAnswered'
  <1>1. /\ m.op = "dispose" /\ verdict' = m.verdict /\ Answers(m, None)
        /\ UNCHANGED <<mapped, mappingReviews, written, authorizations, ownerVars, call>>
        /\ UNCHANGED <<represented, anatomyEvents>>
    BY DEF Dispose, ownerVars
  <1>2. ChainGrows
    BY <1>1 DEF ChainGrows
  <1>3. MappingTables'
    BY <1>1, AnatomyAskedFits DEF AnatomyInv, MappingTables
  <1>4. CommandTables' /\ OwnerTables' /\ AnatomyCalls'
    BY <1>1, <1>2, CommandTablesStay, OwnerTablesStay, AnatomyCallsWait DEF AnatomyInv
  <1>5. AnatomyOnRecord(m, None)'
    BY <1>1 DEF AnatomyOnRecord
  <1> QED BY <1>1, <1>2, <1>3, <1>4, <1>5, AnatomyIsAnswered DEF AnatomyInv

LEMMA ReadQualificationKeeps ==
    ASSUME AnatomyInv, AnatomyAnswered, NEW c \in Calls, NEW m \in AnatomyRequests,
           ReadQualification(c, m)
    PROVE  ChainGrows /\ AnatomyInv' /\ AnatomyAnswered'
  <1>1. PICK q : q = [pc |-> "converting", command |-> m]
    OBVIOUS
  <1>2. m.op = "convert" /\ call' = [call EXCEPT ![c] = q] /\ UNCHANGED <<anatomyVars, answer>>
    BY <1>1 DEF ReadQualification, Begin
  <1>3. q.pc = "converting" /\ q.command = m
    BY <1>1
  <1>4. AnatomyCallFits(q) /\ AnatomyCallStands(q)
    BY <1>2, <1>3 DEF AnatomyCallFits, AnatomyCallStands, AnatomySteps
  <1> QED BY <1>2, <1>4, AnatomyReadingKeeps

LEMMA ConvertKeeps ==
    ASSUME AnatomyInv, NEW c \in Calls, Convert(c)
    PROVE  ChainGrows /\ AnatomyInv' /\ AnatomyAnswered'
  <1>1. PICK m : m = call[c].command
    OBVIOUS
  <1>2. m \in AnatomyRequests /\ m.op = "convert"
    BY <1>1, AnatomyCallOf DEF Convert, Step, AnatomyInv, AnatomyCallFits
  <1>3. /\ mapped' = IF Autocommit THEN Mappings ELSE mapped
        /\ Answers(m, None) /\ call' = [call EXCEPT ![c] = Idle]
        /\ UNCHANGED <<verdict, mappingReviews, written, authorizations, ownerVars>>
        /\ UNCHANGED <<represented, anatomyEvents>>
    BY <1>1 DEF Convert, Keeps, End, ownerVars
  <1>4. mapped \subseteq mapped' /\ mapped' \subseteq Mappings
    BY <1>3 DEF AnatomyInv, MappingTables
  <1>5. ChainGrows
    BY <1>3, <1>4 DEF ChainGrows
  <1>6. MappingTables'
    BY <1>3, <1>4 DEF AnatomyInv, MappingTables
  <1>7. CommandTables' /\ OwnerTables' /\ AnatomyCalls'
    BY <1>3, <1>5, CommandTablesStay, OwnerTablesStay, AnatomyCallMoves DEF AnatomyInv
  <1>8. Autocommit => AnatomyOnRecord(m, None)'
    BY <1>2, <1>3 DEF AnatomyOnRecord
  <1> QED BY <1>2, <1>3, <1>5, <1>6, <1>7, <1>8, AnatomyIsAnswered DEF AnatomyInv

\* One more review of a mapping.
LEMMA ReviewIsAppended ==
    ASSUME MappingTables, NEW row \in MappingReview,
           row.action = "select_existing_object" => row.target \in Offers[row.mapping],
           \A j \in DOMAIN mappingReviews : mappingReviews[j].key # row.key,
           mappingReviews' = Append(mappingReviews, row), UNCHANGED <<verdict, mapped>>
    PROVE  /\ MappingTables'
           /\ \A j \in DOMAIN mappingReviews :
                 j \in DOMAIN mappingReviews' /\ mappingReviews'[j] = mappingReviews[j]
           /\ \E j \in DOMAIN mappingReviews' : mappingReviews'[j] = row
  <1>1. PICK n : n = Len(mappingReviews) + 1
    OBVIOUS
  <1>2. /\ n \in Nat /\ DOMAIN mappingReviews = 1..(n - 1) /\ DOMAIN mappingReviews' = 1..n
        /\ mappingReviews' \in Seq(MappingReview) /\ mappingReviews'[n] = row
        /\ \A j \in 1..(n - 1) : mappingReviews'[j] = mappingReviews[j]
    BY <1>1 DEF MappingTables
  <1>3. /\ n \in DOMAIN mappingReviews'
        /\ \A j \in DOMAIN mappingReviews' : j = n \/ j \in DOMAIN mappingReviews
        /\ \A j \in DOMAIN mappingReviews : j \in DOMAIN mappingReviews' /\ j # n
    BY <1>2
  <1>4. \A j \in DOMAIN mappingReviews' :
           mappingReviews'[j].action = "select_existing_object" =>
              mappingReviews'[j].target \in Offers[mappingReviews'[j].mapping]
    BY <1>2, <1>3 DEF MappingTables
  <1>5. \A i, j \in DOMAIN mappingReviews' : mappingReviews'[i].key = mappingReviews'[j].key => i = j
    <2> SUFFICES ASSUME NEW i \in DOMAIN mappingReviews', NEW j \in DOMAIN mappingReviews',
                        mappingReviews'[i].key = mappingReviews'[j].key
                 PROVE  i = j
      OBVIOUS
    <2>1. CASE i = n \/ j = n
      BY <1>2, <1>3, <2>1
    <2>2. CASE i # n /\ j # n
      BY <1>2, <1>3, <2>2 DEF MappingTables
    <2> QED BY <2>1, <2>2
  <1> QED BY <1>2, <1>3, <1>4, <1>5 DEF MappingTables

LEMMA ReviewMappingKeeps ==
    ASSUME AnatomyInv, NEW m \in AnatomyRequests, ReviewMapping(m)
    PROVE  ChainGrows /\ AnatomyInv' /\ AnatomyAnswered'
  <1>1. PICK row : row = [key |-> m.key, mapping |-> m.mapping, action |-> m.action,
                          target |-> m.target]
    OBVIOUS
  <1>2. PICK same : same = {j \in DOMAIN mappingReviews : mappingReviews[j].key = m.key}
    OBVIOUS
  <1>3. /\ m.op = "review_mapping"
        /\ m.action = "select_existing_object" => m.target \in Offers[m.mapping]
        /\ IF same = {}
           THEN mappingReviews' = IF Autocommit THEN Append(mappingReviews, row) ELSE mappingReviews
           ELSE (\A j \in same : mappingReviews[j] = row) /\ UNCHANGED mappingReviews
        /\ Answers(m, None)
        /\ UNCHANGED <<verdict, mapped, written, authorizations, ownerVars, call>>
        /\ UNCHANGED <<represented, anatomyEvents>>
    BY <1>1, <1>2 DEF ReviewMapping, Keeps, ownerVars
  <1>4. row.key = m.key /\ row.mapping = m.mapping /\ row.action = m.action /\ row.target = m.target
    BY <1>1
  <1>5. row \in MappingReview
    BY <1>1, <1>3, AnatomyAskedFits DEF MappingReview
  <1>6. /\ MappingTables'
        /\ \A j \in DOMAIN mappingReviews :
              j \in DOMAIN mappingReviews' /\ mappingReviews'[j] = mappingReviews[j]
        /\ Autocommit => \E j \in DOMAIN mappingReviews' : mappingReviews'[j] = row
    <2>1. CASE UNCHANGED mappingReviews /\ ~(same = {} /\ Autocommit)
      <3>1. MappingTables'
        BY <1>3, <2>1, MappingTablesStay DEF AnatomyInv
      <3>2. same # {} => \E j \in DOMAIN mappingReviews' : mappingReviews'[j] = row
        BY <1>2, <1>3, <2>1
      <3> QED BY <2>1, <3>1, <3>2
    <2>2. CASE same = {} /\ Autocommit
      <3>1. mappingReviews' = Append(mappingReviews, row) /\ UNCHANGED <<verdict, mapped>>
        BY <1>3, <2>2
      <3>2. \A j \in DOMAIN mappingReviews : mappingReviews[j].key # row.key
        BY <1>2, <1>4, <2>2
      <3> QED BY <1>3, <1>4, <1>5, <3>1, <3>2, ReviewIsAppended DEF AnatomyInv
    <2> QED BY <1>3, <2>1, <2>2, AnatomyAssumption
  <1>7. ChainGrows
    BY <1>3, <1>6 DEF ChainGrows
  <1>8. CommandTables' /\ OwnerTables' /\ AnatomyCalls'
    BY <1>3, <1>7, CommandTablesStay, OwnerTablesStay, AnatomyCallsWait DEF AnatomyInv
  <1>9. Autocommit => AnatomyOnRecord(m, None)'
    BY <1>3, <1>4, <1>6 DEF AnatomyOnRecord, ReviewsOf
  <1> QED BY <1>3, <1>6, <1>7, <1>8, <1>9, AnatomyIsAnswered DEF AnatomyInv

LEMMA ReadReviewKeeps ==
    ASSUME AnatomyInv, AnatomyAnswered, NEW c \in Calls, NEW m \in AnatomyRequests,
           ReadReview(c, m)
    PROVE  ChainGrows /\ AnatomyInv' /\ AnatomyAnswered'
  <1>1. PICK key \in Keys :
           /\ LatestSelection(m.mapping, key)
           /\ Begin(c, [pc |-> "reviewed", command |-> m, review |-> key,
                        target |-> mappingReviews[ReviewOf(key)].target])
    BY DEF ReadReview
  <1>2. PICK target : target = mappingReviews[ReviewOf(key)].target
    OBVIOUS
  <1>3. PICK q : q = [pc |-> "reviewed", command |-> m, review |-> key, target |-> target]
    OBVIOUS
  <1>4. m.op = "prepare" /\ call' = [call EXCEPT ![c] = q] /\ UNCHANGED <<anatomyVars, answer>>
    BY <1>1, <1>2, <1>3 DEF ReadReview, Begin
  <1>5. /\ q.pc = "reviewed" /\ q.command = m /\ q.review = key /\ q.target = target
    BY <1>3
  <1>6. PICK id : id = <<m.mapping, key>>
    OBVIOUS
  <1>7. Selection(id, target)
    <2>1. PICK j \in ReviewsOf(m.mapping) :
             mappingReviews[j].key = key /\ mappingReviews[j].action = "select_existing_object"
      BY <1>1 DEF LatestSelection
    <2>2. ReviewOf(key) = j
      <3>1. j \in DOMAIN mappingReviews
        BY <2>1 DEF ReviewsOf
      <3>2. \A i \in DOMAIN mappingReviews : mappingReviews[i].key = key => i = j
        BY <2>1, <3>1 DEF AnatomyInv, MappingTables
      <3> QED BY <2>1, <3>1, <3>2 DEF ReviewOf
    <2>3. mappingReviews[j].target = target /\ target \in Offers[m.mapping]
      BY <1>2, <2>1, <2>2 DEF AnatomyInv, MappingTables, ReviewsOf
    <2> QED BY <1>6, <2>1, <2>3 DEF Selection
  <1>8. AnatomyCallFits(q)
    BY <1>4, <1>5 DEF AnatomyCallFits, AnatomySteps
  <1>9. AnatomyCallStands(q)
    BY <1>5, <1>6, <1>7 DEF AnatomyCallStands
  <1> QED BY <1>4, <1>8, <1>9, AnatomyReadingKeeps

LEMMA ReadOwnerKeeps ==
    ASSUME AnatomyInv, AnatomyAnswered, NEW c \in Calls, ReadOwner(c)
    PROVE  ChainGrows /\ AnatomyInv' /\ AnatomyAnswered'
  <1>1. PICK was : was = call[c]
    OBVIOUS
  <1>2. was.pc = "reviewed" /\ AnatomyCallFits(was) /\ AnatomyCallStands(was)
    BY <1>1, AnatomyCallOf DEF ReadOwner, Step, AnatomyInv
  <1>3. PICK m : m = was.command
    OBVIOUS
  <1>4. m \in AnatomyRequests /\ m.op = "prepare" /\ was.review \in Keys
        /\ m.mapping \in Mappings /\ m.key \in Keys
    BY <1>2, <1>3, AnatomyAskedFits DEF AnatomyCallFits
  <1>5. PICK id : id = <<m.mapping, was.review>>
    OBVIOUS
  <1>6. PICK target : target = was.target
    OBVIOUS
  <1>7. PICK revision : revision = owner.revision
    OBVIOUS
  <1>8. PICK row : row = [key |-> m.key, target |-> target, expected |-> revision]
    OBVIOUS
  <1>9. PICK q : q = [pc |-> "preparing", id |-> id, command |-> m, row |-> row]
    OBVIOUS
  <1>10. /\ owner # None /\ target \in owner.objects /\ call' = [call EXCEPT ![c] = q]
         /\ UNCHANGED <<anatomyVars, answer>>
    BY <1>1, <1>3, <1>5, <1>6, <1>7, <1>8, <1>9 DEF ReadOwner, AnatomyInv, AnatomyCalls
  <1>11. target \in Objects /\ revision \in 1..OwnerRevisions
    BY <1>7, <1>10, OwnerFits DEF AnatomyInv, OwnerTables
  <1>12. row \in WriteCommand /\ row.key = m.key /\ row.target = target
    BY <1>4, <1>8, <1>11 DEF WriteCommand
  <1>13. id \in CommandIds /\ id[1] = m.mapping
    BY <1>4, <1>5 DEF CommandIds
  <1>14. q.pc = "preparing" /\ q.id = id /\ q.command = m /\ q.row = row
    BY <1>9
  <1>15. AnatomyCallFits(q)
    BY <1>4, <1>12, <1>13, <1>14 DEF AnatomyCallFits, AnatomySteps
  <1>16. AnatomyCallStands(q)
    <2>1. Selection(id, target)
      BY <1>2, <1>3, <1>5, <1>6 DEF AnatomyCallStands
    <2> QED BY <1>12, <1>14, <2>1 DEF AnatomyCallStands
  <1> QED BY <1>10, <1>15, <1>16, AnatomyReadingKeeps

LEMMA PrepareKeeps ==
    ASSUME AnatomyInv, NEW c \in Calls, Prepare(c)
    PROVE  ChainGrows /\ AnatomyInv' /\ AnatomyAnswered'
  <1>1. PICK q : q = call[c]
    OBVIOUS
  <1>2. q.pc = "preparing" /\ AnatomyCallFits(q) /\ AnatomyCallStands(q)
    BY <1>1, AnatomyCallOf DEF Prepare, Step, AnatomyInv
  <1>3. PICK m : m = q.command
    OBVIOUS
  <1>4. PICK id : id = q.id
    OBVIOUS
  <1>5. PICK row : row = q.row
    OBVIOUS
  <1>6. /\ m \in AnatomyRequests /\ m.op = "prepare" /\ id \in CommandIds /\ id[1] = m.mapping
        /\ row \in WriteCommand /\ row.key = m.key /\ row # None
        /\ Selection(id, row.target)
    BY <1>2, <1>3, <1>4, <1>5, WriteCommandFits DEF AnatomyCallFits, AnatomyCallStands
  <1>7. /\ \/ /\ written[id] = None
              /\ written' = IF Autocommit THEN [written EXCEPT ![id] = row] ELSE written
           \/ written[id] = row /\ UNCHANGED written
        /\ Answers(m, id) /\ call' = [call EXCEPT ![c] = Idle]
        /\ UNCHANGED <<verdict, mapped, mappingReviews, authorizations, ownerVars>>
        /\ UNCHANGED <<represented, anatomyEvents>>
    BY <1>1, <1>3, <1>4, <1>5 DEF Prepare, Keeps, End, ownerVars
  <1>8. /\ \A i \in CommandIds :
              \/ written'[i] = written[i]
              \/ i = id /\ written'[i] = row /\ written[i] = None
        /\ Autocommit => written'[id] = row
        /\ written' \in [CommandIds -> WriteCommand \cup {None}]
    BY <1>6, <1>7 DEF AnatomyInv, CommandTables
  <1>9. ChainGrows
    BY <1>7, <1>8 DEF ChainGrows
  <1>10. CommandTables'
    <2>1. ASSUME NEW i \in CommandIds, written'[i] # None
          PROVE  Selection(i, written[i].target)'
      <3>1. PICK t : t = written'[i].target
        OBVIOUS
      <3>2. Selection(i, t)
        <4>1. CASE written'[i] = written[i]
          BY <2>1, <3>1, <4>1 DEF AnatomyInv, CommandTables
        <4>2. CASE i = id /\ written'[i] = row
          BY <1>6, <3>1, <4>2
        <4> QED BY <1>8, <4>1, <4>2
      <3>3. Selection(i, t)'
        BY <1>9, <3>2, SelectionStays
      <3> QED BY <3>1, <3>3 DEF Selection
    <2> QED BY <1>7, <1>8, <2>1 DEF AnatomyInv, CommandTables
  <1>11. MappingTables' /\ OwnerTables' /\ AnatomyCalls'
    BY <1>7, <1>9, MappingTablesStay, OwnerTablesStay, AnatomyCallMoves DEF AnatomyInv
  <1>12. Autocommit => AnatomyOnRecord(m, id)'
    <2>1. id = <<m.mapping, id[2]>> /\ id[2] \in Keys
      BY <1>6 DEF CommandIds
    <2> QED BY <1>6, <1>8, <2>1 DEF AnatomyOnRecord
  <1> QED BY <1>6, <1>7, <1>9, <1>10, <1>11, <1>12, AnatomyIsAnswered DEF AnatomyInv

LEMMA StampsAreFinite ==
    ASSUME AnatomyInv
    PROVE  Cardinality(Stamps) \in Nat
  <1> DEFINE S == {d \in Calls : Step(d, "authorizing")}
             f == [d \in S |-> call[d].at]
             g == [a \in authorizations |-> a.at]
  <1>1. IsFiniteSet(S) /\ IsFiniteSet(authorizations)
    BY FS_Subset, AnatomyAssumption DEF AnatomyInv, CommandTables
  <1>2. IsFiniteSet({f[d] : d \in S}) /\ IsFiniteSet({g[a] : a \in authorizations})
    BY <1>1, FiniteImage
  <1>3. /\ {f[d] : d \in S} = {call[d].at : d \in S}
        /\ {g[a] : a \in authorizations} = {a.at : a \in authorizations}
    OBVIOUS
  <1>4. IsFiniteSet({a.at : a \in authorizations} \cup {call[d].at : d \in S})
    BY <1>2, <1>3, FS_Union
  <1>5. IsFiniteSet(Stamps)
    BY <1>4 DEF Stamps
  <1> QED BY <1>5, FS_CardinalityType

LEMMA ReadCommandKeeps ==
    ASSUME AnatomyInv, AnatomyAnswered, NEW c \in Calls, NEW m \in AnatomyRequests,
           ReadCommand(c, m)
    PROVE  ChainGrows /\ AnatomyInv' /\ AnatomyAnswered'
  <1>1. PICK at \in Nat : at = Cardinality(Stamps)
    BY StampsAreFinite
  <1>2. PICK q : q = [pc |-> "authorizing", command |-> m, at |-> at]
    OBVIOUS
  <1>3. m.op = "authorize" /\ call' = [call EXCEPT ![c] = q] /\ UNCHANGED <<anatomyVars, answer>>
    BY <1>1, <1>2 DEF ReadCommand, Begin
  <1>4. q.pc = "authorizing" /\ q.command = m /\ q.at = at
    BY <1>2
  <1>5. AnatomyCallFits(q) /\ AnatomyCallStands(q)
    BY <1>3, <1>4 DEF AnatomyCallFits, AnatomyCallStands, AnatomySteps
  <1> QED BY <1>3, <1>5, AnatomyReadingKeeps

LEMMA AuthorizeKeeps ==
    ASSUME AnatomyInv, NEW c \in Calls, Authorize(c)
    PROVE  ChainGrows /\ AnatomyInv' /\ AnatomyAnswered'
  <1>1. PICK q : q = call[c]
    OBVIOUS
  <1>2. q.pc = "authorizing" /\ AnatomyCallFits(q)
    BY <1>1, AnatomyCallOf DEF Authorize, Step, AnatomyInv
  <1>3. PICK m : m = q.command
    OBVIOUS
  <1>4. /\ m \in AnatomyRequests /\ m.op = "authorize" /\ q.at \in Nat /\ m.key \in Keys
        /\ m.command \in CommandIds /\ m.action \in AuthorizationActions
    BY <1>2, <1>3, AnatomyAskedFits DEF AnatomyCallFits
  <1>5. PICK a : a = [key |-> m.key, command |-> m.command, action |-> m.action, at |-> q.at]
    OBVIOUS
  <1>6. /\ a \in Authorization /\ a.key = m.key /\ a.command = m.command /\ a.action = m.action
    BY <1>4, <1>5 DEF Authorization
  <1>7. PICK same : same = {b \in authorizations : b.key = m.key}
    OBVIOUS
  <1>8. /\ IF same = {}
           THEN authorizations' = IF Autocommit THEN authorizations \cup {a} ELSE authorizations
           ELSE /\ \A b \in same : b.command = m.command /\ b.action = m.action
                /\ UNCHANGED authorizations
        /\ Answers(m, None) /\ call' = [call EXCEPT ![c] = Idle]
        /\ UNCHANGED <<verdict, mapped, mappingReviews, written, ownerVars>>
        /\ UNCHANGED <<represented, anatomyEvents>>
    BY <1>1, <1>3, <1>5, <1>7 DEF Authorize, Keeps, End, ownerVars
  <1>9. /\ authorizations \subseteq authorizations'
        /\ authorizations' = authorizations \/ authorizations' = authorizations \cup {a}
    BY <1>8
  <1>10. ChainGrows
    BY <1>8, <1>9 DEF ChainGrows
  <1>11. CommandTables'
    <2>1. IsFiniteSet(authorizations') /\ authorizations' \subseteq Authorization
      BY <1>6, <1>9, FS_AddElement DEF AnatomyInv, CommandTables
    <2>2. ASSUME NEW id \in CommandIds, written'[id] # None
          PROVE  Selection(id, written[id].target)'
      <3>1. PICK t : t = written[id].target /\ t = written'[id].target
        BY <1>8
      <3>2. Selection(id, t)
        BY <1>8, <2>2, <3>1 DEF AnatomyInv, CommandTables
      <3>3. Selection(id, t)'
        BY <1>10, <3>2, SelectionStays
      <3> QED BY <3>1, <3>3 DEF Selection
    <2> QED BY <1>8, <2>1, <2>2 DEF AnatomyInv, CommandTables
  <1>12. MappingTables' /\ OwnerTables' /\ AnatomyCalls'
    BY <1>8, <1>10, MappingTablesStay, OwnerTablesStay, AnatomyCallMoves DEF AnatomyInv
  <1>13. Autocommit => AnatomyOnRecord(m, None)'
    <2> SUFFICES ASSUME Autocommit
                 PROVE  \E b \in authorizations' : /\ b.command = m.command
                                                   /\ b.key = m.key /\ b.action = m.action
      BY <1>4 DEF AnatomyOnRecord, AuthorizationsOf
    <2>1. CASE same = {}
      BY <1>6, <1>8, <2>1
    <2>2. CASE same # {}
      BY <1>7, <1>8, <2>2
    <2> QED BY <2>1, <2>2
  <1> QED BY <1>4, <1>8, <1>10, <1>11, <1>12, <1>13, AnatomyIsAnswered DEF AnatomyInv

LEMMA ReadChainKeeps ==
    ASSUME AnatomyInv, AnatomyAnswered, NEW c \in Calls, NEW m \in AnatomyRequests,
           ReadChain(c, m)
    PROVE  ChainGrows /\ AnatomyInv' /\ AnatomyAnswered'
  <1>1. PICK q : q = [pc |-> "chained", command |-> m]
    OBVIOUS
  <1>2. /\ m.op = "apply_match" /\ written[m.command] # None
        /\ call' = [call EXCEPT ![c] = q] /\ UNCHANGED <<anatomyVars, answer>>
    BY <1>1 DEF ReadChain, Begin
  <1>3. q.pc = "chained" /\ q.command = m
    BY <1>1
  <1>4. AnatomyCallFits(q) /\ AnatomyCallStands(q)
    BY <1>2, <1>3 DEF AnatomyCallFits, AnatomyCallStands, AnatomySteps
  <1> QED BY <1>2, <1>4, AnatomyReadingKeeps

LEMMA ReadAuthorizationKeeps ==
    ASSUME AnatomyInv, AnatomyAnswered, NEW c \in Calls, NEW a \in authorizations,
           ReadAuthorization(c, a)
    PROVE  ChainGrows /\ AnatomyInv' /\ AnatomyAnswered'
  <1>1. PICK was : was = call[c]
    OBVIOUS
  <1>2. was.pc = "chained" /\ AnatomyCallFits(was) /\ AnatomyCallStands(was)
    BY <1>1, AnatomyCallOf DEF ReadAuthorization, Step, AnatomyInv
  <1>3. PICK m : m = was.command
    OBVIOUS
  <1>4. m \in AnatomyRequests /\ m.op = "apply_match" /\ written[m.command] # None
    BY <1>2, <1>3 DEF AnatomyCallFits, AnatomyCallStands
  <1>5. PICK q : q = [pc |-> "authorized", command |-> m, authorization |-> a.key]
    OBVIOUS
  <1>6. /\ a \in LatestAuthorization(m.command)
        /\ call' = [call EXCEPT ![c] = q] /\ UNCHANGED <<anatomyVars, answer>>
    BY <1>1, <1>3, <1>5 DEF ReadAuthorization, AnatomyInv, AnatomyCalls
  <1>7. q.pc = "authorized" /\ q.command = m /\ q.authorization = a.key
    BY <1>5
  <1>8. AuthorizedBy(m.command, q.authorization)
    BY <1>6, <1>7 DEF LatestAuthorization, AuthorizedBy
  <1>9. AnatomyCallFits(q) /\ AnatomyCallStands(q)
    BY <1>4, <1>7, <1>8 DEF AnatomyCallFits, AnatomyCallStands, AnatomySteps
  <1> QED BY <1>6, <1>9, AnatomyReadingKeeps

\* An event of the owner, with the revision that it makes.
OwnerMovesTo(e, new) ==
    /\ owner' = new /\ anatomyEvents' = anatomyEvents \cup {e}
    /\ e \notin anatomyEvents /\ e.expected = RowRevision(owner)
    /\ new.revision = RowRevision(owner) + 1
    /\ e.expected = 0 <=> e.command = None
    /\ represented' \subseteq {Source[m] : m \in Mappings}
    /\ e.command = None => related' = related
    /\ e.command # None => /\ related' = related \cup {Relation(e.command)}
                           /\ Relation(e.command) \notin related
                           /\ ApplicationStands(e)'

LEMMA OwnerMoves ==
    ASSUME OwnerTables, ChainGrows, NEW e \in AnatomyEvent, NEW new \in Owner, OwnerMovesTo(e, new)
    PROVE  OwnerTables'
  <1>1. PICK n : n = RowRevision(owner)
    OBVIOUS
  <1>2. n \in Nat
    <2>1. OwnerRevisions \in Nat
      BY AnatomyAssumption
    <2>2. owner \in Owner \cup {None}
      BY DEF OwnerTables
    <2> QED BY <1>1, <2>1, <2>2, OwnerFits DEF RowRevision
  <1>3. /\ owner' = new /\ anatomyEvents' = anatomyEvents \cup {e}
        /\ e \notin anatomyEvents /\ e.expected = n /\ new.revision = n + 1 /\ new # None
    BY <1>1, OwnerFits DEF OwnerMovesTo
  <1>4. RowRevision(owner') = n + 1
    BY <1>3 DEF RowRevision
  <1>5. IsFiniteSet(anatomyEvents') /\ Cardinality(anatomyEvents') = n + 1
    BY <1>1, <1>3, FS_AddElement DEF OwnerTables
  <1>6. {f.expected : f \in anatomyEvents'} = 0..((n + 1) - 1)
    <2>1. {f.expected : f \in anatomyEvents'} = {f.expected : f \in anatomyEvents} \cup {n}
      BY <1>3
    <2>2. {f.expected : f \in anatomyEvents} = 0..(n - 1)
      BY <1>1 DEF OwnerTables
    <2>3. (n + 1) - 1 = n /\ (0..(n - 1)) \cup {n} = 0..n
      BY <1>2
    <2> QED BY <2>1, <2>2, <2>3
  <1>7. \A f \in anatomyEvents' : f.expected = 0 <=> f.command = None
    BY <1>3 DEF OwnerTables, OwnerMovesTo
  <1>8. Applications' = IF e.command = None THEN Applications ELSE Applications \cup {e}
    BY <1>3 DEF Applications
  <1>9. \A f \in Applications : ApplicationStands(f)'
    BY ApplicationFits, ApplicationStandsStill DEF OwnerTables
  <1>10. \A f \in Applications' : ApplicationStands(f)'
    BY <1>8, <1>9 DEF OwnerMovesTo
  <1>11. related' = {Relation(f.command) : f \in Applications'}
    <2>1. related = {Relation(f.command) : f \in Applications}
      BY DEF OwnerTables
    <2>2. CASE e.command = None
      BY <1>8, <2>1, <2>2 DEF OwnerMovesTo
    <2>3. CASE e.command # None
      BY <1>8, <2>1, <2>3 DEF OwnerMovesTo
    <2> QED BY <2>2, <2>3
  <1>12. \A f, g \in Applications' : Relation(f.command) = Relation(g.command) => f = g
    <2>1. \A f \in Applications : Relation(f.command) \in related
      BY DEF OwnerTables
    <2>2. \A f, g \in Applications : Relation(f.command) = Relation(g.command) => f = g
      BY DEF OwnerTables
    <2> QED BY <1>8, <2>1, <2>2 DEF OwnerMovesTo
  <1>13. anatomyEvents' \subseteq AnatomyEvent
    BY <1>3 DEF OwnerTables
  <1>14. represented' \subseteq {Source[m] : m \in Mappings}
    BY DEF OwnerMovesTo
  <1>15. RowRevision(owner)' = n + 1
    BY <1>4 DEF RowRevision
  <1> QED BY <1>3, <1>5, <1>6, <1>7, <1>10, <1>11, <1>12, <1>13, <1>14, <1>15 DEF OwnerTables

LEMMA ImportKeeps ==
    ASSUME AnatomyInv, NEW m \in AnatomyRequests, ImportDossier(m)
    PROVE  ChainGrows /\ AnatomyInv' /\ AnatomyAnswered'
  <1>1. PICK e : e = [key |-> m.key, command |-> None, authorization |-> None, expected |-> 0]
    OBVIOUS
  <1>2. PICK new : new = [revision |-> 1, objects |-> m.objects]
    OBVIOUS
  <1>3. /\ m.op = "import" /\ owner = None /\ AnatomyEventOf(m.key) = {}
        /\ owner' = new /\ anatomyEvents' = anatomyEvents \cup {e} /\ Answers(m, None)
        /\ UNCHANGED <<verdict, mapped, mappingReviews, written, authorizations>>
        /\ UNCHANGED <<represented, related, call>>
    BY <1>1, <1>2 DEF ImportDossier, OwnerOnly, chainVars
  <1>4. /\ e.key = m.key /\ e.command = None /\ e.expected = 0 /\ new.revision = 1
    BY <1>1, <1>2
  <1>5. e \in AnatomyEvent /\ new \in Owner
    <2>1. OwnerRevisions \in Nat \ {0}
      BY AnatomyAssumption
    <2>2. 0 \in 0..OwnerRevisions /\ 1 \in 1..OwnerRevisions
      BY <2>1
    <2> QED BY <1>1, <1>2, <1>3, <2>2, AnatomyAskedFits DEF AnatomyEvent, Owner
  <1>6. ChainGrows
    BY <1>3 DEF ChainGrows
  <1>7. RowRevision(owner) = 0
    BY <1>3 DEF RowRevision
  <1>8. e \notin anatomyEvents
    BY <1>3, <1>4 DEF AnatomyEventOf
  <1>9. OwnerMovesTo(e, new)
    BY <1>3, <1>4, <1>7, <1>8 DEF OwnerMovesTo, AnatomyInv, OwnerTables
  <1>10. OwnerTables'
    BY <1>5, <1>6, <1>9, OwnerMoves DEF AnatomyInv
  <1>11. MappingTables' /\ CommandTables' /\ AnatomyCalls'
    BY <1>3, <1>6, MappingTablesStay, CommandTablesStay, AnatomyCallsWait DEF AnatomyInv
  <1>12. AnatomyOnRecord(m, None)'
    BY <1>3, <1>4 DEF AnatomyOnRecord, AnatomyEventOf
  <1> QED BY <1>3, <1>6, <1>10, <1>11, <1>12, AnatomyIsAnswered DEF AnatomyInv

LEMMA ReplayImportKeeps ==
    ASSUME AnatomyInv, NEW m \in AnatomyRequests, ReplayImport(m)
    PROVE  ChainGrows /\ AnatomyInv' /\ AnatomyAnswered'
  <1>1. AnatomyOnRecord(m, None)
    BY DEF ReplayImport, AnatomyOnRecord
  <1>2. Answers(m, None) /\ UNCHANGED call /\ UNCHANGED anatomyVars
    BY DEF ReplayImport, OwnerOnly, anatomyVars
  <1> QED BY <1>1, <1>2, AnatomyReplayKeeps

\* What a call that applies a command holds.
LEMMA AuthorizedCallFits ==
    ASSUME AnatomyInv, NEW c \in Calls, Step(c, "authorized")
    PROVE  /\ call[c].command \in AnatomyRequests /\ call[c].command.op = "apply_match"
           /\ call[c].command.command \in CommandIds /\ call[c].command.key \in Keys
           /\ written[call[c].command.command] # None
           /\ AuthorizedBy(call[c].command.command, call[c].authorization)
  <1>1. PICK q : q = call[c]
    OBVIOUS
  <1>2. q.pc = "authorized" /\ AnatomyCallFits(q) /\ AnatomyCallStands(q)
    BY <1>1, AnatomyCallOf DEF Step, AnatomyInv
  <1>3. q.command \in AnatomyRequests /\ q.command.op = "apply_match"
    BY <1>2 DEF AnatomyCallFits
  <1>4. q.command.command \in CommandIds /\ q.command.key \in Keys
    BY <1>3, AnatomyAskedFits
  <1>5. written[q.command.command] # None /\ AuthorizedBy(q.command.command, q.authorization)
    BY <1>2 DEF AnatomyCallStands
  <1> QED BY <1>1, <1>3, <1>4, <1>5

LEMMA ReplayApplicationKeeps ==
    ASSUME AnatomyInv, NEW c \in Calls, ReplayApplication(c)
    PROVE  ChainGrows /\ AnatomyInv' /\ AnatomyAnswered'
  <1>1. PICK m : m = call[c].command
    OBVIOUS
  <1>2. m \in AnatomyRequests /\ m.op = "apply_match"
    BY <1>1, AuthorizedCallFits DEF ReplayApplication
  <1>3. PICK v : v = call[c].authorization
    OBVIOUS
  <1>4. AnatomyOnRecord(m, v)
    BY <1>1, <1>2, <1>3 DEF ReplayApplication, AnatomyOnRecord
  <1>5. Answers(m, v) /\ End(c) /\ UNCHANGED anatomyVars
    BY <1>1, <1>3 DEF ReplayApplication, anatomyVars
  <1> QED BY <1>2, <1>4, <1>5, AnatomyReplayKeeps

LEMMA ApplyMatchKeeps ==
    ASSUME AnatomyInv, NEW c \in Calls, ApplyMatch(c)
    PROVE  ChainGrows /\ AnatomyInv' /\ AnatomyAnswered'
  <1>1. PICK m : m = call[c].command
    OBVIOUS
  <1>2. PICK id : id = m.command
    OBVIOUS
  <1>3. PICK by : by = call[c].authorization
    OBVIOUS
  <1>4. /\ m \in AnatomyRequests /\ m.op = "apply_match" /\ id \in CommandIds /\ m.key \in Keys
        /\ written[id] # None /\ AuthorizedBy(id, by)
    BY <1>1, <1>2, <1>3, AuthorizedCallFits DEF ApplyMatch
  <1>5. PICK n : n = owner.revision
    OBVIOUS
  <1>6. PICK new : new = [revision |-> n + 1, objects |-> owner.objects]
    OBVIOUS
  <1>7. PICK e : e = [key |-> m.key, command |-> id, authorization |-> by, expected |-> n]
    OBVIOUS
  <1>8. /\ \A f \in anatomyEvents : f.command # id
        /\ owner # None /\ n = written[id].expected /\ n < OwnerRevisions
        /\ Relation(id) \notin related
        /\ owner' = IF Autocommit THEN new ELSE owner
        /\ represented' = IF Autocommit THEN represented \cup {Source[id[1]]} ELSE represented
        /\ related' = IF Autocommit THEN related \cup {Relation(id)} ELSE related
        /\ anatomyEvents' = IF Autocommit THEN anatomyEvents \cup {e} ELSE anatomyEvents
        /\ Answers(m, by) /\ call' = [call EXCEPT ![c] = Idle]
        /\ UNCHANGED <<verdict, mapped, mappingReviews, written, authorizations>>
    BY <1>1, <1>2, <1>3, <1>5, <1>6, <1>7
       DEF ApplyMatch, Fresh, Storable, Keeps, End, chainVars
  <1>9. /\ e.key = m.key /\ e.command = id /\ e.authorization = by /\ e.expected = n
        /\ new.revision = n + 1
    BY <1>6, <1>7
  <1>10. ChainGrows
    BY <1>8 DEF ChainGrows
  <1>11. MappingTables' /\ CommandTables' /\ AnatomyCalls'
    BY <1>8, <1>10, MappingTablesStay, CommandTablesStay, AnatomyCallMoves DEF AnatomyInv
  <1>12. n \in 1..OwnerRevisions /\ owner.objects \in SUBSET Objects /\ OwnerRevisions \in Nat
    BY <1>5, <1>8, OwnerFits, AnatomyAssumption DEF AnatomyInv, OwnerTables
  <1>13. OwnerTables'
    <2>1. CASE ~Autocommit
      <3>1. UNCHANGED ownerVars
        BY <1>8, <2>1 DEF ownerVars
      <3> QED BY <1>10, <3>1, OwnerTablesStay DEF AnatomyInv
    <2>2. CASE Autocommit
      <3>1. new \in Owner
        <4>1. n + 1 \in 1..OwnerRevisions
          BY <1>8, <1>12
        <4> QED BY <1>6, <1>12, <4>1 DEF Owner
      <3>2. by \in Keys
        BY <1>4 DEF AuthorizedBy, AuthorizationsOf, AnatomyInv, CommandTables, Authorization
      <3>3. e \in AnatomyEvent
        BY <1>4, <1>7, <1>12, <3>2 DEF AnatomyEvent
      <3>4. RowRevision(owner) = n /\ n # 0
        BY <1>5, <1>8, <1>12 DEF RowRevision
      <3>5. id # None /\ id[1] \in Mappings
        BY <1>4, AnatomyAssumption DEF CommandIds
      <3>6. e \notin anatomyEvents
        BY <1>8, <1>9
      <3>7. ApplicationStands(e)'
        <4>1. AuthorizedBy(id, by)'
          BY <1>4, <1>10, AuthorizationStays
        <4>2. written'[id] # None /\ written'[id].expected = n /\ Source[id[1]] \in represented'
          BY <1>4, <1>8, <2>2
        <4> QED BY <1>9, <4>1, <4>2 DEF ApplicationStands
      <3>8. represented' \subseteq {Source[s] : s \in Mappings}
        BY <1>8, <2>2, <3>5 DEF AnatomyInv, OwnerTables
      <3>9. OwnerMovesTo(e, new)
        BY <1>8, <1>9, <2>2, <3>4, <3>5, <3>6, <3>7, <3>8 DEF OwnerMovesTo
      <3> QED BY <1>10, <3>1, <3>3, <3>9, OwnerMoves DEF AnatomyInv
    <2> QED BY <2>1, <2>2, AnatomyAssumption
  <1>14. Autocommit => AnatomyOnRecord(m, by)'
    BY <1>2, <1>4, <1>8, <1>9 DEF AnatomyOnRecord, AnatomyEventOf
  <1> QED BY <1>4, <1>8, <1>10, <1>11, <1>13, <1>14, AnatomyIsAnswered DEF AnatomyInv

LEMMA AnatomyStepKeeps ==
    ASSUME AnatomyInv, AnatomyAnswered, [AnatomyNext]_<<anatomyVars, requestVars>>
    PROVE  AnatomyInv' /\ AnatomyAnswered'
  <1>1. CASE UNCHANGED <<anatomyVars, requestVars>>
    <2>1. UNCHANGED anatomyVars /\ UNCHANGED call /\ UNCHANGED answer
      BY <1>1 DEF requestVars
    <2> QED BY <2>1, NoActIsAdded, AnatomyCallsWait, AnatomyIsQuiet DEF AnatomyInv
  <1>2. ASSUME NEW m \in AnatomyRequests,
               Dispose(m) \/ ReviewMapping(m) \/ ImportDossier(m) \/ ReplayImport(m)
        PROVE  AnatomyInv' /\ AnatomyAnswered'
    BY <1>2, DisposeKeeps, ReviewMappingKeeps, ImportKeeps, ReplayImportKeeps
  <1>3. ASSUME NEW c \in Calls, NEW m \in AnatomyRequests,
               ReadQualification(c, m) \/ ReadReview(c, m) \/ ReadCommand(c, m) \/ ReadChain(c, m)
        PROVE  AnatomyInv' /\ AnatomyAnswered'
    BY <1>3, ReadQualificationKeeps, ReadReviewKeeps, ReadCommandKeeps, ReadChainKeeps
  <1>4. ASSUME NEW c \in Calls, Convert(c) \/ ReadOwner(c) \/ Prepare(c) \/ Authorize(c)
        PROVE  AnatomyInv' /\ AnatomyAnswered'
    BY <1>4, ConvertKeeps, ReadOwnerKeeps, PrepareKeeps, AuthorizeKeeps
  <1>5. ASSUME NEW c \in Calls, NEW a \in authorizations, ReadAuthorization(c, a)
        PROVE  AnatomyInv' /\ AnatomyAnswered'
    BY <1>5, ReadAuthorizationKeeps
  <1>6. ASSUME NEW c \in Calls, ApplyMatch(c) \/ ReplayApplication(c) \/ RefuseAnatomy(c)
        PROVE  AnatomyInv' /\ AnatomyAnswered'
    BY <1>6, ApplyMatchKeeps, ReplayApplicationKeeps, RefuseAnatomyKeeps
  <1> QED BY <1>1, <1>2, <1>3, <1>4, <1>5, <1>6 DEF AnatomyNext

LEMMA AnatomyInvariant == AnatomySpec => [](AnatomyInv /\ AnatomyAnswered)
  <1>1. AnatomyInit /\ RequestsInit => AnatomyInv /\ AnatomyAnswered
    <2> SUFFICES ASSUME AnatomyInit, RequestsInit PROVE AnatomyInv /\ AnatomyAnswered
      OBVIOUS
    <2>1. MappingTables
      <3>1. mappingReviews \in Seq(MappingReview) /\ DOMAIN mappingReviews = {}
        BY DEF AnatomyInit
      <3> QED BY <3>1 DEF AnatomyInit, MappingTables
    <2>2. CommandTables
      BY FS_EmptySet DEF AnatomyInit, CommandTables
    <2>3. OwnerTables
      <3>1. /\ owner = None /\ represented = {} /\ related = {} /\ anatomyEvents = {}
            /\ Applications = {} /\ RowRevision(owner) = 0
        BY DEF AnatomyInit, Applications, RowRevision
      <3>2. IsFiniteSet(anatomyEvents) /\ Cardinality(anatomyEvents) = 0
        BY <3>1, FS_EmptySet
      <3>3. {e.expected : e \in anatomyEvents} = 0..(0 - 1)
        BY <3>1
      <3> QED BY <3>1, <3>2, <3>3 DEF OwnerTables
    <2>4. DOMAIN call = Calls /\ (\A c \in Calls : call[c] = Idle) /\ answer = None
      BY DEF RequestsInit
    <2> QED BY <2>1, <2>2, <2>3, <2>4 DEF AnatomyInv, AnatomyCalls, AnatomyAnswered
  <1>2. AnatomyInv /\ AnatomyAnswered /\ [AnatomyNext]_<<anatomyVars, requestVars>>
        => AnatomyInv' /\ AnatomyAnswered'
    BY AnatomyStepKeeps
  <1> QED BY <1>1, <1>2, PTL DEF AnatomySpec

\* AnatomyIsAuthorized holds of every behaviour: whatever is reviewed, prepared,
\* authorized and applied at the same time, what the anatomy holds follows from a
\* chain of human acts that is on record.
THEOREM AnatomyStaysAuthorized == AnatomySpec => AnatomyIsAuthorized
  <1>1. AnatomyInv => AnatomyTypeOK
    <2> SUFFICES ASSUME AnatomyInv PROVE AnatomyTypeOK
      OBVIOUS
    <2>1. \A j \in DOMAIN mappingReviews : mappingReviews[j] \in MappingReview
      BY DEF AnatomyInv, MappingTables
    <2>2. related \subseteq {Relation(id) : id \in CommandIds}
      BY ApplicationFits DEF AnatomyInv, OwnerTables
    <2> QED BY <2>1, <2>2 DEF AnatomyTypeOK, AnatomyInv, MappingTables, CommandTables, OwnerTables
  <1>2. AnatomyInv => AppliedAsAuthorized
    <2> SUFFICES ASSUME AnatomyInv PROVE AppliedAsAuthorized
      OBVIOUS
    <2>1. {e.expected : e \in anatomyEvents} =
             IF owner = None THEN {} ELSE 0..(owner.revision - 1)
      <3>1. {e.expected : e \in anatomyEvents} = 0..(RowRevision(owner) - 1)
        BY DEF AnatomyInv, OwnerTables
      <3>2. 0..(0 - 1) = {}
        OBVIOUS
      <3> QED BY <3>1, <3>2 DEF RowRevision
    <2>2. owner # None => Cardinality(anatomyEvents) = owner.revision
      BY DEF AnatomyInv, OwnerTables, RowRevision
    <2>3. \A e \in anatomyEvents : e.expected = 0 <=> e.command = None
      BY DEF AnatomyInv, OwnerTables
    <2>4. /\ related = {Relation(e.command) : e \in Applications}
          /\ \A e, f \in Applications : Relation(e.command) = Relation(f.command) => e = f
      BY DEF AnatomyInv, OwnerTables
    <2>5. ASSUME NEW e \in Applications
          PROVE  LET id == e.command IN
                 /\ written[id].expected = e.expected
                 /\ \E j \in ReviewsOf(id[1]) :
                       /\ mappingReviews[j].key = id[2]
                       /\ mappingReviews[j].target = written[id].target
                 /\ \E a \in AuthorizationsOf(id) :
                       a.key = e.authorization /\ a.action = "authorize_application"
                 /\ written[id].target \in Offers[id[1]]
                 /\ Source[id[1]] \in represented
      <3>1. PICK id : id = e.command
        OBVIOUS
      <3>2. id \in CommandIds /\ ApplicationStands(e)
        BY <3>1, ApplicationFits DEF AnatomyInv, OwnerTables
      <3>3. Selection(id, written[id].target)
        BY <3>1, <3>2 DEF ApplicationStands, AnatomyInv, CommandTables
      <3> QED BY <3>1, <3>2, <3>3 DEF ApplicationStands, Selection, AuthorizedBy
    <2> QED BY <2>1, <2>2, <2>3, <2>4, <2>5 DEF AppliedAsAuthorized
  <1>3. AnatomyAnswered => (Autocommit => ActsAreOnRecord)
    BY DEF AnatomyAnswered, ActsAreOnRecord
  <1>4. AnatomySpec => [](AnatomyInv /\ AnatomyAnswered)
    BY AnatomyInvariant
  <1> QED BY <1>1, <1>2, <1>3, <1>4, PTL DEF AnatomyIsAuthorized

=============================================================================
