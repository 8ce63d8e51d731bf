------------------------------ MODULE Information ------------------------------
(***************************************************************************)
(* The Information cards of a Project (agency_information.py): a series of *)
(* versions, of which one may be worked on and one is acted, and the       *)
(* projection of a card (information_projection.py): its metadata, its     *)
(* links to Documents, and the ledger of their changes.                    *)
(*                                                                         *)
(* The operations on cards hold the rows they read and are one step each.  *)
(* A change of the projection reads the revision in one step and writes in *)
(* another: it locks the metadata row, which is only there after the first *)
(* change.                                                                 *)
(***************************************************************************)
EXTENDS Requests

CONSTANTS
    Cards,       \* information_id values
    Documents,   \* documents of the Project
    Texts,       \* the content of a card
    CardRevisions, \* bound on the revisions of a card
    MaxProjection \* bound on the revision of a projection

VARIABLES
    card,      \* card[i]: the agency_information_cards row, or None
    metadata,  \* metadata[i]: agency_information_projection_metadata, or None
    link,      \* link[i][d]: role of the link, or None
    projectionEvents \* agency_information_projection_events, as committed

cardVars == <<card>>
projectionVars == <<metadata, link, projectionEvents>>

Working == {"draft", "in_progress"}
CardStatuses == Working \cup {"acted", "superseded"}
LinkRoles == {"primary", "supporting", "attachment"}

CardRow == [series : Cards, text : Texts, status : CardStatuses, revision : 1..CardRevisions,
            base : Cards \cup {None}]

\* The column default of what an author may set.
Default == CHOOSE t \in Texts : TRUE

Metadata == [text : Texts, revision : 1..MaxProjection]

ProjectionCommand ==
         [op : {"update_projection_metadata"}, key : Keys, card : Cards, text : Texts]
    \cup [op : {"add_document_link"}, key : Keys, card : Cards, document : Documents,
          role : LinkRoles]
    \cup [op : {"remove_document_link"}, key : Keys, card : Cards, document : Documents]

EventTypes == {"projection_metadata_updated", "document_link_added", "document_link_updated",
               "document_link_removed"}

ASSUME InformationAssumption ==
    /\ CardRevisions \in Nat \ {0} /\ MaxProjection \in Nat
    /\ None \notin Cards /\ None \notin CardRow /\ None \notin LinkRoles

-----------------------------------------------------------------------------
(* Cards.                                                                  *)

In(i, S) == IF card[i] = None THEN FALSE ELSE card[i].status \in S

\* The rows of the series of i, with a status in S.
SeriesOf(i, S) == {j \in Cards : In(j, S) /\ card[j].series = card[i].series}

NewVersion(series, text, status, base) ==
    [series |-> series, text |-> text, status |-> status, revision |-> 1, base |-> base]

\* An update of a row, whose revision goes up.
Updated(row, text, status) ==
    [series |-> row.series, text |-> text, status |-> status, revision |-> row.revision + 1,
     base |-> row.base]

CardsOnly == UNCHANGED <<projectionVars, call, answer>>

CreateCard(i, text, status) ==
    /\ card[i] = None
    /\ status \in Working
    /\ \A j \in Cards : card[j] # None => card[j].series # i
    /\ card' = [card EXCEPT ![i] = NewVersion(i, text, status, None)]
    /\ CardsOnly

\* The acted row is locked; one_working_version refuses a second draft.
Derivable(a) == In(a, {"acted"}) /\ SeriesOf(a, Working) = {}

DeriveCard(a, i) ==
    /\ Derivable(a)
    /\ card[i] = None
    /\ card' = [card EXCEPT ![i] = NewVersion(card[a].series, card[a].text, "draft", a)]
    /\ CardsOnly

\* The row is locked, is a working version, and has the revision that was read.
Editable(i, v) == In(i, Working) /\ card[i].revision = v

EditCard(i, v, text, status) ==
    /\ Editable(i, v)
    /\ status \in Working
    /\ v < CardRevisions
    /\ card' = [card EXCEPT ![i] = Updated(@, text, status)]
    /\ CardsOnly

\* The acted version of the series is superseded first.
ActCard(i, v) ==
    /\ In(i, Working) /\ card[i].revision = v
    /\ \A j \in SeriesOf(i, {"acted"}) \cup {i} : card[j].revision < CardRevisions
    /\ card' = [j \in Cards |->
          IF j = i THEN Updated(card[j], card[j].text, "acted")
          ELSE IF j \in SeriesOf(i, {"acted"})
          THEN Updated(card[j], card[j].text, "superseded")
          ELSE card[j]]
    /\ CardsOnly

-----------------------------------------------------------------------------
(* The projection of a card.                                               *)

RevisionOf(i) == IF metadata[i] = None THEN 0 ELSE metadata[i].revision

\* A metadata row that a call holds: FOR UPDATE found it.
MetadataHeld(i) ==
    \E c \in Calls : Step(c, "projecting") /\ call[c].command.card = i /\ call[c].locked

ProjectionEventOf(k) ==
    {j \in DOMAIN projectionEvents : projectionEvents[j].command.key = k}

\* Contents are compared, the expected revision is not.
ReplayProjection(m) ==
    /\ m \in ProjectionCommand
    /\ \E j \in ProjectionEventOf(m.key) : projectionEvents[j].command = m
    /\ Answers(m, None)
    /\ UNCHANGED <<cardVars, projectionVars, call>>

ReadMetadata(c, m, v) ==
    /\ m \in ProjectionCommand
    /\ card[m.card] # None
    /\ ProjectionEventOf(m.key) = {}
    /\ ~MetadataHeld(m.card)
    /\ RevisionOf(m.card) = v
    /\ Begin(c, [pc |-> "projecting", command |-> m, expected |-> v,
                 locked |-> metadata[m.card] # None,
                 linked |-> m.op # "update_projection_metadata" /\ link[m.card][m.document] # None])
    /\ UNCHANGED <<cardVars, projectionVars, answer>>

\* Seeded fault: whether the link is there was read before the upsert.
ExistedWhenRead(c) == call[c].linked

\* The statement that writes the link tells whether it was there (xmax).
Existed(c) == link[call[c].command.card][call[c].command.document] # None

EffectOf(c) ==
    LET op == call[c].command.op IN
    CASE op = "update_projection_metadata" -> "projection_metadata_updated"
      [] op = "remove_document_link" -> "document_link_removed"
      [] OTHER -> IF Existed(c) THEN "document_link_updated" ELSE "document_link_added"

\* The metadata row is inserted or overwritten: ON CONFLICT DO UPDATE.
WriteProjection(c) ==
    LET m == call[c].command
        v == call[c].expected
        text == IF m.op = "update_projection_metadata" THEN m.text
                ELSE IF metadata[m.card] # None THEN metadata[m.card].text
                ELSE Default
    IN
    /\ Step(c, "projecting")
    /\ v < MaxProjection
    /\ ProjectionEventOf(m.key) = {}
    /\ ~MetadataHeld(m.card) \/ call[c].locked
    /\ m.op = "remove_document_link" => Existed(c)
    /\ metadata' = [metadata EXCEPT ![m.card] = [text |-> text, revision |-> v + 1]]
    /\ CASE m.op = "add_document_link" ->
               link' = [link EXCEPT ![m.card][m.document] = m.role]
         [] m.op = "remove_document_link" ->
               link' = [link EXCEPT ![m.card][m.document] = None]
         [] OTHER -> UNCHANGED link
    /\ projectionEvents' = Append(projectionEvents,
          [command |-> m, type |-> EffectOf(c), expected |-> v])
    /\ Answers(m, v)
    /\ End(c)
    /\ UNCHANGED cardVars

RefuseProjection(c) ==
    /\ Step(c, "projecting")
    /\ Refused(c)
    /\ UNCHANGED <<cardVars, projectionVars>>

InformationInit ==
    /\ card = [i \in Cards |-> None]
    /\ metadata = [i \in Cards |-> None]
    /\ link = [i \in Cards |-> [d \in Documents |-> None]]
    /\ projectionEvents = <<>>

CardNext ==
    \/ \E i \in Cards, text \in Texts, status \in Working :
          CreateCard(i, text, status) \/ \E v \in 1..CardRevisions : EditCard(i, v, text, status)
    \/ \E i, a \in Cards : DeriveCard(a, i)
    \/ \E i \in Cards, v \in 1..CardRevisions : ActCard(i, v)

ProjectionNext ==
    \/ \E m \in Commands : ReplayProjection(m)
    \/ \E c \in Calls, m \in Commands, v \in 0..MaxProjection : ReadMetadata(c, m, v)
    \/ \E c \in Calls : WriteProjection(c) \/ RefuseProjection(c)

InformationSpec ==
    /\ InformationInit /\ RequestsInit
    /\ [][CardNext \/ ProjectionNext]_<<cardVars, projectionVars, requestVars>>

-----------------------------------------------------------------------------
(* Properties.                                                             *)

\* Every row has the shape of its table.
InformationTypeOK ==
    /\ card \in [Cards -> CardRow \cup {None}]
    /\ metadata \in [Cards -> Metadata \cup {None}]
    /\ link \in [Cards -> [Documents -> LinkRoles \cup {None}]]
    /\ \A j \in DOMAIN projectionEvents : projectionEvents[j].type \in EventTypes

\* Of a series at most one version is worked on and one is acted; a version that
\* is worked on comes from one that was acted, and the only one that never was
\* is the first.
SeriesAreSingle ==
    \A i \in Cards : card[i] # None =>
       /\ Cardinality(SeriesOf(i, Working)) <= 1
       /\ Cardinality(SeriesOf(i, {"acted"})) <= 1
       /\ IF card[i].base = None THEN card[i].series = i
          ELSE In(card[i].base, {"acted", "superseded"})

\* What was acted stays as it was acted: from then on a version can only be
\* superseded, once, by the acting of a later version of the series.
ActedIsImmutable ==
    [][\A i \in Cards : In(i, {"acted", "superseded"}) =>
          \/ card'[i] = card[i]
          \/ /\ card[i].status = "acted"
             /\ card'[i] = Updated(card[i], card[i].text, "superseded")
             /\ \E j \in Cards : /\ In(j, Working) /\ card[j].series = card[i].series
                                 /\ card'[j].status = "acted"]_card

\* The events about card i and document d, in order.
LinkEvents(i, d) ==
    {j \in DOMAIN projectionEvents :
        LET e == projectionEvents[j] IN
        /\ e.type # "projection_metadata_updated"
        /\ e.command.card = i /\ e.command.document = d}

\* The history of a link is true: it is said to be added when it was not there,
\* to be updated or removed when it was (the comment in add_document_link), also
\* when two requests link the same document, and its end is the link itself.
LinkHistoryIsTrue ==
    \A i \in Cards, d \in Documents :
       LET events == LinkEvents(i, d)
           Before(j) == {k \in events : k < j}
           There(j) == /\ Before(j) # {}
                       /\ projectionEvents[CHOOSE k \in Before(j) : \A l \in Before(j) : l <= k].type
                             # "document_link_removed"
       IN  /\ \A j \in events :
                 There(j) <=> projectionEvents[j].type # "document_link_added"
           /\ There(Len(projectionEvents) + 1) <=> link[i][d] # None

\* Cards and projections have the shape of their tables, a series has one version
\* that is worked on and one that is effective (SeriesAreSingle), the history of the
\* links tells what happened to them (LinkHistoryIsTrue), and an acted card stays as
\* it was acted until the next version supersedes it (ActedIsImmutable).
CardsAreSound ==
    [](InformationTypeOK /\ SeriesAreSingle /\ LinkHistoryIsTrue) /\ ActedIsImmutable

\* A change of the projection is made only to the revision that its author has
\* read (test_stale_and_hermes_writes_are_refused): no revision is left twice.
StaleWritesAreRefused ==
    \A i \in Cards : \A j, k \in DOMAIN projectionEvents :
       /\ projectionEvents[j].command.card = i /\ projectionEvents[k].command.card = i
       /\ projectionEvents[j].expected = projectionEvents[k].expected
       => j = k

=============================================================================
