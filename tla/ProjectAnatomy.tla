---------------------------- MODULE ProjectAnatomy ----------------------------
(***************************************************************************)
(* The anatomy of a Project (apu_owner.py) and the chain of human acts by  *)
(* which a source representation is matched to one of its objects: an      *)
(* accepted qualification is converted into mappings                       *)
(* (apu_mapping_converter.py), a human reviews a mapping                   *)
(* (apu_mapping_reviews.py), prepares a write command, authorizes it and   *)
(* applies it (apu_write_preparation.py).                                  *)
(*                                                                         *)
(* Every operation but the import of the dossier reads what it depends on, *)
(* without a lock, before its transaction block, so that only connections  *)
(* in autocommit mode keep what it writes, and the application alone looks *)
(* again, under the lock of the owner state, at its revision.              *)
(***************************************************************************)
EXTENDS Requests

CONSTANTS
    Objects,       \* stable objects that the dossier may hold
    Mappings,      \* mappings that a conversion may return
    Offers,        \* Offers[m]: objects among the match candidates of mapping m
    Source,        \* Source[m]: the representation of m, with its content
    Bundled,       \* mappings of an observation bundle, which carry their relation
    OwnerRevisions \* bound on the owner revision

VARIABLES
    verdict,        \* the last disposition of the qualification
    mapped,         \* mappings whose execution result is stored
    mappingReviews, \* apu_mapping_review_events, by occurred_at
    written,        \* apu_write_command_candidates, by command_id
    authorizations, \* apu_write_authorization_events
    owner,          \* agency_apu_project_state, or None
    represented,    \* agency_apu_source_representations and their contents
    related,        \* claim_id of the identity relations applied
    anatomyEvents   \* agency_apu_events

chainVars == <<verdict, mapped, mappingReviews, written, authorizations>>
ownerVars == <<owner, represented, related, anatomyEvents>>
anatomyVars == <<chainVars, ownerVars>>

Verdicts == {"accepted_for_mapping", "rejected"}

ReviewActions == {"select_existing_object", "mark_unmatched"}

AuthorizationActions == {"authorize_application", "reject_application"}

\* command_id follows from the mapping and the review, review_id from its key.
CommandIds == Mappings \X Keys

AnatomyCommand ==
         [op : {"dispose"}, key : Keys, verdict : Verdicts]
    \cup [op : {"convert"}, key : Keys]
    \cup [op : {"import"}, key : Keys, objects : SUBSET Objects]
    \cup [op : {"review_mapping"}, key : Keys, mapping : Mappings, action : ReviewActions,
          target : Objects \cup {None}]
    \cup [op : {"prepare"}, key : Keys, mapping : Mappings]
    \cup [op : {"authorize"}, key : Keys, command : CommandIds, action : AuthorizationActions]
    \cup [op : {"apply_match"}, key : Keys, command : CommandIds]

MappingReview == [key : Keys, mapping : Mappings, action : ReviewActions,
                  target : Objects \cup {None}]

WriteCommand == [key : Keys, target : Objects, expected : 1..OwnerRevisions]

Authorization == [key : Keys, command : CommandIds, action : AuthorizationActions, at : Nat]

Owner == [revision : 1..OwnerRevisions, objects : SUBSET Objects]

AnatomyEvent == [key : Keys, command : CommandIds \cup {None},
                 authorization : Keys \cup {None}, expected : 0..OwnerRevisions]

\* The commands among those of the instance that are about the anatomy.
AnatomyRequests == {m \in Commands : m.op \in
    {"dispose", "convert", "import", "review_mapping", "prepare", "authorize", "apply_match"}}

\* Handlers are not without number, and None is no row.
ASSUME AnatomyAssumption ==
    /\ OwnerRevisions \in Nat \ {0}
    /\ Autocommit \in BOOLEAN
    /\ IsFiniteSet(Calls)
    /\ AnatomyRequests \subseteq AnatomyCommand
    /\ \A m \in Mappings : Offers[m] \subseteq Objects
    /\ None \notin CommandIds /\ None \notin WriteCommand /\ None \notin Owner

AnatomySteps == {"converting", "reviewed", "preparing", "authorizing", "chained", "authorized"}

OwnerOnly == UNCHANGED <<chainVars, call>>

-----------------------------------------------------------------------------
(* The mapping.                                                            *)

\* append_review_disposition, as ExecutionReview has it.
Dispose(m) ==
    /\ m.op = "dispose"
    /\ verdict' = m.verdict
    /\ Answers(m, None)
    /\ UNCHANGED <<mapped, mappingReviews, written, authorizations, ownerVars, call>>

ReadQualification(c, m) ==
    /\ m.op = "convert"
    /\ verdict = "accepted_for_mapping"
    /\ Begin(c, [pc |-> "converting", command |-> m])
    /\ UNCHANGED <<anatomyVars, answer>>

\* The result has a deterministic identifier: it is stored, or is there already.
Convert(c) ==
    /\ Step(c, "converting")
    /\ Keeps(mapped, Mappings)
    /\ Answers(call[c].command, None)
    /\ End(c)
    /\ UNCHANGED <<verdict, mappingReviews, written, authorizations, ownerVars>>

\* A selection names one of the match candidates.  occurred_at is the time of
\* the insertion.
ReviewMapping(m) ==
    /\ m.op = "review_mapping"
    /\ m.mapping \in mapped
    /\ IF m.action = "select_existing_object" THEN m.target \in Offers[m.mapping]
       ELSE m.target = None
    /\ LET same == {j \in DOMAIN mappingReviews : mappingReviews[j].key = m.key}
           row == [key |-> m.key, mapping |-> m.mapping, action |-> m.action,
                   target |-> m.target]
       IN  IF same = {} THEN Keeps(mappingReviews, Append(mappingReviews, row))
           ELSE (\A j \in same : mappingReviews[j] = row) /\ UNCHANGED mappingReviews
    /\ Answers(m, None)
    /\ UNCHANGED <<verdict, mapped, written, authorizations, ownerVars, call>>

ReviewsOf(mapping) == {j \in DOMAIN mappingReviews : mappingReviews[j].mapping = mapping}

\* _latest_selected_review: the last review of the mapping, a selection.
LatestSelection(mapping, key) ==
    \E j \in ReviewsOf(mapping) :
       /\ \A k \in ReviewsOf(mapping) : k <= j
       /\ mappingReviews[j].key = key
       /\ mappingReviews[j].action = "select_existing_object"

-----------------------------------------------------------------------------
(* The write command.                                                      *)

ReviewOf(key) == CHOOSE j \in DOMAIN mappingReviews : mappingReviews[j].key = key

\* prepare_write_command reads the review, then the owner.
ReadReview(c, m) ==
    /\ m.op = "prepare"
    /\ m.mapping \in mapped
    /\ \E key \in Keys :
          /\ LatestSelection(m.mapping, key)
          /\ Begin(c, [pc |-> "reviewed", command |-> m, review |-> key,
                       target |-> mappingReviews[ReviewOf(key)].target])
    /\ UNCHANGED <<anatomyVars, answer>>

ReadOwner(c) ==
    /\ Step(c, "reviewed")
    /\ owner # None
    /\ call[c].target \in owner.objects
    /\ call' = [call EXCEPT ![c] =
          [pc |-> "preparing", id |-> <<@.command.mapping, @.review>>, command |-> @.command,
           row |-> [key |-> @.command.key, target |-> @.target, expected |-> owner.revision]]]
    /\ UNCHANGED <<anatomyVars, answer>>

\* The key is looked up first; another key for the same review meets the
\* primary key.
Prepare(c) ==
    LET id == call[c].id
        row == call[c].row
        same == {i \in CommandIds : written[i] # None /\ written[i].key = row.key}
    IN
    /\ Step(c, "preparing")
    /\ IF same = {}
       THEN written[id] = None /\ Keeps(written, [written EXCEPT ![id] = row])
       ELSE same = {id} /\ written[id] = row /\ UNCHANGED written
    /\ Answers(call[c].command, id)
    /\ End(c)
    /\ UNCHANGED <<verdict, mapped, mappingReviews, authorizations, ownerVars>>

\* Times of authorizations, of those in progress too: authorized_at is the time
\* at which the transaction began.
Stamps == {a.at : a \in authorizations}
          \cup {call[c].at : c \in {d \in Calls : Step(d, "authorizing")}}

ReadCommand(c, m) ==
    /\ m.op = "authorize"
    /\ written[m.command] # None
    /\ Begin(c, [pc |-> "authorizing", command |-> m, at |-> Cardinality(Stamps)])
    /\ UNCHANGED <<anatomyVars, answer>>

Authorize(c) ==
    LET m == call[c].command
        same == {a \in authorizations : a.key = m.key}
    IN
    /\ Step(c, "authorizing")
    /\ IF same = {}
       THEN Keeps(authorizations, authorizations \cup
               {[key |-> m.key, command |-> m.command, action |-> m.action, at |-> call[c].at]})
       ELSE /\ \A a \in same : a.command = m.command /\ a.action = m.action
            /\ UNCHANGED authorizations
    /\ Answers(m, None)
    /\ End(c)
    /\ UNCHANGED <<verdict, mapped, mappingReviews, written, ownerVars>>

AuthorizationsOf(id) == {a \in authorizations : a.command = id}

\* Seeded fault: the last authorization is taken whatever it says.
LatestOfAnyAction(id) ==
    {a \in AuthorizationsOf(id) : \A b \in AuthorizationsOf(id) : b.at <= a.at}

\* _latest_application_authorization
LatestAuthorization(id) ==
    {a \in AuthorizationsOf(id) : /\ a.action = "authorize_application"
                                  /\ \A b \in AuthorizationsOf(id) : b.at <= a.at}

-----------------------------------------------------------------------------
(* The owner.                                                              *)

AnatomyEventOf(key) == {e \in anatomyEvents : e.key = key}

\* store_reviewed_dossier, which opens its transaction first; no route calls it.
ImportDossier(m) ==
    /\ m.op = "import"
    /\ owner = None
    /\ AnatomyEventOf(m.key) = {}
    /\ owner' = [revision |-> 1, objects |-> m.objects]
    /\ anatomyEvents' = anatomyEvents \cup
          {[key |-> m.key, command |-> None, authorization |-> None, expected |-> 0]}
    /\ Answers(m, None)
    /\ UNCHANGED <<represented, related>>
    /\ OwnerOnly

ReplayImport(m) ==
    /\ m.op = "import"
    /\ \E e \in AnatomyEventOf(m.key) : e.command = None
    /\ owner.objects = m.objects
    /\ Answers(m, None)
    /\ UNCHANGED ownerVars
    /\ OwnerOnly

\* apply_authorized_write_command reads the review, then the authorization.
ReadChain(c, m) ==
    /\ m.op = "apply_match"
    /\ written[m.command] # None
    /\ LatestSelection(m.command[1], m.command[2])
    /\ Begin(c, [pc |-> "chained", command |-> m])
    /\ UNCHANGED <<anatomyVars, answer>>

ReadAuthorization(c, a) ==
    /\ Step(c, "chained")
    /\ a \in LatestAuthorization(call[c].command.command)
    /\ call' = [call EXCEPT ![c] =
          [pc |-> "authorized", command |-> @.command, authorization |-> a.key]]
    /\ UNCHANGED <<anatomyVars, answer>>

\* The relation comes with a bundle, and is made for the command otherwise.
Relation(id) == IF id[1] \in Bundled THEN id[1] ELSE id

Fresh(id) == IF owner = None THEN FALSE ELSE owner.revision = written[id].expected

\* A representation that is known has the same content; its relation is new.
Storable(id) ==
    /\ \A s \in represented : s.representation = Source[id[1]].representation => s = Source[id[1]]
    /\ Relation(id) \notin related

\* apply_source_match under the lock of the owner state.
ApplyMatch(c) ==
    LET m == call[c].command
        id == m.command
    IN
    /\ Step(c, "authorized")
    /\ AnatomyEventOf(m.key) = {}
    /\ \A e \in anatomyEvents : e.command # id
    /\ Fresh(id)
    /\ owner.revision < OwnerRevisions
    /\ written[id].target \in owner.objects
    /\ Storable(id)
    /\ Keeps(owner, [revision |-> owner.revision + 1, objects |-> owner.objects])
    /\ Keeps(represented, represented \cup {Source[id[1]]})
    /\ Keeps(related, related \cup {Relation(id)})
    /\ Keeps(anatomyEvents, anatomyEvents \cup
          {[key |-> m.key, command |-> id, authorization |-> call[c].authorization,
            expected |-> owner.revision]})
    /\ Answers(m, call[c].authorization)
    /\ End(c)
    /\ UNCHANGED chainVars

\* The digest of the event covers the authorization.
ReplayApplication(c) ==
    LET m == call[c].command IN
    /\ Step(c, "authorized")
    /\ \E e \in AnatomyEventOf(m.key) :
          e.command = m.command /\ e.authorization = call[c].authorization
    /\ Answers(m, call[c].authorization)
    /\ End(c)
    /\ UNCHANGED <<chainVars, ownerVars>>

RefuseAnatomy(c) ==
    /\ \E pc \in AnatomySteps : Step(c, pc)
    /\ Refused(c)
    /\ UNCHANGED anatomyVars

AnatomyInit ==
    /\ verdict = None
    /\ mapped = {}
    /\ mappingReviews = <<>>
    /\ written = [id \in CommandIds |-> None]
    /\ authorizations = {}
    /\ owner = None
    /\ represented = {} /\ related = {} /\ anatomyEvents = {}

AnatomyNext ==
    \/ \E m \in AnatomyRequests :
          Dispose(m) \/ ReviewMapping(m) \/ ImportDossier(m) \/ ReplayImport(m)
    \/ \E c \in Calls, m \in AnatomyRequests :
          ReadQualification(c, m) \/ ReadReview(c, m) \/ ReadCommand(c, m) \/ ReadChain(c, m)
    \/ \E c \in Calls : Convert(c) \/ ReadOwner(c) \/ Prepare(c) \/ Authorize(c)
    \/ \E c \in Calls, a \in authorizations : ReadAuthorization(c, a)
    \/ \E c \in Calls : ApplyMatch(c) \/ ReplayApplication(c) \/ RefuseAnatomy(c)

AnatomySpec == AnatomyInit /\ RequestsInit /\ [][AnatomyNext]_<<anatomyVars, requestVars>>

-----------------------------------------------------------------------------
(* Properties.                                                             *)

\* Every row has the shape of its table.
AnatomyTypeOK ==
    /\ verdict \in Verdicts \cup {None} /\ mapped \subseteq Mappings
    /\ \A j \in DOMAIN mappingReviews : mappingReviews[j] \in MappingReview
    /\ written \in [CommandIds -> WriteCommand \cup {None}]
    /\ authorizations \subseteq Authorization
    /\ owner \in Owner \cup {None}
    /\ represented \subseteq {Source[m] : m \in Mappings}
    /\ related \subseteq {Relation(id) : id \in CommandIds}
    /\ anatomyEvents \subseteq AnatomyEvent

Applications == {e \in anatomyEvents : e.command # None}

\* The ledger of an anatomy has one event for each revision, the import first,
\* and each application is the effect that its chain of human acts describes:
\* the command that a selection of one of the offered objects led to, authorized
\* as such, applied to the revision that its preparer saw; its representation
\* and its relation are there, and no relation is there without it.
AppliedAsAuthorized ==
    /\ {e.expected : e \in anatomyEvents} =
          IF owner = None THEN {} ELSE 0..(owner.revision - 1)
    /\ owner # None => Cardinality(anatomyEvents) = owner.revision
    /\ \A e \in anatomyEvents : e.expected = 0 <=> e.command = None
    /\ \A e \in Applications :
          LET id == e.command IN
          /\ written[id].expected = e.expected
          /\ \E j \in ReviewsOf(id[1]) :
                /\ mappingReviews[j].key = id[2]
                /\ mappingReviews[j].target = written[id].target
          /\ \E a \in AuthorizationsOf(id) :
                a.key = e.authorization /\ a.action = "authorize_application"
          /\ written[id].target \in Offers[id[1]]
          /\ Source[id[1]] \in represented
    /\ related = {Relation(e.command) : e \in Applications}
    /\ \A e, f \in Applications : Relation(e.command) = Relation(f.command) => e = f

\* What was authorized is applied while it stands: when the application is
\* written, the last authorization of the command allows it (the refusal "latest
\* write authorization must authorize_application").
RejectionIsHonoured ==
    [][\A e \in anatomyEvents' \ anatomyEvents :
          e.command # None => LatestAuthorization(e.command) # {}]_anatomyEvents

\* The command m, which was answered with v, is on record.
AnatomyOnRecord(m, v) ==
    /\ m.op = "convert" => mapped = Mappings
    /\ m.op = "review_mapping" =>
          \E j \in ReviewsOf(m.mapping) : /\ mappingReviews[j].key = m.key
                                          /\ mappingReviews[j].target = m.target
    /\ m.op = "prepare" =>
          \E key \in Keys : /\ written[<<m.mapping, key>>] # None
                            /\ written[<<m.mapping, key>>].key = m.key
    /\ m.op = "authorize" =>
          \E a \in AuthorizationsOf(m.command) : a.key = m.key /\ a.action = m.action
    /\ m.op = "apply_match" =>
          \E e \in AnatomyEventOf(m.key) : e.command = m.command /\ e.authorization = v
    /\ m.op = "import" => \E e \in AnatomyEventOf(m.key) : e.command = None

\* A success that was answered is on record as it was asked for, also when it was
\* answered as a replay.
ActsAreOnRecord == answer # None => AnatomyOnRecord(answer.command, answer.expected)

\* The chain of human acts and the anatomy have the shape of their tables, what was
\* applied follows from that chain (AppliedAsAuthorized), and a success that was
\* answered on a connection in autocommit mode is on record (ActsAreOnRecord).
AnatomyIsAuthorized ==
    /\ [](AnatomyTypeOK /\ AppliedAsAuthorized)
    /\ [](Autocommit => ActsAreOnRecord)

=============================================================================
