---------------------------- MODULE MCAgencyRecords ----------------------------
(* The records of one Project: its row and the candidates to change it, claims, *)
(* Information cards, the anatomy, relations and categories.  Claims and change *)
(* candidates both come from execution results; beyond that they share no state *)
(* here, so a behaviour is about one of them, chosen at its start.              *)
EXTENDS MCProjectGraph, ProjectClaims, Information, ProjectAnatomy

CONSTANTS r1, k1, k2, i3, d1, o2, m1, m2

VARIABLE subject \* what the behaviour is about

informationVars == <<cardVars, projectionVars>>
graphVars == <<relationVars, classificationVars>>
vars == <<reviewVars, projectVars, candidateVars, claimVars, informationVars, anatomyVars,
          graphVars, call, answer, subject>>

MCItemOf == [r \in Results |->
    IF r = r1 THEN [kind |-> "project_claim_candidate", project |-> p1, type |-> "zone",
                    observed |-> 2]
    ELSE VariantItem(r)]

Direct(k, t, at, retired) ==
    [op |-> "claim", key |-> k, project |-> p1, type |-> t, observed |-> at, retired |-> retired]
OnCard(k, op) == [op |-> op, key |-> k, card |-> i1, document |-> d1]
Linked(k, role) == OnCard(k, "add_document_link") @@ ("role" :> role)

ClaimCommands ==
    { Stored("a", x1, r1),
      Reviewed("b", x1, r1, "accepted_for_claim"), Reviewed("d", x1, r1, "rejected"),
      [op |-> "claim_candidate", key |-> "e", execution |-> x1, result |-> r1],
      Direct("r", "zone", 1, FALSE), Direct("s", "parcelle", 3, FALSE),
      Direct("t", "zone", 3, TRUE) }

ProjectionCommands ==
    { [op |-> "update_projection_metadata", key |-> "a", card |-> i1, text |-> "t"],
      Linked("b", "primary"), Linked("d", "supporting"),
      OnCard("e", "remove_document_link") }

\* The two mappings are of one representation.
MCSource == [m \in Mappings |-> [representation |-> "plan", content |-> "page"]]

MCOffers == [m \in Mappings |-> IF m = m1 THEN {o1, o2} ELSE {o1}]

Select(k, m, o) == [op |-> "review_mapping", key |-> k, mapping |-> m,
                    action |-> "select_existing_object", target |-> o]
OnCommand(k, op, id) == [op |-> op, key |-> k, command |-> id]
Authorizes(k, action, id) == OnCommand(k, "authorize", id) @@ ("action" :> action)

AnatomyCommands ==
    { [op |-> "dispose", key |-> "a", verdict |-> "accepted_for_mapping"],
      [op |-> "convert", key |-> "a"],
      [op |-> "import", key |-> "a", objects |-> {o1}],
      Select("b", m1, o1), Select("d", m2, o1),
      [op |-> "prepare", key |-> "b", mapping |-> m1],
      [op |-> "prepare", key |-> "d", mapping |-> m2],
      Authorizes("b", "authorize_application", <<m1, "b">>),
      Authorizes("e", "reject_application", <<m1, "b">>),
      Authorizes("d", "authorize_application", <<m2, "d">>),
      OnCommand("b", "apply_match", <<m1, "b">>), OnCommand("d", "apply_match", <<m2, "d">>) }

MCCommands ==
    ChangeCommands \cup ClaimCommands \cup ProjectionCommands \cup AnatomyCommands
    \cup RelationCommands \cup CategoryCommands

MCKeys == {m.key : m \in ChangeCommands}

Init ==
    /\ subject \in {"changes", "claims", "cards", "anatomy", "relations", "categories"}
    /\ ChangesInit /\ ClaimInit /\ InformationInit /\ AnatomyInit
    /\ RelationInit /\ ClassificationInit
    /\ RequestsInit

\* Execution results are deposited for claims or for changes.
Only(S) ==
    /\ answer' # None => answer'.command \in S
    /\ \A c \in Calls : call'[c] # Idle => call'[c].command \in S

\* A projection needs its card to be there and nothing more of it.
OneCard == card[i1] # None /\ card[i1].revision = 1 /\ \A i \in Cards \ {i1} : card[i] = None

AtRest == projectionEvents = <<>> /\ \A c \in Calls : call[c] = Idle

Next ==
    /\ UNCHANGED subject
    /\ \/ /\ subject = "changes"
          /\ ChangesNext /\ Only(ChangeCommands)
          /\ UNCHANGED <<claimVars, informationVars, anatomyVars, graphVars>>
       \/ /\ subject = "claims"
          /\ ClaimNext /\ Only(ClaimCommands)
          /\ UNCHANGED <<projectVars, candidateVars, informationVars, anatomyVars, graphVars>>
       \/ /\ subject = "cards"
          /\ (AtRest /\ CardNext) \/ (OneCard /\ ProjectionNext)
          /\ UNCHANGED <<reviewVars, projectVars, candidateVars, claimVars, anatomyVars, graphVars>>
       \/ /\ subject = "anatomy"
          /\ AnatomyNext
          /\ UNCHANGED <<reviewVars, projectVars, candidateVars, claimVars, informationVars,
                         graphVars>>
       \/ /\ subject = "relations"
          /\ RelationNext
          /\ UNCHANGED <<reviewVars, projectVars, candidateVars, claimVars, informationVars,
                         anatomyVars, classificationVars>>
       \/ /\ subject = "categories"
          /\ ClassificationNext
          /\ UNCHANGED <<reviewVars, projectVars, candidateVars, claimVars, informationVars,
                         anatomyVars, relationVars>>

Spec == Init /\ [][Next]_vars

\* A command of the anatomy is on record, and nobody else is handling it.
Alone(c, m) == \A d \in Calls \ {c} : call[d] # Idle => call[d].command.op # m.op
Done(m) == IF m.op = "dispose" THEN verdict # None
           ELSE \E v \in Keys \cup {None} : AnatomyOnRecord(m, v)

\* Of the anatomy the import comes first, the chain of the second mapping begins
\* once the first has an authorization, and only authorizations and applications
\* overlap with their like or are tried again.
InOrder ==
    /\ mapped' # {} => owner # None
    /\ Len(mappingReviews') > 1 => authorizations # {}
    /\ \A c \in Calls, m \in AnatomyCommands :
          m.op \notin {"authorize", "apply_match"} /\ call[c] = Idle =>
             /\ call'[c] # Idle /\ call'[c].command = m => Alone(c, m) /\ ~Done(m)
             /\ answer' # answer /\ answer'.command = m /\ call' = call => ~Done(m)

Symmetry == Permutations(Calls) \cup Permutations(Claims)

=============================================================================
