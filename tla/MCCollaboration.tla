---------------------------- MODULE MCCollaboration ----------------------------
(* The access of people from outside to a Project, and the Documents of the    *)
(* Project.  They are tables of two owners that share no state here, so that a *)
(* behaviour is one of access or one of documents.                             *)
EXTENDS HumanAccess, DocumentCurrentness, TLC

CONSTANTS pm, px, im, ix, v1, v2, d1, e1, e2, f1, f2, c1, c2

vars == <<accessVars, documentVars, call, answer>>

MCDocumentOf == [v \in Revisions |-> d1]

OnTarget(op, k, p, resource, action) ==
    [op |-> op, key |-> k, principal |-> p, target |-> <<resource, action>>]
Remote(op, k, p, resource, action) ==
    OnTarget(op, k, p, resource, action) @@ ("identity" :> im)
Limited(m, limited) == m @@ ("limited" :> limited)

\* pm is to manage the access of px.
AccessCommands ==
    { [op |-> "bind", key |-> "a", principal |-> pm, identity |-> im, limited |-> FALSE],
      [op |-> "bind", key |-> "a", principal |-> px, identity |-> ix, limited |-> TRUE],
      [op |-> "bind", key |-> "a", principal |-> pm, identity |-> ix, limited |-> FALSE],
      Limited(OnTarget("grant", "b", pm, "project", "project.read"), FALSE),
      Limited(OnTarget("grant", "b", pm, "project", "project.access.manage"), FALSE),
      Limited(Remote("grant_remote", "c", px, "project", "project.read"), TRUE),
      Limited(Remote("grant_remote", "c", px, "project", "project.access.manage"), FALSE),
      Limited(Remote("grant_remote", "c", px, d1, "document.read"), FALSE),
      Limited(Remote("grant_remote", "c", px, d1, "document.comment"), FALSE),
      Remote("revoke_remote", "d", px, "project", "project.read"),
      [op |-> "documents", key |-> "e", identity |-> ix],
      [op |-> "comment", key |-> "f", identity |-> ix, revision |-> v1, parent |-> None],
      [op |-> "comment", key |-> "g", identity |-> ix, revision |-> v1, parent |-> "f"],
      [op |-> "comment", key |-> "g", identity |-> ix, revision |-> v2, parent |-> "f"] }

OfPosture(status, authority) ==
    [status |-> status, effect |-> "coordination_update", authority |-> authority]

Coordination == OfPosture("issued", "internal_review_authority")
Retired == OfPosture("superseded", "internal_review_authority")
Classified == OfPosture("issued", "not_authoritative")

Link(k, capture, at, over) ==
    [op |-> "link_revision", key |-> k, document |-> d1, capture |-> capture,
     received |-> at, supersedes |-> over]
Record(k, n, p, by) ==
    [op |-> "record_version_event", key |-> k, version |-> <<d1, n>>, posture |-> p, by |-> by]
Reference(k, v) ==
    [op |-> "record_issuer_reference", key |-> k, version |-> <<d1, 1>>, value |-> v]

\* The second capture to be linked was received before the first.
DocumentCommands ==
    { [op |-> "create_document", key |-> "a", document |-> d1],
      Link("b", e1, 2, 0), Link("c", e2, 1, 1), Link("d", e2, 1, 0), Link("g", e1, 2, 0),
      Record("h", 1, Coordination, "human"), Record("i", 2, Coordination, "human"),
      Record("i", 1, Retired, "human"), Record("j", 1, Retired, "human"),
      Record("k", 2, Classified, "system"),
      Reference("l", f1), Reference("m", f2),
      [op |-> "resolve_reference", key |-> "n", version |-> <<d1, 1>>] }
    \cup {[op |-> "resolve_currentness", key |-> "n", document |-> d1, purpose |-> p] :
            p \in {"latest_received", "current_working", "current_for_coordination",
                   "current_for_site"}}

MCCommands == AccessCommands \cup DocumentCommands

MCKeys == {m.key : m \in MCCommands}

Init == AccessInit /\ DocumentInit /\ RequestsInit

\* The first state change says which of the two a behaviour is about.
Next ==
    \/ /\ DocumentInit
       /\ AccessNext
       /\ UNCHANGED documentVars
    \/ /\ AccessInit
       /\ DocumentNext
       /\ UNCHANGED accessVars

Spec == Init /\ [][Next]_vars

Began(c) == call[c] = Idle /\ call'[c] # Idle

\* Both people are bound before anything is granted, and then stay bound; a third
\* binding, a revocation or a lapse of one ends in a behaviour without grants.
BindingsFirst ==
    /\ Len(bindings') > 0 => \A p \in Principals : principals[p] # None
    /\ Len(bindings') > 0 => bindings'[1].identity = im /\ Len(bindings') <= 3
    /\ Len(bindings') > 1 => bindings'[2].identity = ix /\ bindings'[2].principal = px
    /\ Len(grants') > 0 => /\ Len(bindings') = 2 /\ lapsedBindings' = {}
                           /\ \A i \in 1..2 : ~bindings'[i].revoked

\* The manager is made first, and remote requests begin after that; one grant is
\* revoked at most, comments are made under the last grant, and a request begins
\* as long as nobody is disabled.
GrantsInOrder ==
    /\ Len(grants') > 0 => grants'[1].principal = pm /\ grants'[1].target = ProjectRead
    /\ Len(grants') > 1 => grants'[2].target = ProjectManage
    /\ Cardinality({i \in DOMAIN grants' : grants'[i].revoked}) <= 1
    /\ (\E p \in Principals : principals[p] = "disabled") => \A c \in Calls : ~Began(c)
    /\ \A c \in Calls : Began(c) /\ call'[c].command \in AccessCommands =>
          /\ call'[c].command.op \in RemoteOps => Len(grants) > 1
          /\ call'[c].command.op \in {"comment", "documents"} <=> Len(grants) = MaxRows
    /\ (\E p \in Principals : principals'[p] = "disabled") => Len(grants) \in {0, 3}

\* While a request reads, one grant is made at most.
OneGrantMeanwhile ==
    \A c \in Calls : call'[c].pc \in {"reading", "managing"} => Len(grants') <= call'[c].upto + 1

Repeated(op) == answer' # answer /\ answer'.command.op = op

\* What the operator repeats is asked again between two requests, when both people
\* are bound or both grants of the operator are made.
RepeatsApart ==
    UNCHANGED call =>
       /\ Repeated("bind") => /\ \A c \in Calls : call[c] = Idle
                              /\ Len(bindings) = 2 /\ grants = <<>>
       /\ Repeated("grant") => Len(grants) = 2 /\ \A c \in Calls : call[c] = Idle

\* Links come before postures, and references are observed apart from both, which
\* they do not touch.
LinksFirst ==
    /\ observed' # {} => /\ \A c \in Calls : call'[c] = Idle
                         /\ \A v \in Versions : postures'[v] = <<>>
    /\ (\E v \in Versions : postures'[v] # <<>>) =>
          \A c \in Calls : call'[c] # Idle => call'[c].pc \in {"recording", "appending"}

InOrder == BindingsFirst /\ GrantsInOrder /\ OneGrantMeanwhile /\ RepeatsApart /\ LinksFirst

Symmetry == Permutations(Calls)

=============================================================================
