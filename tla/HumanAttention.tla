---------------------------- MODULE HumanAttention ----------------------------
(***************************************************************************)
(* What asks for a human's attention around a Work Issue: its scope links  *)
(* (work_issue_scopes.py) and the Decision Requests about it               *)
(* (decision_requests.py, entered through apu_cross_family.py).            *)
(*                                                                         *)
(* A scope effect and the issue's own commands (module WorkIssues, one of  *)
(* which stands for all) move one version and write two ledgers.  A        *)
(* request of blocking kind holds the issue's only gate; it is resolved by *)
(* an immutable record, which an issue may then carry as a scope.          *)
(*                                                                         *)
(* Every write compares a version or a revision under the lock of its row, *)
(* and keys are unique.  A replay check made before the lock can therefore *)
(* only turn a success into a refusal, so the check and the locked section *)
(* are one step here.  Asking holds no lock that others wait for, and is   *)
(* several.  A call that is refused, or dies, changes nothing.             *)
(***************************************************************************)
EXTENDS Naturals, Sequences, FiniteSets

CONSTANTS
    Issues,     \* Work Issues
    Links,      \* scope_link_id values
    Projects,   \* agency_projects
    Records,    \* decision_id values
    Others,     \* further entities an issue may concern; their rows exist
    Objects,    \* APU objects
    ProjectOf,  \* ProjectOf[o]: the project of APU object o
    Requests,   \* request_id values
    Values,     \* decision values
    Keys,       \* idempotency keys
    Commands,   \* what clients may send; the expected version is read when sending
    Calls,      \* calls that create a request at the same time
    MaxVersion, \* bound on the versions of an issue
    None

Entities == Projects \cup Records \cup Others

Roles == {"primary", "related"}

Scope == [link : Links, entity : Entities, role : Roles]

\* What a ledger row says happened, and what a replay must repeat.
ScopeEffect ==
         [type : {"scope_linked"}, issue : Issues, scope : Scope]
    \cup [type : {"scope_retired"}, issue : Issues, link : Links]
    \cup [type : {"primary_scope_replaced"}, issue : Issues, current : Links, scope : Scope]

RequestEffect ==
         [type : {"request_created"}, request : Requests, issue : Issues \cup {None},
          project : Projects \cup {None}, blocking : BOOLEAN]
    \cup [type : {"request_resolved"}, request : Requests, record : Records, value : Values]
    \cup [type : {"request_cancelled"}, request : Requests]

Command ==
         [op : {"plain", "comment"}, key : Keys, issue : Issues]
    \cup [op : {"create"}, key : Keys, issue : Issues, scopes : Seq(Scope)]
    \cup [op : {"scope"}, key : Keys, effect : ScopeEffect]
    \cup [op : {"ask"}, key : Keys, effect : RequestEffect, refs : SUBSET Objects]
    \cup [op : {"decide"}, key : Keys, effect : RequestEffect]

\* create_scoped_issue: one primary, and no link or entity twice.
WellFormed(scopes) ==
    /\ Cardinality({j \in DOMAIN scopes : scopes[j].role = "primary"}) = 1
    /\ \A j, k \in DOMAIN scopes :
          j # k => scopes[j].entity # scopes[k].entity /\ scopes[j].link # scopes[k].link

ASSUME ConstantsAssumption ==
    /\ MaxVersion \in Nat \ {0}
    /\ ProjectOf \in [Objects -> Projects]
    /\ Commands \subseteq Command
    /\ \A m \in Commands :
          /\ m.op = "create" => WellFormed(m.scopes)
          /\ m.op = "ask" => m.effect.type = "request_created"
          /\ m.op = "ask" /\ m.effect.blocking => m.effect.issue # None
          /\ m.op = "ask" /\ m.refs # {} => m.effect.project # None
          /\ m.op = "decide" => m.effect.type # "request_created"
          /\ m.op = "scope" /\ m.effect.type = "primary_scope_replaced" =>
                m.effect.scope.role = "primary"
    /\ None \notin Issues \cup Projects \cup Records \cup Commands

VARIABLES
    version,        \* version[i]: of the work_issues row, 0 before it exists
    issueEvents,    \* issue_events
    link,           \* link[l]: the work_issue_scope_links row, or Absent
    scopeEvents,    \* work_issue_scope_events
    request,        \* request[q]: the agency_decision_requests row with its refs, or Absent
    record,         \* record[d]: the agency_decision_records row, or Absent
    decisionEvents, \* agency_decision_events
    call,           \* call[c]: the creation of a request being handled
    answer          \* the command last answered with success

issueVars == <<version, issueEvents, link, scopeEvents>>
requestVars == <<request, record, decisionEvents>>
vars == <<issueVars, requestVars, call, answer>>

Absent == [present |-> FALSE]
Idle == [pc |-> "idle"]

Link == [present : {TRUE}, issue : Issues, scope : Scope, retired : BOOLEAN]

Statuses == {"pending", "resolved", "cancelled"}

Request == [present : {TRUE}, issue : Issues \cup {None}, project : Projects \cup {None},
            blocking : BOOLEAN, refs : SUBSET Objects, status : Statuses,
            revision : {1, 2}, decision : Records \cup {None}]

Record == [present : {TRUE}, request : Requests, value : Values]

Asking == [pc : {"looked", "linked"}, command : Commands, preexisting : BOOLEAN]

-----------------------------------------------------------------------------
(* Scope links.                                                            *)

Active(i) == {l \in Links : IF link[l].present THEN link[l].issue = i /\ ~link[l].retired
                                               ELSE FALSE}

\* work_issue_scope_endpoint_exists
EndpointExists(e) == e \in Records => record[e].present

\* The primary key, the two partial unique indexes and the trigger, when the
\* links of "kept" are the active ones of the issue.
Insertable(s, kept) ==
    /\ ~link[s.link].present
    /\ EndpointExists(s.entity)
    /\ \A l \in kept : link[l].scope.entity # s.entity
    /\ s.role = "primary" => \A l \in kept : link[l].scope.role # "primary"

NewLink(i, s) == [present |-> TRUE, issue |-> i, scope |-> s, retired |-> FALSE]

ScopeKeyFree(key) == \A e \in scopeEvents : e.key # key

\* Seeded fault: the version the client read is not compared.
MovesUncompared(i, v) ==
    /\ v \in 1..version[i]
    /\ version[i] < MaxVersion
    /\ version' = [version EXCEPT ![i] = @ + 1]

\* The row is locked and its version compared; _bump_issue_version.
Moves(i, v) ==
    /\ version[i] = v
    /\ v > 0
    /\ v < MaxVersion
    /\ version' = [version EXCEPT ![i] = v + 1]

OnRecord(k, effect, v) ==
    /\ ScopeKeyFree(<<k, 0>>)
    /\ scopeEvents' = scopeEvents \cup {[key |-> <<k, 0>>, effect |-> effect, expected |-> v]}

AddScope(k, effect, v) ==
    LET i == effect.issue
        s == effect.scope
    IN
    /\ Moves(i, v)
    /\ Insertable(s, Active(i))
    /\ link' = [link EXCEPT ![s.link] = NewLink(i, s)]
    /\ OnRecord(k, effect, v)

RetireScope(k, effect, v) ==
    /\ Moves(effect.issue, v)
    /\ effect.link \in Active(effect.issue)
    /\ link[effect.link].scope.role # "primary"
    /\ link' = [link EXCEPT ![effect.link].retired = TRUE]
    /\ OnRecord(k, effect, v)

ReplacePrimaryScope(k, effect, v) ==
    LET i == effect.issue
        s == effect.scope
    IN
    /\ Moves(i, v)
    /\ effect.current \in Active(i)
    /\ link[effect.current].scope.role = "primary"
    /\ Insertable(s, Active(i) \ {effect.current})
    /\ link' = [link EXCEPT ![effect.current].retired = TRUE, ![s.link] = NewLink(i, s)]
    /\ OnRecord(k, effect, v)

ChangeScope(m, v) ==
    /\ m.op = "scope"
    /\ \/ m.effect.type = "scope_linked" /\ AddScope(m.key, m.effect, v)
       \/ m.effect.type = "scope_retired" /\ RetireScope(m.key, m.effect, v)
       \/ m.effect.type = "primary_scope_replaced" /\ ReplacePrimaryScope(m.key, m.effect, v)
    /\ answer' = m
    /\ UNCHANGED <<issueEvents, requestVars, call>>

\* Seeded fault: a replay is recognised by its key alone.
ScopeReplayedByKey(k, j, effect) == \E e \in scopeEvents : e.key = <<k, j>>

\* _event_replayed of work_issue_scopes
ScopeReplayed(k, j, effect) == \E e \in scopeEvents : e.key = <<k, j>> /\ e.effect = effect

ReplayScope(m) ==
    /\ m.op = "scope"
    /\ ScopeReplayed(m.key, 0, m.effect)
    /\ answer' = m
    /\ UNCHANGED <<issueVars, requestVars, call>>

-----------------------------------------------------------------------------
(* Work Issues.                                                            *)

IssueKeyFree(k) == \A e \in issueEvents : e.key # k

IssueEvent(k, i, v) == [key |-> k, issue |-> i, expected |-> v]

\* work_issues.create_issue, as hermes_handoff_store calls it: no scope.
CreatePlain(m) ==
    /\ m.op = "plain"
    /\ version[m.issue] = 0
    /\ IssueKeyFree(m.key)
    /\ version' = [version EXCEPT ![m.issue] = 1]
    /\ issueEvents' = issueEvents \cup {IssueEvent(m.key, m.issue, 0)}
    /\ answer' = m
    /\ UNCHANGED <<link, scopeEvents, requestVars, call>>

\* Any command of module WorkIssues on an existing issue.
Comment(m, v) ==
    /\ m.op = "comment"
    /\ IssueKeyFree(m.key)
    /\ Moves(m.issue, v)
    /\ issueEvents' = issueEvents \cup {IssueEvent(m.key, m.issue, v)}
    /\ answer' = m
    /\ UNCHANGED <<link, scopeEvents, requestVars, call>>

Linked(i, s) == [type |-> "scope_linked", issue |-> i, scope |-> s]

\* Adds the scopes after the n-th, each under a key of its own and on the
\* version the one before it left; "v" is the version of the first.
AppendScopes(m, n, v) ==
    LET i == m.issue
        new == (n + 1)..Len(m.scopes)
    IN
    /\ v + Len(m.scopes) - n <= MaxVersion
    /\ \A j \in new : Insertable(m.scopes[j], Active(i)) /\ ScopeKeyFree(<<m.key, j>>)
    /\ link' = [l \in Links |->
                  IF \E j \in new : m.scopes[j].link = l
                  THEN NewLink(i, m.scopes[CHOOSE j \in new : m.scopes[j].link = l])
                  ELSE link[l]]
    /\ scopeEvents' = scopeEvents \cup
          {[key |-> <<m.key, j>>, effect |-> Linked(i, m.scopes[j]), expected |-> v + j - n - 1] :
              j \in new}
    /\ version' = [version EXCEPT ![i] = v + Len(m.scopes) - n]

CreateScoped(m) ==
    /\ m.op = "create"
    /\ version[m.issue] = 0
    /\ IssueKeyFree(m.key)
    /\ issueEvents' = issueEvents \cup {IssueEvent(m.key, m.issue, 0)}
    /\ AppendScopes(m, 0, 1)
    /\ answer' = m
    /\ UNCHANGED <<requestVars, call>>

\* create_issue finds its key and returns; each scope is then replayed or, when
\* this repetition names more of them, added to the issue as it now is.
ReplayCreate(m) ==
    /\ m.op = "create"
    /\ \E e \in issueEvents : e.key = m.key /\ e.issue = m.issue
    /\ \E n \in 0..Len(m.scopes) :
          /\ \A j \in 1..n : ScopeReplayed(m.key, j, Linked(m.issue, m.scopes[j]))
          /\ AppendScopes(m, n, version[m.issue])
    /\ answer' = m
    /\ UNCHANGED <<issueEvents, requestVars, call>>

-----------------------------------------------------------------------------
(* Decision Requests.                                                      *)

DecisionKeyFree(k) == \A e \in decisionEvents : e.key # k

DecisionEvent(k, effect, v) == [key |-> k, effect |-> effect, expected |-> v]

\* _event_replayed of decision_requests
DecisionReplayed(k, effect) == \E e \in decisionEvents : e.key = k /\ e.effect = effect

\* The request waits for a decision.
Pending(q) == IF request[q].present THEN request[q].status = "pending" ELSE FALSE

\* Pending requests that block issue i.
Blockers(i) == {q \in Requests : Pending(q) /\ request[q].blocking /\ request[q].issue = i}

Step(c, pc) == IF call[c] = Idle THEN FALSE ELSE call[c].pc = pc

End(c) == call' = [call EXCEPT ![c] = Idle]

\* apu_cross_family.create_decision_request looks for the request first.
Look(c, m) ==
    /\ m.op = "ask"
    /\ call[c] = Idle
    /\ call' = [call EXCEPT ![c] = [pc |-> "looked", command |-> m,
                                    preexisting |-> request[m.effect.request].present]]
    /\ UNCHANGED <<issueVars, requestVars, answer>>

\* validate_decision_request_apu_scope_ref
InProject(refs, p) == \A o \in refs : ProjectOf[o] = p

\* The scope refs of the replay are compared when the request was there at
\* the look, and stored when it was not.
ReplayAsk(c) ==
    LET m == call[c].command
        q == m.effect.request
    IN
    /\ Step(c, "looked")
    /\ DecisionReplayed(m.key, m.effect)
    /\ \/ /\ call[c].preexisting
          /\ request[q].refs = m.refs
          /\ UNCHANGED request
       \/ /\ ~call[c].preexisting
          /\ {} \in {request[q].refs, m.refs}
          /\ InProject(m.refs, m.effect.project)
          /\ request' = [request EXCEPT ![q].refs = @ \cup m.refs]
    /\ answer' = m
    /\ End(c)
    /\ UNCHANGED <<issueVars, record, decisionEvents>>

\* The key is new, and validate_decision_request_links finds the project
\* among the active scopes; it locks neither.
CheckLinks(c) ==
    LET e == call[c].command.effect IN
    /\ Step(c, "looked")
    /\ DecisionKeyFree(call[c].command.key)
    /\ e.issue # None => version[e.issue] > 0
    /\ e.issue # None /\ e.project # None =>
          \E l \in Active(e.issue) : link[l].scope.entity = e.project
    /\ call' = [call EXCEPT ![c].pc = "linked"]
    /\ UNCHANGED <<issueVars, requestVars, answer>>

InsertRequest(c) ==
    LET m == call[c].command
        e == m.effect
    IN
    /\ Step(c, "linked")
    /\ ~request[e.request].present
    /\ e.blocking => Blockers(e.issue) = {}
    /\ DecisionKeyFree(m.key)
    /\ InProject(m.refs, e.project)
    /\ request' = [request EXCEPT ![e.request] =
                     [present |-> TRUE, issue |-> e.issue, project |-> e.project,
                      blocking |-> e.blocking, refs |-> m.refs, status |-> "pending",
                      revision |-> 1, decision |-> None]]
    /\ decisionEvents' = decisionEvents \cup {DecisionEvent(m.key, e, 0)}
    /\ answer' = m
    /\ End(c)
    /\ UNCHANGED <<issueVars, record>>

Refuse(c) ==
    /\ call[c] # Idle
    /\ End(c)
    /\ UNCHANGED <<issueVars, requestVars, answer>>

\* Seeded fault: the status of the locked row is not tested.
DecidableAgain(q, v) == IF request[q].present THEN request[q].revision = v ELSE FALSE

\* The locked row is pending and at the revision the human saw.
Decidable(q, v) == Pending(q) /\ request[q].revision = v

Decides(m, v, status, d) ==
    LET q == m.effect.request IN
    /\ Decidable(q, v)
    /\ DecisionKeyFree(m.key)
    /\ request' = [request EXCEPT ![q].status = status, ![q].revision = 2, ![q].decision = d]
    /\ decisionEvents' = decisionEvents \cup {DecisionEvent(m.key, m.effect, v)}
    /\ answer' = m
    /\ UNCHANGED <<issueVars, call>>

\* One record per request and per decision_id.
Resolve(m, v) ==
    LET e == m.effect IN
    /\ m.op = "decide"
    /\ e.type = "request_resolved"
    /\ \A d \in Records : record[d].present => d # e.record /\ record[d].request # e.request
    /\ record' = [record EXCEPT ![e.record] =
                    [present |-> TRUE, request |-> e.request, value |-> e.value]]
    /\ Decides(m, v, "resolved", e.record)

Cancel(m, v) ==
    /\ m.op = "decide"
    /\ m.effect.type = "request_cancelled"
    /\ Decides(m, v, "cancelled", None)
    /\ UNCHANGED record

ReplayDecision(m) ==
    /\ m.op = "decide"
    /\ DecisionReplayed(m.key, m.effect)
    /\ answer' = m
    /\ UNCHANGED <<issueVars, requestVars, call>>

-----------------------------------------------------------------------------
(* The specification.                                                      *)

Init ==
    /\ version = [i \in Issues |-> 0]
    /\ issueEvents = {}
    /\ link = [l \in Links |-> Absent]
    /\ scopeEvents = {}
    /\ request = [q \in Requests |-> Absent]
    /\ record = [d \in Records |-> Absent]
    /\ decisionEvents = {}
    /\ call = [c \in Calls |-> Idle]
    /\ answer = None

\* "v" is a version or a revision that the client has read.
Write(m, v) == ChangeScope(m, v) \/ Comment(m, v) \/ Resolve(m, v) \/ Cancel(m, v)

Ask(c) == ReplayAsk(c) \/ CheckLinks(c) \/ InsertRequest(c) \/ Refuse(c)

Next ==
    \/ \E m \in Commands, v \in 0..MaxVersion : Write(m, v)
    \/ \E m \in Commands : CreatePlain(m) \/ CreateScoped(m) \/ ReplayCreate(m)
    \/ \E m \in Commands : ReplayScope(m) \/ ReplayDecision(m)
    \/ \E m \in Commands, c \in Calls : Look(c, m)
    \/ \E c \in Calls : Ask(c)

Spec == Init /\ [][Next]_vars

-----------------------------------------------------------------------------
(* Properties.                                                             *)

\* Every row and every call has the shape of its table or handler.
TypeOK ==
    /\ version \in [Issues -> 0..MaxVersion]
    /\ issueEvents \subseteq [key : Keys, issue : Issues, expected : 0..MaxVersion]
    /\ link \in [Links -> Link \cup {Absent}]
    /\ scopeEvents \subseteq [key : Keys \X Nat, effect : ScopeEffect, expected : 1..MaxVersion]
    /\ request \in [Requests -> Request \cup {Absent}]
    /\ record \in [Records -> Record \cup {Absent}]
    /\ decisionEvents \subseteq [key : Keys, effect : RequestEffect, expected : 0..1]
    /\ call \in [Calls -> Asking \cup {Idle}]
    /\ answer \in Commands \cup {None}

\* "Every material scope effect moves the WorkIssue optimistic version exactly
\* once": the two ledgers of an issue together have one row for every version
\* below the present one, whoever wrote it, and none beside.
EffectsMoveVersionOnce ==
    \A i \in Issues :
        LET own == {e \in issueEvents : e.issue = i}
            scopes == {e \in scopeEvents : e.effect.issue = i}
        IN  /\ {e.expected : e \in own \cup scopes} = 0..(version[i] - 1)
            /\ Cardinality(own) + Cardinality(scopes) = version[i]

\* An issue that was ever given a primary scope has exactly one now, however
\* it is replaced, retired or recreated; no entity is linked to it twice, and a
\* decision is linked only once it was taken.
PrimaryIsKept ==
    /\ \A l \in Links : link[l].present => EndpointExists(link[l].scope.entity)
    /\ \A i \in Issues :
          LET primary(L) == {l \in L : link[l].scope.role = "primary"}
              ever == {l \in Links : IF link[l].present THEN link[l].issue = i ELSE FALSE}
          IN  /\ primary(ever) # {} => Cardinality(primary(Active(i))) = 1
              /\ \A l, k \in Active(i) :
                    l # k => link[l].scope.entity # link[k].scope.entity

\* A gate is single and decided once: at most one pending request blocks an
\* issue; a request has a record exactly if it was resolved, the record is
\* the one it names, and its ledger tells one creation and at most one outcome.
GatesAreSingle ==
    /\ \A i \in Issues : Cardinality(Blockers(i)) <= 1
    /\ \A q \in Requests :
          LET rows == {e \in decisionEvents : e.effect.request = q}
              taken == {d \in Records : IF record[d].present THEN record[d].request = q ELSE FALSE}
          IN  /\ Cardinality(rows) = IF request[q].present THEN request[q].revision ELSE 0
              /\ request[q].present =>
                    /\ request[q].revision = 1 <=> request[q].status = "pending"
                    /\ taken = {request[q].decision} \ {None}
                    /\ request[q].status = "resolved" <=> taken # {}
              /\ \A d \in taken : \E e \in rows :
                    e.effect = [type |-> "request_resolved", request |-> q, record |-> d,
                                value |-> record[d].value]

\* Issues, scopes and requests have the shape of their tables, and each effect
\* moved a version once (EffectsMoveVersionOnce).
AttentionIsSound == TypeOK /\ EffectsMoveVersionOnce

\* An issue keeps its primary scope (PrimaryIsKept), and at most one request blocks
\* an issue and is decided once (GatesAreSingle).
GatesAreKept == PrimaryIsKept /\ GatesAreSingle

\* A client that is told its command took effect finds exactly that command
\* on record, also when it was answered as a replay: never the effect of
\* another command that used the key, never half of a creation.
AnswersAreRecorded ==
    answer # None =>
        CASE answer.op \in {"plain", "comment"} ->
                \E e \in issueEvents : e.key = answer.key /\ e.issue = answer.issue
          [] answer.op = "create" ->
                /\ version[answer.issue] > 0
                /\ \A j \in DOMAIN answer.scopes : \E e \in scopeEvents :
                      /\ e.key = <<answer.key, j>>
                      /\ e.effect = Linked(answer.issue, answer.scopes[j])
          [] answer.op = "scope" ->
                \E e \in scopeEvents : e.key = <<answer.key, 0>> /\ e.effect = answer.effect
          [] OTHER ->
                \E e \in decisionEvents : e.key = answer.key /\ e.effect = answer.effect

=============================================================================
