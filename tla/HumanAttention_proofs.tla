------------------------- MODULE HumanAttention_proofs -------------------------
(***************************************************************************)
(* Theorems about scope links and Decision Requests, for every number of   *)
(* issues, links, requests, decisions, clients and commands.               *)
(***************************************************************************)
EXTENDS HumanAttention, FiniteSetTheorems, TLAPS

-----------------------------------------------------------------------------
(* What a command holds.                                                   *)

LEMMA ScopeEffectFits ==
    ASSUME NEW e \in ScopeEffect
    PROVE  /\ e.issue \in Issues
           /\ e.type \in {"scope_linked", "scope_retired", "primary_scope_replaced"}
           /\ e.type = "scope_linked" => e.scope \in Scope
           /\ e.type = "scope_retired" => e.link \in Links
           /\ e.type = "primary_scope_replaced" => e.current \in Links /\ e.scope \in Scope
  BY DEF ScopeEffect

LEMMA RequestEffectFits ==
    ASSUME NEW e \in RequestEffect
    PROVE  /\ e.request \in Requests
           /\ e.type = "request_created" =>
                 /\ e.issue \in Issues \cup {None} /\ e.project \in Projects \cup {None}
                 /\ e.blocking \in BOOLEAN
           /\ e.type = "request_resolved" => e.record \in Records /\ e.value \in Values
  BY DEF RequestEffect

LEMMA CommandFits ==
    ASSUME NEW m \in Commands
    PROVE  /\ m.key \in Keys /\ m # None
           /\ m.op \in {"plain", "comment", "create"} => m.issue \in Issues
           /\ m.op = "create" => m.scopes \in Seq(Scope) /\ WellFormed(m.scopes)
           /\ m.op = "scope" =>
                 /\ m.effect \in ScopeEffect
                 /\ m.effect.type = "primary_scope_replaced" => m.effect.scope.role = "primary"
           /\ m.op = "ask" =>
                 /\ m.effect \in RequestEffect /\ m.refs \in SUBSET Objects
                 /\ m.effect.type = "request_created"
           /\ m.op = "decide" => m.effect \in RequestEffect
  <1>1. m \in Command /\ m # None
    BY ConstantsAssumption
  <1>2. CASE m \in [op : {"plain", "comment"}, key : Keys, issue : Issues]
    BY <1>1, <1>2
  <1>3. CASE m \in [op : {"create"}, key : Keys, issue : Issues, scopes : Seq(Scope)]
    BY <1>1, <1>3, ConstantsAssumption
  <1>4. CASE m \in [op : {"scope"}, key : Keys, effect : ScopeEffect]
    BY <1>1, <1>4, ConstantsAssumption
  <1>5. CASE m \in [op : {"ask"}, key : Keys, effect : RequestEffect, refs : SUBSET Objects]
    BY <1>1, <1>5, ConstantsAssumption
  <1>6. CASE m \in [op : {"decide"}, key : Keys, effect : RequestEffect]
    BY <1>1, <1>6
  <1> QED BY <1>1, <1>2, <1>3, <1>4, <1>5, <1>6 DEF Command

-----------------------------------------------------------------------------
(* Type correctness.  It rests on three facts about the rows: an issue and *)
(* a request that have an event exist, and exactly a request in its first  *)
(* revision is pending.                                                    *)

IssuesTyped ==
    /\ version \in [Issues -> 0..MaxVersion]
    /\ issueEvents \subseteq [key : Keys, issue : Issues, expected : 0..MaxVersion]
    /\ link \in [Links -> Link \cup {Absent}]
    /\ scopeEvents \subseteq [key : Keys \X Nat, effect : ScopeEffect, expected : 1..MaxVersion]
    /\ \A e \in issueEvents : version[e.issue] > 0

RequestsTyped ==
    /\ request \in [Requests -> Request \cup {Absent}]
    /\ record \in [Records -> Record \cup {Absent}]
    /\ decisionEvents \subseteq [key : Keys, effect : RequestEffect, expected : 0..1]
    /\ \A q \in Requests :
          request[q].present => (request[q].revision = 1 <=> request[q].status = "pending")
    /\ \A e \in decisionEvents : request[e.effect.request].present

CallsTyped ==
    /\ call \in [Calls -> Asking \cup {Idle}]
    /\ \A c \in Calls : call[c] # Idle => call[c].command.op = "ask"

TypeInv == IssuesTyped /\ RequestsTyped /\ CallsTyped /\ answer \in Commands \cup {None}

LEMMA TypeInvIsTypeOK == TypeInv => TypeOK
  BY DEF TypeInv, IssuesTyped, RequestsTyped, CallsTyped, TypeOK

LEMMA LinkRow ==
    ASSUME IssuesTyped, NEW l \in Links
    PROVE  /\ link[l].present \in BOOLEAN
           /\ link[l].present => /\ link[l] \in Link /\ link[l].issue \in Issues
                                 /\ link[l].scope \in Scope /\ link[l].retired \in BOOLEAN
  <1>1. link[l] \in Link \cup {Absent}
    BY DEF IssuesTyped
  <1>2. CASE link[l] \in Link
    BY <1>2 DEF Link
  <1>3. CASE link[l] = Absent
    BY <1>3 DEF Absent
  <1> QED BY <1>1, <1>2, <1>3

LEMMA RequestRow ==
    ASSUME RequestsTyped, NEW q \in Requests
    PROVE  /\ request[q].present \in BOOLEAN
           /\ request[q].present =>
                 /\ request[q] \in Request /\ request[q].refs \in SUBSET Objects
                 /\ request[q].revision \in {1, 2} /\ request[q].status \in Statuses
                 /\ request[q].blocking \in BOOLEAN
                 /\ request[q].decision \in Records \cup {None}
  <1>1. request[q] \in Request \cup {Absent}
    BY DEF RequestsTyped
  <1>2. CASE request[q] \in Request
    BY <1>2 DEF Request
  <1>3. CASE request[q] = Absent
    BY <1>3 DEF Absent
  <1> QED BY <1>1, <1>2, <1>3

LEMMA NewLinkFits ==
    ASSUME NEW i \in Issues, NEW s \in Scope
    PROVE  /\ NewLink(i, s) \in Link /\ NewLink(i, s).present /\ ~NewLink(i, s).retired
           /\ NewLink(i, s).issue = i /\ NewLink(i, s).scope = s
           /\ s.link \in Links /\ s.entity \in Entities /\ s.role \in Roles
  BY DEF NewLink, Link, Scope

LEMMA ActiveRow ==
    ASSUME IssuesTyped, NEW i, NEW l \in Active(i)
    PROVE  /\ l \in Links /\ link[l].present /\ link[l].issue = i /\ ~link[l].retired
           /\ link[l] \in Link /\ link[l].scope \in Scope
  BY LinkRow DEF Active

\* What a command on the scopes writes besides its links.
LEMMA MoveTypes ==
    ASSUME IssuesTyped, NEW i \in Issues, NEW v \in 0..MaxVersion, Moves(i, v)
    PROVE  /\ version' \in [Issues -> 0..MaxVersion] /\ v \in 1..MaxVersion
           /\ version[i] = v /\ version'[i] = v + 1
           /\ \A j \in Issues : j # i => version'[j] = version[j]
           /\ \A e \in issueEvents : version'[e.issue] > 0
  <1>1. MaxVersion \in Nat
    BY ConstantsAssumption
  <1>2. version[i] = v /\ v > 0 /\ v < MaxVersion /\ version' = [version EXCEPT ![i] = v + 1]
    BY DEF Moves
  <1>3. /\ version' \in [Issues -> 0..MaxVersion] /\ version'[i] = v + 1
        /\ \A j \in Issues : j # i => version'[j] = version[j]
    BY <1>1, <1>2 DEF IssuesTyped
  <1> QED BY <1>1, <1>2, <1>3 DEF IssuesTyped

LEMMA ChangeTypes ==
    ASSUME IssuesTyped, NEW k \in Keys, NEW e \in ScopeEffect, NEW v \in 0..MaxVersion,
           Moves(e.issue, v), OnRecord(k, e, v), issueEvents' = issueEvents,
           link' \in [Links -> Link \cup {Absent}]
    PROVE  IssuesTyped'
  <1>1. e.issue \in Issues
    BY ScopeEffectFits
  <1>2. /\ version' \in [Issues -> 0..MaxVersion] /\ v \in 1..MaxVersion
        /\ \A f \in issueEvents : version'[f.issue] > 0
    BY <1>1, MoveTypes
  <1>3. [key |-> <<k, 0>>, effect |-> e, expected |-> v]
           \in [key : Keys \X Nat, effect : ScopeEffect, expected : 1..MaxVersion]
    BY <1>2
  <1>4. scopeEvents' \subseteq [key : Keys \X Nat, effect : ScopeEffect, expected : 1..MaxVersion]
    BY <1>3 DEF OnRecord, IssuesTyped
  <1> QED BY <1>2, <1>4 DEF IssuesTyped

LEMMA ScopeTypes ==
    ASSUME IssuesTyped, NEW m \in Commands, NEW v \in 0..MaxVersion, ChangeScope(m, v)
    PROVE  IssuesTyped'
  <1>1. /\ m.key \in Keys /\ m.effect \in ScopeEffect /\ issueEvents' = issueEvents
    BY CommandFits DEF ChangeScope
  <1>2. CASE m.effect.type = "scope_linked" /\ AddScope(m.key, m.effect, v)
    <2>1. /\ NewLink(m.effect.issue, m.effect.scope) \in Link /\ m.effect.scope.link \in Links
          /\ link' = [link EXCEPT ![m.effect.scope.link] = NewLink(m.effect.issue, m.effect.scope)]
      BY <1>1, <1>2, ScopeEffectFits, NewLinkFits DEF AddScope
    <2>2. link' \in [Links -> Link \cup {Absent}]
      BY <2>1 DEF IssuesTyped
    <2> QED BY <1>1, <1>2, <2>2, ChangeTypes DEF AddScope
  <1>3. CASE m.effect.type = "scope_retired" /\ RetireScope(m.key, m.effect, v)
    <2>1. /\ m.effect.link \in Links /\ link[m.effect.link] \in Link
          /\ link' = [link EXCEPT ![m.effect.link].retired = TRUE]
      BY <1>3, ActiveRow DEF RetireScope
    <2>2. link' \in [Links -> Link \cup {Absent}]
      BY <2>1 DEF IssuesTyped, Link
    <2> QED BY <1>1, <1>3, <2>2, ChangeTypes DEF RetireScope
  <1>4. CASE /\ m.effect.type = "primary_scope_replaced"
             /\ ReplacePrimaryScope(m.key, m.effect, v)
    <2> DEFINE l == m.effect.current
               retired == [link[l] EXCEPT !.retired = TRUE]
    <2>1. /\ NewLink(m.effect.issue, m.effect.scope) \in Link /\ m.effect.scope.link \in Links
      BY <1>1, <1>4, ScopeEffectFits, NewLinkFits
    <2>2. l \in Links /\ link[l] \in Link /\ link[l].present /\ ~link[m.effect.scope.link].present
      BY <1>4, ActiveRow DEF ReplacePrimaryScope, Insertable
    <2>3. retired \in Link
      BY <2>2 DEF Link
    <2>4. link' = [link EXCEPT ![l] = retired,
                               ![m.effect.scope.link] = NewLink(m.effect.issue, m.effect.scope)]
      BY <1>4, <2>2 DEF ReplacePrimaryScope, IssuesTyped
    <2> HIDE DEF retired, l
    <2>5. link' \in [Links -> Link \cup {Absent}]
      BY <2>1, <2>2, <2>3, <2>4 DEF IssuesTyped
    <2> QED BY <1>1, <1>4, <2>5, ChangeTypes DEF ReplacePrimaryScope
  <1> QED BY <1>1, <1>2, <1>3, <1>4 DEF ChangeScope

\* The rows and events that a creation adds, one for each new scope.
Added(m, n) == (n + 1)..Len(m.scopes)

AddedEvents(m, n, v) ==
    {[key |-> <<m.key, j>>, effect |-> Linked(m.issue, m.scopes[j]), expected |-> v + j - n - 1] :
        j \in Added(m, n)}

LEMMA ScopesOf ==
    ASSUME NEW m \in Commands, m.op = "create", NEW n \in 0..Len(m.scopes)
    PROVE  /\ m.issue \in Issues /\ m.key \in Keys /\ Len(m.scopes) \in Nat
           /\ \A j \in 1..Len(m.scopes) : m.scopes[j] \in Scope
           /\ Added(m, n) \subseteq 1..Len(m.scopes) /\ Added(m, n) \subseteq Nat
           /\ 1..Len(m.scopes) \subseteq Nat
           /\ DOMAIN m.scopes = 1..Len(m.scopes)
  BY CommandFits DEF Added

LEMMA AppendTypes ==
    ASSUME IssuesTyped, NEW m \in Commands, m.op = "create", NEW n \in 0..Len(m.scopes),
           NEW v \in 1..MaxVersion, AppendScopes(m, n, v)
    PROVE  /\ version' \in [Issues -> 0..MaxVersion]
           /\ version'[m.issue] = v + Len(m.scopes) - n
           /\ \A i \in Issues : i # m.issue => version'[i] = version[i]
           /\ link' \in [Links -> Link \cup {Absent}]
           /\ scopeEvents' \subseteq
                 [key : Keys \X Nat, effect : ScopeEffect, expected : 1..MaxVersion]
           /\ scopeEvents' = scopeEvents \cup AddedEvents(m, n, v)
  <1>0. MaxVersion \in Nat
    BY ConstantsAssumption
  <1>1. /\ m.issue \in Issues /\ m.key \in Keys /\ Len(m.scopes) \in Nat
        /\ \A j \in 1..Len(m.scopes) : m.scopes[j] \in Scope
        /\ Added(m, n) \subseteq 1..Len(m.scopes) /\ Added(m, n) \subseteq Nat
    BY ScopesOf
  <1>2. /\ v + Len(m.scopes) - n <= MaxVersion
        /\ version' = [version EXCEPT ![m.issue] = v + Len(m.scopes) - n]
        /\ scopeEvents' = scopeEvents \cup AddedEvents(m, n, v)
        /\ link' = [l \in Links |->
                      IF \E j \in Added(m, n) : m.scopes[j].link = l
                      THEN NewLink(m.issue,
                              m.scopes[CHOOSE j \in Added(m, n) : m.scopes[j].link = l])
                      ELSE link[l]]
    BY DEF AppendScopes, Added, AddedEvents
  <1>3. v + Len(m.scopes) - n \in 0..MaxVersion
    BY <1>0, <1>1, <1>2
  <1>4. /\ version' \in [Issues -> 0..MaxVersion]
        /\ version'[m.issue] = v + Len(m.scopes) - n
        /\ \A i \in Issues : i # m.issue => version'[i] = version[i]
    BY <1>1, <1>2, <1>3 DEF IssuesTyped
  <1>5. ASSUME NEW l \in Links PROVE link'[l] \in Link \cup {Absent}
    <2>1. CASE \E j \in Added(m, n) : m.scopes[j].link = l
      <3>1. PICK j \in Added(m, n) : link'[l] = NewLink(m.issue, m.scopes[j])
        BY <1>2, <2>1
      <3> QED BY <1>1, <3>1, NewLinkFits
    <2>2. CASE ~\E j \in Added(m, n) : m.scopes[j].link = l
      BY <1>2, <2>2 DEF IssuesTyped
    <2> QED BY <2>1, <2>2
  <1>6. ASSUME NEW j \in Added(m, n)
        PROVE  [key |-> <<m.key, j>>, effect |-> Linked(m.issue, m.scopes[j]),
                expected |-> v + j - n - 1]
                  \in [key : Keys \X Nat, effect : ScopeEffect, expected : 1..MaxVersion]
    <2>1. v + j - n - 1 \in 1..MaxVersion
      BY <1>0, <1>1, <1>2 DEF Added
    <2>2. Linked(m.issue, m.scopes[j]) \in ScopeEffect
      BY <1>1 DEF Linked, ScopeEffect
    <2>3. <<m.key, j>> \in Keys \X Nat
      BY <1>1
    <2> QED BY <2>1, <2>2, <2>3
  <1>7. AddedEvents(m, n, v) \subseteq
           [key : Keys \X Nat, effect : ScopeEffect, expected : 1..MaxVersion]
    BY <1>6 DEF AddedEvents
  <1>8. link' \in [Links -> Link \cup {Absent}]
    BY <1>2, <1>5
  <1>9. scopeEvents' \subseteq
           [key : Keys \X Nat, effect : ScopeEffect, expected : 1..MaxVersion]
    BY <1>2, <1>7 DEF IssuesTyped
  <1> QED BY <1>2, <1>4, <1>8, <1>9

\* An issue that is created without its scopes, or commanded.
LEMMA IssueEventTypes ==
    ASSUME NEW k \in Keys, NEW i \in Issues, NEW v \in 0..MaxVersion
    PROVE  /\ IssueEvent(k, i, v) \in [key : Keys, issue : Issues, expected : 0..MaxVersion]
           /\ IssueEvent(k, i, v).key = k /\ IssueEvent(k, i, v).issue = i
           /\ IssueEvent(k, i, v).expected = v
  BY DEF IssueEvent

LEMMA IssueTypes ==
    ASSUME IssuesTyped, NEW m \in Commands,
           \/ CreatePlain(m) \/ CreateScoped(m) \/ ReplayCreate(m)
           \/ \E v \in 0..MaxVersion : Comment(m, v)
    PROVE  IssuesTyped'
  <1>0. MaxVersion \in Nat \ {0} /\ m.key \in Keys
    BY CommandFits, ConstantsAssumption
  <1>1. CASE CreatePlain(m)
    <2>1. m.issue \in Issues /\ 0 \in 0..MaxVersion /\ 1 \in 0..MaxVersion
      BY <1>0, <1>1, CommandFits DEF CreatePlain
    <2>2. /\ issueEvents' = issueEvents \cup {IssueEvent(m.key, m.issue, 0)}
          /\ version' = [version EXCEPT ![m.issue] = 1]
          /\ UNCHANGED <<link, scopeEvents>>
      BY <1>1 DEF CreatePlain
    <2>3. \A e \in issueEvents' : e.issue \in Issues /\ version'[e.issue] > 0
      BY <1>0, <2>1, <2>2, IssueEventTypes DEF IssuesTyped
    <2> QED BY <1>0, <2>1, <2>2, <2>3, IssueEventTypes DEF IssuesTyped
  <1>2. CASE CreateScoped(m)
    <2>1. /\ m.op = "create" /\ m.issue \in Issues /\ Len(m.scopes) \in Nat
          /\ 0 \in 0..MaxVersion /\ 0 \in 0..Len(m.scopes) /\ 1 \in 1..MaxVersion
      BY <1>0, <1>2, ScopesOf, CommandFits DEF CreateScoped
    <2>2. /\ issueEvents' = issueEvents \cup {IssueEvent(m.key, m.issue, 0)}
          /\ AppendScopes(m, 0, 1)
      BY <1>2 DEF CreateScoped
    <2>3. /\ version' \in [Issues -> 0..MaxVersion]
          /\ version'[m.issue] = 1 + Len(m.scopes) - 0
          /\ \A i \in Issues : i # m.issue => version'[i] = version[i]
          /\ link' \in [Links -> Link \cup {Absent}]
          /\ scopeEvents' \subseteq
                [key : Keys \X Nat, effect : ScopeEffect, expected : 1..MaxVersion]
      BY <2>1, <2>2, AppendTypes
    <2>4. version'[m.issue] > 0
      BY <2>1, <2>3
    <2>5. \A e \in issueEvents : version'[e.issue] > 0
      BY <2>3, <2>4 DEF IssuesTyped
    <2>6. IssueEvent(m.key, m.issue, 0).issue = m.issue
      BY <1>0, <2>1, IssueEventTypes
    <2>7. \A e \in issueEvents' : version'[e.issue] > 0
      BY <2>2, <2>4, <2>5, <2>6
    <2> QED BY <1>0, <2>1, <2>2, <2>3, <2>7, IssueEventTypes DEF IssuesTyped
  <1>3. CASE ReplayCreate(m)
    <2>1. /\ m.op = "create" /\ m.issue \in Issues /\ Len(m.scopes) \in Nat
          /\ version[m.issue] \in 1..MaxVersion /\ issueEvents' = issueEvents
      BY <1>0, <1>3, ScopesOf, CommandFits DEF ReplayCreate, IssuesTyped
    <2>2. PICK n \in 0..Len(m.scopes) : AppendScopes(m, n, version[m.issue])
      BY <1>3 DEF ReplayCreate
    <2>3. /\ version' \in [Issues -> 0..MaxVersion]
          /\ version'[m.issue] = version[m.issue] + Len(m.scopes) - n
          /\ \A i \in Issues : i # m.issue => version'[i] = version[i]
          /\ link' \in [Links -> Link \cup {Absent}]
          /\ scopeEvents' \subseteq
                [key : Keys \X Nat, effect : ScopeEffect, expected : 1..MaxVersion]
      BY <2>1, <2>2, AppendTypes
    <2>4. \A e \in issueEvents : version'[e.issue] > 0
      BY <1>0, <2>1, <2>2, <2>3 DEF IssuesTyped
    <2> QED BY <2>1, <2>3, <2>4 DEF IssuesTyped
  <1>4. ASSUME NEW v \in 0..MaxVersion, Comment(m, v) PROVE IssuesTyped'
    <2>1. m.issue \in Issues
      BY <1>4, CommandFits DEF Comment
    <2>2. /\ version' \in [Issues -> 0..MaxVersion] /\ version'[m.issue] = v + 1
          /\ \A e \in issueEvents : version'[e.issue] > 0
      BY <1>4, <2>1, MoveTypes DEF Comment
    <2>3. /\ issueEvents' = issueEvents \cup {IssueEvent(m.key, m.issue, v)}
          /\ UNCHANGED <<link, scopeEvents>>
      BY <1>4 DEF Comment
    <2>4. \A e \in issueEvents' : version'[e.issue] > 0
      BY <1>0, <2>1, <2>2, <2>3, IssueEventTypes DEF IssuesTyped
    <2> QED BY <1>0, <2>1, <2>2, <2>3, <2>4, IssueEventTypes DEF IssuesTyped
  <1> QED BY <1>1, <1>2, <1>3, <1>4

\* The ledger row of a request, and the row itself as an outcome leaves it.
LEMMA DecisionEventFits ==
    ASSUME NEW k \in Keys, NEW e \in RequestEffect, NEW v \in 0..1
    PROVE  /\ DecisionEvent(k, e, v)
                 \in [key : Keys, effect : RequestEffect, expected : 0..1]
           /\ DecisionEvent(k, e, v).key = k /\ DecisionEvent(k, e, v).effect = e
  BY DEF DecisionEvent

Outcome(q, status, d) == [request[q] EXCEPT !.status = status, !.revision = 2, !.decision = d]

LEMMA OutcomeOf ==
    ASSUME RequestsTyped, NEW m \in Commands, m.op = "decide", NEW v, NEW status, NEW d,
           Decides(m, v, status, d),
           status \in {"resolved", "cancelled"}, d \in Records \cup {None}
    PROVE  /\ m.effect.request \in Requests /\ request[m.effect.request].present
           /\ v = 1 /\ request[m.effect.request].revision = 1
           /\ Pending(m.effect.request)
           /\ request' = [request EXCEPT ![m.effect.request] = Outcome(m.effect.request, status, d)]
           /\ Outcome(m.effect.request, status, d) \in Request
           /\ Outcome(m.effect.request, status, d).present
           /\ Outcome(m.effect.request, status, d).revision = 2
           /\ Outcome(m.effect.request, status, d).status = status
           /\ Outcome(m.effect.request, status, d).decision = d
           /\ decisionEvents' = decisionEvents \cup {DecisionEvent(m.key, m.effect, 1)}
  <1> DEFINE q == m.effect.request
  <1>1. q \in Requests /\ m.key \in Keys
    BY CommandFits, RequestEffectFits
  <1>2. /\ request[q].present /\ request[q].revision = v /\ request[q].status = "pending"
        /\ Pending(q) /\ decisionEvents' = decisionEvents \cup {DecisionEvent(m.key, m.effect, v)}
        /\ request' = [request EXCEPT ![q].status = status, ![q].revision = 2, ![q].decision = d]
    BY DEF Decides, Decidable, Pending
  <1>3. v = 1
    BY <1>1, <1>2 DEF RequestsTyped
  <1>4. request[q] \in Request
    BY <1>1, <1>2, RequestRow
  <1>5. /\ Outcome(q, status, d) \in Request /\ Outcome(q, status, d).present
        /\ Outcome(q, status, d).revision = 2 /\ Outcome(q, status, d).status = status
        /\ Outcome(q, status, d).decision = d
    BY <1>4 DEF Outcome, Request, Statuses
  <1>6. request' = [request EXCEPT ![q] = Outcome(q, status, d)]
    BY <1>1, <1>2 DEF Outcome, RequestsTyped
  <1> QED BY <1>1, <1>2, <1>3, <1>5, <1>6

LEMMA DecideTypes ==
    ASSUME RequestsTyped, NEW m \in Commands, NEW v, Resolve(m, v) \/ Cancel(m, v)
    PROVE  RequestsTyped'
  <1> DEFINE q == m.effect.request
  <1>1. m.key \in Keys /\ m.effect \in RequestEffect /\ m.op = "decide"
    BY CommandFits DEF Resolve, Cancel
  <1>2. PICK status \in {"resolved", "cancelled"}, d \in Records \cup {None} :
           Decides(m, v, status, d)
    BY <1>1, RequestEffectFits DEF Resolve, Cancel
  <1> DEFINE row == Outcome(q, status, d)
  <1>3. /\ q \in Requests /\ request' = [request EXCEPT ![q] = row] /\ row \in Request
        /\ row.revision = 2 /\ row.status # "pending" /\ row.present
        /\ decisionEvents' = decisionEvents \cup {DecisionEvent(m.key, m.effect, 1)}
    BY <1>1, <1>2, OutcomeOf
  <1>4. record' \in [Records -> Record \cup {Absent}]
    <2>1. CASE Cancel(m, v)
      BY <2>1 DEF Cancel, RequestsTyped
    <2>2. CASE Resolve(m, v)
      <3> DEFINE new == [present |-> TRUE, request |-> m.effect.request, value |-> m.effect.value]
      <3>1. new \in Record
        BY <1>1, <2>2, RequestEffectFits DEF Resolve, Record
      <3>2. record' = [record EXCEPT ![m.effect.record] = new]
        BY <2>2 DEF Resolve
      <3> HIDE DEF new
      <3> QED BY <3>1, <3>2 DEF RequestsTyped
    <2> QED BY <2>1, <2>2
  <1> HIDE DEF row
  <1>5. request' \in [Requests -> Request \cup {Absent}]
    BY <1>3 DEF RequestsTyped
  <1>6. \A p \in Requests :
           request'[p].present => (request'[p].revision = 1 <=> request'[p].status = "pending")
    BY <1>3 DEF RequestsTyped
  <1>7. decisionEvents' \subseteq [key : Keys, effect : RequestEffect, expected : 0..1]
    BY <1>1, <1>3, DecisionEventFits DEF RequestsTyped
  <1>8. DecisionEvent(m.key, m.effect, 1).effect.request = q
    BY DEF DecisionEvent
  <1>9. \A e \in decisionEvents' : request'[e.effect.request].present
    BY <1>3, <1>8 DEF RequestsTyped
  <1> QED BY <1>4, <1>5, <1>6, <1>7, <1>9 DEF RequestsTyped

LEMMA AskingCall ==
    ASSUME CallsTyped, NEW c \in Calls, NEW pc, Step(c, pc)
    PROVE  /\ call[c] # Idle /\ call[c] \in Asking /\ call[c].pc = pc
           /\ call[c].command \in Commands /\ call[c].command.op = "ask"
           /\ call[c].command.effect \in RequestEffect /\ call[c].command.key \in Keys
           /\ call[c].command.effect.type = "request_created"
           /\ call[c].command.effect.request \in Requests
           /\ call[c].command.refs \in SUBSET Objects
           /\ call[c].preexisting \in BOOLEAN
  <1>1. /\ call[c] \in Asking /\ call[c].pc = pc /\ call[c] # Idle
        /\ call[c].command \in Commands /\ call[c].command.op = "ask"
        /\ call[c].preexisting \in BOOLEAN
    BY DEF Step, CallsTyped, Asking
  <1> QED BY <1>1, CommandFits, RequestEffectFits

LEMMA Ended ==
    ASSUME CallsTyped, NEW c \in Calls, End(c)
    PROVE  CallsTyped'
  BY DEF CallsTyped, End, Idle

\* The row of a new request.
LEMMA InsertTypes ==
    ASSUME RequestsTyped, CallsTyped, NEW c \in Calls, InsertRequest(c)
    PROVE  RequestsTyped'
  <1> DEFINE m == call[c].command
             e == m.effect
             row == [present |-> TRUE, issue |-> e.issue, project |-> e.project,
                     blocking |-> e.blocking, refs |-> m.refs, status |-> "pending",
                     revision |-> 1, decision |-> None]
  <1>1. /\ e \in RequestEffect /\ m.key \in Keys /\ e.type = "request_created"
        /\ e.request \in Requests /\ m.refs \in SUBSET Objects
    BY AskingCall DEF InsertRequest
  <1>2. row \in Request
    BY <1>1, RequestEffectFits DEF Request, Statuses
  <1>3. row.revision = 1 /\ row.status = "pending" /\ row.present
    OBVIOUS
  <1>4. /\ request' = [request EXCEPT ![e.request] = row] /\ record' = record
        /\ decisionEvents' = decisionEvents \cup {DecisionEvent(m.key, e, 0)}
    BY DEF InsertRequest
  <1> HIDE DEF row, e, m
  <1>5. request' \in [Requests -> Request \cup {Absent}]
    BY <1>1, <1>2, <1>4 DEF RequestsTyped
  <1>6. \A p \in Requests :
           request'[p].present => (request'[p].revision = 1 <=> request'[p].status = "pending")
    BY <1>1, <1>3, <1>4 DEF RequestsTyped
  <1>7. decisionEvents' \subseteq [key : Keys, effect : RequestEffect, expected : 0..1]
    BY <1>1, <1>4, DecisionEventFits DEF RequestsTyped
  <1>8. DecisionEvent(m.key, e, 0).effect.request = e.request
    BY DEF DecisionEvent
  <1>9. \A f \in decisionEvents' : request'[f.effect.request].present
    BY <1>1, <1>3, <1>4, <1>8 DEF RequestsTyped
  <1> QED BY <1>4, <1>5, <1>6, <1>7, <1>9 DEF RequestsTyped

LEMMA ReplayAskTypes ==
    ASSUME RequestsTyped, CallsTyped, NEW c \in Calls, ReplayAsk(c)
    PROVE  RequestsTyped'
  <1> DEFINE q == call[c].command.effect.request
             more == [request[q] EXCEPT !.refs = @ \cup call[c].command.refs]
  <1>1. q \in Requests /\ call[c].command.refs \in SUBSET Objects
    BY AskingCall DEF ReplayAsk
  <1>2. request[q].present
    BY DEF ReplayAsk, DecisionReplayed, RequestsTyped
  <1>3. /\ q \in Requests /\ call[c].command.refs \in SUBSET Objects
        /\ request[q] \in Request /\ UNCHANGED <<record, decisionEvents>>
    BY <1>1, <1>2, RequestRow DEF ReplayAsk
  <1>4. more \in Request /\ more.revision = request[q].revision /\ more.status = request[q].status
        /\ more.present = request[q].present
    BY <1>3 DEF Request
  <1>5. request' = request \/ request' = [request EXCEPT ![q] = more]
    BY <1>3 DEF ReplayAsk, RequestsTyped
  <1> HIDE DEF more, q
  <1>6. request' \in [Requests -> Request \cup {Absent}]
    BY <1>3, <1>4, <1>5 DEF RequestsTyped
  <1>7. \A p \in Requests :
           request'[p].present => (request'[p].revision = 1 <=> request'[p].status = "pending")
    BY <1>3, <1>4, <1>5 DEF RequestsTyped
  <1>8. \A p \in Requests : request[p].present => request'[p].present
    BY <1>3, <1>4, <1>5 DEF RequestsTyped
  <1>9. \A e \in decisionEvents : e.effect.request \in Requests
    BY RequestEffectFits DEF RequestsTyped
  <1>10. \A e \in decisionEvents' : request'[e.effect.request].present
    BY <1>3, <1>8, <1>9 DEF RequestsTyped
  <1> QED BY <1>3, <1>6, <1>7, <1>10 DEF RequestsTyped

LEMMA CallsTypes ==
    ASSUME RequestsTyped, CallsTyped, NEW c \in Calls, (\E m \in Commands : Look(c, m)) \/ Ask(c)
    PROVE  CallsTyped'
  <1>1. ASSUME NEW m \in Commands, Look(c, m) PROVE CallsTyped'
    <2> DEFINE q == [pc |-> "looked", command |-> m,
                     preexisting |-> request[m.effect.request].present]
    <2>1. request[m.effect.request].present \in BOOLEAN
      BY <1>1, CommandFits, RequestEffectFits, RequestRow DEF Look
    <2>2. q \in Asking /\ q.command = m
      BY <2>1 DEF Asking
    <2>3. call' = [call EXCEPT ![c] = q] /\ m.op = "ask"
      BY <1>1 DEF Look
    <2> HIDE DEF q
    <2> QED BY <2>2, <2>3 DEF CallsTyped
  <1>2. ASSUME CheckLinks(c) PROVE CallsTyped'
    <2> DEFINE q == [call[c] EXCEPT !.pc = "linked"]
    <2>1. call[c] \in Asking /\ call[c].command.op = "ask"
      BY <1>2, AskingCall DEF CheckLinks
    <2>2. q \in Asking /\ q.command = call[c].command
      BY <2>1 DEF Asking
    <2>3. call' = [call EXCEPT ![c] = q]
      BY <1>2 DEF CheckLinks, CallsTyped
    <2> HIDE DEF q
    <2> QED BY <2>1, <2>2, <2>3 DEF CallsTyped
  <1>3. ASSUME ReplayAsk(c) \/ InsertRequest(c) \/ Refuse(c) PROVE CallsTyped'
    BY <1>3, Ended DEF ReplayAsk, InsertRequest, Refuse
  <1> QED BY <1>1, <1>2, <1>3 DEF Ask

\* Every step of the specification, as one of the lemmas sees it.
LEMMA Steps ==
    ASSUME Next
    PROVE  \/ \E m \in Commands, v \in 0..MaxVersion : ChangeScope(m, v)
           \/ \E m \in Commands : \/ CreatePlain(m) \/ CreateScoped(m) \/ ReplayCreate(m)
                                  \/ \E v \in 0..MaxVersion : Comment(m, v)
           \/ \E m \in Commands, v \in 0..MaxVersion : Resolve(m, v) \/ Cancel(m, v)
           \/ \E m \in Commands : ReplayScope(m) \/ ReplayDecision(m)
           \/ \E c \in Calls : (\E m \in Commands : Look(c, m)) \/ Ask(c)
  BY DEF Next, Write

LEMMA TypeInvariant == Spec => []TypeInv
  <1>1. Init => TypeInv
    <2> SUFFICES ASSUME Init PROVE TypeInv
      OBVIOUS
    <2>1. IssuesTyped
      BY ConstantsAssumption DEF Init, IssuesTyped
    <2>2. RequestsTyped
      BY DEF Init, RequestsTyped, Absent
    <2>3. CallsTyped
      BY DEF Init, CallsTyped
    <2> QED BY <2>1, <2>2, <2>3 DEF Init, TypeInv
  <1>2. TypeInv /\ [Next]_vars => TypeInv'
    <2> SUFFICES ASSUME TypeInv, [Next]_vars PROVE TypeInv'
      OBVIOUS
    <2> USE DEF TypeInv
    <2>1. ASSUME NEW m \in Commands, NEW v \in 0..MaxVersion, ChangeScope(m, v) PROVE TypeInv'
      <3>1. IssuesTyped'
        BY <2>1, ScopeTypes
      <3> QED BY <2>1, <3>1 DEF ChangeScope, requestVars, RequestsTyped, CallsTyped
    <2>2. ASSUME NEW m \in Commands,
                 \/ CreatePlain(m) \/ CreateScoped(m) \/ ReplayCreate(m)
                 \/ \E v \in 0..MaxVersion : Comment(m, v)
          PROVE TypeInv'
      <3>1. IssuesTyped'
        BY <2>2, IssueTypes
      <3>2. answer' = m /\ UNCHANGED <<request, record, decisionEvents, call>>
        BY <2>2 DEF CreatePlain, CreateScoped, ReplayCreate, Comment, requestVars
      <3> QED BY <3>1, <3>2 DEF RequestsTyped, CallsTyped
    <2>3. ASSUME NEW m \in Commands, NEW v \in 0..MaxVersion, Resolve(m, v) \/ Cancel(m, v)
          PROVE  TypeInv'
      <3>1. RequestsTyped'
        BY <2>3, DecideTypes
      <3>2. answer' = m /\ UNCHANGED <<version, issueEvents, link, scopeEvents, call>>
        BY <2>3 DEF Resolve, Cancel, Decides, issueVars
      <3> QED BY <3>1, <3>2 DEF IssuesTyped, CallsTyped
    <2>4. ASSUME NEW m \in Commands, ReplayScope(m) \/ ReplayDecision(m) PROVE TypeInv'
      BY <2>4 DEF ReplayScope, ReplayDecision, issueVars, requestVars, IssuesTyped,
                  RequestsTyped, CallsTyped
    <2>5. ASSUME NEW c \in Calls, (\E m \in Commands : Look(c, m)) \/ Ask(c) PROVE TypeInv'
      <3>1. CallsTyped'
        BY <2>5, CallsTypes
      <3>2. UNCHANGED <<version, issueEvents, link, scopeEvents>>
        BY <2>5 DEF Look, Ask, ReplayAsk, CheckLinks, InsertRequest, Refuse, issueVars
      <3>3. IssuesTyped'
        BY <3>2 DEF IssuesTyped
      <3>4. CASE ReplayAsk(c) \/ InsertRequest(c)
        <4>1. RequestsTyped'
          BY <3>4, ReplayAskTypes, InsertTypes
        <4>2. answer' \in Commands
          BY <3>4, AskingCall DEF ReplayAsk, InsertRequest
        <4> QED BY <3>1, <3>3, <4>1, <4>2
      <3>5. CASE (\E m \in Commands : Look(c, m)) \/ CheckLinks(c) \/ Refuse(c)
        <4>1. UNCHANGED <<request, record, decisionEvents, answer>>
          BY <3>5 DEF Look, CheckLinks, Refuse, requestVars
        <4> QED BY <3>1, <3>3, <4>1 DEF RequestsTyped
      <3> QED BY <2>5, <3>4, <3>5 DEF Ask
    <2>6. CASE UNCHANGED vars
      BY <2>6 DEF vars, issueVars, requestVars, IssuesTyped, RequestsTyped, CallsTyped
    <2> QED BY <2>1, <2>2, <2>3, <2>4, <2>5, <2>6, Steps
  <1> QED BY <1>1, <1>2, PTL DEF Spec

-----------------------------------------------------------------------------
(* The versions of an issue.  Told(O, S, n): the n versions that were left *)
(* have one event each, in O (the ledger of the issue) or in S (that of    *)
(* its scopes).                                                            *)

OwnEvents(i) == {e \in issueEvents : e.issue = i}
ScopeEventsOf(i) == {e \in scopeEvents : e.effect.issue = i}

Told(O, S, n) ==
    /\ IsFiniteSet(O) /\ IsFiniteSet(S)
    /\ {e.expected : e \in O \cup S} = 0..(n - 1)
    /\ Cardinality(O) + Cardinality(S) = n

\* New events, one for each version from n to w - 1, tell w versions.
LEMMA ToldMore ==
    ASSUME NEW O, NEW S, NEW n \in Nat, Told(O, S, n),
           NEW P, NEW T, IsFiniteSet(P), IsFiniteSet(T), P \cap O = {}, T \cap S = {},
           NEW w \in Nat, w >= n,
           {e.expected : e \in P \cup T} = n..(w - 1), Cardinality(P) + Cardinality(T) = w - n
    PROVE  Told(O \cup P, S \cup T, w)
  <1>1. /\ Cardinality(O) \in Nat /\ Cardinality(S) \in Nat
        /\ Cardinality(P) \in Nat /\ Cardinality(T) \in Nat
    BY FS_CardinalityType DEF Told
  <1>2. /\ IsFiniteSet(O \cup P)
        /\ Cardinality(O \cup P) = Cardinality(O) + Cardinality(P) - Cardinality(O \cap P)
    BY FS_Union DEF Told
  <1>3. /\ IsFiniteSet(S \cup T)
        /\ Cardinality(S \cup T) = Cardinality(S) + Cardinality(T) - Cardinality(S \cap T)
    BY FS_Union DEF Told
  <1>4. Cardinality(O \cap P) = 0 /\ Cardinality(S \cap T) = 0
    BY FS_EmptySet
  <1>5. Cardinality(O \cup P) + Cardinality(S \cup T) = w
    BY <1>1, <1>2, <1>3, <1>4 DEF Told
  <1>6. {e.expected : e \in (O \cup P) \cup (S \cup T)}
           = {e.expected : e \in O \cup S} \cup {e.expected : e \in P \cup T}
    OBVIOUS
  <1>7. (0..(n - 1)) \cup (n..(w - 1)) = 0..(w - 1)
    OBVIOUS
  <1> QED BY <1>2, <1>3, <1>5, <1>6, <1>7 DEF Told

LEMMA ToldOneMore ==
    ASSUME NEW O, NEW S, NEW n \in Nat, Told(O, S, n), NEW x, x.expected = n
    PROVE  /\ {x} \cap O = {} => Told(O \cup {x}, S, n + 1)
           /\ {x} \cap S = {} => Told(O, S \cup {x}, n + 1)
  <1> DEFINE X == {x}
             none == {}
             m == n + 1
  <1>1. IsFiniteSet(X) /\ Cardinality(X) = 1
    BY FS_Singleton
  <1>2. /\ IsFiniteSet(none) /\ Cardinality(none) = 0
        /\ none \cap O = {} /\ none \cap S = {} /\ O \cup none = O /\ S \cup none = S
        /\ X \cup none = X /\ none \cup X = X
    BY FS_EmptySet
  <1>3. {e.expected : e \in X} = n..(m - 1)
    <2>1. n..((n + 1) - 1) = {n}
      OBVIOUS
    <2> QED BY <2>1
  <1>4. m \in Nat /\ m >= n /\ 1 + 0 = m - n /\ 0 + 1 = m - n
    OBVIOUS
  <1> HIDE DEF X, none, m
  <1>5. ASSUME X \cap O = {} PROVE Told(O \cup X, S, m)
    <2>1. {e.expected : e \in X \cup none} = n..(m - 1) /\ Cardinality(X) + Cardinality(none) = m - n
      BY <1>1, <1>2, <1>3, <1>4
    <2>2. Told(O \cup X, S \cup none, m)
      BY <1>1, <1>2, <1>4, <1>5, <2>1, ToldMore
    <2> QED BY <1>2, <2>2
  <1>6. ASSUME X \cap S = {} PROVE Told(O, S \cup X, m)
    <2>1. {e.expected : e \in none \cup X} = n..(m - 1) /\ Cardinality(none) + Cardinality(X) = m - n
      BY <1>1, <1>2, <1>3, <1>4
    <2>2. Told(O \cup none, S \cup X, m)
      BY <1>1, <1>2, <1>4, <1>6, <2>1, ToldMore
    <2> QED BY <1>2, <2>2
  <1> QED BY <1>5, <1>6 DEF X, m

VersionsTold == \A i \in Issues : Told(OwnEvents(i), ScopeEventsOf(i), version[i])

\* What one command on the scopes writes.
LEMMA ChangeTold ==
    ASSUME IssuesTyped, VersionsTold, NEW k \in Keys, NEW e \in ScopeEffect,
           NEW v \in 0..MaxVersion, Moves(e.issue, v), OnRecord(k, e, v),
           issueEvents' = issueEvents
    PROVE  VersionsTold'
  <1> DEFINE x == [key |-> <<k, 0>>, effect |-> e, expected |-> v]
  <1>1. /\ e.issue \in Issues /\ v \in Nat /\ version[e.issue] = v /\ version'[e.issue] = v + 1
        /\ \A j \in Issues : j # e.issue => version'[j] = version[j]
    BY ScopeEffectFits, MoveTypes, ConstantsAssumption
  <1>2. /\ scopeEvents' = scopeEvents \cup {x} /\ x \notin scopeEvents
        /\ x.effect.issue = e.issue /\ x.expected = v
    BY DEF OnRecord, ScopeKeyFree
  <1> HIDE DEF x
  <1>3. ASSUME NEW i \in Issues PROVE Told(OwnEvents(i), ScopeEventsOf(i), version[i])'
    <2>1. Told(OwnEvents(i), ScopeEventsOf(i), version[i]) /\ OwnEvents(i)' = OwnEvents(i)
      BY DEF VersionsTold, OwnEvents
    <2>2. CASE i # e.issue
      BY <1>1, <1>2, <2>1, <2>2 DEF ScopeEventsOf
    <2>3. CASE i = e.issue
      <3>1. ScopeEventsOf(i)' = ScopeEventsOf(i) \cup {x} /\ {x} \cap ScopeEventsOf(i) = {}
        BY <1>2, <2>3 DEF ScopeEventsOf
      <3>2. Told(OwnEvents(i), ScopeEventsOf(i) \cup {x}, v + 1)
        BY <1>1, <1>2, <2>1, <2>3, <3>1, ToldOneMore
      <3> QED BY <1>1, <2>1, <2>3, <3>1, <3>2
    <2> QED BY <2>2, <2>3
  <1> QED BY <1>3 DEF VersionsTold

\* What one command on the issue itself writes.
LEMMA CommentTold ==
    ASSUME IssuesTyped, VersionsTold, NEW k \in Keys, NEW i \in Issues, NEW v \in Nat,
           version[i] = v, version'[i] = v + 1,
           \A j \in Issues : j # i => version'[j] = version[j],
           IssueKeyFree(k), issueEvents' = issueEvents \cup {IssueEvent(k, i, v)},
           scopeEvents' = scopeEvents
    PROVE  VersionsTold'
  <1> DEFINE x == IssueEvent(k, i, v)
  <1>1. x.issue = i /\ x.expected = v /\ x.key = k
    BY DEF IssueEvent
  <1>2. issueEvents' = issueEvents \cup {x} /\ x \notin issueEvents
    BY <1>1 DEF IssueKeyFree
  <1> HIDE DEF x
  <1>3. ASSUME NEW j \in Issues PROVE Told(OwnEvents(j), ScopeEventsOf(j), version[j])'
    <2>1. /\ Told(OwnEvents(j), ScopeEventsOf(j), version[j])
          /\ ScopeEventsOf(j)' = ScopeEventsOf(j)
      BY DEF VersionsTold, ScopeEventsOf
    <2>2. CASE j # i
      BY <1>1, <1>2, <2>1, <2>2 DEF OwnEvents
    <2>3. CASE j = i
      <3>1. OwnEvents(j)' = OwnEvents(j) \cup {x} /\ {x} \cap OwnEvents(j) = {}
        BY <1>1, <1>2, <2>3 DEF OwnEvents
      <3>2. Told(OwnEvents(j) \cup {x}, ScopeEventsOf(j), v + 1)
        BY <1>1, <2>1, <2>3, <3>1, ToldOneMore
      <3> QED BY <2>1, <2>3, <3>1, <3>2
    <2> QED BY <2>2, <2>3
  <1> QED BY <1>3 DEF VersionsTold

\* The events of a creation: one for each new scope, on consecutive versions.
LEMMA AddedEventsTell ==
    ASSUME NEW m \in Commands, m.op = "create", NEW n \in 0..Len(m.scopes), NEW v \in Nat,
           \A j \in Added(m, n) : ScopeKeyFree(<<m.key, j>>)
    PROVE  /\ IsFiniteSet(AddedEvents(m, n, v))
           /\ Cardinality(AddedEvents(m, n, v)) = Len(m.scopes) - n
           /\ {e.expected : e \in AddedEvents(m, n, v)} = v..(v + Len(m.scopes) - n - 1)
           /\ AddedEvents(m, n, v) \cap scopeEvents = {}
           /\ \A e \in AddedEvents(m, n, v) : e.effect.issue = m.issue
  <1> DEFINE event(j) == [key |-> <<m.key, j>>, effect |-> Linked(m.issue, m.scopes[j]),
                          expected |-> v + j - n - 1]
             J == Added(m, n)
             E == AddedEvents(m, n, v)
             f == [j \in J |-> event(j)]
  <1>1. Len(m.scopes) \in Nat /\ J \subseteq Nat /\ J = (n + 1)..Len(m.scopes)
    BY ScopesOf DEF Added
  <1>2. E = {event(j) : j \in J}
    BY DEF AddedEvents
  <1>3. \A j \in J : /\ event(j).key = <<m.key, j>> /\ event(j).expected = v + j - n - 1
                     /\ event(j).effect.issue = m.issue
    BY DEF Linked
  <1>4. IsFiniteSet(J) /\ Cardinality(J) = Len(m.scopes) - n
    <2>1. n \in Int /\ Len(m.scopes) \in Int /\ n + 1 \in Int
      BY <1>1
    <2>2. /\ IsFiniteSet((n + 1)..Len(m.scopes))
          /\ Cardinality((n + 1)..Len(m.scopes)) =
                IF n + 1 > Len(m.scopes) THEN 0 ELSE Len(m.scopes) - (n + 1) + 1
      BY <2>1, FS_Interval
    <2> QED BY <1>1, <2>2
  <1> HIDE DEF event, J, E
  <1>5. f \in [J -> E]
    BY <1>2
  <1>6. \A e \in E : \E j \in J : f[j] = e
    BY <1>2
  <1>7. \A j, k \in J : f[j] = f[k] => j = k
    BY <1>3
  <1>8. f \in Surjection(J, E) /\ f \in Injection(J, E)
    BY <1>5, <1>6, <1>7 DEF Surjection, Injection, IsInjective
  <1>9. IsFiniteSet(E) /\ Cardinality(E) = Len(m.scopes) - n
    BY <1>4, <1>8, FS_Surjection
  <1>10. {e.expected : e \in E} = v..(v + Len(m.scopes) - n - 1)
    <2>1. {e.expected : e \in E} = {v + j - n - 1 : j \in J}
      BY <1>2, <1>3
    <2>2. \A x \in v..(v + Len(m.scopes) - n - 1) : x - v + n + 1 \in J
                                                     /\ x = v + (x - v + n + 1) - n - 1
      BY <1>1
    <2>3. \A j \in J : v + j - n - 1 \in v..(v + Len(m.scopes) - n - 1)
      BY <1>1
    <2>4. {v + j - n - 1 : j \in J} = v..(v + Len(m.scopes) - n - 1)
      BY <2>2, <2>3
    <2> QED BY <2>1, <2>4
  <1>11. E \cap scopeEvents = {}
    BY <1>2, <1>3 DEF ScopeKeyFree, J
  <1>12. \A e \in E : e.effect.issue = m.issue
    BY <1>2, <1>3
  <1> QED BY <1>9, <1>10, <1>11, <1>12 DEF E

\* A creation writes its own event (P) and those of the scopes it adds.
LEMMA AppendTold ==
    ASSUME IssuesTyped, VersionsTold, NEW m \in Commands, m.op = "create",
           NEW n \in 0..Len(m.scopes), NEW v \in 1..MaxVersion, AppendScopes(m, n, v),
           NEW P, issueEvents' = issueEvents \cup P, P \cap issueEvents = {},
           IsFiniteSet(P), \A e \in P : e.issue = m.issue,
           {e.expected : e \in P} = version[m.issue]..(v - 1),
           Cardinality(P) = v - version[m.issue], version[m.issue] <= v
    PROVE  VersionsTold'
  <1> DEFINE T == AddedEvents(m, n, v)
             w == v + Len(m.scopes) - n
  <1>1. /\ version'[m.issue] = w /\ scopeEvents' = scopeEvents \cup T
        /\ \A i \in Issues : i # m.issue => version'[i] = version[i]
    BY AppendTypes
  <1>2. /\ m.issue \in Issues /\ Len(m.scopes) \in Nat /\ v \in Nat /\ w \in Nat /\ n \in Nat
        /\ version[m.issue] \in Nat /\ w >= v
    BY ScopesOf, ConstantsAssumption DEF IssuesTyped
  <1>3. \A j \in Added(m, n) : ScopeKeyFree(<<m.key, j>>)
    BY DEF AppendScopes, Added
  <1>4. /\ IsFiniteSet(T) /\ Cardinality(T) = Len(m.scopes) - n
        /\ {e.expected : e \in T} = v..(w - 1) /\ T \cap scopeEvents = {}
        /\ \A e \in T : e.effect.issue = m.issue
    BY <1>2, <1>3, AddedEventsTell
  <1> HIDE DEF T, w
  <1>5. ASSUME NEW i \in Issues PROVE Told(OwnEvents(i), ScopeEventsOf(i), version[i])'
    <2>1. Told(OwnEvents(i), ScopeEventsOf(i), version[i])
      BY DEF VersionsTold
    <2>2. CASE i # m.issue
      <3>1. OwnEvents(i)' = OwnEvents(i) /\ ScopeEventsOf(i)' = ScopeEventsOf(i)
        BY <1>1, <1>4, <2>2 DEF OwnEvents, ScopeEventsOf
      <3> QED BY <1>1, <2>1, <2>2, <3>1
    <2>3. CASE i = m.issue
      <3>1. /\ OwnEvents(i)' = OwnEvents(i) \cup P /\ P \cap OwnEvents(i) = {}
            /\ ScopeEventsOf(i)' = ScopeEventsOf(i) \cup T /\ T \cap ScopeEventsOf(i) = {}
        BY <1>1, <1>4, <2>3 DEF OwnEvents, ScopeEventsOf
      <3>2. {e.expected : e \in P \cup T} = {e.expected : e \in P} \cup {e.expected : e \in T}
        OBVIOUS
      <3>3. (version[i]..(v - 1)) \cup (v..(w - 1)) = version[i]..(w - 1)
        BY <1>2, <2>3
      <3>4. {e.expected : e \in P \cup T} = version[i]..(w - 1)
        BY <1>4, <2>3, <3>2, <3>3
      <3>5. Cardinality(P) + Cardinality(T) = w - version[i]
        BY <1>2, <1>4, <2>3 DEF w
      <3>6. w >= version[i]
        BY <1>2, <2>3
      <3>7. Told(OwnEvents(i) \cup P, ScopeEventsOf(i) \cup T, w)
        BY <1>2, <1>4, <2>1, <2>3, <3>1, <3>4, <3>5, <3>6, ToldMore
      <3> QED BY <1>1, <2>3, <3>1, <3>7
    <2> QED BY <2>2, <2>3
  <1> QED BY <1>5 DEF VersionsTold

LEMMA VersionsInvariant == Spec => []VersionsTold
  <1>1. Init => VersionsTold
    <2> SUFFICES ASSUME Init, NEW i \in Issues
                 PROVE  Told(OwnEvents(i), ScopeEventsOf(i), version[i])
      BY DEF VersionsTold
    <2>1. OwnEvents(i) = {} /\ ScopeEventsOf(i) = {} /\ version[i] = 0
      BY DEF Init, OwnEvents, ScopeEventsOf
    <2>2. IsFiniteSet({}) /\ Cardinality({}) = 0
      BY FS_EmptySet
    <2>3. {e.expected : e \in {} \cup {}} = 0..(0 - 1)
      OBVIOUS
    <2> QED BY <2>1, <2>2, <2>3 DEF Told
  <1>2. TypeInv /\ VersionsTold /\ [Next]_vars => VersionsTold'
    <2> SUFFICES ASSUME TypeInv, VersionsTold, [Next]_vars PROVE VersionsTold'
      OBVIOUS
    <2>0. IssuesTyped /\ MaxVersion \in Nat \ {0}
      BY ConstantsAssumption DEF TypeInv
    <2>1. ASSUME NEW m \in Commands, NEW v \in 0..MaxVersion, ChangeScope(m, v)
          PROVE  VersionsTold'
      <3>1. /\ m.key \in Keys /\ m.effect \in ScopeEffect /\ issueEvents' = issueEvents
            /\ Moves(m.effect.issue, v) /\ OnRecord(m.key, m.effect, v)
        BY <2>1, CommandFits DEF ChangeScope, AddScope, RetireScope, ReplacePrimaryScope
      <3> QED BY <2>0, <3>1, ChangeTold
    <2>2. ASSUME NEW m \in Commands, NEW v \in 0..MaxVersion, Comment(m, v) PROVE VersionsTold'
      <3>1. /\ m.key \in Keys /\ m.issue \in Issues /\ Moves(m.issue, v)
            /\ IssueKeyFree(m.key) /\ scopeEvents' = scopeEvents
            /\ issueEvents' = issueEvents \cup {IssueEvent(m.key, m.issue, v)}
        BY <2>2, CommandFits DEF Comment
      <3>2. /\ version[m.issue] = v /\ version'[m.issue] = v + 1 /\ v \in Nat
            /\ \A j \in Issues : j # m.issue => version'[j] = version[j]
        BY <2>0, <3>1, MoveTypes
      <3> QED BY <2>0, <3>1, <3>2, CommentTold
    <2>3. ASSUME NEW m \in Commands, CreatePlain(m) PROVE VersionsTold'
      <3>1. /\ m.key \in Keys /\ m.issue \in Issues /\ version[m.issue] = 0
            /\ IssueKeyFree(m.key) /\ scopeEvents' = scopeEvents
            /\ issueEvents' = issueEvents \cup {IssueEvent(m.key, m.issue, 0)}
        BY <2>3, CommandFits DEF CreatePlain
      <3>2. /\ version'[m.issue] = 0 + 1
            /\ \A j \in Issues : j # m.issue => version'[j] = version[j]
        BY <2>0, <2>3, <3>1 DEF CreatePlain, IssuesTyped
      <3> QED BY <2>0, <3>1, <3>2, CommentTold
    <2>4. ASSUME NEW m \in Commands, CreateScoped(m) PROVE VersionsTold'
      <3> DEFINE P == {IssueEvent(m.key, m.issue, 0)}
      <3>1. /\ m.op = "create" /\ m.key \in Keys /\ m.issue \in Issues /\ version[m.issue] = 0
            /\ 0 \in 0..Len(m.scopes) /\ 1 \in 1..MaxVersion /\ 0 \in 0..MaxVersion
        BY <2>0, <2>4, ScopesOf, CommandFits DEF CreateScoped
      <3>2. /\ AppendScopes(m, 0, 1) /\ issueEvents' = issueEvents \cup P
            /\ P \cap issueEvents = {}
        BY <2>4, <3>1, IssueEventTypes DEF CreateScoped, IssueKeyFree
      <3>3. \A e \in P : e.issue = m.issue /\ e.expected = 0
        BY <3>1, IssueEventTypes
      <3>4. IsFiniteSet(P) /\ Cardinality(P) = 1
        BY FS_Singleton
      <3>5. {e.expected : e \in P} = 0..(1 - 1)
        <4>1. {e.expected : e \in P} = {0} /\ 0..(1 - 1) = {0}
          BY <3>3
        <4> QED BY <4>1
      <3> HIDE DEF P
      <3>6. Cardinality(P) = 1 - 0 /\ 0 <= 1
        BY <3>4
      <3> QED BY <2>0, <3>1, <3>2, <3>3, <3>4, <3>5, <3>6, AppendTold
    <2>5. ASSUME NEW m \in Commands, ReplayCreate(m) PROVE VersionsTold'
      <3> DEFINE none == {}
      <3>1. /\ m.op = "create" /\ m.issue \in Issues /\ version[m.issue] \in 1..MaxVersion
            /\ version[m.issue] \in Nat /\ issueEvents' = issueEvents \cup none
        BY <2>0, <2>5, CommandFits DEF ReplayCreate, IssuesTyped
      <3>2. PICK n \in 0..Len(m.scopes) : AppendScopes(m, n, version[m.issue])
        BY <2>5 DEF ReplayCreate
      <3>3. IsFiniteSet(none) /\ Cardinality(none) = 0 /\ none \cap issueEvents = {}
        BY FS_EmptySet
      <3>4. \A e \in none : e.issue = m.issue
        OBVIOUS
      <3>5. {e.expected : e \in none} = version[m.issue]..(version[m.issue] - 1)
        BY <3>1
      <3> HIDE DEF none
      <3>6. Cardinality(none) = version[m.issue] - version[m.issue]
            /\ version[m.issue] <= version[m.issue]
        BY <3>1, <3>3
      <3> QED BY <2>0, <3>1, <3>2, <3>3, <3>4, <3>5, <3>6, AppendTold
    <2>6. ASSUME UNCHANGED <<version, issueEvents, scopeEvents>> PROVE VersionsTold'
      BY <2>6 DEF VersionsTold, OwnEvents, ScopeEventsOf
    <2> QED BY <2>1, <2>2, <2>3, <2>4, <2>5, <2>6, Steps
            DEF Resolve, Cancel, Decides, ReplayScope, ReplayDecision, Look, Ask, ReplayAsk,
                CheckLinks, InsertRequest, Refuse, vars, issueVars
  <1> QED BY <1>1, <1>2, TypeInvariant, PTL DEF Spec

\* AttentionIsSound holds of every reachable state: rows and calls have their
\* shape, and each version that an issue left behind was left by one effect,
\* on record in one of the two ledgers that write it.
THEOREM AttentionStaysSound == Spec => []AttentionIsSound
  <1>1. TypeInv /\ VersionsTold => AttentionIsSound
    <2> SUFFICES ASSUME TypeInv, VersionsTold PROVE AttentionIsSound
      OBVIOUS
    <2>1. EffectsMoveVersionOnce
      BY DEF EffectsMoveVersionOnce, VersionsTold, Told, OwnEvents, ScopeEventsOf
    <2> QED BY <2>1, TypeInvIsTypeOK DEF AttentionIsSound
  <1> QED BY <1>1, TypeInvariant, VersionsInvariant, PTL

-----------------------------------------------------------------------------
(* Scope links.  Every effect retires some active links of one issue and   *)
(* inserts some new ones (Relinks); what it has looked at makes the issue  *)
(* keep its primary scope.                                                 *)

LinkedTo(i) == {l \in Links : IF link[l].present THEN link[l].issue = i ELSE FALSE}

IsPrimary(l) == link[l].scope.role = "primary"

LinksInv ==
    /\ \A l \in Links : link[l].present => EndpointExists(link[l].scope.entity)
    /\ \A i \in Issues : \A l, k \in Active(i) : l # k =>
          /\ link[l].scope.entity # link[k].scope.entity
          /\ ~(IsPrimary(l) /\ IsPrimary(k))
    /\ \A i \in Issues :
          (\E l \in LinkedTo(i) : IsPrimary(l)) => \E l \in Active(i) : IsPrimary(l)

\* The links of N are new, those of R are retired; "s" gives the new scopes.
Relinks(i, N, R, s) ==
    /\ N \subseteq Links /\ R \subseteq Active(i)
    /\ \A l \in N : ~link[l].present /\ s[l] \in Scope /\ EndpointExists(s[l].entity)
    /\ \A l \in N, k \in Active(i) \ R :
          /\ s[l].entity # link[k].scope.entity
          /\ s[l].role = "primary" => ~IsPrimary(k)
    /\ \A l, k \in N : l # k =>
          /\ s[l].entity # s[k].entity
          /\ ~(s[l].role = "primary" /\ s[k].role = "primary")
    /\ (\E l \in R : IsPrimary(l)) => \E l \in N : s[l].role = "primary"
    /\ \A l \in N : link'[l] = NewLink(i, s[l])
    /\ \A l \in R : link'[l] = [link[l] EXCEPT !.retired = TRUE]
    /\ \A l \in Links \ (N \cup R) : link'[l] = link[l]

LEMMA RelinksKeeps ==
    ASSUME IssuesTyped, LinksInv, record' = record, NEW i \in Issues, NEW N, NEW R, NEW s,
           Relinks(i, N, R, s)
    PROVE  LinksInv'
  <1>1. ASSUME NEW l \in N
        PROVE  /\ l \in Links /\ link'[l].present /\ ~link'[l].retired /\ link'[l].issue = i
               /\ link'[l].scope = s[l]
    BY NewLinkFits DEF Relinks
  <1>2. ASSUME NEW l \in R
        PROVE  /\ link'[l].present /\ link'[l].retired /\ link'[l].issue = i
               /\ link'[l].scope = link[l].scope /\ l \in Active(i) /\ l \in Links
    <2>1. l \in Active(i) /\ link'[l] = [link[l] EXCEPT !.retired = TRUE]
      BY DEF Relinks
    <2>2. l \in Links /\ link[l].issue = i /\ link[l].present /\ link[l] \in Link
      BY <2>1, ActiveRow
    <2> QED BY <2>1, <2>2 DEF Link
  <1>3. ASSUME NEW l \in Links, l \notin N, l \notin R PROVE link'[l] = link[l]
    BY <1>3 DEF Relinks
  <1>4. ASSUME NEW l \in Links, link'[l].present PROVE EndpointExists(link[l].scope.entity)'
    <2>1. CASE l \in N
      <3>1. EndpointExists(s[l].entity) /\ link'[l].scope = s[l]
        BY <1>1, <2>1 DEF Relinks
      <3> QED BY <3>1 DEF EndpointExists
    <2>2. CASE l \in R
      <3>1. EndpointExists(link[l].scope.entity) /\ link'[l].scope = link[l].scope
        BY <1>2, <2>2, ActiveRow DEF LinksInv
      <3> QED BY <3>1 DEF EndpointExists
    <2>3. CASE l \notin N /\ l \notin R
      <3>1. EndpointExists(link[l].scope.entity) /\ link'[l] = link[l]
        BY <1>3, <1>4, <2>3 DEF LinksInv
      <3> QED BY <3>1 DEF EndpointExists
    <2> QED BY <2>1, <2>2, <2>3
  <1>5. Active(i)' = (Active(i) \ R) \cup N
    <2>1. ASSUME NEW l \in Links PROVE l \in Active(i)' <=> l \in (Active(i) \ R) \cup N
      BY <1>1, <1>2, <1>3 DEF Active
    <2>2. Active(i)' \subseteq Links /\ (Active(i) \ R) \cup N \subseteq Links
      BY DEF Active, Relinks
    <2> QED BY <2>1, <2>2
  <1>6. ASSUME NEW j \in Issues, j # i
        PROVE  /\ Active(j)' = Active(j) /\ LinkedTo(j)' = LinkedTo(j)
               /\ \A l \in LinkedTo(j) : link'[l] = link[l]
    <2>1. ASSUME NEW l \in Links
          PROVE  /\ l \in Active(j)' <=> l \in Active(j)
                 /\ l \in LinkedTo(j)' <=> l \in LinkedTo(j)
                 /\ l \in LinkedTo(j) => link'[l] = link[l]
      <3>1. CASE l \in N
        <4>1. ~link[l].present
          BY <3>1 DEF Relinks
        <4> QED BY <1>1, <1>6, <3>1, <4>1 DEF Active, LinkedTo
      <3>2. CASE l \in R
        <4>1. link[l].present /\ link[l].issue = i
          BY <1>2, <3>2, ActiveRow
        <4> QED BY <1>2, <1>6, <3>2, <4>1 DEF Active, LinkedTo
      <3>3. CASE l \notin N /\ l \notin R
        BY <1>3, <3>3 DEF Active, LinkedTo
      <3> QED BY <3>1, <3>2, <3>3
    <2>2. /\ Active(j)' \subseteq Links /\ Active(j) \subseteq Links
          /\ LinkedTo(j)' \subseteq Links /\ LinkedTo(j) \subseteq Links
      BY DEF Active, LinkedTo
    <2> QED BY <2>1, <2>2
  <1>7. \A l \in Active(i) \ R : l \in Links /\ link'[l] = link[l]
    BY <1>1, <1>3, ActiveRow DEF Relinks
  <1>8. ASSUME NEW j \in Issues, NEW l \in Active(j)', NEW k \in Active(j)', l # k
        PROVE  /\ link'[l].scope.entity # link'[k].scope.entity
               /\ ~(link'[l].scope.role = "primary" /\ link'[k].scope.role = "primary")
    <2>1. CASE j # i
      <3>1. l \in Active(j) /\ k \in Active(j) /\ link'[l] = link[l] /\ link'[k] = link[k]
        BY <1>6, <2>1 DEF Active, LinkedTo
      <3> QED BY <1>8, <3>1 DEF LinksInv, IsPrimary
    <2>2. CASE j = i
      <3>1. l \in (Active(i) \ R) \cup N /\ k \in (Active(i) \ R) \cup N
        BY <1>5, <2>2
      <3>2. CASE l \in N /\ k \in N
        BY <1>1, <1>8, <3>2 DEF Relinks
      <3>3. CASE l \in N /\ k \in Active(i) \ R
        BY <1>1, <1>7, <3>3 DEF Relinks, IsPrimary
      <3>4. CASE l \in Active(i) \ R /\ k \in N
        BY <1>1, <1>7, <3>4 DEF Relinks, IsPrimary
      <3>5. CASE l \in Active(i) \ R /\ k \in Active(i) \ R
        BY <1>7, <1>8, <3>5 DEF LinksInv, IsPrimary
      <3> QED BY <3>1, <3>2, <3>3, <3>4, <3>5
    <2> QED BY <2>1, <2>2
  <1>9. ASSUME NEW j \in Issues, NEW l \in LinkedTo(j)', IsPrimary(l)'
         PROVE  \E k \in Active(j)' : IsPrimary(k)'
    <2>1. CASE j # i
      <3>1. l \in LinkedTo(j) /\ IsPrimary(l)
        BY <1>6, <1>9, <2>1 DEF IsPrimary
      <3>2. PICK k \in Active(j) : IsPrimary(k)
        BY <3>1 DEF LinksInv
      <3>3. k \in Active(j)' /\ link'[k] = link[k]
        BY <1>6, <2>1 DEF Active, LinkedTo
      <3> QED BY <3>2, <3>3 DEF IsPrimary
    <2>2. CASE j = i /\ \E k \in N : s[k].role = "primary"
      BY <1>1, <1>5, <2>2 DEF IsPrimary
    <2>3. CASE j = i /\ ~\E k \in N : s[k].role = "primary"
      <3>1. l \notin N
        BY <1>1, <1>9, <2>3 DEF IsPrimary
      <3>2. l \in LinkedTo(i) /\ IsPrimary(l)
        BY <1>2, <1>3, <1>9, <2>3, <3>1, ActiveRow DEF LinkedTo, IsPrimary
      <3>3. PICK k \in Active(i) : IsPrimary(k)
        BY <3>2 DEF LinksInv
      <3>4. k \notin R
        BY <2>3, <3>3 DEF Relinks
      <3>5. k \in Active(i)' /\ link'[k] = link[k]
        BY <1>5, <1>7, <3>4
      <3> QED BY <2>3, <3>3, <3>5 DEF IsPrimary
    <2> QED BY <2>1, <2>2, <2>3
  <1>10. \A j \in Issues : \A l, k \in Active(j)' : l # k =>
            /\ link'[l].scope.entity # link'[k].scope.entity
            /\ ~(IsPrimary(l)' /\ IsPrimary(k)')
    BY <1>8 DEF IsPrimary
  <1>11. \A j \in Issues :
            (\E l \in LinkedTo(j)' : IsPrimary(l)') => \E l \in Active(j)' : IsPrimary(l)'
    BY <1>9
  <1>12. \A l \in Links : link'[l].present => EndpointExists(link[l].scope.entity)'
    BY <1>4
  <1> QED BY <1>10, <1>11, <1>12 DEF LinksInv

\* The scopes of a creation: one link and one entity each, and one primary.
LEMMA WellFormedScopes ==
    ASSUME NEW m \in Commands, m.op = "create",
           NEW j \in 1..Len(m.scopes), NEW k \in 1..Len(m.scopes), j # k
    PROVE  /\ m.scopes[j].entity # m.scopes[k].entity /\ m.scopes[j].link # m.scopes[k].link
           /\ ~(m.scopes[j].role = "primary" /\ m.scopes[k].role = "primary")
  <1> DEFINE P == {i \in 1..Len(m.scopes) : m.scopes[i].role = "primary"}
  <1>1. WellFormed(m.scopes) /\ DOMAIN m.scopes = 1..Len(m.scopes) /\ Len(m.scopes) \in Nat
    BY CommandFits, ScopesOf
  <1>2. Cardinality(P) = 1
    BY <1>1 DEF WellFormed
  <1>3. IsFiniteSet(1..Len(m.scopes))
    BY <1>1, FS_Interval
  <1>4. IsFiniteSet(P)
    BY <1>3, FS_Subset
  <1>5. \E x : P = {x}
    BY <1>2, <1>4, FS_Singleton
  <1>6. ~(m.scopes[j].role = "primary" /\ m.scopes[k].role = "primary")
    BY <1>5
  <1> QED BY <1>1, <1>6 DEF WellFormed

LEMMA ChangeRelinks ==
    ASSUME IssuesTyped, LinksInv, NEW m \in Commands, NEW v \in 0..MaxVersion, ChangeScope(m, v)
    PROVE  \E i \in Issues : \E N, R, s : Relinks(i, N, R, s)
  <1> DEFINE e == m.effect
             i == e.issue
  <1>1. e \in ScopeEffect /\ i \in Issues
    BY CommandFits, ScopeEffectFits DEF ChangeScope
  <1>2. CASE e.type = "scope_linked" /\ AddScope(m.key, e, v)
    <2> DEFINE x == e.scope.link
               s == [l \in {x} |-> e.scope]
    <2>1. e.scope \in Scope /\ x \in Links
      BY <1>1, <1>2, ScopeEffectFits, NewLinkFits
    <2>2. link' = [link EXCEPT ![x] = NewLink(i, e.scope)] /\ Insertable(e.scope, Active(i))
      BY <1>2 DEF AddScope
    <2>3. link'[x] = NewLink(i, s[x]) /\ \A l \in Links : l # x => link'[l] = link[l]
      BY <2>1, <2>2 DEF IssuesTyped
    <2>4. s[x] = e.scope
      OBVIOUS
    <2> HIDE DEF s, e, i
    <2>5. Relinks(i, {x}, {}, s)
      BY <2>1, <2>2, <2>3, <2>4 DEF Relinks, Insertable, IsPrimary
    <2> QED BY <1>1, <2>5
  <1>3. CASE e.type = "scope_retired" /\ RetireScope(m.key, e, v)
    <2>1. /\ e.link \in Active(i) /\ ~IsPrimary(e.link)
          /\ link' = [link EXCEPT ![e.link].retired = TRUE]
      BY <1>3 DEF RetireScope, IsPrimary
    <2>2. e.link \in Links
      BY <2>1, ActiveRow
    <2>3. /\ link'[e.link] = [link[e.link] EXCEPT !.retired = TRUE]
          /\ \A l \in Links : l # e.link => link'[l] = link[l]
      BY <2>1, <2>2 DEF IssuesTyped
    <2>4. Relinks(i, {}, {e.link}, <<>>)
      BY <2>1, <2>3 DEF Relinks
    <2> QED BY <1>1, <2>4
  <1>4. CASE e.type = "primary_scope_replaced" /\ ReplacePrimaryScope(m.key, e, v)
    <2> DEFINE x == e.scope.link
               old == e.current
               s == [l \in {x} |-> e.scope]
    <2>1. e.scope \in Scope /\ x \in Links /\ e.scope.role = "primary"
      BY <1>1, <1>4, CommandFits, ScopeEffectFits, NewLinkFits DEF ChangeScope
    <2>2. /\ old \in Active(i) /\ Insertable(e.scope, Active(i) \ {old})
          /\ link' = [link EXCEPT ![old].retired = TRUE, ![x] = NewLink(i, e.scope)]
      BY <1>4 DEF ReplacePrimaryScope
    <2>3. old \in Links /\ link[old].present /\ ~link[x].present
      BY <2>2, ActiveRow DEF Insertable
    <2>4. /\ link'[x] = NewLink(i, e.scope) /\ link'[old] = [link[old] EXCEPT !.retired = TRUE]
          /\ \A l \in Links : l # x /\ l # old => link'[l] = link[l]
      BY <2>1, <2>2, <2>3 DEF IssuesTyped
    <2>5. s[x] = e.scope
      OBVIOUS
    <2>6. /\ EndpointExists(s[x].entity) /\ s[x].role = "primary"
          /\ \A k \in Active(i) \ {old} :
                s[x].entity # link[k].scope.entity /\ ~IsPrimary(k)
      BY <2>1, <2>2, <2>5 DEF Insertable, IsPrimary
    <2> HIDE DEF s, e, i, old, x
    <2>7. Relinks(i, {x}, {old}, s)
      BY <2>1, <2>2, <2>3, <2>4, <2>5, <2>6 DEF Relinks
    <2> QED BY <1>1, <2>7
  <1> QED BY <1>2, <1>3, <1>4 DEF ChangeScope

LEMMA AppendRelinks ==
    ASSUME IssuesTyped, NEW m \in Commands, m.op = "create", NEW n \in 0..Len(m.scopes),
           NEW v, AppendScopes(m, n, v)
    PROVE  \E N, R, s : Relinks(m.issue, N, R, s)
  <1> DEFINE J == Added(m, n)
             N == {m.scopes[j].link : j \in J}
             s == [l \in N |-> m.scopes[CHOOSE j \in J : m.scopes[j].link = l]]
             i == m.issue
  <1>1. /\ J \subseteq 1..Len(m.scopes) /\ i \in Issues
        /\ \A j \in 1..Len(m.scopes) : m.scopes[j] \in Scope
    BY ScopesOf
  <1>2. /\ \A j \in J : Insertable(m.scopes[j], Active(i))
        /\ link' = [l \in Links |->
                      IF \E j \in J : m.scopes[j].link = l
                      THEN NewLink(i, m.scopes[CHOOSE j \in J : m.scopes[j].link = l])
                      ELSE link[l]]
    BY DEF AppendScopes, Added
  <1>3. \A l \in N : \E j \in J : m.scopes[j].link = l /\ s[l] = m.scopes[j]
    OBVIOUS
  <1>4. N \subseteq Links
    BY <1>1, NewLinkFits
  <1>5. \A l \in N : link'[l] = NewLink(i, s[l])
    BY <1>2, <1>4
  <1>6. \A l \in Links : l \notin N => link'[l] = link[l]
    BY <1>2
  <1> HIDE DEF J, N, s, i
  <1>7. ASSUME NEW l \in N
        PROVE  ~link[l].present /\ s[l] \in Scope /\ EndpointExists(s[l].entity)
    <2>1. PICK j \in J : m.scopes[j].link = l /\ s[l] = m.scopes[j]
      BY <1>3
    <2> QED BY <1>1, <1>2, <2>1 DEF Insertable
  <1>8. ASSUME NEW l \in N, NEW k \in Active(i)
        PROVE  /\ s[l].entity # link[k].scope.entity
               /\ s[l].role = "primary" => ~IsPrimary(k)
    <2>1. PICK j \in J : m.scopes[j].link = l /\ s[l] = m.scopes[j]
      BY <1>3
    <2> QED BY <1>2, <2>1 DEF Insertable, IsPrimary
  <1>9. ASSUME NEW l \in N, NEW k \in N, l # k
        PROVE  /\ s[l].entity # s[k].entity
               /\ ~(s[l].role = "primary" /\ s[k].role = "primary")
    <2>1. PICK j \in J : m.scopes[j].link = l /\ s[l] = m.scopes[j]
      BY <1>3
    <2>2. PICK h \in J : m.scopes[h].link = k /\ s[k] = m.scopes[h]
      BY <1>3
    <2> QED BY <1>1, <1>9, <2>1, <2>2, WellFormedScopes
  <1>10. Relinks(i, N, {}, s)
    BY <1>4, <1>5, <1>6, <1>7, <1>8, <1>9 DEF Relinks
  <1> QED BY <1>10 DEF i

LEMMA LinksInvariant == Spec => []LinksInv
  <1>1. Init => LinksInv
    <2> SUFFICES ASSUME Init PROVE LinksInv
      OBVIOUS
    <2>1. \A l \in Links : ~link[l].present
      BY DEF Init, Absent
    <2>2. \A i \in Issues : Active(i) = {} /\ LinkedTo(i) = {}
      BY <2>1 DEF Active, LinkedTo
    <2> QED BY <2>1, <2>2 DEF LinksInv
  <1>2. TypeInv /\ LinksInv /\ [Next]_vars => LinksInv'
    <2> SUFFICES ASSUME TypeInv, LinksInv, [Next]_vars PROVE LinksInv'
      OBVIOUS
    <2>0. IssuesTyped /\ RequestsTyped
      BY DEF TypeInv
    <2>1. ASSUME NEW m \in Commands, NEW v \in 0..MaxVersion, ChangeScope(m, v) PROVE LinksInv'
      <3>1. record' = record
        BY <2>1 DEF ChangeScope, requestVars
      <3> QED BY <2>0, <2>1, <3>1, ChangeRelinks, RelinksKeeps
    <2>2. ASSUME NEW m \in Commands, CreateScoped(m) \/ ReplayCreate(m) PROVE LinksInv'
      <3>1. record' = record /\ m.op = "create" /\ m.issue \in Issues /\ Len(m.scopes) \in Nat
        BY <2>2, ScopesOf, CommandFits DEF CreateScoped, ReplayCreate, requestVars
      <3>2. \E n \in 0..Len(m.scopes), v \in 1..MaxVersion \cup {version[m.issue]} :
               AppendScopes(m, n, v)
        BY <2>2, <3>1, ConstantsAssumption DEF CreateScoped, ReplayCreate
      <3> QED BY <2>0, <3>1, <3>2, AppendRelinks, RelinksKeeps
    <2>3. ASSUME UNCHANGED link, \A d \in Records : record[d].present => record'[d].present
          PROVE  LinksInv'
      <3>1. \A e : EndpointExists(e) => (e \in Records => record'[e].present)
        BY <2>3 DEF EndpointExists
      <3>2. \A i : Active(i)' = Active(i) /\ LinkedTo(i)' = LinkedTo(i)
        BY <2>3 DEF Active, LinkedTo
      <3>3. \A l \in Links : link'[l].present => EndpointExists(link[l].scope.entity)'
        BY <2>3, <3>1 DEF LinksInv, EndpointExists
      <3> QED BY <2>3, <3>2, <3>3 DEF LinksInv, IsPrimary
    <2>4. ASSUME NEW m \in Commands, NEW v \in 0..MaxVersion, Resolve(m, v) \/ Cancel(m, v)
          PROVE  link' = link /\ \A d \in Records : record[d].present => record'[d].present
      BY <2>0, <2>4 DEF Resolve, Cancel, Decides, issueVars, RequestsTyped
    <2> QED BY <2>1, <2>2, <2>3, <2>4, Steps
            DEF CreatePlain, Comment, ReplayScope, ReplayDecision, Look, Ask, ReplayAsk,
                CheckLinks, InsertRequest, Refuse, vars, issueVars, requestVars
  <1> QED BY <1>1, <1>2, TypeInvariant, PTL DEF Spec

-----------------------------------------------------------------------------
(* Decision Requests.  RequestTold(q): the ledger of request q has as many *)
(* events as its revision says, and the records about it are the one that  *)
(* its row names.                                                          *)

RequestEvents(q) == {e \in decisionEvents : e.effect.request = q}
Taken(q) == {d \in Records : IF record[d].present THEN record[d].request = q ELSE FALSE}

ResolvedBy(q, d) ==
    [type |-> "request_resolved", request |-> q, record |-> d, value |-> record[d].value]

RequestTold(q) ==
    /\ IsFiniteSet(RequestEvents(q))
    /\ Cardinality(RequestEvents(q)) = IF request[q].present THEN request[q].revision ELSE 0
    /\ Taken(q) = IF request[q].present THEN {request[q].decision} \ {None} ELSE {}
    /\ request[q].present => (request[q].status = "resolved" <=> request[q].decision # None)
    /\ \A d \in Taken(q) : \E e \in RequestEvents(q) : e.effect = ResolvedBy(q, d)

OneBlocker == \A i \in Issues : \A p, q \in Blockers(i) : p = q

GatesInv == OneBlocker /\ \A q \in Requests : RequestTold(q)

\* One more event in the ledger of request q, and in no other.
LEMMA DecisionEventAdded ==
    ASSUME NEW k, NEW e, NEW v, DecisionKeyFree(k), IsFiniteSet(RequestEvents(e.request)),
           decisionEvents' = decisionEvents \cup {DecisionEvent(k, e, v)}
    PROVE  /\ IsFiniteSet(RequestEvents(e.request)')
           /\ Cardinality(RequestEvents(e.request)') = Cardinality(RequestEvents(e.request)) + 1
           /\ \A p : p # e.request => RequestEvents(p)' = RequestEvents(p)
           /\ \E x \in RequestEvents(e.request)' : x.effect = e
           /\ \A p : RequestEvents(p) \subseteq RequestEvents(p)'
  <1> DEFINE x == DecisionEvent(k, e, v)
  <1>1. x.key = k /\ x.effect = e
    BY DEF DecisionEvent
  <1>2. x \notin decisionEvents /\ decisionEvents' = decisionEvents \cup {x}
    BY <1>1 DEF DecisionKeyFree
  <1> HIDE DEF x
  <1>3. RequestEvents(e.request)' = RequestEvents(e.request) \cup {x}
    BY <1>1, <1>2 DEF RequestEvents
  <1>4. x \notin RequestEvents(e.request)
    BY <1>2 DEF RequestEvents
  <1>5. /\ IsFiniteSet(RequestEvents(e.request) \cup {x})
        /\ Cardinality(RequestEvents(e.request) \cup {x}) = Cardinality(RequestEvents(e.request)) + 1
    BY <1>4, FS_AddElement
  <1>6. \A p : p # e.request => RequestEvents(p)' = RequestEvents(p)
    BY <1>1, <1>2 DEF RequestEvents
  <1>7. \A p : RequestEvents(p) \subseteq RequestEvents(p)'
    BY <1>2 DEF RequestEvents
  <1> QED BY <1>1, <1>3, <1>5, <1>6, <1>7

\* A request whose row, events and records stay is told as before.
LEMMA RequestStays ==
    ASSUME NEW q, RequestTold(q), RequestEvents(q)' = RequestEvents(q), Taken(q)' = Taken(q),
           \A d \in Taken(q) : record'[d].value = record[d].value,
           request'[q].present = request[q].present,
           request[q].present => /\ request'[q].revision = request[q].revision
                                 /\ request'[q].status = request[q].status
                                 /\ request'[q].decision = request[q].decision
    PROVE  RequestTold(q)'
  BY DEF RequestTold, ResolvedBy

LEMMA InsertKeepsGates ==
    ASSUME TypeInv, GatesInv, NEW c \in Calls, InsertRequest(c)
    PROVE  GatesInv'
  <1>0. PICK m, e, q : m = call[c].command /\ e = m.effect /\ q = e.request
    OBVIOUS
  <1> DEFINE row == [present |-> TRUE, issue |-> e.issue, project |-> e.project,
                     blocking |-> e.blocking, refs |-> m.refs, status |-> "pending",
                     revision |-> 1, decision |-> None]
  <1>1. q \in Requests /\ e.blocking \in BOOLEAN /\ e \in RequestEffect
    BY <1>0, AskingCall, RequestEffectFits DEF InsertRequest, TypeInv
  <1>2. /\ ~request[q].present /\ (e.blocking => Blockers(e.issue) = {}) /\ DecisionKeyFree(m.key)
        /\ request' = [request EXCEPT ![q] = row] /\ record' = record
        /\ decisionEvents' = decisionEvents \cup {DecisionEvent(m.key, e, 0)}
    BY <1>0 DEF InsertRequest
  <1>3. row.present /\ row.revision = 1 /\ row.status = "pending" /\ row.decision = None
        /\ row.issue = e.issue /\ row.blocking = e.blocking
    OBVIOUS
  <1>4. RequestTold(q)
    BY <1>1 DEF GatesInv
  <1> HIDE DEF row
  <1>5. /\ IsFiniteSet(RequestEvents(q)') /\ Cardinality(RequestEvents(q)') = 1
        /\ \A p : p # q => RequestEvents(p)' = RequestEvents(p)
    <2>1. IsFiniteSet(RequestEvents(q)) /\ Cardinality(RequestEvents(q)) = 0
      BY <1>2, <1>4 DEF RequestTold
    <2> QED BY <1>0, <1>2, <2>1, DecisionEventAdded
  <1>6. request'[q] = row /\ \A p \in Requests : p # q => request'[p] = request[p]
    BY <1>1, <1>2 DEF TypeInv, RequestsTyped
  <1>7. \A p : Taken(p)' = Taken(p)
    BY <1>2 DEF Taken
  <1>8. RequestTold(q)'
    <2>1. Taken(q)' = {}
      BY <1>2, <1>4, <1>7 DEF RequestTold
    <2> QED BY <1>3, <1>5, <1>6, <2>1 DEF RequestTold
  <1>9. ASSUME NEW p \in Requests, p # q PROVE RequestTold(p)'
    <2>1. RequestTold(p)
      BY DEF GatesInv
    <2> QED BY <1>2, <1>5, <1>6, <1>7, <1>9, <2>1, RequestStays
  <1>10. ASSUME NEW i \in Issues, NEW p \in Blockers(i)', NEW r \in Blockers(i)', p # r
         PROVE  FALSE
    <2>1. \A t \in Requests : t # q => (t \in Blockers(i)' <=> t \in Blockers(i))
      BY <1>6 DEF Blockers, Pending
    <2>2. q \in Blockers(i)' => Blockers(i) = {}
      BY <1>2, <1>3, <1>6 DEF Blockers, Pending
    <2>3. p \in Requests /\ r \in Requests
      BY DEF Blockers
    <2>4. p # q /\ r # q
      BY <1>10, <2>1, <2>2, <2>3
    <2> QED BY <1>10, <2>1, <2>3, <2>4 DEF GatesInv, OneBlocker
  <1>11. OneBlocker'
    BY <1>10 DEF OneBlocker
  <1> QED BY <1>8, <1>9, <1>11 DEF GatesInv

LEMMA DecideKeepsGates ==
    ASSUME TypeInv, GatesInv, NEW m \in Commands, NEW v, Resolve(m, v) \/ Cancel(m, v)
    PROVE  GatesInv'
  <1> DEFINE e == m.effect
             q == e.request
  <1>1. e \in RequestEffect /\ m.op = "decide" /\ RequestsTyped
    BY CommandFits DEF Resolve, Cancel, TypeInv
  <1>2. PICK status \in {"resolved", "cancelled"}, d \in Records \cup {None} :
           /\ Decides(m, v, status, d)
           /\ \/ status = "resolved" /\ d = e.record /\ Resolve(m, v)
              \/ status = "cancelled" /\ d = None /\ Cancel(m, v)
    BY <1>1, RequestEffectFits DEF Resolve, Cancel
  <1> DEFINE row == Outcome(q, status, d)
  <1>3. /\ q \in Requests /\ request[q].present /\ request[q].revision = 1 /\ Pending(q)
        /\ request' = [request EXCEPT ![q] = row]
        /\ row.present /\ row.revision = 2 /\ row.status = status /\ row.decision = d
        /\ decisionEvents' = decisionEvents \cup {DecisionEvent(m.key, e, 1)}
    BY <1>1, <1>2, OutcomeOf
  <1>4. DecisionKeyFree(m.key)
    BY <1>2 DEF Decides
  <1> HIDE DEF row
  <1>5. RequestTold(q) /\ request[q].status = "pending"
    BY <1>3 DEF GatesInv, Pending
  <1>6. Taken(q) = {}
    BY <1>3, <1>5 DEF RequestTold
  <1>7. /\ IsFiniteSet(RequestEvents(q)') /\ Cardinality(RequestEvents(q)') = 2
        /\ \A p : p # q => RequestEvents(p)' = RequestEvents(p)
        /\ \E x \in RequestEvents(q)' : x.effect = e
    BY <1>3, <1>4, <1>5, DecisionEventAdded DEF RequestTold
  <1>8. request'[q] = row /\ \A p \in Requests : p # q => request'[p] = request[p]
    BY <1>1, <1>3 DEF RequestsTyped
  <1>9. RequestTold(q)'
    <2>1. CASE status = "cancelled"
      <3>1. record' = record /\ d = None
        BY <1>2, <2>1 DEF Cancel
      <3>2. Taken(q)' = {}
        BY <1>6, <3>1 DEF Taken
      <3> QED BY <1>3, <1>7, <1>8, <2>1, <3>1, <3>2 DEF RequestTold
    <2>2. CASE status = "resolved"
      <3> DEFINE new == [present |-> TRUE, request |-> q, value |-> e.value]
      <3>1. d = e.record /\ record' = [record EXCEPT ![d] = new] /\ e.type = "request_resolved"
        BY <1>2, <2>2 DEF Resolve
      <3>2. d \in Records /\ d # None
        BY <1>1, <3>1, RequestEffectFits, ConstantsAssumption
      <3>3. new.present /\ new.request = q /\ new.value = e.value
        OBVIOUS
      <3> HIDE DEF new
      <3>4. record'[d] = new /\ \A f \in Records : f # d => record'[f] = record[f]
        BY <1>1, <3>1, <3>2 DEF RequestsTyped
      <3>5. Taken(q)' = {d}
        BY <1>6, <3>2, <3>3, <3>4 DEF Taken
      <3>6. e = ResolvedBy(q, d)'
        BY <1>1, <3>1, <3>3, <3>4 DEF ResolvedBy, RequestEffect
      <3>7. {d} \ {None} = {d}
        BY <3>2
      <3> QED BY <1>3, <1>7, <1>8, <2>2, <3>2, <3>5, <3>6, <3>7 DEF RequestTold
    <2> QED BY <2>1, <2>2
  <1>10. ASSUME NEW p \in Requests, p # q PROVE RequestTold(p)'
    <2>1. RequestTold(p)
      BY DEF GatesInv
    <2>2. Taken(p)' = Taken(p) /\ \A f \in Taken(p) : record'[f].value = record[f].value
      <3>1. CASE record' = record
        BY <3>1 DEF Taken
      <3>2. CASE Resolve(m, v)
        <4> DEFINE new == [present |-> TRUE, request |-> q, value |-> e.value]
        <4>1. /\ record' = [record EXCEPT ![e.record] = new] /\ ~record[e.record].present
              /\ e.record \in Records
          BY <1>1, <3>2, RequestEffectFits DEF Resolve, RequestsTyped, Absent, Record
        <4>2. new.present /\ new.request = q
          OBVIOUS
        <4> HIDE DEF new
        <4>3. /\ record'[e.record] = new
              /\ \A f \in Records : f # e.record => record'[f] = record[f]
          BY <1>1, <4>1 DEF RequestsTyped
        <4> QED BY <1>10, <4>1, <4>2, <4>3 DEF Taken
      <3> QED BY <1>2, <3>1, <3>2 DEF Cancel
    <2> QED BY <1>7, <1>8, <1>10, <2>1, <2>2, RequestStays
  <1>11. OneBlocker'
    <2>1. \A i : Blockers(i)' \subseteq Blockers(i)
      BY <1>2, <1>3, <1>8 DEF Blockers, Pending
    <2> QED BY <2>1 DEF GatesInv, OneBlocker
  <1> QED BY <1>9, <1>10, <1>11 DEF GatesInv

LEMMA ReplayAskKeepsGates ==
    ASSUME TypeInv, GatesInv, NEW c \in Calls, ReplayAsk(c)
    PROVE  GatesInv'
  <1> DEFINE q == call[c].command.effect.request
  <1>1. q \in Requests /\ UNCHANGED <<record, decisionEvents>>
    BY AskingCall DEF ReplayAsk, TypeInv
  <1>2. request' = request \/ request' = [request EXCEPT ![q].refs = @ \cup call[c].command.refs]
    BY DEF ReplayAsk
  <1>3. request[q].present
    BY DEF ReplayAsk, DecisionReplayed, TypeInv, RequestsTyped
  <1>4. request[q] \in Request
    BY <1>1, <1>3, RequestRow DEF TypeInv
  <1>5. ASSUME NEW p \in Requests
        PROVE  /\ request'[p].present = request[p].present
               /\ request[p].present => /\ request'[p].revision = request[p].revision
                                        /\ request'[p].status = request[p].status
                                        /\ request'[p].decision = request[p].decision
                                        /\ request'[p].blocking = request[p].blocking
                                        /\ request'[p].issue = request[p].issue
    <2> DEFINE more == [request[q] EXCEPT !.refs = @ \cup call[c].command.refs]
    <2>1. /\ more.present = request[q].present /\ more.revision = request[q].revision
          /\ more.status = request[q].status /\ more.decision = request[q].decision
          /\ more.blocking = request[q].blocking /\ more.issue = request[q].issue
      BY <1>4 DEF Request
    <2>2. request' = request \/ request' = [request EXCEPT ![q] = more]
      BY <1>1, <1>2 DEF TypeInv, RequestsTyped
    <2> HIDE DEF more, q
    <2>3. request'[p] = request[p] \/ (p = q /\ request'[p] = more)
      BY <1>1, <2>2 DEF TypeInv, RequestsTyped
    <2> QED BY <2>1, <2>3
  <1>6. ASSUME NEW p \in Requests PROVE RequestTold(p)'
    <2>1. RequestTold(p) /\ Taken(p)' = Taken(p) /\ RequestEvents(p)' = RequestEvents(p)
      BY <1>1 DEF GatesInv, Taken, RequestEvents
    <2> QED BY <1>1, <1>5, <2>1, RequestStays
  <1>7. \A i : Blockers(i)' = Blockers(i)
    BY <1>5 DEF Blockers, Pending
  <1> QED BY <1>6, <1>7 DEF GatesInv, OneBlocker

LEMMA GatesInvariant == Spec => []GatesInv
  <1>1. Init => GatesInv
    <2> SUFFICES ASSUME Init PROVE GatesInv
      OBVIOUS
    <2>1. OneBlocker
      BY DEF Init, OneBlocker, Blockers, Pending, Absent
    <2>2. ASSUME NEW q \in Requests PROVE RequestTold(q)
      <3>1. RequestEvents(q) = {} /\ Taken(q) = {} /\ ~request[q].present
        BY DEF Init, RequestEvents, Taken, Absent
      <3>2. IsFiniteSet({}) /\ Cardinality({}) = 0
        BY FS_EmptySet
      <3> QED BY <3>1, <3>2 DEF RequestTold
    <2> QED BY <2>1, <2>2 DEF GatesInv
  <1>2. TypeInv /\ GatesInv /\ [Next]_vars => GatesInv'
    <2> SUFFICES ASSUME TypeInv, GatesInv, [Next]_vars PROVE GatesInv'
      OBVIOUS
    <2>1. ASSUME UNCHANGED <<request, record, decisionEvents>> PROVE GatesInv'
      <3>1. \A q \in Requests : RequestTold(q)'
        BY <2>1 DEF GatesInv, RequestTold, RequestEvents, Taken, ResolvedBy
      <3>2. \A i : Blockers(i)' = Blockers(i)
        BY <2>1 DEF Blockers, Pending
      <3> QED BY <3>1, <3>2 DEF GatesInv, OneBlocker
    <2> QED BY <2>1, Steps, InsertKeepsGates, DecideKeepsGates, ReplayAskKeepsGates
            DEF ChangeScope, CreatePlain, CreateScoped, ReplayCreate, Comment, ReplayScope,
                ReplayDecision, Look, Ask, CheckLinks, Refuse, vars, requestVars
  <1> QED BY <1>1, <1>2, TypeInvariant, PTL DEF Spec

\* GatesAreKept holds of every reachable state: an issue keeps one primary
\* scope, links no entity twice and no decision that was not taken; it has one
\* blocking request at most, which is resolved by one record at most.
THEOREM GatesStayKept == Spec => []GatesAreKept
  <1>1. TypeInv /\ LinksInv => PrimaryIsKept
    <2> SUFFICES ASSUME TypeInv, LinksInv PROVE PrimaryIsKept
      OBVIOUS
    <2> DEFINE primary(L) == {l \in L : link[l].scope.role = "primary"}
    <2>1. ASSUME NEW i \in Issues, primary(LinkedTo(i)) # {}
          PROVE  Cardinality(primary(Active(i))) = 1
      <3>1. PICK l \in Active(i) : IsPrimary(l)
        BY <2>1 DEF LinksInv, IsPrimary
      <3>2. primary(Active(i)) = {l}
        BY <3>1 DEF LinksInv, IsPrimary
      <3>3. Cardinality({l}) = 1
        BY FS_Singleton
      <3> QED BY <3>2, <3>3
    <2>2. \A i \in Issues : \A l, k \in Active(i) :
             l # k => link[l].scope.entity # link[k].scope.entity
      BY DEF LinksInv
    <2>3. \A l \in Links : link[l].present => EndpointExists(link[l].scope.entity)
      BY DEF LinksInv
    <2> QED BY <2>1, <2>2, <2>3 DEF PrimaryIsKept, LinkedTo
  <1>2. TypeInv /\ GatesInv => GatesAreSingle
    <2> SUFFICES ASSUME TypeInv, GatesInv PROVE GatesAreSingle
      OBVIOUS
    <2>1. ASSUME NEW i \in Issues PROVE Cardinality(Blockers(i)) <= 1
      <3>1. CASE Blockers(i) = {}
        <4>1. Cardinality({}) = 0
          BY FS_EmptySet
        <4> QED BY <3>1, <4>1
      <3>2. CASE Blockers(i) # {}
        <4>1. PICK q : Blockers(i) = {q}
          BY <3>2 DEF GatesInv, OneBlocker
        <4>2. Cardinality({q}) = 1
          BY FS_Singleton
        <4> QED BY <4>1, <4>2
      <3> QED BY <3>1, <3>2
    <2>2. ASSUME NEW q \in Requests
          PROVE  /\ Cardinality(RequestEvents(q))
                       = IF request[q].present THEN request[q].revision ELSE 0
                 /\ request[q].present =>
                       /\ request[q].revision = 1 <=> request[q].status = "pending"
                       /\ Taken(q) = {request[q].decision} \ {None}
                       /\ request[q].status = "resolved" <=> Taken(q) # {}
                 /\ \A d \in Taken(q) : \E e \in RequestEvents(q) :
                       e.effect = [type |-> "request_resolved", request |-> q, record |-> d,
                                   value |-> record[d].value]
      BY DEF GatesInv, RequestTold, TypeInv, RequestsTyped, ResolvedBy
    <2> QED BY <2>1, <2>2 DEF GatesAreSingle, RequestEvents, Taken
  <1> QED BY <1>1, <1>2, TypeInvariant, LinksInvariant, GatesInvariant, PTL DEF GatesAreKept

-----------------------------------------------------------------------------
(* Answers.  A ledger never loses an event, so that what an answer has      *)
(* behind it when it is given stays.                                       *)

Answered(m) ==
    CASE m.op \in {"plain", "comment"} ->
            \E e \in issueEvents : e.key = m.key /\ e.issue = m.issue
      [] m.op = "create" ->
            /\ version[m.issue] > 0
            /\ \A j \in DOMAIN m.scopes : \E e \in scopeEvents :
                  e.key = <<m.key, j>> /\ e.effect = Linked(m.issue, m.scopes[j])
      [] m.op = "scope" ->
            \E e \in scopeEvents : e.key = <<m.key, 0>> /\ e.effect = m.effect
      [] OTHER ->
            \E e \in decisionEvents : e.key = m.key /\ e.effect = m.effect

LedgersGrow ==
    /\ issueEvents \subseteq issueEvents'
    /\ scopeEvents \subseteq scopeEvents'
    /\ decisionEvents \subseteq decisionEvents'
    /\ \A i \in Issues : version[i] > 0 => version'[i] > 0

LEMMA LedgersOnlyGrow ==
    ASSUME TypeInv, [Next]_vars
    PROVE  LedgersGrow
  <1>0. IssuesTyped /\ MaxVersion \in Nat
    BY ConstantsAssumption DEF TypeInv
  <1>1. ASSUME NEW m \in Commands, NEW v \in 0..MaxVersion, ChangeScope(m, v) \/ Comment(m, v)
        PROVE  LedgersGrow
    <2>1. PICK i \in Issues : Moves(i, v)
      BY <1>1, CommandFits, ScopeEffectFits
         DEF ChangeScope, AddScope, RetireScope, ReplacePrimaryScope, Comment
    <2>2. \A j \in Issues : version[j] > 0 => version'[j] > 0
      BY <1>0, <2>1, MoveTypes
    <2> QED BY <1>1, <2>2 DEF LedgersGrow, ChangeScope, AddScope, RetireScope,
                              ReplacePrimaryScope, OnRecord, Comment, requestVars
  <1>2. ASSUME NEW m \in Commands, CreatePlain(m) PROVE LedgersGrow
    BY <1>0, <1>2, CommandFits DEF CreatePlain, LedgersGrow, IssuesTyped, requestVars
  <1>3. ASSUME NEW m \in Commands, CreateScoped(m) \/ ReplayCreate(m) PROVE LedgersGrow
    <2>1. /\ m.op = "create" /\ m.issue \in Issues /\ Len(m.scopes) \in Nat
          /\ issueEvents \subseteq issueEvents' /\ decisionEvents' = decisionEvents
      BY <1>3, CommandFits, ScopesOf DEF CreateScoped, ReplayCreate, requestVars
    <2>2. \E n \in 0..Len(m.scopes), v \in Nat : AppendScopes(m, n, v) /\ v > 0
      <3>1. CASE CreateScoped(m)
        BY <2>1, <3>1 DEF CreateScoped
      <3>2. CASE ReplayCreate(m)
        <4>1. version[m.issue] \in Nat /\ version[m.issue] > 0
          BY <1>0, <2>1, <3>2 DEF ReplayCreate, IssuesTyped
        <4> QED BY <3>2, <4>1 DEF ReplayCreate
      <3> QED BY <1>3, <3>1, <3>2
    <2>3. PICK n \in 0..Len(m.scopes), v \in Nat : AppendScopes(m, n, v) /\ v > 0
      BY <2>2
    <2>4. v + Len(m.scopes) - n > 0
      BY <2>1, <2>3
    <2> QED BY <1>0, <2>1, <2>3, <2>4 DEF AppendScopes, LedgersGrow, IssuesTyped
  <1>4. ASSUME NEW m \in Commands, NEW v \in 0..MaxVersion, Resolve(m, v) \/ Cancel(m, v)
        PROVE  LedgersGrow
    BY <1>4 DEF Resolve, Cancel, Decides, LedgersGrow, issueVars
  <1>5. ASSUME NEW c \in Calls, Ask(c) PROVE LedgersGrow
    BY <1>5 DEF Ask, ReplayAsk, CheckLinks, InsertRequest, Refuse, LedgersGrow, issueVars,
                requestVars
  <1>6. ASSUME UNCHANGED <<issueVars, requestVars>> PROVE LedgersGrow
    BY <1>6 DEF LedgersGrow, issueVars, requestVars
  <1> QED BY <1>1, <1>2, <1>3, <1>4, <1>5, <1>6, Steps
          DEF ReplayScope, ReplayDecision, Look, vars

LEMMA AnsweredStays ==
    ASSUME NEW m \in Commands, Answered(m), LedgersGrow
    PROVE  Answered(m)'
  <1>1. CASE m.op \in {"plain", "comment"}
    BY <1>1 DEF Answered, LedgersGrow
  <1>2. CASE m.op = "create"
    BY <1>2, CommandFits DEF Answered, LedgersGrow
  <1>3. CASE m.op = "scope"
    BY <1>3 DEF Answered, LedgersGrow
  <1>4. CASE m.op \notin {"plain", "comment", "create", "scope"}
    BY <1>4 DEF Answered, LedgersGrow
  <1> QED BY <1>1, <1>2, <1>3, <1>4

\* Each success has its command on record when it is answered.
LEMMA CreatedIsAnswered ==
    ASSUME TypeInv, NEW m \in Commands, CreateScoped(m) \/ ReplayCreate(m)
    PROVE  Answered(m)'
  <1>0. /\ m.op = "create" /\ m.issue \in Issues /\ Len(m.scopes) \in Nat
        /\ DOMAIN m.scopes = 1..Len(m.scopes) /\ IssuesTyped /\ MaxVersion \in Nat
    BY CommandFits, ScopesOf, ConstantsAssumption DEF CreateScoped, ReplayCreate, TypeInv
  <1>1. \E n \in 0..Len(m.scopes), v \in Nat :
           /\ AppendScopes(m, n, v) /\ v > 0
           /\ \A j \in 1..n : ScopeReplayed(m.key, j, Linked(m.issue, m.scopes[j]))
    <2>1. CASE CreateScoped(m)
      <3>1. \A j \in 1..0 : ScopeReplayed(m.key, j, Linked(m.issue, m.scopes[j]))
        OBVIOUS
      <3> QED BY <1>0, <2>1, <3>1 DEF CreateScoped
    <2>2. CASE ReplayCreate(m)
      <3>1. version[m.issue] \in Nat /\ version[m.issue] > 0
        BY <1>0, <2>2 DEF ReplayCreate, IssuesTyped
      <3> QED BY <2>2, <3>1 DEF ReplayCreate
    <2> QED BY <2>1, <2>2
  <1>2. PICK n \in 0..Len(m.scopes), v \in Nat :
           /\ AppendScopes(m, n, v) /\ v > 0
           /\ \A j \in 1..n : ScopeReplayed(m.key, j, Linked(m.issue, m.scopes[j]))
    BY <1>1
  <1>3. /\ scopeEvents' = scopeEvents \cup AddedEvents(m, n, v)
        /\ version'[m.issue] = v + Len(m.scopes) - n
    BY <1>0, <1>2 DEF AppendScopes, AddedEvents, Added, IssuesTyped
  <1>4. ASSUME NEW j \in 1..Len(m.scopes)
        PROVE  \E e \in scopeEvents' :
                  e.key = <<m.key, j>> /\ e.effect = Linked(m.issue, m.scopes[j])
    <2>1. CASE j <= n
      <3>1. j \in 1..n
        BY <1>0, <2>1
      <3>2. ScopeReplayed(m.key, j, Linked(m.issue, m.scopes[j]))
        BY <1>2, <3>1
      <3>3. PICK e \in scopeEvents : e.key = <<m.key, j>> /\ e.effect = Linked(m.issue, m.scopes[j])
        BY <3>2 DEF ScopeReplayed
      <3> QED BY <1>3, <3>3
    <2>2. CASE j > n
      <3>1. j \in Added(m, n)
        BY <1>0, <2>2 DEF Added
      <3>2. PICK x : x = [key |-> <<m.key, j>>, effect |-> Linked(m.issue, m.scopes[j]),
                          expected |-> v + j - n - 1]
        OBVIOUS
      <3>3. x \in AddedEvents(m, n, v)
        BY <3>1, <3>2 DEF AddedEvents
      <3>4. x.key = <<m.key, j>> /\ x.effect = Linked(m.issue, m.scopes[j])
        BY <3>2
      <3> QED BY <1>3, <3>3, <3>4
    <2> QED BY <1>0, <2>1, <2>2
  <1>5. version'[m.issue] > 0
    BY <1>0, <1>2, <1>3
  <1> QED BY <1>0, <1>4, <1>5 DEF Answered

LEMMA EventIsOfCommand ==
    ASSUME NEW k, NEW e, NEW v
    PROVE  DecisionEvent(k, e, v).key = k /\ DecisionEvent(k, e, v).effect = e
  BY DEF DecisionEvent

LEMMA AskedIsAnswered ==
    ASSUME TypeInv, NEW c \in Calls, ReplayAsk(c) \/ InsertRequest(c)
    PROVE  answer' \in Commands /\ Answered(answer)'
  <1>1. PICK m : m = call[c].command
    OBVIOUS
  <1>2. m \in Commands /\ m.op = "ask" /\ answer' = m
    BY <1>1, AskingCall DEF ReplayAsk, InsertRequest, TypeInv
  <1>3. \E e \in decisionEvents' : e.key = m.key /\ e.effect = m.effect
    <2>1. CASE ReplayAsk(c)
      BY <1>1, <2>1 DEF ReplayAsk, DecisionReplayed
    <2>2. CASE InsertRequest(c)
      <3>1. decisionEvents' = decisionEvents \cup {DecisionEvent(m.key, m.effect, 0)}
        BY <1>1, <2>2 DEF InsertRequest
      <3> QED BY <3>1, EventIsOfCommand
    <2> QED BY <2>1, <2>2
  <1> QED BY <1>2, <1>3 DEF Answered

LEMMA CommandIsAnswered ==
    ASSUME NEW m \in Commands,
           \/ CreatePlain(m) \/ ReplayScope(m) \/ ReplayDecision(m)
           \/ \E v \in 0..MaxVersion : Write(m, v)
    PROVE  answer' = m /\ Answered(m)'
  <1>1. ASSUME NEW v \in 0..MaxVersion, ChangeScope(m, v) PROVE answer' = m /\ Answered(m)'
    <2>1. m.op = "scope" /\ answer' = m /\ OnRecord(m.key, m.effect, v)
      BY <1>1 DEF ChangeScope, AddScope, RetireScope, ReplacePrimaryScope
    <2>2. PICK x : x = [key |-> <<m.key, 0>>, effect |-> m.effect, expected |-> v]
      OBVIOUS
    <2>3. x \in scopeEvents'
      BY <2>1, <2>2 DEF OnRecord
    <2>4. x.key = <<m.key, 0>> /\ x.effect = m.effect
      BY <2>2
    <2> QED BY <2>1, <2>3, <2>4 DEF Answered
  <1>2. ASSUME NEW v, CreatePlain(m) \/ Comment(m, v) PROVE answer' = m /\ Answered(m)'
    <2>1. PICK x : /\ x \in issueEvents' /\ answer' = m /\ m.op \in {"plain", "comment"}
                   /\ x = IssueEvent(m.key, m.issue, 0) \/ x = IssueEvent(m.key, m.issue, v)
      BY <1>2 DEF CreatePlain, Comment
    <2>2. x.key = m.key /\ x.issue = m.issue
      BY <2>1 DEF IssueEvent
    <2> QED BY <2>1, <2>2 DEF Answered
  <1>3. ASSUME NEW v, Resolve(m, v) \/ Cancel(m, v) PROVE answer' = m /\ Answered(m)'
    <2>1. /\ m.op = "decide" /\ answer' = m
          /\ DecisionEvent(m.key, m.effect, v) \in decisionEvents'
      BY <1>3 DEF Resolve, Cancel, Decides
    <2> QED BY <2>1, EventIsOfCommand DEF Answered
  <1>4. ASSUME ReplayScope(m) PROVE answer' = m /\ Answered(m)'
    BY <1>4 DEF ReplayScope, ScopeReplayed, Answered, issueVars
  <1>5. ASSUME ReplayDecision(m) PROVE answer' = m /\ Answered(m)'
    BY <1>5 DEF ReplayDecision, DecisionReplayed, Answered, requestVars
  <1> QED BY <1>1, <1>2, <1>3, <1>4, <1>5 DEF Write

\* AnswersAreRecorded holds of every reachable state: a success, also of a
\* replay or of a repeated creation that added the scopes it still lacked, has
\* exactly its own command on record.
THEOREM AnswersStayRecorded == Spec => []AnswersAreRecorded
  <1> DEFINE Inv == answer # None => Answered(answer)
  <1>1. Init => Inv
    BY DEF Init
  <1>2. TypeInv /\ Inv /\ [Next]_vars => Inv'
    <2> SUFFICES ASSUME TypeInv, Inv, [Next]_vars, answer' # None PROVE Answered(answer)'
      OBVIOUS
    <2>1. ASSUME answer' = answer PROVE Answered(answer)'
      <3>1. PICK m \in Commands : m = answer
        BY <2>1 DEF TypeInv
      <3>2. Answered(m)'
        BY <2>1, <3>1, LedgersOnlyGrow, AnsweredStays
      <3> QED BY <2>1, <3>1, <3>2
    <2>2. ASSUME NEW m \in Commands, answer' = m, Answered(m)' PROVE Answered(answer)'
      BY <2>2
    <2>3. ASSUME NEW m \in Commands, CreateScoped(m) \/ ReplayCreate(m) PROVE Answered(answer)'
      <3>1. answer' = m
        BY <2>3 DEF CreateScoped, ReplayCreate
      <3> QED BY <2>2, <2>3, <3>1, CreatedIsAnswered
    <2>4. ASSUME NEW m \in Commands,
                 \/ CreatePlain(m) \/ ReplayScope(m) \/ ReplayDecision(m)
                 \/ \E v \in 0..MaxVersion : Write(m, v)
          PROVE  Answered(answer)'
      BY <2>2, <2>4, CommandIsAnswered
    <2>5. ASSUME NEW c \in Calls, Ask(c) PROVE Answered(answer)'
      <3>1. CASE CheckLinks(c) \/ Refuse(c)
        BY <2>1, <3>1 DEF CheckLinks, Refuse
      <3> QED BY <2>5, <3>1, AskedIsAnswered DEF Ask
    <2>6. CASE (\E m \in Commands, c \in Calls : Look(c, m)) \/ UNCHANGED vars
      BY <2>1, <2>6 DEF Look, vars
    <2> QED BY <2>3, <2>4, <2>5, <2>6 DEF Next
  <1>3. Inv => AnswersAreRecorded
    BY DEF Answered, AnswersAreRecorded
  <1> QED BY <1>1, <1>2, <1>3, TypeInvariant, PTL DEF Spec

================================================================================
