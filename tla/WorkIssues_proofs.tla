--------------------------- MODULE WorkIssues_proofs ---------------------------
(***************************************************************************)
(* Theorems about the Work Issue aggregate, for every set of issues, runs, *)
(* keys, clients and commands, and every bound on versions.                *)
(***************************************************************************)
EXTENDS WorkIssues, TLAPS

-----------------------------------------------------------------------------
(* Lemmas about commands, requests and the status tables.                  *)

\* Every command names an issue, and its other fields are of their kind.
LEMMA CommandFields ==
    ASSUME NEW cmd \in Commands
    PROVE  /\ cmd.issue \in Issues
           /\ cmd.op \in {"create", "comment", "close", "start", "return", "transition"}
           /\ cmd.op \in {"start", "return"} => cmd.run \in Runs
           /\ cmd.op = "return" => cmd.outcome \in Outcomes
           /\ cmd.op = "transition" => cmd.to \in IssueStatuses /\ cmd.kind \in ActorKinds
           /\ cmd # None
  BY ConstantsAssumption DEF AllCommands

\* A request that is not idle has all its fields.
LEMMA CallFields ==
    ASSUME TypeOK, NEW c \in Clients, call[c].pc # "idle"
    PROVE  /\ call[c] \in [pc : {"received", "checked", "committed"}, cmd : Commands,
                           key : Keys, expected : Versions]
           /\ call[c] # Idle
  BY DEF TypeOK, Call, Idle

\* The tables lead from statuses to statuses, and never out of a terminal one.
LEMMA TransitionTables ==
    ASSUME NEW s \in IssueStatuses, NEW t, NEW kind, MayTransition(s, t, kind)
    PROVE  /\ t \in IssueStatuses
           /\ s \notin TerminalStatuses
           /\ kind \in ActorKinds
           /\ kind = "hermes" => t \in HermesTargets
           /\ t \in TerminalStatuses => kind = "human"
  BY DEF MayTransition, AllowedTransitions, IssueStatuses, TerminalStatuses, ActorKinds,
         HermesTargets

LEMMA ReturnTables ==
    ASSUME NEW o \in Outcomes
    PROVE  /\ ReturnToRunStatus[o] \in {"returned", "partial", "failed"}
           /\ ReturnToIssueStatus[o] \in {"review", "waiting"}
  BY DEF ReturnToRunStatus, ReturnToIssueStatus, Outcomes

LEMMA SmallVersions == 0 \in Versions /\ 1 \in Versions
  BY ConstantsAssumption DEF Versions

\* The version of a current issue can be counted up.
LEMMA NextVersion ==
    ASSUME TypeOK, NEW i \in Issues, issue[i].version < MaxVersion
    PROVE  issue[i].version + 1 \in Versions
  BY ConstantsAssumption DEF TypeOK, IssueRow, Versions

\* The events that a command writes are rows of issue_events.
LEMMA PlainEventRow ==
    ASSUME NEW k \in EventKeys, NEW i \in Issues, NEW type \in EventTypes, NEW kind \in ActorKinds,
           NEW v \in Versions, NEW r \in Runs \cup {None}
    PROVE  PlainEvent(k, i, type, kind, v, r) \in Event
  BY DEF PlainEvent, Event

LEMMA StatusEventRow ==
    ASSUME NEW k \in EventKeys, NEW i \in Issues, NEW kind \in ActorKinds,
           NEW v \in Versions, NEW from \in IssueStatuses, NEW to \in IssueStatuses
    PROVE  StatusEvent(k, i, kind, v, from, to) \in Event
  BY DEF StatusEvent, Event, EventTypes

-----------------------------------------------------------------------------
(* Type correctness.                                                       *)

\* What is known of the request that is in its locked section.
LockedFields(c) ==
    /\ call[c].pc = "checked"
    /\ call[c].cmd \in Commands
    /\ call[c].key \in Keys
    /\ call[c].expected \in Versions
    /\ call[c].cmd.issue \in Issues
    /\ \A s \in {"", "status", "review"} : <<call[c].key, s>> \in EventKeys

LEMMA LockedHasFields ==
    ASSUME TypeOK, NEW c \in Clients, call[c].pc = "checked"
    PROVE  LockedFields(c)
  BY CallFields, CommandFields DEF LockedFields, EventKeys

\* What a command in its locked section leaves for the client to receive.
LEMMA DoneType ==
    ASSUME TypeOK, NEW c \in Clients, call[c].pc = "checked", Done(c)
    PROVE  /\ call' \in [Clients -> Call]
           /\ intent' = intent
           /\ acked' = acked
  <1>1. call[c] \in [pc : {"received", "checked", "committed"}, cmd : Commands,
                     key : Keys, expected : Versions]
    BY CallFields
  <1> QED BY <1>1 DEF Done, TypeOK, Call

\* A move to a status keeps the rows of work_issues well formed.
LEMMA MoveToType ==
    ASSUME TypeOK, NEW i \in Issues, NEW t \in IssueStatuses,
           issue[i].version < MaxVersion, MoveTo(i, t)
    PROVE  issue' \in [Issues -> IssueRow]
  BY NextVersion DEF MoveTo, TypeOK, IssueRow

LEMMA InsertType ==
    ASSUME TypeOK, NEW new, new \subseteq Event, Insert(new)
    PROVE  events' \subseteq Event
  BY DEF Insert, TypeOK

\* The tables, the intents and the requests are of their types in every
\* reachable state.
THEOREM TypeCorrect == Spec => []TypeOK
  <1>1. Init => TypeOK
    BY ConstantsAssumption DEF Init, TypeOK, IssueRow, RunRow, Versions, Call, Idle
  <1>2. TypeOK /\ [Next]_vars => TypeOK'
    <2> SUFFICES ASSUME TypeOK, [Next]_vars PROVE TypeOK'
      OBVIOUS
    <2>1. ASSUME NEW c \in Clients, NEW cmd \in Commands, NEW k \in Keys, NEW v \in Versions,
                 Send(c, cmd, k, v)
          PROVE  TypeOK'
      BY <2>1 DEF Send, TypeOK, Call
    <2>2. ASSUME NEW c \in Clients, CheckReplay(c) PROVE TypeOK'
      <3>1. call[c] \in [pc : {"received", "checked", "committed"}, cmd : Commands,
                         key : Keys, expected : Versions]
        BY <2>2, CallFields DEF CheckReplay
      <3> QED BY <2>2, <3>1 DEF CheckReplay, TypeOK, Call
    <2>3. ASSUME NEW c \in Clients, Create(c) PROVE TypeOK'
      <3> DEFINE i == call[c].cmd.issue
                 e == PlainEvent(<<call[c].key, "">>, i, "issue_created", "human", 0, None)
      <3>1. LockedFields(c)
        BY <2>3, LockedHasFields DEF Create, Handling
      <3>2. issue' \in [Issues -> IssueRow]
        <4>1. [status |-> "open", version |-> 1] \in IssueRow
          BY SmallVersions DEF IssueRow, IssueStatuses
        <4> QED BY <2>3, <3>1, <4>1 DEF Create, TypeOK, LockedFields
      <3>3. events' \subseteq Event
        <4>1. e \in Event
          BY <3>1, PlainEventRow, SmallVersions DEF LockedFields, EventTypes, ActorKinds
        <4>2. Insert({e})
          BY <2>3 DEF Create
        <4> QED BY <4>1, <4>2, InsertType
      <3> QED BY <2>3, <3>1, <3>2, <3>3, DoneType DEF Create, TypeOK, LockedFields
    <2>4. ASSUME NEW c \in Clients, Comment(c) PROVE TypeOK'
      <3> DEFINE i == call[c].cmd.issue
                 e == PlainEvent(<<call[c].key, "">>, i, "comment_added", "human",
                                 call[c].expected, None)
      <3>1. LockedFields(c)
        BY <2>4, LockedHasFields DEF Comment, Handling
      <3>2. issue' \in [Issues -> IssueRow]
        BY <2>4, <3>1, NextVersion DEF Comment, Current, TypeOK, IssueRow, LockedFields
      <3>3. events' \subseteq Event
        <4>1. e \in Event
          BY <3>1, PlainEventRow DEF LockedFields, EventTypes, ActorKinds
        <4>2. Insert({e})
          BY <2>4 DEF Comment
        <4> QED BY <4>1, <4>2, InsertType
      <3> QED BY <2>4, <3>1, <3>2, <3>3, DoneType DEF Comment, TypeOK, LockedFields
    <2>5. ASSUME NEW c \in Clients, Start(c) PROVE TypeOK'
      <3> DEFINE i == call[c].cmd.issue
                 r == call[c].cmd.run
                 k == call[c].key
                 v == call[c].expected
                 e == StatusEvent(<<k, "status">>, i, "hermes", v, issue[i].status, "in_progress")
                 f == PlainEvent(<<k, "">>, i, "hermes_started", "hermes", v, r)
      <3>1. LockedFields(c) /\ r \in Runs
        BY <2>5, LockedHasFields, CommandFields DEF Start, Handling, LockedFields
      <3>2. issue' \in [Issues -> IssueRow]
        BY <2>5, <3>1, MoveToType DEF Start, Current, LockedFields, IssueStatuses
      <3>3. run' \in [Runs -> RunRow]
        BY <2>5, <3>1 DEF Start, TypeOK, RunRow, LockedFields, RunStatuses
      <3>4. events' \subseteq Event
        <4>1. issue[i].status \in IssueStatuses /\ "in_progress" \in IssueStatuses
          BY <2>5 DEF Start, IssueStatuses
        <4>2. e \in Event
          BY <3>1, <4>1, StatusEventRow DEF LockedFields, ActorKinds
        <4>3. f \in Event
          BY <3>1, PlainEventRow DEF LockedFields, EventTypes, ActorKinds
        <4>4. Insert({e, f})
          BY <2>5 DEF Start
        <4> QED BY <4>2, <4>3, <4>4, InsertType
      <3> QED BY <2>5, <3>1, <3>2, <3>3, <3>4, DoneType DEF Start, TypeOK, LockedFields
    <2>6. ASSUME NEW c \in Clients, Return(c) PROVE TypeOK'
      <3> DEFINE q == call[c]
                 i == q.cmd.issue
                 r == q.cmd.run
                 target == ReturnToIssueStatus[q.cmd.outcome]
      <3>1. LockedFields(c) /\ r \in Runs /\ q.cmd.outcome \in Outcomes
        BY <2>6, LockedHasFields, CommandFields DEF Return, Handling, LockedFields
      <3>2. target \in IssueStatuses /\ target \in {"review", "waiting"}
        BY <3>1, ReturnTables DEF IssueStatuses
      <3>3. issue' \in [Issues -> IssueRow]
        BY <2>6, <3>1, <3>2, MoveToType DEF Return, Current, LockedFields
      <3>4. run' \in [Runs -> RunRow]
        BY <2>6, <3>1, ReturnTables DEF Return, TypeOK, RunRow, RunStatuses
      <3>5. events' \subseteq Event
        <4>1. issue[i].status \in IssueStatuses
          BY <2>6, <3>1 DEF Return, Current, Exists, TypeOK, IssueRow, LockedFields
        <4>2. ReturnEvents(q, issue[i].status, target) \subseteq Event
          <5>1. StatusEvent(<<q.key, "status">>, i, "hermes", q.expected, issue[i].status, target)
                  \in Event
            BY <3>1, <3>2, <4>1, StatusEventRow DEF LockedFields, ActorKinds
          <5>2. PlainEvent(<<q.key, "">>, i, "hermes_returned", "hermes", q.expected, r) \in Event
            BY <3>1, PlainEventRow DEF LockedFields, EventTypes, ActorKinds
          <5>3. PlainEvent(<<q.key, "review">>, i, "review_requested", "hermes", q.expected, r)
                  \in Event
            BY <3>1, PlainEventRow DEF LockedFields, EventTypes, ActorKinds
          <5> QED BY <5>1, <5>2, <5>3 DEF ReturnEvents
        <4>3. Insert(ReturnEvents(q, issue[i].status, target))
          BY <2>6 DEF Return
        <4> QED BY <4>2, <4>3, InsertType
      <3> QED BY <2>6, <3>1, <3>3, <3>4, <3>5, DoneType DEF Return, TypeOK, LockedFields
    <2>7. ASSUME NEW c \in Clients, Close(c) PROVE TypeOK'
      <3> DEFINE i == call[c].cmd.issue
                 k == call[c].key
                 v == call[c].expected
                 e == StatusEvent(<<k, "status">>, i, "human", v, issue[i].status, "done")
                 f == PlainEvent(<<k, "">>, i, "issue_closed", "human", v, None)
      <3>1. LockedFields(c) /\ issue[i].status \in IssueStatuses /\ "done" \in IssueStatuses
        BY <2>7, LockedHasFields
           DEF Close, Handling, LockedFields, Current, Exists, TypeOK, IssueRow, IssueStatuses
      <3>2. issue' \in [Issues -> IssueRow]
        BY <2>7, <3>1, MoveToType DEF Close, Current, LockedFields
      <3>3. events' \subseteq Event
        <4>1. e \in Event
          BY <3>1, StatusEventRow DEF LockedFields, ActorKinds
        <4>2. f \in Event
          BY <3>1, PlainEventRow DEF LockedFields, EventTypes, ActorKinds
        <4>3. Insert({e, f})
          BY <2>7 DEF Close
        <4> QED BY <4>1, <4>2, <4>3, InsertType
      <3> QED BY <2>7, <3>1, <3>2, <3>3, DoneType DEF Close, TypeOK, LockedFields
    <2>8. ASSUME NEW c \in Clients, Transition(c) PROVE TypeOK'
      <3> DEFINE i == call[c].cmd.issue
                 e == StatusEvent(<<call[c].key, "">>, i, call[c].cmd.kind, call[c].expected,
                                  issue[i].status, call[c].cmd.to)
      <3>1. /\ LockedFields(c)
            /\ issue[i].status \in IssueStatuses
            /\ call[c].cmd.to \in IssueStatuses
            /\ call[c].cmd.kind \in ActorKinds
        BY <2>8, LockedHasFields, CommandFields
           DEF Transition, Handling, LockedFields, Current, Exists, TypeOK, IssueRow
      <3>2. issue' \in [Issues -> IssueRow]
        BY <2>8, <3>1, MoveToType DEF Transition, Current, LockedFields
      <3>3. events' \subseteq Event
        <4>1. e \in Event
          BY <3>1, StatusEventRow DEF LockedFields
        <4>2. Insert({e})
          BY <2>8 DEF Transition
        <4> QED BY <4>1, <4>2, InsertType
      <3> QED BY <2>8, <3>1, <3>2, <3>3, DoneType DEF Transition, TypeOK, LockedFields
    <2>9. ASSUME NEW c \in Clients, Answer(c) \/ Drop(c) PROVE TypeOK'
      <3>1. call[c] \in [pc : {"received", "checked", "committed"}, cmd : Commands,
                         key : Keys, expected : Versions]
        BY <2>9, CallFields DEF Answer, Drop, TypeOK, Call, Idle
      <3> QED BY <2>9, <3>1 DEF Answer, Drop, TypeOK, Call
    <2>10. CASE UNCHANGED vars
      BY <2>10 DEF vars, TypeOK
    <2> QED
      BY <2>1, <2>2, <2>3, <2>4, <2>5, <2>6, <2>7, <2>8, <2>9, <2>10 DEF Next
  <1> QED BY <1>1, <1>2, PTL DEF Spec

-----------------------------------------------------------------------------
(* What every recorded command writes.                                     *)

\* An issue that does not exist yet has no version.
AbsentIsNew == \A i \in Issues : issue[i].status = "absent" => issue[i].version = 0

Command(c) == Create(c) \/ Comment(c) \/ Start(c) \/ Return(c) \/ Close(c) \/ Transition(c)

\* The command of c wrote the rows new: all at the present version of its
\* issue, all under its key, and one of them under the key itself.
Wrote(c, new) ==
    LET q == call[c]
        i == q.cmd.issue
    IN
    /\ \A e \in new : e.issue = i /\ e.expected = issue[i].version /\ e.key[1] = q.key
    /\ \E e \in new : e.key = <<q.key, "">>
    /\ \A e \in new : e.key = <<q.key, "">> => e.type = OpEvent[q.cmd.op]
    /\ KeysFree(new)
    /\ events' = events \cup new
    /\ \A j \in Issues \ {i} : issue'[j] = issue[j]
    /\ issue'[i].version = issue[i].version + 1
    /\ issue'[i].status \in IssueStatuses
    /\ call' = [call EXCEPT ![c].pc = "committed"]
    /\ intent' = intent
    /\ acked' = acked

LEMMA OpEventTypes ==
    /\ OpEvent["create"] = "issue_created"
    /\ OpEvent["comment"] = "comment_added"
    /\ OpEvent["start"] = "hermes_started"
    /\ OpEvent["return"] = "hermes_returned"
    /\ OpEvent["close"] = "issue_closed"
    /\ OpEvent["transition"] = "status_changed"
  BY DEF OpEvent

\* Whatever its operation, a recorded command writes rows of that form.
LEMMA CommandWrites ==
    ASSUME TypeOK, AbsentIsNew, NEW c \in Clients, Command(c)
    PROVE  /\ LockedFields(c)
           /\ \E new : Wrote(c, new)
  <1> DEFINE q == call[c]
             i == q.cmd.issue
             k == q.key
             v == q.expected
  <1>1. LockedFields(c)
    BY LockedHasFields
       DEF Command, Create, Comment, Start, Return, Close, Transition, Handling
  <1>2. i \in Issues /\ c \in Clients /\ issue \in [Issues -> IssueRow]
    BY <1>1 DEF LockedFields, TypeOK
  <1>3. \A t : MoveTo(i, t) => /\ \A j \in Issues \ {i} : issue'[j] = issue[j]
                               /\ issue'[i].version = issue[i].version + 1
                               /\ issue'[i].status = t
    BY <1>2 DEF MoveTo
  <1>4. CASE Create(c)
    <2> DEFINE e == PlainEvent(<<k, "">>, i, "issue_created", "human", 0, None)
    <2>1. issue[i].version = 0
      BY <1>2, <1>4 DEF Create, Exists, AbsentIsNew
    <2>2. /\ e.issue = i /\ e.expected = 0 /\ e.key = <<k, "">>
          /\ e.type = OpEvent[q.cmd.op] /\ e.key[1] = k
      BY <1>4, OpEventTypes DEF Create, Handling, PlainEvent
    <2>3. /\ \A j \in Issues \ {i} : issue'[j] = issue[j]
          /\ issue'[i].version = issue[i].version + 1
          /\ issue'[i].status \in IssueStatuses
      <3>1. issue' = [issue EXCEPT ![i] = [status |-> "open", version |-> 1]]
        BY <1>4 DEF Create
      <3> QED BY <1>2, <2>1, <3>1 DEF IssueStatuses
    <2>4. KeysFree({e}) /\ events' = events \cup {e}
      BY <1>4 DEF Create, Insert
    <2>5. Done(c)
      BY <1>4 DEF Create
    <2>6. Wrote(c, {e})
      BY <2>1, <2>2, <2>3, <2>4, <2>5 DEF Wrote, Done
    <2> QED BY <1>1, <2>6
  <1>5. CASE Comment(c)
    <2> DEFINE e == PlainEvent(<<k, "">>, i, "comment_added", "human", v, None)
    <2>2. /\ e.issue = i /\ e.expected = issue[i].version /\ e.key = <<k, "">>
          /\ e.type = OpEvent[q.cmd.op] /\ e.key[1] = k
      BY <1>5, OpEventTypes DEF Comment, Current, Handling, PlainEvent
    <2>3. /\ \A j \in Issues \ {i} : issue'[j] = issue[j]
          /\ issue'[i].version = issue[i].version + 1
          /\ issue'[i].status \in IssueStatuses
      BY <1>2, <1>5 DEF Comment, Current, Exists, IssueRow
    <2>4. KeysFree({e}) /\ events' = events \cup {e}
      BY <1>5 DEF Comment, Insert
    <2>5. Done(c)
      BY <1>5 DEF Comment
    <2>6. Wrote(c, {e})
      BY <2>2, <2>3, <2>4, <2>5 DEF Wrote, Done
    <2> QED BY <1>1, <2>6
  <1>6. CASE Start(c)
    <2> DEFINE e == StatusEvent(<<k, "status">>, i, "hermes", v, issue[i].status, "in_progress")
               f == PlainEvent(<<k, "">>, i, "hermes_started", "hermes", v, q.cmd.run)
    <2>1. /\ e.issue = i /\ e.expected = issue[i].version /\ e.key = <<k, "status">>
          /\ e.key[1] = k /\ e.key # <<k, "">>
      BY <1>6 DEF Start, Current, StatusEvent
    <2>2. /\ f.issue = i /\ f.expected = issue[i].version /\ f.key = <<k, "">>
          /\ f.type = OpEvent[q.cmd.op] /\ f.key[1] = k
      BY <1>6, OpEventTypes DEF Start, Current, Handling, PlainEvent
    <2>3. /\ \A j \in Issues \ {i} : issue'[j] = issue[j]
          /\ issue'[i].version = issue[i].version + 1
          /\ issue'[i].status \in IssueStatuses
      BY <1>3, <1>6 DEF Start, IssueStatuses
    <2>4. KeysFree({e, f}) /\ events' = events \cup {e, f}
      BY <1>6 DEF Start, Insert
    <2>5. Done(c)
      BY <1>6 DEF Start
    <2>6. Wrote(c, {e, f})
      BY <2>1, <2>2, <2>3, <2>4, <2>5 DEF Wrote, Done
    <2> QED BY <1>1, <2>6
  <1>7. CASE Return(c)
    <2> DEFINE target == ReturnToIssueStatus[q.cmd.outcome]
               new == ReturnEvents(q, issue[i].status, target)
               e == StatusEvent(<<k, "status">>, i, "hermes", v, issue[i].status, target)
               f == PlainEvent(<<k, "">>, i, "hermes_returned", "hermes", v, q.cmd.run)
               g == PlainEvent(<<k, "review">>, i, "review_requested", "hermes", v, q.cmd.run)
    <2>1. /\ e.issue = i /\ e.expected = issue[i].version /\ e.key = <<k, "status">>
          /\ e.key[1] = k /\ e.key # <<k, "">>
      BY <1>7 DEF Return, Current, StatusEvent
    <2>2. /\ f.issue = i /\ f.expected = issue[i].version /\ f.key = <<k, "">>
          /\ f.type = OpEvent[q.cmd.op] /\ f.key[1] = k
      BY <1>7, OpEventTypes DEF Return, Current, Handling, PlainEvent
    <2>3. /\ g.issue = i /\ g.expected = issue[i].version /\ g.key = <<k, "review">>
          /\ g.key[1] = k /\ g.key # <<k, "">>
      BY <1>7 DEF Return, Current, PlainEvent
    <2>4. f \in new /\ \A x \in new : x \in {e, f, g}
      BY DEF ReturnEvents
    <2>5. target \in IssueStatuses
      BY <1>1, <1>7, CommandFields, ReturnTables DEF LockedFields, Return, Handling, IssueStatuses
    <2>6. /\ \A j \in Issues \ {i} : issue'[j] = issue[j]
          /\ issue'[i].version = issue[i].version + 1
          /\ issue'[i].status \in IssueStatuses
      BY <1>3, <1>7, <2>5 DEF Return
    <2>7. KeysFree(new) /\ events' = events \cup new
      BY <1>7 DEF Return, Insert
    <2>8. Done(c)
      BY <1>7 DEF Return
    <2> HIDE DEF new, e, f, g
    <2>9. Wrote(c, new)
      BY <2>1, <2>2, <2>3, <2>4, <2>6, <2>7, <2>8 DEF Wrote, Done
    <2> QED BY <1>1, <2>9
  <1>8. CASE Close(c)
    <2> DEFINE e == StatusEvent(<<k, "status">>, i, "human", v, issue[i].status, "done")
               f == PlainEvent(<<k, "">>, i, "issue_closed", "human", v, None)
    <2>1. /\ e.issue = i /\ e.expected = issue[i].version /\ e.key = <<k, "status">>
          /\ e.key[1] = k /\ e.key # <<k, "">>
      BY <1>8 DEF Close, Current, StatusEvent
    <2>2. /\ f.issue = i /\ f.expected = issue[i].version /\ f.key = <<k, "">>
          /\ f.type = OpEvent[q.cmd.op] /\ f.key[1] = k
      BY <1>8, OpEventTypes DEF Close, Current, Handling, PlainEvent
    <2>3. /\ \A j \in Issues \ {i} : issue'[j] = issue[j]
          /\ issue'[i].version = issue[i].version + 1
          /\ issue'[i].status \in IssueStatuses
      BY <1>3, <1>8 DEF Close, IssueStatuses
    <2>4. KeysFree({e, f}) /\ events' = events \cup {e, f}
      BY <1>8 DEF Close, Insert
    <2>5. Done(c)
      BY <1>8 DEF Close
    <2>6. Wrote(c, {e, f})
      BY <2>1, <2>2, <2>3, <2>4, <2>5 DEF Wrote, Done
    <2> QED BY <1>1, <2>6
  <1>9. CASE Transition(c)
    <2> DEFINE e == StatusEvent(<<k, "">>, i, q.cmd.kind, v, issue[i].status, q.cmd.to)
    <2>1. /\ e.issue = i /\ e.expected = issue[i].version /\ e.key = <<k, "">>
          /\ e.type = OpEvent[q.cmd.op] /\ e.key[1] = k
      BY <1>9, OpEventTypes DEF Transition, Current, Handling, StatusEvent
    <2>2. q.cmd.to \in IssueStatuses
      BY <1>1, <1>9, CommandFields DEF LockedFields, Transition, Handling
    <2>3. /\ \A j \in Issues \ {i} : issue'[j] = issue[j]
          /\ issue'[i].version = issue[i].version + 1
          /\ issue'[i].status \in IssueStatuses
      BY <1>3, <1>9, <2>2 DEF Transition
    <2>4. KeysFree({e}) /\ events' = events \cup {e}
      BY <1>9 DEF Transition, Insert
    <2>5. Done(c)
      BY <1>9 DEF Transition
    <2>6. Wrote(c, {e})
      BY <2>1, <2>3, <2>4, <2>5 DEF Wrote, Done
    <2> QED BY <1>1, <2>6
  <1> QED BY <1>1, <1>4, <1>5, <1>6, <1>7, <1>8, <1>9 DEF Command

-----------------------------------------------------------------------------
(* No lost update.                                                         *)

VersionInv == AbsentIsNew /\ OneCommandPerVersion

\* A step either records one command or leaves issues and ledger alone.
LEMMA StepKinds ==
    ASSUME TypeOK, [Next]_vars
    PROVE  \/ \E c \in Clients : Command(c)
           \/ UNCHANGED <<issue, run, events>>
  BY DEF Next, vars, Command, Send, CheckReplay, Answer, Drop

\* The invariant is kept by one recorded command: its rows all stand at the
\* version that was present, which no earlier row has.
LEMMA CommandKeepsVersions ==
    ASSUME TypeOK, TypeOK', VersionInv, NEW c \in Clients, Command(c)
    PROVE  VersionInv'
  <1> DEFINE i == call[c].cmd.issue
  <1>1. PICK new : Wrote(c, new)
    BY CommandWrites DEF VersionInv
  <1>2. i \in Issues
    BY CommandWrites DEF VersionInv, LockedFields
  <1>3. /\ \A e \in new : e.issue = i /\ e.expected = issue[i].version /\ e.key[1] = call[c].key
        /\ events' = events \cup new
        /\ \A j \in Issues \ {i} : issue'[j] = issue[j]
        /\ issue'[i].version = issue[i].version + 1
        /\ issue'[i].status \in IssueStatuses
        /\ new # {}
    BY <1>1 DEF Wrote
  <1>4. /\ \A j \in Issues : issue[j].version \in 0..MaxVersion
        /\ \A j \in Issues : issue'[j].version \in 0..MaxVersion
        /\ MaxVersion \in Nat
    BY ConstantsAssumption DEF TypeOK, IssueRow, Versions
  <1>5. AbsentIsNew'
    BY <1>2, <1>3 DEF AbsentIsNew, VersionInv, IssueStatuses
  <1>6. \A e \in events : e.issue \in Issues /\ e.expected \in Versions
    BY DEF TypeOK, Event
  <1>7. \A e \in events : e.issue = i => e.expected < issue[i].version
    BY <1>2, <1>6 DEF VersionInv, OneCommandPerVersion
  <1>8. ASSUME NEW e \in events', NEW f \in events', e.issue = f.issue, e.expected = f.expected
        PROVE  e.key[1] = f.key[1]
    <2>1. CASE e \in new /\ f \in new
      BY <2>1, <1>3
    <2>2. CASE e \notin new /\ f \notin new
      BY <2>2, <1>3, <1>8 DEF VersionInv, OneCommandPerVersion
    <2>3. CASE e \in new /\ f \notin new
      <3>1. f \in events /\ f.issue = i /\ f.expected = issue[i].version
        BY <2>3, <1>3, <1>8
      <3> QED BY <3>1, <1>2, <1>4, <1>7
    <2>4. CASE e \notin new /\ f \in new
      <3>1. e \in events /\ e.issue = i /\ e.expected = issue[i].version
        BY <2>4, <1>3, <1>8
      <3> QED BY <3>1, <1>2, <1>4, <1>7
    <2> QED BY <2>1, <2>2, <2>3, <2>4
  <1>9. ASSUME NEW j \in Issues, NEW v \in Versions
        PROVE  v < issue'[j].version <=> \E e \in events' : e.issue = j /\ e.expected = v
    <2>1. v < issue[j].version <=> \E e \in events : e.issue = j /\ e.expected = v
      BY DEF VersionInv, OneCommandPerVersion
    <2>2. CASE j # i
      BY <2>1, <2>2, <1>3
    <2>3. CASE j = i
      <3>1. v \in Nat /\ issue[i].version \in Nat
        BY <1>2, <1>4 DEF Versions
      <3>2. v < issue'[i].version <=> v < issue[i].version \/ v = issue[i].version
        BY <3>1, <1>3
      <3> QED BY <2>1, <2>3, <3>2, <1>3
    <2> QED BY <2>2, <2>3
  <1> QED BY <1>5, <1>8, <1>9 DEF VersionInv, OneCommandPerVersion

\* The strengthened invariant holds in every reachable state.
LEMMA VersionsInvariant == Spec => []VersionInv
  <1>1. Init => VersionInv
    BY ConstantsAssumption DEF Init, VersionInv, AbsentIsNew, OneCommandPerVersion, Versions
  <1>2. TypeOK /\ TypeOK' /\ VersionInv /\ [Next]_vars => VersionInv'
    <2> SUFFICES ASSUME TypeOK, TypeOK', VersionInv, [Next]_vars PROVE VersionInv'
      OBVIOUS
    <2>1. CASE \E c \in Clients : Command(c)
      BY <2>1, CommandKeepsVersions
    <2>2. CASE UNCHANGED <<issue, run, events>>
      BY <2>2 DEF VersionInv, AbsentIsNew, OneCommandPerVersion
    <2> QED BY <2>1, <2>2, StepKinds
  <1> QED BY <1>1, <1>2, TypeCorrect, PTL DEF Spec

\* No lost update: each version of a Work Issue was written by exactly one
\* command, for every number of clients, keys and issues.
THEOREM NoLostUpdate == Spec => []OneCommandPerVersion
  BY VersionsInvariant, PTL DEF VersionInv

-----------------------------------------------------------------------------
(* What is answered was applied.                                           *)

\* The ledger has the row that carries out cmd under key k.
Applied(ledger, k, cmd) ==
    \E e \in ledger : e.key = <<k, "">> /\ e.issue = cmd.issue /\ e.type = OpEvent[cmd.op]

\* A request carries the command its key is bound to.
CallsAsIntended ==
    \A c \in Clients : call[c].pc # "idle" => intent[call[c].key] = call[c].cmd

\* A row under a plain key carries out the command the key is bound to.
RowsAsIntended ==
    \A e \in events : \A k \in Keys : e.key = <<k, "">> =>
        /\ intent[k] # None
        /\ e.issue = intent[k].issue
        /\ e.type = OpEvent[intent[k].op]

CommittedIsApplied ==
    \A c \in Clients : call[c].pc = "committed" => Applied(events, call[c].key, call[c].cmd)

AnswerInv ==
    /\ CallsAsIntended
    /\ RowsAsIntended
    /\ CommittedIsApplied
    /\ AnsweredIsApplied

LEMMA AppliedStays ==
    ASSUME NEW old, NEW new, NEW k, NEW cmd, Applied(old, k, cmd)
    PROVE  Applied(old \cup new, k, cmd)
  BY DEF Applied

\* A recorded command is the one its key was bound to.
LEMMA CommandKeepsAnswers ==
    ASSUME TypeOK, AbsentIsNew, AnswerInv, NEW c \in Clients, Command(c)
    PROVE  AnswerInv'
  <1> DEFINE q == call[c]
  <1>1. PICK new : Wrote(c, new)
    BY CommandWrites
  <1>2. LockedFields(c)
    BY CommandWrites
  <1>3. /\ \A e \in new : e.issue = q.cmd.issue /\ e.key[1] = q.key
        /\ \E e \in new : e.key = <<q.key, "">>
        /\ \A e \in new : e.key = <<q.key, "">> => e.type = OpEvent[q.cmd.op]
        /\ events' = events \cup new
        /\ call' = [call EXCEPT ![c].pc = "committed"]
        /\ intent' = intent
        /\ acked' = acked
    BY <1>1 DEF Wrote
  <1>4. /\ q.key \in Keys /\ q.cmd \in Commands /\ intent[q.key] = q.cmd /\ q.cmd # None
        /\ q \in [pc : {"received", "checked", "committed"}, cmd : Commands,
                  key : Keys, expected : Versions]
        /\ call \in [Clients -> Call]
    BY <1>2, CallFields, CommandFields DEF LockedFields, AnswerInv, CallsAsIntended, TypeOK
  <1>5. /\ \A d \in Clients : d # c => call'[d] = call[d]
        /\ call'[c].key = q.key /\ call'[c].cmd = q.cmd
    BY <1>3, <1>4
  <1>6. CallsAsIntended'
    BY <1>3, <1>4, <1>5 DEF AnswerInv, CallsAsIntended
  <1>7. RowsAsIntended'
    <2> SUFFICES ASSUME NEW e \in events', NEW k \in Keys, e.key = <<k, "">>
                 PROVE  /\ intent[k] # None
                        /\ e.issue = intent[k].issue
                        /\ e.type = OpEvent[intent[k].op]
      BY <1>3 DEF RowsAsIntended
    <2>1. CASE e \in events
      BY <2>1 DEF AnswerInv, RowsAsIntended
    <2>2. CASE e \in new
      <3>1. e.key[1] = q.key /\ e.issue = q.cmd.issue
        BY <2>2, <1>3
      <3>2. k = q.key
        <4>1. <<k, "">>[1] = k
          OBVIOUS
        <4> QED BY <3>1, <4>1
      <3>3. e.type = OpEvent[q.cmd.op]
        BY <2>2, <3>2, <1>3
      <3> QED BY <3>1, <3>2, <3>3, <1>4
    <2> QED BY <2>1, <2>2, <1>3
  <1>8. Applied(events', q.key, q.cmd)
    BY <1>3 DEF Applied
  <1>9. CommittedIsApplied'
    BY <1>3, <1>5, <1>8, AppliedStays DEF AnswerInv, CommittedIsApplied
  <1>10. AnsweredIsApplied'
    BY <1>3 DEF AnswerInv, AnsweredIsApplied
  <1> QED BY <1>6, <1>7, <1>9, <1>10 DEF AnswerInv

\* A client that was answered with success finds its command in the ledger,
\* however often it was sent and whichever copy was recorded.
THEOREM AnswersAreTrue == Spec => []AnsweredIsApplied
  <1>1. Init => AnswerInv
    BY DEF Init, AnswerInv, CallsAsIntended, RowsAsIntended, CommittedIsApplied,
           AnsweredIsApplied, Idle
  <1>2. TypeOK /\ AbsentIsNew /\ AnswerInv /\ [Next]_vars => AnswerInv'
    <2> SUFFICES ASSUME TypeOK, AbsentIsNew, AnswerInv, [Next]_vars PROVE AnswerInv'
      OBVIOUS
    <2> USE DEF AnswerInv
    <2>0. call \in [Clients -> Call] /\ intent \in [Keys -> Commands \cup {None}]
      BY DEF TypeOK
    <2>1. ASSUME NEW c \in Clients, Command(c) PROVE AnswerInv'
      BY <2>1, CommandKeepsAnswers
    <2>2. ASSUME NEW c \in Clients, NEW cmd \in Commands, NEW k \in Keys, NEW v \in Versions,
                 Send(c, cmd, k, v)
          PROVE  AnswerInv'
      <3>1. /\ intent[k] \in {None, cmd}
            /\ intent' = [intent EXCEPT ![k] = cmd]
            /\ call' = [call EXCEPT ![c] = [pc |-> "received", cmd |-> cmd, key |-> k, expected |-> v]]
            /\ events' = events /\ acked' = acked
        BY <2>2 DEF Send
      <3>2. cmd # None /\ intent'[k] = cmd /\ \A l \in Keys : l # k => intent'[l] = intent[l]
        BY <3>1, <2>0, ConstantsAssumption
      <3>3. /\ \A d \in Clients : d # c => call'[d] = call[d]
            /\ call'[c].pc = "received" /\ call'[c].key = k /\ call'[c].cmd = cmd
        BY <3>1, <2>0
      <3>4. ASSUME NEW d \in Clients, d # c, call[d].pc # "idle"
            PROVE  intent'[call[d].key] = call[d].cmd
        <4>1. call[d].key \in Keys /\ call[d].cmd \in Commands /\ intent[call[d].key] = call[d].cmd
          BY <3>4, CallFields DEF CallsAsIntended
        <4> QED BY <4>1, <3>1, <3>2, ConstantsAssumption
      <3>5. CallsAsIntended'
        BY <3>2, <3>3, <3>4 DEF CallsAsIntended
      <3>6. RowsAsIntended'
        <4> SUFFICES ASSUME NEW e \in events, NEW l \in Keys, e.key = <<l, "">>
                     PROVE  /\ intent'[l] # None
                            /\ e.issue = intent'[l].issue
                            /\ e.type = OpEvent[intent'[l].op]
          BY <3>1 DEF RowsAsIntended
        <4>1. /\ intent[l] # None
              /\ e.issue = intent[l].issue
              /\ e.type = OpEvent[intent[l].op]
          BY DEF RowsAsIntended
        <4>2. intent'[l] = intent[l]
          BY <3>1, <3>2, <4>1
        <4> QED BY <4>1, <4>2
      <3>7. CommittedIsApplied'
        BY <3>1, <3>3 DEF CommittedIsApplied
      <3>8. AnsweredIsApplied'
        BY <3>1 DEF AnsweredIsApplied
      <3> QED BY <3>5, <3>6, <3>7, <3>8
    <2>3. ASSUME NEW c \in Clients, CheckReplay(c) PROVE AnswerInv'
      <3>1. /\ call[c] \in [pc : {"received", "checked", "committed"}, cmd : Commands,
                            key : Keys, expected : Versions]
            /\ call[c].pc = "received"
        BY <2>3, CallFields DEF CheckReplay
      <3>2. /\ events' = events /\ intent' = intent /\ acked' = acked
            /\ \/ /\ Replayed(call[c].key, call[c].cmd.issue)
                  /\ call' = [call EXCEPT ![c].pc = "committed"]
               \/ call' = [call EXCEPT ![c].pc = "checked"]
        BY <2>3 DEF CheckReplay
      <3>3. /\ \A d \in Clients : d # c => call'[d] = call[d]
            /\ call'[c].key = call[c].key /\ call'[c].cmd = call[c].cmd
            /\ call'[c].pc = "committed" => Replayed(call[c].key, call[c].cmd.issue)
        BY <3>1, <3>2, <2>0
      <3>4. ASSUME Replayed(call[c].key, call[c].cmd.issue)
            PROVE  Applied(events, call[c].key, call[c].cmd)
        BY <3>1, <3>4 DEF Replayed, Applied, CallsAsIntended, RowsAsIntended
      <3>5. CallsAsIntended'
        <4>1. ASSUME NEW d \in Clients, call'[d].pc # "idle"
              PROVE  /\ call[d].pc # "idle"
                     /\ call'[d].key = call[d].key /\ call'[d].cmd = call[d].cmd
          BY <4>1, <3>1, <3>3
        <4> QED BY <4>1, <3>2 DEF CallsAsIntended
      <3>7. RowsAsIntended' /\ AnsweredIsApplied'
        BY <3>2 DEF RowsAsIntended, AnsweredIsApplied
      <3>6. CommittedIsApplied'
        BY <3>2, <3>3, <3>4 DEF CommittedIsApplied
      <3> QED BY <3>5, <3>6, <3>7
    <2>4. ASSUME NEW c \in Clients, Answer(c) \/ Drop(c) PROVE AnswerInv'
      <3>1. /\ \A d \in Clients : d # c => call'[d] = call[d]
            /\ call'[c].pc = "idle"
            /\ events' = events /\ intent' = intent
        BY <2>4, <2>0 DEF Answer, Drop, Idle
      <3>2. \A a \in acked' :
               a \in acked \/ (a.key = call[c].key /\ a.cmd = call[c].cmd /\ call[c].pc = "committed")
        BY <2>4 DEF Answer, Drop
      <3>3. AnsweredIsApplied'
        BY <3>1, <3>2 DEF AnsweredIsApplied, CommittedIsApplied, Applied
      <3>4. CallsAsIntended' /\ RowsAsIntended' /\ CommittedIsApplied'
        BY <3>1 DEF CallsAsIntended, RowsAsIntended, CommittedIsApplied
      <3> QED BY <3>3, <3>4
    <2>5. CASE UNCHANGED vars
      BY <2>5 DEF vars, CallsAsIntended, RowsAsIntended, CommittedIsApplied, AnsweredIsApplied
    <2> QED BY <2>1, <2>2, <2>3, <2>4, <2>5 DEF Next, Command
  <1>3. AnswerInv => AnsweredIsApplied
    BY DEF AnswerInv
  <1>4. VersionInv => AbsentIsNew
    BY DEF VersionInv
  <1> QED BY <1>1, <1>2, <1>3, <1>4, TypeCorrect, VersionsInvariant, PTL DEF Spec

-----------------------------------------------------------------------------
(* What has ended stays ended.                                             *)

\* No command moves a terminal issue or a run that has returned.
LEMMA CommandKeepsEnds ==
    ASSUME TypeOK, NEW c \in Clients, Command(c)
    PROVE  /\ \A i \in Issues :
                 issue[i].status \in TerminalStatuses => issue'[i].status = issue[i].status
           /\ \A r \in Runs :
                 run[r].status \in {"returned", "partial", "failed"} => run'[r] = run[r]
  <1> DEFINE j == call[c].cmd.issue
             IssueKept == \A i \in Issues :
                 issue[i].status \in TerminalStatuses => issue'[i].status = issue[i].status
             RunKept == \A r \in Runs :
                 run[r].status \in {"returned", "partial", "failed"} => run'[r] = run[r]
  <1>1. LockedFields(c)
    BY LockedHasFields
       DEF Command, Create, Comment, Start, Return, Close, Transition, Handling
  <1>2. /\ j \in Issues
        /\ issue \in [Issues -> IssueRow]
        /\ run \in [Runs -> RunRow]
    BY <1>1 DEF LockedFields, TypeOK
  <1>3. ASSUME NEW t, issue[j].status \notin TerminalStatuses, MoveTo(j, t)
        PROVE  IssueKept
    BY <1>2, <1>3 DEF MoveTo
  <1>4. ASSUME NEW t, NEW kind, Current(c), MayTransition(issue[j].status, t, kind)
        PROVE  issue[j].status \notin TerminalStatuses
    <2>1. issue[j].status \in IssueStatuses
      BY <1>2, <1>4 DEF Current, Exists, IssueRow
    <2> QED BY <1>4, <2>1, TransitionTables
  <1>5. CASE Create(c)
    <2>1. issue[j].status \notin TerminalStatuses
      BY <1>5 DEF Create, Exists, TerminalStatuses
    <2>2. issue' = [issue EXCEPT ![j] = [status |-> "open", version |-> 1]] /\ run' = run
      BY <1>5 DEF Create
    <2> QED BY <1>2, <2>1, <2>2
  <1>6. CASE Comment(c)
    <2>1. issue' = [issue EXCEPT ![j].version = @ + 1] /\ run' = run
      BY <1>6 DEF Comment
    <2> QED BY <1>2, <2>1 DEF IssueRow
  <1>7. CASE Start(c)
    <2>1. run[call[c].cmd.run].status = "absent" /\ MoveTo(j, "in_progress")
          /\ Current(c) /\ MayTransition(issue[j].status, "in_progress", "hermes")
          /\ run' = [run EXCEPT ![call[c].cmd.run] = [issue |-> j, status |-> "running"]]
      BY <1>7 DEF Start
    <2>2. IssueKept
      BY <2>1, <1>3, <1>4
    <2>3. RunKept
      BY <2>1, <1>2
    <2> QED BY <2>2, <2>3
  <1>8. CASE Return(c)
    <2> DEFINE target == ReturnToIssueStatus[call[c].cmd.outcome]
               r == call[c].cmd.run
    <2>1. run[r].status = "running" /\ MoveTo(j, target)
          /\ Current(c) /\ MayTransition(issue[j].status, target, "hermes")
          /\ run' = [run EXCEPT ![r].status = ReturnToRunStatus[call[c].cmd.outcome]]
      BY <1>8 DEF Return
    <2> HIDE DEF target
    <2>2. IssueKept
      BY <2>1, <1>3, <1>4
    <2>3. RunKept
      BY <2>1, <1>2
    <2> QED BY <2>2, <2>3
  <1>9. CASE Close(c)
    <2>1. MoveTo(j, "done") /\ Current(c) /\ run' = run
          /\ MayTransition(issue[j].status, "done", "human")
      BY <1>9 DEF Close
    <2>2. IssueKept
      BY <2>1, <1>3, <1>4
    <2> QED BY <2>1, <2>2
  <1>10. CASE Transition(c)
    <2>1. MoveTo(j, call[c].cmd.to) /\ Current(c) /\ run' = run
          /\ MayTransition(issue[j].status, call[c].cmd.to, call[c].cmd.kind)
      BY <1>10 DEF Transition
    <2>2. IssueKept
      BY <2>1, <1>3, <1>4
    <2> QED BY <2>1, <2>2
  <1> QED BY <1>5, <1>6, <1>7, <1>8, <1>9, <1>10 DEF Command

\* Neither a late return nor any other command changes the status of a done or
\* cancelled issue, or a run that has returned.
THEOREM EndsStay == Spec => EndsAreFinal
  <1> DEFINE Kept == /\ \A i \in Issues :
                           issue[i].status \in TerminalStatuses => issue'[i].status = issue[i].status
                     /\ \A r \in Runs :
                           run[r].status \in {"returned", "partial", "failed"} => run'[r] = run[r]
  <1>1. TypeOK /\ [Next]_vars => [Kept]_vars
    <2> SUFFICES ASSUME TypeOK, [Next]_vars PROVE Kept
      OBVIOUS
    <2>1. CASE \E c \in Clients : Command(c)
      BY <2>1, CommandKeepsEnds
    <2>2. CASE UNCHANGED <<issue, run, events>>
      BY <2>2
    <2> QED BY <2>1, <2>2, StepKinds
  <1>2. EndsAreFinal <=> [][Kept]_vars
    BY DEF EndsAreFinal
  <1> QED BY <1>1, <1>2, TypeCorrect, PTL DEF Spec

-----------------------------------------------------------------------------
(* The ledger tells the status of an issue and the life of its runs.       *)

\* What a recorded command of c writes about the status of its issue i: one
\* status_changed row from the old status to the new one, by a kind of actor
\* who may make that move, or no such row and no move of an existing issue.
StatusWritten(i, new) ==
    \/ /\ \A e \in new : e.type # "status_changed"
       /\ issue'[i].status = IF issue[i].status = "absent" THEN "open" ELSE issue[i].status
    \/ /\ issue[i].status # "absent"
       /\ \E e \in new :
             /\ e.type = "status_changed"
             /\ e.from = issue[i].status
             /\ e.to = issue'[i].status
             /\ MayTransition(e.from, e.to, e.kind)
             /\ \A f \in new : f.type = "status_changed" => f = e

\* What it writes about runs: nothing, or the start of a run that was absent,
\* or the return of a running run of its own issue.
RunsWritten(i, new) ==
    \/ /\ run' = run
       /\ \A e \in new : e.type \notin {"hermes_started", "hermes_returned"}
    \/ \E r \in Runs, e \in new :
          /\ run[r].status = "absent"
          /\ run' = [run EXCEPT ![r] = [issue |-> i, status |-> "running"]]
          /\ e.type = "hermes_started" /\ e.run = r
          /\ \A f \in new : f.type \in {"hermes_started", "hermes_returned"} => f = e
    \/ \E r \in Runs, e \in new, s \in {"returned", "partial", "failed"} :
          /\ run[r].status = "running" /\ run[r].issue = i
          /\ run' = [run EXCEPT ![r].status = s]
          /\ e.type = "hermes_returned" /\ e.run = r
          /\ \A f \in new : f.type \in {"hermes_started", "hermes_returned"} => f = e

\* The rows a command added, as far as issue and ledger are concerned.
LedgerWritten(i, new) ==
    /\ i \in Issues
    /\ events' = events \cup new
    /\ \A e \in new : e.issue = i /\ e.expected = issue[i].version
    /\ \A j \in Issues \ {i} : issue'[j] = issue[j]
    /\ StatusWritten(i, new)
    /\ RunsWritten(i, new)

\* Every recorded command writes rows of that form.
LEMMA CommandWritesLedger ==
    ASSUME TypeOK, AbsentIsNew, NEW c \in Clients, Command(c)
    PROVE  \E i, new : LedgerWritten(i, new)
  <1> DEFINE q == call[c]
             i == q.cmd.issue
             k == q.key
             v == q.expected
  <1>1. LockedFields(c) /\ i \in Issues /\ issue \in [Issues -> IssueRow]
    BY LockedHasFields
       DEF Command, Create, Comment, Start, Return, Close, Transition, Handling, LockedFields,
           TypeOK
  <1>2. \A t : MoveTo(i, t) => /\ \A j \in Issues \ {i} : issue'[j] = issue[j]
                               /\ issue'[i].status = t
    BY <1>1 DEF MoveTo
  <1>3. CASE Create(c)
    <2> DEFINE e == PlainEvent(<<k, "">>, i, "issue_created", "human", 0, None)
    <2>1. e.issue = i /\ e.expected = 0 /\ e.type = "issue_created"
      BY DEF PlainEvent
    <2>2. /\ issue[i].status = "absent" /\ issue[i].version = 0
          /\ issue' = [issue EXCEPT ![i] = [status |-> "open", version |-> 1]]
          /\ run' = run /\ events' = events \cup {e}
      BY <1>1, <1>3 DEF Create, Exists, AbsentIsNew, Insert
    <2>3. issue'[i].status = "open" /\ \A j \in Issues \ {i} : issue'[j] = issue[j]
      BY <1>1, <2>2
    <2> HIDE DEF e
    <2>4. StatusWritten(i, {e}) /\ RunsWritten(i, {e})
      BY <2>1, <2>2, <2>3 DEF StatusWritten, RunsWritten
    <2> QED BY <1>1, <2>1, <2>2, <2>3, <2>4 DEF LedgerWritten
  <1>4. CASE Comment(c)
    <2> DEFINE e == PlainEvent(<<k, "">>, i, "comment_added", "human", v, None)
    <2>1. e.issue = i /\ e.expected = v /\ e.type = "comment_added"
      BY DEF PlainEvent
    <2>2. /\ issue[i].status # "absent" /\ issue[i].version = v
          /\ issue' = [issue EXCEPT ![i].version = @ + 1]
          /\ run' = run /\ events' = events \cup {e}
      BY <1>4 DEF Comment, Current, Exists, Insert
    <2>3. issue'[i].status = issue[i].status /\ \A j \in Issues \ {i} : issue'[j] = issue[j]
      BY <1>1, <2>2 DEF IssueRow
    <2> HIDE DEF e
    <2>4. StatusWritten(i, {e}) /\ RunsWritten(i, {e})
      BY <2>1, <2>2, <2>3 DEF StatusWritten, RunsWritten
    <2> QED BY <1>1, <2>1, <2>2, <2>3, <2>4 DEF LedgerWritten
  <1>5. CASE Start(c)
    <2> DEFINE r == q.cmd.run
               e == StatusEvent(<<k, "status">>, i, "hermes", v, issue[i].status, "in_progress")
               f == PlainEvent(<<k, "">>, i, "hermes_started", "hermes", v, r)
    <2>1. /\ e.issue = i /\ e.expected = v /\ e.type = "status_changed" /\ e.kind = "hermes"
          /\ e.from = issue[i].status /\ e.to = "in_progress"
          /\ f.issue = i /\ f.expected = v /\ f.type = "hermes_started" /\ f.run = r
      BY DEF PlainEvent, StatusEvent
    <2>2. /\ issue[i].status # "absent" /\ issue[i].version = v
          /\ run[r].status = "absent"
          /\ MayTransition(issue[i].status, "in_progress", "hermes")
          /\ run' = [run EXCEPT ![r] = [issue |-> i, status |-> "running"]]
          /\ MoveTo(i, "in_progress") /\ events' = events \cup {e, f}
      BY <1>5 DEF Start, Current, Exists, Insert
    <2>3. r \in Runs
      BY <1>1, <1>5, CommandFields DEF LockedFields, Start, Handling
    <2>4. issue'[i].status = "in_progress" /\ \A j \in Issues \ {i} : issue'[j] = issue[j]
      BY <1>2, <2>2
    <2> HIDE DEF e, f, r, i, v
    <2>5. StatusWritten(i, {e, f})
      BY <2>1, <2>2, <2>4 DEF StatusWritten
    <2>6. RunsWritten(i, {e, f})
      BY <2>1, <2>2, <2>3 DEF RunsWritten
    <2> QED BY <1>1, <2>1, <2>2, <2>4, <2>5, <2>6 DEF LedgerWritten
  <1>6. CASE Return(c)
    <2> DEFINE r == q.cmd.run
               target == ReturnToIssueStatus[q.cmd.outcome]
               s == ReturnToRunStatus[q.cmd.outcome]
               new == ReturnEvents(q, issue[i].status, target)
               e == StatusEvent(<<k, "status">>, i, "hermes", v, issue[i].status, target)
               f == PlainEvent(<<k, "">>, i, "hermes_returned", "hermes", v, r)
               g == PlainEvent(<<k, "review">>, i, "review_requested", "hermes", v, r)
    <2>1. /\ e.issue = i /\ e.expected = v /\ e.type = "status_changed" /\ e.kind = "hermes"
          /\ e.from = issue[i].status /\ e.to = target
          /\ f.issue = i /\ f.expected = v /\ f.type = "hermes_returned" /\ f.run = r
          /\ g.issue = i /\ g.expected = v /\ g.type = "review_requested"
      BY DEF PlainEvent, StatusEvent
    <2>2. /\ issue[i].status # "absent" /\ issue[i].version = v
          /\ run[r].status = "running" /\ run[r].issue = i
          /\ MayTransition(issue[i].status, target, "hermes")
          /\ run' = [run EXCEPT ![r].status = s]
          /\ MoveTo(i, target) /\ events' = events \cup new
      BY <1>6 DEF Return, Current, Exists, Insert
    <2>3. r \in Runs /\ s \in {"returned", "partial", "failed"}
      BY <1>1, <1>6, CommandFields, ReturnTables DEF LockedFields, Return, Handling
    <2>4. issue'[i].status = target /\ \A j \in Issues \ {i} : issue'[j] = issue[j]
      BY <1>2, <2>2
    <2>5. {e, f} \subseteq new /\ new \subseteq {e, f, g}
      BY DEF ReturnEvents
    <2> HIDE DEF e, f, g, r, i, v, s, target, new
    <2>6. StatusWritten(i, new)
      BY <2>1, <2>2, <2>4, <2>5 DEF StatusWritten
    <2>7. RunsWritten(i, new)
      BY <2>1, <2>2, <2>3, <2>5 DEF RunsWritten
    <2> QED BY <1>1, <2>1, <2>2, <2>4, <2>5, <2>6, <2>7 DEF LedgerWritten
  <1>7. CASE Close(c)
    <2> DEFINE e == StatusEvent(<<k, "status">>, i, "human", v, issue[i].status, "done")
               f == PlainEvent(<<k, "">>, i, "issue_closed", "human", v, None)
    <2>1. /\ e.issue = i /\ e.expected = v /\ e.type = "status_changed" /\ e.kind = "human"
          /\ e.from = issue[i].status /\ e.to = "done"
          /\ f.issue = i /\ f.expected = v /\ f.type = "issue_closed"
      BY DEF PlainEvent, StatusEvent
    <2>2. /\ issue[i].status # "absent" /\ issue[i].version = v /\ run' = run
          /\ MayTransition(issue[i].status, "done", "human")
          /\ MoveTo(i, "done") /\ events' = events \cup {e, f}
      BY <1>7 DEF Close, Current, Exists, Insert
    <2>3. issue'[i].status = "done" /\ \A j \in Issues \ {i} : issue'[j] = issue[j]
      BY <1>2, <2>2
    <2> HIDE DEF e, f, i, v
    <2>4. StatusWritten(i, {e, f}) /\ RunsWritten(i, {e, f})
      BY <2>1, <2>2, <2>3 DEF StatusWritten, RunsWritten
    <2> QED BY <1>1, <2>1, <2>2, <2>3, <2>4 DEF LedgerWritten
  <1>8. CASE Transition(c)
    <2> DEFINE to == q.cmd.to
               kind == q.cmd.kind
               e == StatusEvent(<<k, "">>, i, kind, v, issue[i].status, to)
    <2>1. /\ e.issue = i /\ e.expected = v /\ e.type = "status_changed" /\ e.kind = kind
          /\ e.from = issue[i].status /\ e.to = to
      BY DEF StatusEvent
    <2>2. /\ issue[i].status # "absent" /\ issue[i].version = v /\ run' = run
          /\ MayTransition(issue[i].status, to, kind)
          /\ MoveTo(i, to) /\ events' = events \cup {e}
      BY <1>8 DEF Transition, Current, Exists, Insert
    <2>3. issue'[i].status = to /\ \A j \in Issues \ {i} : issue'[j] = issue[j]
      BY <1>2, <2>2
    <2> HIDE DEF e, i, v, to, kind
    <2>4. StatusWritten(i, {e}) /\ RunsWritten(i, {e})
      BY <2>1, <2>2, <2>3 DEF StatusWritten, RunsWritten
    <2> QED BY <1>1, <2>1, <2>2, <2>3, <2>4 DEF LedgerWritten
  <1> QED BY <1>3, <1>4, <1>5, <1>6, <1>7, <1>8 DEF Command

\* The row that started a run names the issue the run is bound to.
StartedAsBound ==
    \A r \in Runs : \A e \in events :
        e.type = "hermes_started" /\ e.run = r => e.issue = run[r].issue

LedgerInv == LedgerIsTrue /\ StartedAsBound

\* Every row of an issue stands at a version the issue has left behind.
LEMMA RowsArePast ==
    ASSUME TypeOK, VersionInv, NEW e \in events
    PROVE  /\ e.issue \in Issues
           /\ e.expected \in Nat
           /\ issue[e.issue].version \in Nat
           /\ e.expected < issue[e.issue].version
  BY ConstantsAssumption DEF TypeOK, Event, IssueRow, Versions, VersionInv, OneCommandPerVersion

\* One recorded command keeps the ledger telling the status: the row it adds
\* starts where the last one ended, and is the last one now.
LEMMA CommandKeepsStatus ==
    ASSUME TypeOK, VersionInv, LedgerInv, NEW i, NEW new, LedgerWritten(i, new)
    PROVE  LedgerTellsStatus'
  <1>1. /\ i \in Issues
        /\ events' = events \cup new
        /\ \A e \in new : e.issue = i /\ e.expected = issue[i].version
        /\ \A j \in Issues \ {i} : issue'[j] = issue[j]
        /\ StatusWritten(i, new)
    BY DEF LedgerWritten
  <1>2. \A e \in events : /\ e.issue = i => e.expected < issue[i].version
                          /\ e.expected \in Nat
    BY RowsArePast
  <1>3. issue[i].version \in Nat
    BY <1>1, ConstantsAssumption DEF TypeOK, IssueRow, Versions
  <1> SUFFICES ASSUME NEW j \in Issues
               PROVE  (/\ Exists(j) /\ StatusEvents(j) = {} => issue[j].status = "open"
                       /\ \A e \in StatusEvents(j) :
                             LET later == {f \in StatusEvents(j) : f.expected > e.expected}
                             IN  IF later = {}
                                 THEN issue[j].status = e.to
                                 ELSE \E f \in later :
                                         f.from = e.to /\ \A g \in later : f.expected <= g.expected)'
    BY DEF LedgerTellsStatus
  <1> DEFINE Later(S, e) == {f \in S : f.expected > e.expected}
             Chained(S, s) ==
                 \A e \in S :
                     IF Later(S, e) = {} THEN s = e.to
                     ELSE \E f \in Later(S, e) :
                             f.from = e.to /\ \A g \in Later(S, e) : f.expected <= g.expected
             old == StatusEvents(j)
  <1>4. Chained(old, issue[j].status) /\ (Exists(j) /\ old = {} => issue[j].status = "open")
    BY DEF LedgerInv, LedgerIsTrue, LedgerTellsStatus
  <1>5. CASE j # i
    <2>1. StatusEvents(j)' = old /\ issue'[j] = issue[j]
      BY <1>1, <1>5 DEF StatusEvents
    <2> QED BY <1>4, <2>1 DEF Exists
  <1>6. CASE j = i /\ \A e \in new : e.type # "status_changed"
    <2>1. StatusEvents(j)' = old
      BY <1>1, <1>6 DEF StatusEvents
    <2>2. issue'[j].status = IF issue[j].status = "absent" THEN "open" ELSE issue[j].status
      BY <1>1, <1>6 DEF StatusWritten
    <2>3. issue[j].status = "absent" => old = {}
      <3>1. issue[j].status = "absent" => issue[j].version = 0
        BY DEF VersionInv, AbsentIsNew
      <3> QED BY <1>2, <1>6, <3>1 DEF StatusEvents
    <2> QED BY <1>4, <2>1, <2>2, <2>3 DEF Exists
  <1>7. CASE j = i /\ ~(\A e \in new : e.type # "status_changed")
    <2>1. PICK e \in new : /\ e.type = "status_changed"
                           /\ e.from = issue[j].status
                           /\ e.to = issue'[j].status
                           /\ \A f \in new : f.type = "status_changed" => f = e
      BY <1>1, <1>7 DEF StatusWritten
    <2>2. StatusEvents(j)' = old \cup {e}
      BY <1>1, <1>7, <2>1 DEF StatusEvents
    <2>3. e.expected = issue[j].version /\ e.expected \in Nat
      BY <1>1, <1>3, <1>7
    <2>4. \A f \in old : f.expected \in Nat /\ f.expected < e.expected
      BY <1>2, <1>7, <2>3 DEF StatusEvents
    <2>5. Later(old \cup {e}, e) = {}
      BY <2>3, <2>4
    <2>6. \A f \in old : Later(old \cup {e}, f) = Later(old, f) \cup {e}
      BY <2>3, <2>4
    <2>7. ASSUME NEW f \in old
          PROVE  \E g \in Later(old \cup {e}, f) :
                    g.from = f.to /\ \A h \in Later(old \cup {e}, f) : g.expected <= h.expected
      <3>1. CASE Later(old, f) = {}
        <4>1. Later(old \cup {e}, f) = {e} /\ e.from = f.to
          BY <1>4, <2>1, <2>6, <2>7, <3>1
        <4>2. e.expected <= e.expected
          BY <2>3
        <4> HIDE DEF Later
        <4> QED BY <4>1, <4>2
      <3>2. CASE Later(old, f) # {}
        <4>1. PICK g \in Later(old, f) :
                 g.from = f.to /\ \A h \in Later(old, f) : g.expected <= h.expected
          BY <1>4, <2>7, <3>2
        <4>2. g.expected <= e.expected
          BY <2>3, <2>4, <4>1
        <4>3. Later(old \cup {e}, f) = Later(old, f) \cup {e}
          BY <2>6, <2>7
        <4> HIDE DEF Later
        <4> QED BY <4>1, <4>2, <4>3
      <3> QED BY <3>1, <3>2
    <2>8. Chained(old \cup {e}, issue'[j].status)
      <3>1. ASSUME NEW f \in old \cup {e}
            PROVE  IF Later(old \cup {e}, f) = {} THEN issue'[j].status = f.to
                   ELSE \E g \in Later(old \cup {e}, f) :
                           g.from = f.to /\ \A h \in Later(old \cup {e}, f) : g.expected <= h.expected
        <4>1. CASE f = e
          BY <4>1, <2>1, <2>5
        <4>2. CASE f \in old
          <5>1. Later(old \cup {e}, f) # {}
            BY <2>6, <4>2
          <5> HIDE DEF Later, old
          <5> QED BY <2>7, <4>2, <5>1
        <4> QED BY <3>1, <4>1, <4>2
      <3> QED BY <3>1
    <2> QED BY <2>2, <2>8
  <1> QED BY <1>5, <1>6, <1>7

\* One recorded command keeps the ledger telling the runs: it starts only a
\* run without rows, and returns only a run that was started at an earlier
\* version of the same issue and has not returned.
LEMMA CommandKeepsRuns ==
    ASSUME TypeOK, VersionInv, LedgerInv, NEW i, NEW new, LedgerWritten(i, new)
    PROVE  LedgerTellsRuns' /\ StartedAsBound'
  <1>1. /\ i \in Issues
        /\ events' = events \cup new
        /\ \A e \in new : e.issue = i /\ e.expected = issue[i].version
        /\ RunsWritten(i, new)
    BY DEF LedgerWritten
  <1>2. \A e \in events : e.issue = i => e.expected < issue[i].version
    BY RowsArePast
  <1>3. run \in [Runs -> RunRow]
    BY DEF TypeOK
  <1> DEFINE Of(ledger, type, r) == {e \in ledger : e.type = type /\ e.run = r}
             Told(s, started, returned) ==
                 /\ s = "absent" <=> started = {}
                 /\ s \in {"returned", "partial", "failed"} <=> returned # {}
                 /\ \A e, f \in started : e = f
                 /\ \A e, f \in returned : e = f
                 /\ \A e \in started, f \in returned : e.issue = f.issue /\ e.expected < f.expected
  <1>4. \A r \in Runs : /\ Told(run[r].status, Of(events, "hermes_started", r),
                                Of(events, "hermes_returned", r))
                        /\ \A e \in Of(events, "hermes_started", r) : e.issue = run[r].issue
    BY DEF LedgerInv, LedgerIsTrue, LedgerTellsRuns, StartedAsBound
  <1>5. ASSUME NEW r \in Runs
        PROVE  /\ Told(run'[r].status, Of(events', "hermes_started", r),
                       Of(events', "hermes_returned", r))
               /\ \A e \in Of(events', "hermes_started", r) : e.issue = run'[r].issue
    <2> DEFINE started == Of(events, "hermes_started", r)
               returned == Of(events, "hermes_returned", r)
    <2>1. CASE /\ run'[r] = run[r]
               /\ \A e \in new : e.type \in {"hermes_started", "hermes_returned"} => e.run # r
      <3>1. Of(events', "hermes_started", r) = started /\ Of(events', "hermes_returned", r) = returned
        BY <1>1, <2>1
      <3> QED BY <1>4, <2>1, <3>1
    <2>2. ASSUME NEW e \in new, run[r].status = "absent",
                 run' = [run EXCEPT ![r] = [issue |-> i, status |-> "running"]],
                 e.type = "hermes_started", e.run = r,
                 \A f \in new : f.type \in {"hermes_started", "hermes_returned"} => f = e
          PROVE  /\ Told(run'[r].status, Of(events', "hermes_started", r),
                         Of(events', "hermes_returned", r))
                 /\ \A f \in Of(events', "hermes_started", r) : f.issue = run'[r].issue
      <3>1. started = {} /\ returned = {}
        BY <1>4, <2>2
      <3>2. Of(events', "hermes_started", r) = {e} /\ Of(events', "hermes_returned", r) = {}
        BY <1>1, <2>2, <3>1
      <3>3. run'[r].status = "running" /\ run'[r].issue = i
        BY <1>3, <2>2
      <3> HIDE DEF Of
      <3> QED BY <1>1, <3>2, <3>3
    <2>3. ASSUME NEW e \in new, NEW s \in {"returned", "partial", "failed"},
                 run[r].status = "running", run[r].issue = i,
                 run' = [run EXCEPT ![r].status = s],
                 e.type = "hermes_returned", e.run = r,
                 \A f \in new : f.type \in {"hermes_started", "hermes_returned"} => f = e
          PROVE  /\ Told(run'[r].status, Of(events', "hermes_started", r),
                         Of(events', "hermes_returned", r))
                 /\ \A f \in Of(events', "hermes_started", r) : f.issue = run'[r].issue
      <3>1. returned = {} /\ started # {}
        BY <1>4, <2>3
      <3>2. Of(events', "hermes_started", r) = started /\ Of(events', "hermes_returned", r) = {e}
        BY <1>1, <2>3, <3>1
      <3>3. run'[r].status = s /\ run'[r].issue = i
        BY <1>3, <2>3 DEF RunRow
      <3>4. \A f \in started : f.issue = e.issue /\ f.expected < e.expected
        BY <1>1, <1>2, <1>4, <2>3
      <3>5. (\A f, g \in started : f = g) /\ \A f \in started : f.issue = run[r].issue
        BY <1>4
      <3> HIDE DEF Of, started
      <3> QED BY <2>3, <3>1, <3>2, <3>3, <3>4, <3>5
    <2> QED BY <1>1, <1>3, <2>1, <2>2, <2>3 DEF RunsWritten
  <1> QED BY <1>5 DEF LedgerTellsRuns, StartedAsBound

\* One recorded command keeps terminal statuses in human hands.
LEMMA CommandKeepsHumanEnds ==
    ASSUME TypeOK, LedgerInv, NEW i, NEW new, LedgerWritten(i, new)
    PROVE  OnlyHumansEndAnIssue'
  <1>1. /\ i \in Issues
        /\ events' = events \cup new
        /\ \A e \in new : e.issue = i
        /\ \A j \in Issues \ {i} : issue'[j] = issue[j]
        /\ StatusWritten(i, new)
    BY DEF LedgerWritten
  <1>2. OnlyHumansEndAnIssue
    BY DEF LedgerInv, LedgerIsTrue
  <1>3. CASE /\ \A e \in new : e.type # "status_changed"
             /\ issue'[i].status = IF issue[i].status = "absent" THEN "open" ELSE issue[i].status
    BY <1>1, <1>2, <1>3 DEF OnlyHumansEndAnIssue, StatusEvents, TerminalStatuses
  <1>4. ASSUME NEW e \in new, issue[i].status # "absent", e.type = "status_changed",
               e.from = issue[i].status, e.to = issue'[i].status,
               MayTransition(e.from, e.to, e.kind),
               \A f \in new : f.type = "status_changed" => f = e
        PROVE  OnlyHumansEndAnIssue'
    <2>1. e.from \in IssueStatuses
      BY <1>1, <1>4 DEF TypeOK, IssueRow
    <2>2. /\ e.kind = "hermes" => e.to \in HermesTargets
          /\ e.to \in TerminalStatuses => e.kind = "human"
      BY <1>4, <2>1, TransitionTables
    <2>3. \A f \in events' : f.type = "status_changed" /\ f.kind = "hermes" => f.to \in HermesTargets
      BY <1>1, <1>2, <1>4, <2>2 DEF OnlyHumansEndAnIssue
    <2>4. ASSUME NEW j \in Issues, issue'[j].status \in TerminalStatuses
          PROVE  \E f \in StatusEvents(j)' : f.kind = "human" /\ f.to = issue'[j].status
      <3>1. CASE j = i
        BY <1>1, <1>4, <2>2, <2>4, <3>1 DEF StatusEvents
      <3>2. CASE j # i
        BY <1>1, <1>2, <2>4, <3>2 DEF OnlyHumansEndAnIssue, StatusEvents
      <3> QED BY <3>1, <3>2
    <2> QED BY <2>3, <2>4 DEF OnlyHumansEndAnIssue
  <1> QED BY <1>1, <1>3, <1>4 DEF StatusWritten

\* The append-only ledger tells the truth about every issue and every run: the
\* chain of status rows ends at the present status, a run is running exactly
\* between the row that started it and the row that returned it, and whatever
\* ended was ended by a human.
THEOREM LedgerIsTruthful == Spec => []LedgerIsTrue
  <1>1. Init => LedgerInv
    BY DEF Init, LedgerInv, LedgerIsTrue, LedgerTellsStatus, LedgerTellsRuns,
           OnlyHumansEndAnIssue, StartedAsBound, StatusEvents, Exists, TerminalStatuses
  <1>2. TypeOK /\ VersionInv /\ LedgerInv /\ [Next]_vars => LedgerInv'
    <2> SUFFICES ASSUME TypeOK, VersionInv, LedgerInv, [Next]_vars PROVE LedgerInv'
      OBVIOUS
    <2>1. CASE \E c \in Clients : Command(c)
      <3>1. PICK i, new : LedgerWritten(i, new)
        BY <2>1, CommandWritesLedger DEF VersionInv
      <3> QED BY <3>1, CommandKeepsStatus, CommandKeepsRuns, CommandKeepsHumanEnds
              DEF LedgerInv, LedgerIsTrue
    <2>2. CASE UNCHANGED <<issue, run, events>>
      BY <2>2 DEF LedgerInv, LedgerIsTrue, LedgerTellsStatus, LedgerTellsRuns,
                  OnlyHumansEndAnIssue, StartedAsBound, StatusEvents, Exists
    <2> QED BY <2>1, <2>2, StepKinds
  <1>3. LedgerInv => LedgerIsTrue
    BY DEF LedgerInv
  <1> QED BY <1>1, <1>2, <1>3, TypeCorrect, VersionsInvariant, PTL DEF Spec

=============================================================================
