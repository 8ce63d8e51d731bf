------------------------------ MODULE WorkIssues ------------------------------
(***************************************************************************)
(* The Work Issue aggregate of mvp_vertical/work_issues.py: issues, Hermes *)
(* runs, comments and the append-only event ledger, written by concurrent  *)
(* clients under optimistic versions and idempotency keys.                 *)
(*                                                                         *)
(* A request runs in the two steps PostgreSQL gives it.  The idempotency   *)
(* SELECT (_event_replayed) is made BEFORE any row is locked; everything   *)
(* after SELECT ... FOR UPDATE of the issue row, up to the commit, is      *)
(* atomic for the other writers of that issue.  A request can be lost      *)
(* before its commit and its answer can be lost after it; the client then  *)
(* sends the command again under the same key.                             *)
(***************************************************************************)
EXTENDS Naturals, WorkIssueRules

CONSTANTS
    Issues,      \* issue_id values
    Runs,        \* run_id values
    Keys,        \* idempotency keys chosen by clients, one per intended command
    Clients,     \* concurrent requests the server handles
    Commands,    \* the commands the clients may intend
    MaxVersion,  \* bound on Work Issue versions
    None

\* What a client may ask for.  "to" is the target of a transition, "outcome"
\* the outcome of a normalized return, "kind" the actor kind of a transition.
AllCommands ==
         [op : {"create", "comment", "close"}, issue : Issues]
    \cup [op : {"start"}, issue : Issues, run : Runs]
    \cup [op : {"return"}, issue : Issues, run : Runs, outcome : Outcomes]
    \cup [op : {"transition"}, issue : Issues, to : IssueStatuses, kind : ActorKinds]

ASSUME ConstantsAssumption ==
    /\ MaxVersion \in Nat \ {0}
    /\ Commands \subseteq AllCommands
    /\ None \notin Runs
    /\ None \notin Commands

VARIABLES
    issue,     \* issue[i]: row of work_issues (status, version); "absent" before creation
    run,       \* run[r]: row of hermes_runs (issue, status)
    comments,  \* rows of issue_comments, each named by the command's key
    events,    \* rows of issue_events
    intent,    \* intent[k]: the command a client bound to key k, or None
    call,      \* call[c]: the request being handled
    acked      \* commands that were answered with success

vars == <<issue, run, comments, events, intent, call, acked>>

Versions == 0..MaxVersion

\* Inserted key text: the request's key, or the key with the suffix the code appends.
EventKeys == Keys \X {"", "status", "review"}

EventTypes == {"issue_created", "comment_added", "status_changed", "hermes_started",
               "hermes_returned", "review_requested", "issue_closed"}

Event == [key : EventKeys, issue : Issues, type : EventTypes, kind : ActorKinds,
          expected : Versions, run : Runs \cup {None},
          from : IssueStatuses \cup {None}, to : IssueStatuses \cup {None}]

IssueRow == [status : IssueStatuses \cup {"absent"}, version : Versions]

RunRow == [issue : Issues \cup {None}, status : RunStatuses \cup {"absent"}]

Idle == [pc |-> "idle", cmd |-> None, key |-> None, expected |-> 0]

Call == [pc : {"received", "checked", "committed"}, cmd : Commands,
         key : Keys, expected : Versions] \cup {Idle}

-----------------------------------------------------------------------------
(* Inserting events.                                                       *)

PlainEvent(k, i, type, kind, v, r) ==
    [key |-> k, issue |-> i, type |-> type, kind |-> kind, expected |-> v,
     run |-> r, from |-> None, to |-> None]

StatusEvent(k, i, kind, v, from, to) ==
    [key |-> k, issue |-> i, type |-> "status_changed", kind |-> kind,
     expected |-> v, run |-> None, from |-> from, to |-> to]

\* idempotency_key is UNIQUE: an insert that repeats one aborts its transaction.
KeysFree(new) == \A e \in new : \A f \in events : e.key # f.key

Insert(new) ==
    /\ KeysFree(new)
    /\ events' = events \cup new

\* Seeded fault: the replay check asks for any event of the issue.
ReplayedByIssue(k, i) == \E e \in events : e.issue = i

\* _event_replayed: the key already names an event of this issue.
Replayed(k, i) == \E e \in events : e.key = <<k, "">> /\ e.issue = i

KeyTaken(k) == \E e \in events : e.key = <<k, "">>

-----------------------------------------------------------------------------
(* Requests.                                                               *)

\* A client sends the command it bound to key k, with a version it has read.
Send(c, cmd, k, v) ==
    /\ call[c] = Idle
    /\ intent[k] \in {None, cmd}
    /\ v <= issue[cmd.issue].version
    /\ intent' = [intent EXCEPT ![k] = cmd]
    /\ call' = [call EXCEPT ![c] = [pc |-> "received", cmd |-> cmd, key |-> k, expected |-> v]]
    /\ UNCHANGED <<issue, run, comments, events, acked>>

\* The replay check, on committed rows and without any lock.
CheckReplay(c) ==
    LET q == call[c] IN
    /\ q.pc = "received"
    /\ \/ /\ Replayed(q.key, q.cmd.issue)
          /\ call' = [call EXCEPT ![c].pc = "committed"]
       \/ /\ ~KeyTaken(q.key)
          /\ call' = [call EXCEPT ![c].pc = "checked"]
    /\ UNCHANGED <<issue, run, comments, events, intent, acked>>

Done(c) ==
    /\ call' = [call EXCEPT ![c].pc = "committed"]
    /\ UNCHANGED <<intent, acked>>

\* The request is in its locked section and asks for operation op.
Handling(c, op) == call[c].pc = "checked" /\ call[c].cmd.op = op

Exists(i) == issue[i].status # "absent"

\* Seeded fault: the version read by the caller is not compared.
CurrentWithoutVersion(c) ==
    /\ Exists(call[c].cmd.issue)
    /\ issue[call[c].cmd.issue].version < MaxVersion

\* The version test of _transition_locked and add_comment, and the bound.
Current(c) ==
    LET i == call[c].cmd.issue IN
    /\ Exists(i)
    /\ issue[i].version = call[c].expected
    /\ issue[i].version < MaxVersion

\* The UPDATE of _transition_locked, once its tests passed.
MoveTo(i, target) ==
    issue' = [issue EXCEPT ![i] = [status |-> target, version |-> issue[i].version + 1]]

Create(c) ==
    LET q == call[c]
        i == q.cmd.issue
    IN
    /\ Handling(c, "create")
    /\ ~Exists(i)
    /\ issue' = [issue EXCEPT ![i] = [status |-> "open", version |-> 1]]
    /\ Insert({PlainEvent(<<q.key, "">>, i, "issue_created", "human", 0, None)})
    /\ Done(c)
    /\ UNCHANGED <<run, comments>>

Comment(c) ==
    LET q == call[c]
        i == q.cmd.issue
    IN
    /\ Handling(c, "comment")
    /\ Current(c)
    /\ q.key \notin comments
    /\ comments' = comments \cup {q.key}
    /\ issue' = [issue EXCEPT ![i].version = @ + 1]
    /\ Insert({PlainEvent(<<q.key, "">>, i, "comment_added", "human", q.expected, None)})
    /\ Done(c)
    /\ UNCHANGED run

Start(c) ==
    LET q == call[c]
        i == q.cmd.issue
        r == q.cmd.run
    IN
    /\ Handling(c, "start")
    /\ Exists(i)
    /\ issue[i].status \in {"open", "waiting"}
    /\ run[r].status = "absent"
    /\ Current(c)
    /\ MayTransition(issue[i].status, "in_progress", "hermes")
    /\ run' = [run EXCEPT ![r] = [issue |-> i, status |-> "running"]]
    /\ MoveTo(i, "in_progress")
    /\ Insert({StatusEvent(<<q.key, "status">>, i, "hermes", q.expected, issue[i].status, "in_progress"),
               PlainEvent(<<q.key, "">>, i, "hermes_started", "hermes", q.expected, r)})
    /\ Done(c)
    /\ UNCHANGED comments

ReturnEvents(q, from, target) ==
    LET i == q.cmd.issue
        r == q.cmd.run
    IN  {StatusEvent(<<q.key, "status">>, i, "hermes", q.expected, from, target),
         PlainEvent(<<q.key, "">>, i, "hermes_returned", "hermes", q.expected, r)}
        \cup {PlainEvent(<<q.key, "review">>, i, "review_requested", "hermes", q.expected, r) :
                  x \in {target} \cap {"review"}}

\* Seeded fault: the status of the locked run is not tested.
ReturnOfAnyRun(c) ==
    LET q == call[c]
        i == q.cmd.issue
        r == q.cmd.run
        target == ReturnToIssueStatus[q.cmd.outcome]
    IN
    /\ Handling(c, "return")
    /\ run[r].issue = i
    /\ Current(c)
    /\ MayTransition(issue[i].status, target, "hermes")
    /\ run' = [run EXCEPT ![r].status = ReturnToRunStatus[q.cmd.outcome]]
    /\ MoveTo(i, target)
    /\ Insert(ReturnEvents(q, issue[i].status, target))
    /\ Done(c)
    /\ UNCHANGED comments

Return(c) ==
    LET q == call[c]
        i == q.cmd.issue
        r == q.cmd.run
        target == ReturnToIssueStatus[q.cmd.outcome]
    IN
    /\ Handling(c, "return")
    /\ run[r].issue = i
    /\ run[r].status = "running"
    /\ Current(c)
    /\ MayTransition(issue[i].status, target, "hermes")
    /\ run' = [run EXCEPT ![r].status = ReturnToRunStatus[q.cmd.outcome]]
    /\ MoveTo(i, target)
    /\ Insert(ReturnEvents(q, issue[i].status, target))
    /\ Done(c)
    /\ UNCHANGED comments

Close(c) ==
    LET q == call[c]
        i == q.cmd.issue
    IN
    /\ Handling(c, "close")
    /\ Current(c)
    /\ MayTransition(issue[i].status, "done", "human")
    /\ MoveTo(i, "done")
    /\ Insert({StatusEvent(<<q.key, "status">>, i, "human", q.expected, issue[i].status, "done"),
               PlainEvent(<<q.key, "">>, i, "issue_closed", "human", q.expected, None)})
    /\ Done(c)
    /\ UNCHANGED <<run, comments>>

Transition(c) ==
    LET q == call[c]
        i == q.cmd.issue
    IN
    /\ Handling(c, "transition")
    /\ Current(c)
    /\ MayTransition(issue[i].status, q.cmd.to, q.cmd.kind)
    /\ MoveTo(i, q.cmd.to)
    /\ Insert({StatusEvent(<<q.key, "">>, i, q.cmd.kind, q.expected, issue[i].status, q.cmd.to)})
    /\ Done(c)
    /\ UNCHANGED <<run, comments>>

Answer(c) ==
    /\ call[c].pc = "committed"
    /\ acked' = acked \cup {[cmd |-> call[c].cmd, key |-> call[c].key]}
    /\ call' = [call EXCEPT ![c] = Idle]
    /\ UNCHANGED <<issue, run, comments, events, intent>>

\* A refusal (the transaction rolls back), a lost request, or a lost answer.
Drop(c) ==
    /\ call[c] # Idle
    /\ call' = [call EXCEPT ![c] = Idle]
    /\ UNCHANGED <<issue, run, comments, events, intent, acked>>

-----------------------------------------------------------------------------
Init ==
    /\ issue = [i \in Issues |-> [status |-> "absent", version |-> 0]]
    /\ run = [r \in Runs |-> [issue |-> None, status |-> "absent"]]
    /\ comments = {}
    /\ events = {}
    /\ intent = [k \in Keys |-> None]
    /\ call = [c \in Clients |-> Idle]
    /\ acked = {}

Next ==
    \E c \in Clients :
        \/ \E cmd \in Commands, k \in Keys, v \in Versions : Send(c, cmd, k, v)
        \/ CheckReplay(c)
        \/ Create(c)
        \/ Comment(c)
        \/ Start(c)
        \/ Return(c)
        \/ Close(c)
        \/ Transition(c)
        \/ Answer(c)
        \/ Drop(c)

Spec == Init /\ [][Next]_vars

-----------------------------------------------------------------------------
(* Properties.                                                             *)

\* The tables and the requests in flight hold values of their columns.
TypeOK ==
    /\ issue \in [Issues -> IssueRow]
    /\ run \in [Runs -> RunRow]
    /\ comments \subseteq Keys
    /\ events \subseteq Event
    /\ intent \in [Keys -> Commands \cup {None}]
    /\ call \in [Clients -> Call]
    /\ acked \subseteq [cmd : Commands, key : Keys]

\* No lost update: every version an issue went through was written by exactly
\* one command.  Two commands that read the same version can never both be
\* recorded, and no version lacks an event (work_issues.py, the version test
\* and UPDATE ... WHERE version of _transition_locked and add_comment).
OneCommandPerVersion ==
    /\ \A e, f \in events :
          e.issue = f.issue /\ e.expected = f.expected => e.key[1] = f.key[1]
    /\ \A i \in Issues : \A v \in Versions :
          v < issue[i].version <=> \E e \in events : e.issue = i /\ e.expected = v

StatusEvents(i) == {e \in events : e.issue = i /\ e.type = "status_changed"}

\* The ledger tells the status: the latest status_changed event of an issue
\* ends where the issue is, each one starts where the one before it ended, and
\* an issue without any is open.
LedgerTellsStatus ==
    \A i \in Issues :
        /\ Exists(i) /\ StatusEvents(i) = {} => issue[i].status = "open"
        /\ \A e \in StatusEvents(i) :
              LET later == {f \in StatusEvents(i) : f.expected > e.expected}
              IN  IF later = {}
                  THEN issue[i].status = e.to
                  ELSE \E f \in later : f.from = e.to /\ \A g \in later : f.expected <= g.expected

\* A human ends an issue: a terminal issue carries a human decision of its
\* final status, and no Hermes event ever moved an issue to a terminal status.
OnlyHumansEndAnIssue ==
    /\ \A e \in events : e.type = "status_changed" /\ e.kind = "hermes" => e.to \in HermesTargets
    /\ \A i \in Issues : issue[i].status \in TerminalStatuses =>
          \E e \in StatusEvents(i) : e.kind = "human" /\ e.to = issue[i].status

\* A run and the ledger agree: it is running exactly between the one event
\* that started it and the one event that recorded its return.
LedgerTellsRuns ==
    \A r \in Runs :
        LET started  == {e \in events : e.type = "hermes_started" /\ e.run = r}
            returned == {e \in events : e.type = "hermes_returned" /\ e.run = r}
        IN  /\ run[r].status = "absent" <=> started = {}
            /\ run[r].status \in {"returned", "partial", "failed"} <=> returned # {}
            /\ \A e, f \in started : e = f
            /\ \A e, f \in returned : e = f
            /\ \A e \in started, f \in returned : e.issue = f.issue /\ e.expected < f.expected

\* The ledger of an issue tells its status (LedgerTellsStatus) and its runs
\* (LedgerTellsRuns), and only a human has ended it (OnlyHumansEndAnIssue).
LedgerIsTrue == LedgerTellsStatus /\ LedgerTellsRuns /\ OnlyHumansEndAnIssue

OpEvent ==
    [create |-> "issue_created", comment |-> "comment_added", start |-> "hermes_started",
     return |-> "hermes_returned", close |-> "issue_closed", transition |-> "status_changed"]

\* A client that was answered with success finds its own command in the
\* ledger, whichever of its copies was applied.
AnsweredIsApplied ==
    \A a \in acked : \E e \in events :
        /\ e.key = <<a.key, "">>
        /\ e.issue = a.cmd.issue
        /\ e.type = OpEvent[a.cmd.op]

\* What has ended stays ended: neither a late return nor any other command
\* changes the status of a done or cancelled issue, or a run that returned.
EndsAreFinal ==
    [][/\ \A i \in Issues :
             issue[i].status \in TerminalStatuses => issue'[i].status = issue[i].status
       /\ \A r \in Runs :
             run[r].status \in {"returned", "partial", "failed"} => run'[r] = run[r]]_vars

=============================================================================
