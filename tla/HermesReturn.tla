----------------------------- MODULE HermesReturn -----------------------------
(***************************************************************************)
(* The return of a registered Hermes run: one observation of Hermes by the *)
(* binding (hermes_run_binding.reconcile_once) or a call of an external    *)
(* runtime, handled by record_external_runtime_return                      *)
(* (hermes_runtime_return.py), which stores the result candidate           *)
(* (hermes_result_candidate.py), the normalized return of the run, the     *)
(* Work Issue transition and the projection on the Work Card in one        *)
(* transaction, while humans comment on, move or close the Work Issue.     *)
(*                                                                         *)
(* The handler reads the run row and then the issue row without any lock   *)
(* (READ COMMITTED) and takes the row locks only inside                    *)
(* record_hermes_return; other transactions commit in between.             *)
(***************************************************************************)
EXTENDS Naturals, WorkIssueRules

CONSTANTS
    Runs,            \* registered runs, each the only run of its own Work Issue
    Calls,           \* return requests the server handles at the same time
    CallKeys,        \* idempotency keys of return requests
    Contents,        \* what a return says besides its outcome
    Carries,         \* pairs <<key, payload>>: what callers may send under a key
    MaxIssueVersion, \* bound on Work Issue versions
    NoReturn

\* Version of the Work Issue after the start: what a launch receipt carries.
StartVersion == 2

Payload == [outcome : Outcomes, content : Contents]

\* A normalized return as stored: the candidate's reference is appended.
Stored == [outcome : Outcomes, content : Contents, candidate : BOOLEAN]

\* Callers that keep to one payload per key, as a caller that only repeats does.
OnePayloadPerKey == \A m, n \in Carries : m[1] = n[1] => m = n

ASSUME ReturnAssumption ==
    /\ MaxIssueVersion \in Nat /\ MaxIssueVersion > StartVersion
    /\ Carries \subseteq CallKeys \X Payload
    /\ NoReturn \notin CallKeys \cup Contents \cup Runs
    /\ NoReturn \notin Stored \cup [key : CallKeys, content : Contents]

VARIABLES
    runIssue,   \* runIssue[r]: status and version of the run's Work Issue
    hermes,     \* hermes[r]: the status Hermes reports
    runStatus,  \* runStatus[r]: hermes_runs.status
    stored,     \* stored[r]: hermes_runs.normalized_return, or NoReturn
    candidate,  \* candidate[r]: the row of hermes_result_candidates, or NoReturn
    card,       \* card[r]: result_ref and decision_request of work_card_metadata
    returnKeys, \* returnKeys[r]: keys of the issue's hermes_returned events
    call,       \* call[c]: the request being handled
    acked       \* returns that were answered with runtime_return_recorded

returnVars == <<runIssue, hermes, runStatus, stored, candidate, card, returnKeys, call, acked>>

rows == <<runIssue, runStatus, stored, candidate, card, returnKeys>>

IssueVersions == 0..MaxIssueVersion

BoundedReturn(p) ==
    [outcome |-> p.outcome, content |-> p.content, candidate |-> p.outcome = "result_candidate"]

\* The card points at the candidate and asks for a decision, or does neither.
CardOf(p) == IF p.outcome = "result_candidate" THEN p.content ELSE NoReturn

HermesStatuses == {"running", "completed", "failed", "cancelled"}

NoCall == [pc |-> "idle"]

Request == [pc : {"received", "run_read", "issue_read", "committed"}, run : Runs, key : CallKeys,
            payload : Payload, expected : IssueVersions,
            seenStatus : RunStatuses, seenReturn : Stored \cup {NoReturn}]

-----------------------------------------------------------------------------
(* Hermes and the callers.                                                 *)

HermesEnds(r, status) ==
    /\ hermes[r] = "running"
    /\ status # "running"
    /\ hermes' = [hermes EXCEPT ![r] = status]
    /\ UNCHANGED <<rows, call, acked>>

Receive(c, r, k, p, v) ==
    /\ call[c] = NoCall
    /\ <<k, p>> \in Carries
    /\ call' = [call EXCEPT ![c] = [pc |-> "received", run |-> r, key |-> k, payload |-> p,
                                     expected |-> v, seenStatus |-> "running", seenReturn |-> NoReturn]]
    /\ UNCHANGED <<rows, hermes, acked>>

\* reconcile_once: a terminal status that maps to an outcome is returned with
\* the version of the launch receipt; any other status changes nothing.
Reconcile(c, r, k, x) ==
    \/ /\ hermes[r] = "completed"
       /\ Receive(c, r, k, [outcome |-> "result_candidate", content |-> x], StartVersion)
    \/ /\ hermes[r] = "failed"
       /\ Receive(c, r, k, [outcome |-> "failed", content |-> x], StartVersion)

\* An external runtime reports by itself, with a version it has read.
Report(c, r, k, p, v) ==
    /\ v <= runIssue[r].version
    /\ Receive(c, r, k, p, v)

-----------------------------------------------------------------------------
(* The handler.                                                            *)

\* _run_for_admission, without a lock.
ReadRun(c) ==
    LET r == call[c].run IN
    /\ call[c].pc = "received"
    /\ call' = [call EXCEPT ![c].pc = "run_read",
                            ![c].seenStatus = runStatus[r], ![c].seenReturn = stored[r]]
    /\ UNCHANGED <<rows, hermes, acked>>

\* get_issue_record, without a lock; the version matters only to a running run.
ReadIssue(c) ==
    LET q == call[c] IN
    /\ q.pc = "run_read"
    /\ q.seenStatus = "running" => runIssue[q.run].version = q.expected
    /\ call' = [call EXCEPT ![c].pc = "issue_read"]
    /\ UNCHANGED <<rows, hermes, acked>>

\* create_result_candidate: a new row, or the row that is already there for
\* this key or this run if it says the same.
CandidateAccepted(q) ==
    q.payload.outcome = "result_candidate" =>
        /\ candidate[q.run] # NoReturn => candidate[q.run].content = q.payload.content
        /\ \A s \in Runs : s # q.run /\ candidate[s] # NoReturn => candidate[s].key # q.key

StoreCandidate(q) ==
    candidate' = IF q.payload.outcome = "result_candidate" /\ candidate[q.run] = NoReturn
                 THEN [candidate EXCEPT ![q.run] = [key |-> q.key, content |-> q.payload.content]]
                 ELSE candidate

\* A run that was seen ended accepts only the same return under the same key.
ReplayAccepted(q) ==
    q.seenStatus # "running" =>
        /\ q.key \in returnKeys[q.run]
        /\ q.seenReturn = BoundedReturn(q.payload)

KeyKnown(k) == \E r \in Runs : k \in returnKeys[r]

\* _project_result_to_work_card, made by every call that gets this far.
ProjectResult(q) == card' = [card EXCEPT ![q.run] = CardOf(q.payload)]

\* record_hermes_return finds its event and changes nothing.
CommitReplay(c) ==
    LET q == call[c] IN
    /\ q.pc = "issue_read"
    /\ CandidateAccepted(q)
    /\ ReplayAccepted(q)
    /\ q.key \in returnKeys[q.run]
    /\ StoreCandidate(q)
    /\ ProjectResult(q)
    /\ call' = [call EXCEPT ![c].pc = "committed"]
    /\ UNCHANGED <<runIssue, hermes, runStatus, stored, returnKeys, acked>>

RecordReturn(q, target) ==
    LET r == q.run IN
    /\ runIssue[r].version < MaxIssueVersion
    /\ MayTransition(runIssue[r].status, target, "hermes")
    /\ StoreCandidate(q)
    /\ runStatus' = [runStatus EXCEPT ![r] = ReturnToRunStatus[q.payload.outcome]]
    /\ stored' = [stored EXCEPT ![r] = BoundedReturn(q.payload)]
    /\ runIssue' = [runIssue EXCEPT ![r] = [status |-> target, version |-> runIssue[r].version + 1]]
    /\ returnKeys' = [returnKeys EXCEPT ![r] = @ \cup {q.key}]
    /\ ProjectResult(q)

\* Seeded fault: run and issue are not read again under their locks.
CommitReturnUnlocked(c) ==
    LET q == call[c] IN
    /\ q.pc = "issue_read"
    /\ CandidateAccepted(q)
    /\ ReplayAccepted(q)
    /\ ~KeyKnown(q.key)
    /\ q.seenStatus = "running"
    /\ RecordReturn(q, ReturnToIssueStatus[q.payload.outcome])
    /\ call' = [call EXCEPT ![c].pc = "committed"]
    /\ UNCHANGED <<hermes, acked>>

\* Seeded fault: the version is compared only before the lock.
CommitReturnOnReadVersion(c) ==
    LET q == call[c] IN
    /\ q.pc = "issue_read"
    /\ CandidateAccepted(q)
    /\ ReplayAccepted(q)
    /\ ~KeyKnown(q.key)
    /\ runStatus[q.run] = "running"
    /\ RecordReturn(q, ReturnToIssueStatus[q.payload.outcome])
    /\ call' = [call EXCEPT ![c].pc = "committed"]
    /\ UNCHANGED <<hermes, acked>>

\* record_hermes_return locks the issue and the run and records the return.
CommitReturn(c) ==
    LET q == call[c] IN
    /\ q.pc = "issue_read"
    /\ CandidateAccepted(q)
    /\ ReplayAccepted(q)
    /\ ~KeyKnown(q.key)
    /\ runStatus[q.run] = "running"
    /\ runIssue[q.run].version = q.expected
    /\ RecordReturn(q, ReturnToIssueStatus[q.payload.outcome])
    /\ call' = [call EXCEPT ![c].pc = "committed"]
    /\ UNCHANGED <<hermes, acked>>

Answer(c) ==
    /\ call[c].pc = "committed"
    /\ acked' = acked \cup {[run |-> call[c].run, payload |-> call[c].payload]}
    /\ call' = [call EXCEPT ![c] = NoCall]
    /\ UNCHANGED <<rows, hermes>>

\* A refusal (nothing is kept), a lost request or a lost answer.
Drop(c) ==
    /\ call[c] # NoCall
    /\ call' = [call EXCEPT ![c] = NoCall]
    /\ UNCHANGED <<rows, hermes, acked>>

-----------------------------------------------------------------------------
(* Humans, meanwhile.                                                      *)

HumanComments(r) ==
    /\ runIssue[r].version < MaxIssueVersion
    /\ runIssue' = [runIssue EXCEPT ![r].version = @ + 1]
    /\ UNCHANGED <<hermes, runStatus, stored, candidate, card, returnKeys, call, acked>>

HumanMoves(r, target) ==
    /\ runIssue[r].version < MaxIssueVersion
    /\ MayTransition(runIssue[r].status, target, "human")
    /\ runIssue' = [runIssue EXCEPT ![r] = [status |-> target, version |-> runIssue[r].version + 1]]
    /\ UNCHANGED <<hermes, runStatus, stored, candidate, card, returnKeys, call, acked>>

-----------------------------------------------------------------------------
\* Every run has just been registered by start_hermes_run.
ReturnInit ==
    /\ runIssue = [r \in Runs |-> [status |-> "in_progress", version |-> StartVersion]]
    /\ hermes = [r \in Runs |-> "running"]
    /\ runStatus = [r \in Runs |-> "running"]
    /\ stored = [r \in Runs |-> NoReturn]
    /\ candidate = [r \in Runs |-> NoReturn]
    /\ card = [r \in Runs |-> NoReturn]
    /\ returnKeys = [r \in Runs |-> {}]
    /\ call = [c \in Calls |-> NoCall]
    /\ acked = {}

OnRun(r) ==
    \/ \E status \in HermesStatuses : HermesEnds(r, status)
    \/ HumanComments(r)
    \/ \E target \in IssueStatuses : HumanMoves(r, target)
    \/ \E c \in Calls, k \in CallKeys :
          \/ \E x \in Contents : Reconcile(c, r, k, x)
          \/ \E p \in Payload, v \in IssueVersions : Report(c, r, k, p, v)

OnCall(c) ==
    \/ ReadRun(c)
    \/ ReadIssue(c)
    \/ CommitReplay(c)
    \/ CommitReturn(c)
    \/ Answer(c)
    \/ Drop(c)

ReturnNext == (\E r \in Runs : OnRun(r)) \/ (\E c \in Calls : OnCall(c))

ReturnSpec == ReturnInit /\ [][ReturnNext]_returnVars

-----------------------------------------------------------------------------
(* Properties.                                                             *)

\* The tables and the requests in flight hold values of their columns.
ReturnTypeOK ==
    /\ runIssue \in [Runs -> [status : IssueStatuses, version : IssueVersions]]
    /\ hermes \in [Runs -> HermesStatuses]
    /\ runStatus \in [Runs -> RunStatuses]
    /\ stored \in [Runs -> Stored \cup {NoReturn}]
    /\ candidate \in [Runs -> [key : CallKeys, content : Contents] \cup {NoReturn}]
    /\ card \in [Runs -> Contents \cup {NoReturn}]
    /\ returnKeys \in [Runs -> SUBSET CallKeys]
    /\ call \in [Calls -> Request \cup {NoCall}]
    /\ acked \subseteq [run : Runs, payload : Payload]

\* Return and candidate are recorded together: if callers keep to one payload
\* per key, a candidate exists exactly for a return that carries one and says
\* what that return says, although it is written before the run is locked.
ReturnIsWhole ==
    OnePayloadPerKey => \A r \in Runs :
        /\ candidate[r] # NoReturn <=> (stored[r] # NoReturn /\ stored[r].candidate)
        /\ candidate[r] # NoReturn =>
              candidate[r].content = stored[r].content /\ candidate[r].key \in returnKeys[r]

\* One return per run: its status, its stored return and the one event that
\* recorded it agree, whatever keys and payloads race.
ReturnIsRecordedOnce ==
    \A r \in Runs :
        /\ runStatus[r] = "running" <=> stored[r] = NoReturn
        /\ stored[r] = NoReturn <=> returnKeys[r] = {}
        /\ \A k, l \in returnKeys[r] : k = l
        /\ stored[r] # NoReturn => runStatus[r] = ReturnToRunStatus[stored[r].outcome]

\* A result never reaches the human as a decision to take unless it is stored:
\* a card that asks for a decision shows the run's own candidate.
CardShowsStoredCandidate ==
    \A r \in Runs : card[r] # NoReturn => candidate[r] # NoReturn /\ card[r] = candidate[r].content

\* A recorded return is final: no replay, late report or second key changes
\* the run, its return or its candidate.
ReturnIsFinal ==
    [][\A r \in Runs : stored[r] # NoReturn =>
          /\ stored'[r] = stored[r]
          /\ runStatus'[r] = runStatus[r]
          /\ candidate'[r] = candidate[r]]_returnVars

\* After a human has spoken on the issue a return based on the version before
\* is refused: a step that records a return finds the version of the request.
\* Runtime success never ends a Work Issue.
ReturnNeverEndsIssue ==
    [][\A r \in Runs : stored'[r] # stored[r] =>
          /\ runIssue[r].status \notin TerminalStatuses
          /\ runIssue'[r].status \in {"review", "waiting"}
          /\ \E c \in Calls : call[c].pc = "issue_read" /\ call[c].expected = runIssue[r].version]_returnVars

\* A return is recorded as a whole, once, and shown as what is stored (ReturnIsWhole,
\* ReturnIsRecordedOnce, CardShowsStoredCandidate).
ReturnIsSound == ReturnTypeOK /\ ReturnIsWhole /\ ReturnIsRecordedOnce /\ CardShowsStoredCandidate

\* What was returned is not returned again, and ends no issue (ReturnIsFinal,
\* ReturnNeverEndsIssue).
ReturnIsKept == ReturnIsFinal /\ ReturnNeverEndsIssue

\* A caller that is told "recorded" had what it sent recorded: a replay that
\* does not match the stored return is refused (hermes_runtime_return.py, the
\* comparison with the stored normalized return).
RecordedIsWhatWasSent ==
    \A a \in acked : stored[a.run] = BoundedReturn(a.payload)

=============================================================================
