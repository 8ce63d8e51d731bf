----------------------------- MODULE HermesLaunch -----------------------------
(***************************************************************************)
(* From a submitted handoff to a registered Hermes run: the execution      *)
(* admission (hermes_execution.py), the launch reservation                 *)
(* (hermes_launch_context.py), the external binding that submits the run   *)
(* (hermes_run_binding.py), Hermes itself, and the humans who revoke the   *)
(* admission or change the Work Issue meanwhile.                           *)
(*                                                                         *)
(* A handoff creates one Work Issue and carries at most one admission      *)
(* (UNIQUE handoff_id, UNIQUE work_issue_id), so one name stands for the   *)
(* three.  Every server transaction locks the admission row first and is   *)
(* one step, except reserve_launch: it runs under REPEATABLE READ and its  *)
(* first SELECT, which fixes its snapshot, comes before the lock.  It has  *)
(* two steps, and between them other transactions commit.                  *)
(***************************************************************************)
EXTENDS Naturals, WorkIssueRules

CONSTANTS
    Admissions,  \* handoffs, with their Work Issue and their admission
    HermesRuns,  \* run ids Hermes may answer with
    Bindings,    \* processes that execute ExternalHermesRunBinding.launch
    Keys,        \* idempotency keys of launches
    MaxVersion,  \* bound on Work Issue versions
    None

ASSUME ConstantsAssumption ==
    /\ MaxVersion \in Nat \ {0}
    /\ None \notin Admissions \cup HermesRuns \cup Bindings \cup Keys

VARIABLES
    issue,          \* issue[a]: status and version of the Work Issue
    admission,      \* admission[a]: the admitted work_issue_version, 0 before admit_handoff
    expired,        \* admissions whose expires_at has passed
    revoked,        \* admissions with a revocation event
    reservation,    \* reservation[a]: idempotency key of the launch reservation, or None
    launchExpired,  \* admissions whose launch_expires_at has passed
    registered,     \* registered[a]: hermes_runs row whose admission_ref is a, or None
    reservedRun,    \* registered runs that carry a launch_reservation_ref
    launch,         \* launch[b]: where binding process b is in launch()
    sent,           \* sent[a]: how many times POST /v1/runs was sent for the admission
    posts,          \* POST /v1/runs requests on their way to Hermes
    hermesRun       \* hermesRun[r]: the admission that Hermes run r works for, and who asked

vars == <<issue, admission, expired, revoked, reservation, launchExpired,
          registered, reservedRun, launch, sent, posts, hermesRun>>

issueVars == <<issue>>
admissionVars == <<admission, expired, revoked>>
reservationVars == <<reservation, launchExpired>>
runVars == <<registered, reservedRun>>
outsideVars == <<launch, sent, posts, hermesRun>>

Versions == 0..MaxVersion

NoSnapshot == [status |-> "open", version |-> 0, revoked |-> FALSE,
               reserved |-> FALSE, run |-> None]

Idle == [pc |-> "idle", admission |-> None, key |-> None, snapshot |-> NoSnapshot, run |-> None]

LaunchPCs == {"reserving", "replay_refused", "reserved", "posting", "submitted", "registered",
              "submission_unknown", "registration_unknown"}

-----------------------------------------------------------------------------
(* The admission state (_state), on given rows.                            *)

\* The tail of _state: the admission has neither run, revocation nor
\* reservation, its time has not passed, and the Work Issue is as admitted.
StillOpen(a, status, version) ==
    /\ a \notin expired
    /\ version = admission[a]
    /\ status = "open"

\* Seeded fault: the reservation is looked at before the revocation.
AdmissionStateReservedFirst(a, row) ==
    CASE row.run # None -> "consumed"
      [] row.run = None /\ row.reserved ->
            IF a \in launchExpired THEN "launch_expired" ELSE "launch_reserved"
      [] row.run = None /\ ~row.reserved /\ row.revoked -> "revoked"
      [] OTHER -> IF StillOpen(a, row.status, row.version) THEN "admitted" ELSE "stale"

AdmissionState(a, row) ==
    CASE row.run # None -> "consumed"
      [] row.run = None /\ row.revoked -> "revoked"
      [] row.run = None /\ ~row.revoked /\ row.reserved ->
            IF a \in launchExpired THEN "launch_expired" ELSE "launch_reserved"
      [] OTHER -> IF StillOpen(a, row.status, row.version) THEN "admitted" ELSE "stale"

\* The committed rows that a transaction reads about an admission.
Rows(a) == [status |-> issue[a].status, version |-> issue[a].version,
            revoked |-> a \in revoked, reserved |-> reservation[a] # None,
            run |-> registered[a]]

CurrentState(a) == AdmissionState(a, Rows(a))

-----------------------------------------------------------------------------
(* Humans.                                                                 *)

SubmitHandoff(a) ==
    /\ issue[a].version = 0
    /\ issue' = [issue EXCEPT ![a] = [status |-> "open", version |-> 1]]
    /\ UNCHANGED <<admissionVars, reservationVars, runVars, outsideVars>>

AdmitHandoff(a) ==
    /\ issue[a].version > 0
    /\ admission[a] = 0
    /\ issue[a].status = "open"
    /\ registered[a] = None
    /\ admission' = [admission EXCEPT ![a] = issue[a].version]
    /\ UNCHANGED <<issueVars, expired, revoked, reservationVars, runVars, outsideVars>>

RevokeAdmission(a) ==
    /\ admission[a] # 0
    /\ CurrentState(a) = "admitted"
    /\ revoked' = revoked \cup {a}
    /\ UNCHANGED <<issueVars, admission, expired, reservationVars, runVars, outsideVars>>

\* A comment on the issue (work_issues.add_comment) moves its version only.
CommentIssue(a) ==
    /\ issue[a].version \in 1..(MaxVersion - 1)
    /\ issue' = [issue EXCEPT ![a].version = @ + 1]
    /\ UNCHANGED <<admissionVars, reservationVars, runVars, outsideVars>>

\* A human decision on the issue (transition_issue, close_issue).
MoveIssue(a, target) ==
    /\ issue[a].version \in 1..(MaxVersion - 1)
    /\ MayTransition(issue[a].status, target, "human")
    /\ issue' = [issue EXCEPT ![a] = [status |-> target, version |-> issue[a].version + 1]]
    /\ UNCHANGED <<admissionVars, reservationVars, runVars, outsideVars>>

-----------------------------------------------------------------------------
(* Time.  launch_expires_at = min(expires_at, reserved_at + 120 s).        *)

AdmissionExpires(a) ==
    /\ admission[a] # 0
    /\ a \notin expired
    /\ expired' = expired \cup {a}
    /\ launchExpired' = IF reservation[a] = None THEN launchExpired ELSE launchExpired \cup {a}
    /\ UNCHANGED <<issueVars, admission, revoked, reservation, runVars, outsideVars>>

LaunchExpires(a) ==
    /\ reservation[a] # None
    /\ a \notin launchExpired
    /\ launchExpired' = launchExpired \cup {a}
    /\ UNCHANGED <<issueVars, admissionVars, reservation, runVars, outsideVars>>

-----------------------------------------------------------------------------
(* launch(): the reservation.                                              *)

\* A qualified binding asks for a reservation.  The transaction starts with
\* the replay SELECT, which fixes its REPEATABLE READ snapshot.
ReserveBegin(b, a, k) ==
    /\ launch[b].pc = "idle"
    /\ admission[a] # 0
    /\ \A d \in Admissions : reservation[d] # k
    /\ launch' = [launch EXCEPT ![b] = [pc |-> "reserving", admission |-> a, key |-> k,
                                         snapshot |-> Rows(a), run |-> None]]
    /\ UNCHANGED <<issueVars, admissionVars, reservationVars, runVars, sent, posts, hermesRun>>

\* The replay SELECT finds the key: the reservation is returned with
\* replayed=True and launch() refuses to go on.
ReserveReplay(b, a, k) ==
    /\ launch[b].pc = "idle"
    /\ reservation[a] = k
    /\ launch' = [launch EXCEPT ![b] = [Idle EXCEPT !.pc = "replay_refused", !.admission = a, !.key = k]]
    /\ UNCHANGED <<issueVars, admissionVars, reservationVars, runVars, sent, posts, hermesRun>>

\* Seeded fault: neither column of the reservation is UNIQUE.
ReserveCommitNotUnique(b) ==
    LET a == launch[b].admission IN
    /\ launch[b].pc = "reserving"
    /\ ~launch[b].snapshot.reserved
    /\ AdmissionState(a, launch[b].snapshot) = "admitted"
    /\ reservation' = [reservation EXCEPT ![a] = launch[b].key]
    /\ launch' = [launch EXCEPT ![b].pc = "reserved", ![b].snapshot = NoSnapshot]
    /\ UNCHANGED <<issueVars, admissionVars, launchExpired, runVars, sent, posts, hermesRun>>

\* The rest of the transaction, after SELECT ... FOR UPDATE of the admission.
\* Reads are of the snapshot; clocks are read now; the UNIQUE constraints on
\* admission_id and idempotency_key are of the present.
ReserveCommit(b) ==
    LET a == launch[b].admission
        seen == launch[b].snapshot
        k == launch[b].key
    IN
    /\ launch[b].pc = "reserving"
    /\ ~seen.reserved
    /\ AdmissionState(a, seen) = "admitted"
    /\ reservation[a] = None
    /\ \A d \in Admissions : reservation[d] # k
    /\ reservation' = [reservation EXCEPT ![a] = k]
    /\ launch' = [launch EXCEPT ![b].pc = "reserved", ![b].snapshot = NoSnapshot]
    /\ UNCHANGED <<issueVars, admissionVars, launchExpired, runVars, sent, posts, hermesRun>>

-----------------------------------------------------------------------------
(* launch(): the submission to Hermes.                                     *)

PostRun(b) ==
    /\ launch[b].pc = "reserved"
    /\ posts' = posts \cup {[by |-> b, admission |-> launch[b].admission]}
    /\ sent' = [sent EXCEPT ![launch[b].admission] = @ + 1]
    /\ launch' = [launch EXCEPT ![b].pc = "posting"]
    /\ UNCHANGED <<issueVars, admissionVars, reservationVars, runVars, hermesRun>>

\* Hermes starts a run.  A request that the binding has given up on is still
\* delivered; its answer reaches nobody.
HermesAccepts(p, r) ==
    LET waiting == launch[p.by].pc = "posting" /\ launch[p.by].admission = p.admission IN
    /\ p \in posts
    /\ hermesRun[r].admission = None
    /\ posts' = posts \ {p}
    /\ hermesRun' = [hermesRun EXCEPT ![r] = [admission |-> p.admission, asked |-> "binding"]]
    /\ launch' = IF waiting
                 THEN [launch EXCEPT ![p.by].pc = "submitted", ![p.by].run = r]
                 ELSE launch
    /\ UNCHANGED <<issueVars, admissionVars, reservationVars, runVars, sent>>

\* HermesRunSubmissionUnknown: a timeout, a refusal or an answer without run_id.
SubmissionUnknown(b) ==
    /\ launch[b].pc = "posting"
    /\ launch' = [launch EXCEPT ![b].pc = "submission_unknown"]
    /\ UNCHANGED <<issueVars, admissionVars, reservationVars, runVars, sent, posts, hermesRun>>

PostLost(p) ==
    /\ p \in posts
    /\ posts' = posts \ {p}
    /\ UNCHANGED <<issueVars, admissionVars, reservationVars, runVars, launch, sent, hermesRun>>

-----------------------------------------------------------------------------
(* Registration of the start (record_external_runtime_start).              *)

\* Seeded fault: the issue is given the status of the run.
StartRunStatusMixed(a, r) ==
    /\ issue[a].status \in {"open", "waiting"}
    /\ issue[a].version < MaxVersion
    /\ \A d \in Admissions : registered[d] # r
    /\ issue' = [issue EXCEPT ![a] = [status |-> "running", version |-> issue[a].version + 1]]
    /\ registered' = [registered EXCEPT ![a] = r]

\* start_hermes_run and the linkage of the new row to its admission.
StartRun(a, r) ==
    /\ issue[a].status \in {"open", "waiting"}
    /\ issue[a].version < MaxVersion
    /\ \A d \in Admissions : registered[d] # r
    /\ issue' = [issue EXCEPT ![a] = [status |-> "in_progress", version |-> issue[a].version + 1]]
    /\ registered' = [registered EXCEPT ![a] = r]

\* A start under the binding's reservation.  The version the callback carries
\* is the reserved one; the transition itself uses the version read now.
RegisterReserved(b) ==
    LET a == launch[b].admission IN
    /\ launch[b].pc \in {"submitted", "registration_unknown"}
    /\ registered[a] = None
    /\ reservation[a] = launch[b].key
    /\ CurrentState(a) = "launch_reserved"
    /\ StartRun(a, launch[b].run)
    /\ reservedRun' = reservedRun \cup {launch[b].run}
    /\ \/ launch' = [launch EXCEPT ![b].pc = "registered"]
       \/ launch' = [launch EXCEPT ![b].pc = "registration_unknown"]
    /\ UNCHANGED <<admissionVars, reservationVars, sent, posts, hermesRun>>

\* The same start again: the run of the admission is already the caller's.
RegisterReplay(b) ==
    /\ launch[b].pc \in {"submitted", "registration_unknown"}
    /\ registered[launch[b].admission] = launch[b].run
    /\ launch' = [launch EXCEPT ![b].pc = "registered"]
    /\ UNCHANGED <<issueVars, admissionVars, reservationVars, runVars, sent, posts, hermesRun>>

\* HermesRunRegistrationUnknown: the start is refused, or its request is lost.
RegistrationUnknown(b) ==
    /\ launch[b].pc = "submitted"
    /\ launch' = [launch EXCEPT ![b].pc = "registration_unknown"]
    /\ UNCHANGED <<issueVars, admissionVars, reservationVars, runVars, sent, posts, hermesRun>>

\* An external runtime reads the execution envelope, which is given out only
\* in state admitted, and starts a Hermes run of its own for it.
RunDirect(a, r) ==
    /\ admission[a] # 0
    /\ CurrentState(a) = "admitted"
    /\ hermesRun[r].admission = None
    /\ hermesRun' = [hermesRun EXCEPT ![r] = [admission |-> a, asked |-> "direct"]]
    /\ UNCHANGED <<issueVars, admissionVars, reservationVars, runVars, launch, sent, posts>>

\* Seeded fault: a start without a reservation is linked as a reserved one,
\* and is accepted in any state.
RegisterDirectUnchecked(a, r) ==
    /\ hermesRun[r] = [admission |-> a, asked |-> "direct"]
    /\ registered[a] = None
    /\ StartRun(a, r)
    /\ reservedRun' = reservedRun \cup {r}
    /\ UNCHANGED <<admissionVars, reservationVars, outsideVars>>

\* It registers that run without naming a reservation; expected_issue_version
\* is the admitted one.
RegisterDirect(a, r) ==
    /\ hermesRun[r] = [admission |-> a, asked |-> "direct"]
    /\ registered[a] = None
    /\ reservation[a] = None
    /\ CurrentState(a) = "admitted"
    /\ StartRun(a, r)
    /\ UNCHANGED <<admissionVars, reservationVars, reservedRun, outsideVars>>

\* The binding process dies or its caller gives up; launch() can be called again.
BindingStops(b) ==
    /\ launch[b] # Idle
    /\ launch' = [launch EXCEPT ![b] = Idle]
    /\ UNCHANGED <<issueVars, admissionVars, reservationVars, runVars, sent, posts, hermesRun>>

-----------------------------------------------------------------------------
Init ==
    /\ issue = [a \in Admissions |-> [status |-> "open", version |-> 0]]
    /\ admission = [a \in Admissions |-> 0]
    /\ expired = {}
    /\ revoked = {}
    /\ reservation = [a \in Admissions |-> None]
    /\ launchExpired = {}
    /\ registered = [a \in Admissions |-> None]
    /\ reservedRun = {}
    /\ launch = [b \in Bindings |-> Idle]
    /\ sent = [a \in Admissions |-> 0]
    /\ posts = {}
    /\ hermesRun = [r \in HermesRuns |-> [admission |-> None, asked |-> None]]

OnAdmission(a) ==
    \/ SubmitHandoff(a)
    \/ AdmitHandoff(a)
    \/ RevokeAdmission(a)
    \/ CommentIssue(a)
    \/ \E target \in IssueStatuses : MoveIssue(a, target)
    \/ AdmissionExpires(a)
    \/ LaunchExpires(a)
    \/ \E r \in HermesRuns : RunDirect(a, r) \/ RegisterDirect(a, r)

OnLaunch(b) ==
    \/ \E a \in Admissions, k \in Keys : ReserveBegin(b, a, k) \/ ReserveReplay(b, a, k)
    \/ ReserveCommit(b)
    \/ PostRun(b)
    \/ SubmissionUnknown(b)
    \/ RegisterReserved(b)
    \/ RegisterReplay(b)
    \/ RegistrationUnknown(b)
    \/ BindingStops(b)

Next ==
    \/ \E a \in Admissions : OnAdmission(a)
    \/ \E b \in Bindings : OnLaunch(b)
    \/ \E p \in posts : PostLost(p) \/ \E r \in HermesRuns : HermesAccepts(p, r)

Spec == Init /\ [][Next]_vars

-----------------------------------------------------------------------------
(* Properties.                                                             *)

Snapshot == [status : IssueStatuses, version : Versions, revoked : BOOLEAN,
             reserved : BOOLEAN, run : HermesRuns \cup {None}]

LaunchRow == [pc : LaunchPCs \cup {"idle"}, admission : Admissions \cup {None},
              key : Keys \cup {None}, snapshot : Snapshot, run : HermesRuns \cup {None}]

\* The tables, the processes and the messages hold values of their kind.
TypeOK ==
    /\ issue \in [Admissions -> [status : IssueStatuses, version : Versions]]
    /\ admission \in [Admissions -> Versions]
    /\ expired \subseteq Admissions
    /\ revoked \subseteq Admissions
    /\ reservation \in [Admissions -> Keys \cup {None}]
    /\ launchExpired \subseteq Admissions
    /\ registered \in [Admissions -> HermesRuns \cup {None}]
    /\ reservedRun \subseteq HermesRuns
    /\ launch \in [Bindings -> LaunchRow]
    /\ sent \in [Admissions -> Nat]
    /\ posts \subseteq [by : Bindings, admission : Admissions]
    /\ hermesRun \in [HermesRuns -> [admission : Admissions \cup {None},
                                      asked : {None, "binding", "direct"}]]

\* POST /v1/runs is sent at most once for an admission, whatever bindings race,
\* crash, are called again with the same or another key, or lose answers
\* (hermes_run_binding.launch; the UNIQUE columns of
\* hermes_run_launch_reservations).
OneSubmission == \A a \in Admissions : sent[a] <= 1

AskedByBinding(a) == {r \in HermesRuns : hermesRun[r] = [admission |-> a, asked |-> "binding"]}

\* The durable reservation comes before the network call: nothing is on its
\* way to Hermes, and no binding's run exists there, for an admission without
\* a committed reservation, so that an ambiguous outcome can be reconciled.
ReservedBeforeSubmission ==
    \A a \in Admissions :
        AskedByBinding(a) # {} \/ (\E p \in posts : p.admission = a) => reservation[a] # None

\* An admission that a human revoked is never consumed by a run.
RevokedNeverConsumed == \A a \in revoked : registered[a] = None

\* The run registered under a reservation is the very run that Hermes started
\* for that reservation; every other registered run is a direct one.
RegisteredRunIsExact ==
    \A a \in Admissions : registered[a] # None =>
        /\ hermesRun[registered[a]].admission = a
        /\ registered[a] \in reservedRun <=> hermesRun[registered[a]].asked = "binding"
        /\ registered[a] \in reservedRun => reservation[a] # None

\* A binding whose launch ended with a receipt holds the registered run.
ReceiptIsRegistered ==
    \A b \in Bindings : launch[b].pc = "registered" => registered[launch[b].admission] = launch[b].run

\* What Hermes was asked was reserved before (ReservedBeforeSubmission), and what is
\* registered is the run it accepted for that binding (RegisteredRunIsExact,
\* ReceiptIsRegistered).
RegistrationIsExact == ReservedBeforeSubmission /\ RegisteredRunIsExact /\ ReceiptIsRegistered

Standing ==
    [a \in Admissions |->
        IF registered[a] # None THEN "consumed"
        ELSE IF a \in revoked THEN "withdrawn"
        ELSE IF admission[a] # 0 THEN "admitted"
        ELSE "none"]

Dispatch == INSTANCE RunDispatch WITH
                standing <- Standing, consumer <- registered, dispatched <- sent

\* The junction implements RunDispatch: an admission is withdrawn or consumed,
\* never both and never undone, and is dispatched at most once.
ImplementsRunDispatch == Dispatch!Spec

\* What docs/HERMES_RUN_LAUNCH_JUNCTION.md says of the reservation: it closes
\* the window in which a human revokes an admission while the binding is
\* already submitting it.
NoSubmissionOfRevoked ==
    \A b \in Bindings : launch[b].pc = "posting" => launch[b].admission \notin revoked

=============================================================================
