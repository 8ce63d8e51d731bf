--------------------------- MODULE HermesRuns_proofs --------------------------
(***************************************************************************)
(* Theorems about a run of Hermes: its launch, for every number of         *)
(* admissions, binding processes, keys and Hermes runs, and its return,    *)
(* for every number of runs, callers, keys and payloads.                   *)
(***************************************************************************)
EXTENDS HermesLaunch, HermesReturn, TLAPS

-----------------------------------------------------------------------------
(* The launch.                                                             *)

-----------------------------------------------------------------------------
(* What an admission state says of the committed rows.                     *)

LEMMA StateOfRows ==
    ASSUME NEW a
    PROVE  /\ CurrentState(a) = "admitted" =>
                 registered[a] = None /\ a \notin revoked /\ reservation[a] = None
           /\ CurrentState(a) = "launch_reserved" =>
                 registered[a] = None /\ a \notin revoked /\ reservation[a] # None
  <1>1. /\ Rows(a).run = registered[a]
        /\ Rows(a).revoked = (a \in revoked)
        /\ Rows(a).reserved = (reservation[a] # None)
    BY DEF Rows
  <1>2. CASE registered[a] # None
    BY <1>1, <1>2 DEF CurrentState, AdmissionState
  <1>3. CASE registered[a] = None /\ a \in revoked
    BY <1>1, <1>3 DEF CurrentState, AdmissionState
  <1>4. CASE registered[a] = None /\ a \notin revoked /\ reservation[a] # None
    BY <1>1, <1>4 DEF CurrentState, AdmissionState
  <1>5. CASE registered[a] = None /\ a \notin revoked /\ reservation[a] = None
    BY <1>1, <1>5 DEF CurrentState, AdmissionState
  <1> QED BY <1>2, <1>3, <1>4, <1>5

-----------------------------------------------------------------------------
(* Type correctness, with what the types leave open: which fields of a     *)
(* binding process are set where, and that all it works on was admitted.   *)

LaunchFields ==
    \A b \in Bindings :
        /\ launch[b].pc # "idle" =>
              /\ launch[b].admission \in Admissions
              /\ launch[b].key \in Keys
              /\ admission[launch[b].admission] # 0
        /\ launch[b].pc \in {"submitted", "registered", "registration_unknown"} =>
              launch[b].run \in HermesRuns

AllAdmitted ==
    /\ \A a \in Admissions : reservation[a] # None => admission[a] # 0
    /\ \A p \in posts : admission[p.admission] # 0
    /\ \A r \in HermesRuns :
          hermesRun[r].admission # None => admission[hermesRun[r].admission] # 0

TypeInv == TypeOK /\ LaunchFields /\ AllAdmitted

LEMMA VersionsCount ==
    ASSUME TypeOK, NEW a \in Admissions, issue[a].version < MaxVersion
    PROVE  issue[a].version + 1 \in Versions
  BY ConstantsAssumption DEF TypeOK, Versions

LEMMA StartRunType ==
    ASSUME TypeOK, NEW a \in Admissions, NEW r \in HermesRuns, StartRun(a, r)
    PROVE  /\ issue' \in [Admissions -> [status : IssueStatuses, version : Versions]]
           /\ registered' \in [Admissions -> HermesRuns \cup {None}]
  BY VersionsCount DEF StartRun, TypeOK, IssueStatuses

\* One process moves on to a row with the fields its place in launch() needs.
LEMMA LaunchStep ==
    ASSUME TypeInv, NEW b \in Bindings, NEW row \in LaunchRow,
           launch' = [launch EXCEPT ![b] = row],
           UNCHANGED admission,
           row.pc # "idle" => /\ row.admission \in Admissions
                              /\ row.key \in Keys
                              /\ admission[row.admission] # 0,
           row.pc \in {"submitted", "registered", "registration_unknown"} => row.run \in HermesRuns
    PROVE  launch' \in [Bindings -> LaunchRow] /\ LaunchFields'
  <1>1. launch' \in [Bindings -> LaunchRow] /\ launch'[b] = row
        /\ \A d \in Bindings : d # b => launch'[d] = launch[d]
    BY DEF TypeInv, TypeOK
  <1> QED BY <1>1 DEF TypeInv, LaunchFields

\* Processes, rows and messages stay of their kinds, and work on admitted
\* handoffs only.
LEMMA TypeInvariant == Spec => []TypeInv
  <1>1. Init => TypeInv
    <2> SUFFICES ASSUME Init PROVE TypeInv
      OBVIOUS
    <2>1. 0 \in Versions /\ "open" \in IssueStatuses
      BY ConstantsAssumption DEF Versions, IssueStatuses
    <2>2. Idle \in LaunchRow
      BY <2>1 DEF Idle, LaunchRow, NoSnapshot, Snapshot
    <2>3. TypeOK
      BY <2>1, <2>2 DEF Init, TypeOK
    <2>4. LaunchFields /\ AllAdmitted
      BY DEF Init, LaunchFields, AllAdmitted, Idle
    <2> QED BY <2>3, <2>4 DEF TypeInv
  <1>2. TypeInv /\ [Next]_vars => TypeInv'
    <2> SUFFICES ASSUME TypeInv, [Next]_vars PROVE TypeInv'
      OBVIOUS
    <2> USE DEF TypeInv, issueVars, admissionVars, reservationVars, runVars, outsideVars
    <2>1. ASSUME NEW a \in Admissions, SubmitHandoff(a) PROVE TypeInv'
      <3>1. 1 \in Versions /\ "open" \in IssueStatuses
        BY ConstantsAssumption DEF Versions, IssueStatuses
      <3> QED BY <2>1, <3>1 DEF SubmitHandoff, TypeOK, LaunchFields, AllAdmitted
    <2>2. ASSUME NEW a \in Admissions, AdmitHandoff(a) PROVE TypeInv'
      <3>1. admission' = [admission EXCEPT ![a] = issue[a].version] /\ issue[a].version # 0
            /\ UNCHANGED <<issue, expired, revoked, reservation, launchExpired, registered, reservedRun,
                           launch, sent, posts, hermesRun>>
        BY <2>2, ConstantsAssumption DEF AdmitHandoff, TypeOK, Versions
      <3>2. admission' \in [Admissions -> Versions]
            /\ \A d \in Admissions : admission[d] # 0 => admission'[d] # 0
        BY <3>1 DEF TypeOK
      <3>3. TypeOK'
        BY <3>1, <3>2 DEF TypeOK
      <3>4. LaunchFields'
        BY <3>1, <3>2 DEF LaunchFields
      <3>5. AllAdmitted'
        BY <3>1, <3>2 DEF AllAdmitted, TypeOK
      <3> QED BY <3>3, <3>4, <3>5
    <2>3. ASSUME NEW a \in Admissions, RevokeAdmission(a) PROVE TypeInv'
      BY <2>3 DEF RevokeAdmission, TypeOK, LaunchFields, AllAdmitted
    <2>4. ASSUME NEW a \in Admissions, CommentIssue(a) PROVE TypeInv'
      <3>1. issue[a].version + 1 \in Versions
        BY <2>4, ConstantsAssumption DEF CommentIssue, Versions
      <3> QED BY <2>4, <3>1 DEF CommentIssue, TypeOK, LaunchFields, AllAdmitted
    <2>5. ASSUME NEW a \in Admissions, NEW t \in IssueStatuses, MoveIssue(a, t) PROVE TypeInv'
      <3>1. issue[a].version + 1 \in Versions
        BY <2>5, ConstantsAssumption DEF MoveIssue, Versions
      <3> QED BY <2>5, <3>1 DEF MoveIssue, TypeOK, LaunchFields, AllAdmitted
    <2>6. ASSUME NEW a \in Admissions, AdmissionExpires(a) \/ LaunchExpires(a) PROVE TypeInv'
      BY <2>6 DEF AdmissionExpires, LaunchExpires, TypeOK, LaunchFields, AllAdmitted
    <2>7. ASSUME NEW a \in Admissions, NEW r \in HermesRuns, RunDirect(a, r) PROVE TypeInv'
      BY <2>7 DEF RunDirect, TypeOK, LaunchFields, AllAdmitted
    <2>8. ASSUME NEW a \in Admissions, NEW r \in HermesRuns, RegisterDirect(a, r) PROVE TypeInv'
      BY <2>8, StartRunType DEF RegisterDirect, TypeOK, LaunchFields, AllAdmitted
    <2>9. ASSUME NEW b \in Bindings, NEW a \in Admissions, NEW k \in Keys,
                 ReserveBegin(b, a, k) \/ ReserveReplay(b, a, k)
          PROVE  TypeInv'
      <3> DEFINE begun == [pc |-> "reserving", admission |-> a, key |-> k,
                           snapshot |-> Rows(a), run |-> None]
                 refused == [Idle EXCEPT !.pc = "replay_refused", !.admission = a, !.key = k]
      <3>1. Rows(a) \in Snapshot
        BY DEF Rows, Snapshot, TypeOK
      <3>2. begun \in LaunchRow
        BY <3>1 DEF LaunchRow, LaunchPCs
      <3>3. NoSnapshot \in Snapshot
        BY ConstantsAssumption DEF NoSnapshot, Snapshot, IssueStatuses, Versions
      <3>4. refused \in LaunchRow /\ refused.pc = "replay_refused"
            /\ refused.admission = a /\ refused.key = k
        BY <3>3 DEF LaunchRow, LaunchPCs, Idle
      <3>5. \/ launch' = [launch EXCEPT ![b] = begun]
            \/ launch' = [launch EXCEPT ![b] = refused]
        BY <2>9 DEF ReserveBegin, ReserveReplay
      <3>6. UNCHANGED <<issue, admission, expired, revoked, reservation, launchExpired,
                        registered, reservedRun, sent, posts, hermesRun>>
        BY <2>9 DEF ReserveBegin, ReserveReplay
      <3>7. admission[a] # 0
        BY <2>9, ConstantsAssumption DEF ReserveBegin, ReserveReplay, AllAdmitted
      <3> HIDE DEF begun, refused
      <3>8. launch' \in [Bindings -> LaunchRow] /\ LaunchFields'
        <4>1. begun.pc = "reserving" /\ begun.admission = a /\ begun.key = k
          BY DEF begun
        <4> QED BY <3>2, <3>4, <3>5, <3>6, <3>7, <4>1, LaunchStep
      <3> QED BY <3>6, <3>8 DEF TypeOK, AllAdmitted
    <2>10. ASSUME NEW b \in Bindings, ReserveCommit(b) PROVE TypeInv'
      <3> DEFINE a == launch[b].admission
                 row == [launch[b] EXCEPT !.pc = "reserved", !.snapshot = NoSnapshot]
      <3>1. /\ launch[b] \in LaunchRow /\ launch[b].pc = "reserving"
            /\ a \in Admissions /\ launch[b].key \in Keys /\ admission[a] # 0
        BY <2>10 DEF ReserveCommit, TypeOK, LaunchFields
      <3>2. NoSnapshot \in Snapshot
        BY ConstantsAssumption DEF NoSnapshot, Snapshot, IssueStatuses, Versions
      <3>3. /\ row \in LaunchRow /\ row.pc = "reserved"
            /\ row.admission = a /\ row.key = launch[b].key
        BY <3>1, <3>2 DEF LaunchRow, LaunchPCs
      <3>4. /\ launch' = [launch EXCEPT ![b] = row]
            /\ reservation' = [reservation EXCEPT ![a] = launch[b].key]
            /\ UNCHANGED <<issue, admission, expired, revoked, launchExpired, registered,
                           reservedRun, sent, posts, hermesRun>>
        BY <2>10, <3>1 DEF ReserveCommit, TypeOK
      <3> HIDE DEF row
      <3>5. launch' \in [Bindings -> LaunchRow] /\ LaunchFields'
        BY <3>1, <3>3, <3>4, LaunchStep
      <3>6. AllAdmitted'
        BY <3>1, <3>4 DEF AllAdmitted, TypeOK
      <3> QED BY <3>1, <3>4, <3>5, <3>6 DEF TypeOK
    <2>11. ASSUME NEW b \in Bindings, PostRun(b) PROVE TypeInv'
      <3> DEFINE a == launch[b].admission
                 row == [launch[b] EXCEPT !.pc = "posting"]
      <3>1. /\ launch[b] \in LaunchRow /\ launch[b].pc = "reserved"
            /\ a \in Admissions /\ launch[b].key \in Keys /\ admission[a] # 0
        BY <2>11 DEF PostRun, TypeOK, LaunchFields
      <3>2. /\ row \in LaunchRow /\ row.pc = "posting"
            /\ row.admission = a /\ row.key = launch[b].key
        BY <3>1 DEF LaunchRow, LaunchPCs
      <3>3. /\ launch' = [launch EXCEPT ![b] = row]
            /\ posts' = posts \cup {[by |-> b, admission |-> a]}
            /\ sent' = [sent EXCEPT ![a] = @ + 1]
            /\ UNCHANGED <<issue, admission, expired, revoked, reservation, launchExpired,
                           registered, reservedRun, hermesRun>>
        BY <2>11, <3>1 DEF PostRun, TypeOK
      <3> HIDE DEF row
      <3>4. launch' \in [Bindings -> LaunchRow] /\ LaunchFields'
        BY <3>1, <3>2, <3>3, LaunchStep
      <3>5. AllAdmitted'
        BY <3>1, <3>3 DEF AllAdmitted
      <3>6. sent' \in [Admissions -> Nat] /\ posts' \subseteq [by : Bindings, admission : Admissions]
        BY <3>1, <3>3 DEF TypeOK
      <3> QED BY <3>3, <3>4, <3>5, <3>6 DEF TypeOK
    <2>12. ASSUME NEW b \in Bindings, SubmissionUnknown(b) \/ RegisterReplay(b) \/ RegistrationUnknown(b)
           PROVE  TypeInv'
      <3>1. PICK pc \in {"submission_unknown", "registered", "registration_unknown"} :
               /\ launch' = [launch EXCEPT ![b].pc = pc]
               /\ pc \in {"registered", "registration_unknown"} =>
                     launch[b].pc \in {"submitted", "registration_unknown"}
        BY <2>12 DEF SubmissionUnknown, RegisterReplay, RegistrationUnknown
      <3> DEFINE row == [launch[b] EXCEPT !.pc = pc]
      <3>2. /\ launch[b] \in LaunchRow /\ launch[b].pc # "idle"
            /\ launch[b].admission \in Admissions /\ launch[b].key \in Keys
            /\ admission[launch[b].admission] # 0
        BY <2>12 DEF SubmissionUnknown, RegisterReplay, RegistrationUnknown, TypeOK, LaunchFields
      <3>3. /\ row \in LaunchRow /\ row.pc = pc /\ row.run = launch[b].run
            /\ row.admission = launch[b].admission /\ row.key = launch[b].key
        BY <3>2 DEF LaunchRow, LaunchPCs
      <3>4. /\ launch' = [launch EXCEPT ![b] = row]
            /\ UNCHANGED <<issue, admission, expired, revoked, reservation, launchExpired,
                           registered, reservedRun, sent, posts, hermesRun>>
        BY <2>12, <3>1 DEF SubmissionUnknown, RegisterReplay, RegistrationUnknown, TypeOK
      <3>5. pc \in {"registered", "registration_unknown"} => launch[b].run \in HermesRuns
        BY <3>1 DEF LaunchFields
      <3> HIDE DEF row
      <3>6. launch' \in [Bindings -> LaunchRow] /\ LaunchFields'
        BY <3>2, <3>3, <3>4, <3>5, LaunchStep
      <3> QED BY <3>4, <3>6 DEF TypeOK, AllAdmitted
    <2>13. ASSUME NEW b \in Bindings, RegisterReserved(b) PROVE TypeInv'
      <3>1. PICK pc \in {"registered", "registration_unknown"} : launch' = [launch EXCEPT ![b].pc = pc]
        BY <2>13 DEF RegisterReserved
      <3> DEFINE row == [launch[b] EXCEPT !.pc = pc]
                 a == launch[b].admission
      <3>2. /\ launch[b] \in LaunchRow /\ a \in Admissions /\ launch[b].key \in Keys
            /\ launch[b].run \in HermesRuns /\ admission[a] # 0
        BY <2>13 DEF RegisterReserved, TypeOK, LaunchFields
      <3>3. /\ row \in LaunchRow /\ row.pc = pc /\ row.run = launch[b].run
            /\ row.admission = a /\ row.key = launch[b].key
        BY <3>2 DEF LaunchRow, LaunchPCs
      <3>4. /\ launch' = [launch EXCEPT ![b] = row]
            /\ StartRun(a, launch[b].run)
            /\ reservedRun' = reservedRun \cup {launch[b].run}
            /\ UNCHANGED <<admission, expired, revoked, reservation, launchExpired, sent, posts, hermesRun>>
        BY <2>13, <3>1 DEF RegisterReserved, TypeOK
      <3> HIDE DEF row
      <3>5. launch' \in [Bindings -> LaunchRow] /\ LaunchFields'
        BY <3>2, <3>3, <3>4, LaunchStep
      <3>6. /\ issue' \in [Admissions -> [status : IssueStatuses, version : Versions]]
            /\ registered' \in [Admissions -> HermesRuns \cup {None}]
        BY <3>2, <3>4, StartRunType
      <3> QED BY <3>2, <3>4, <3>5, <3>6 DEF TypeOK, AllAdmitted
    <2>14. ASSUME NEW b \in Bindings, BindingStops(b) PROVE TypeInv'
      <3>1. Idle \in LaunchRow /\ Idle.pc = "idle"
        BY ConstantsAssumption DEF Idle, LaunchRow, NoSnapshot, Snapshot, IssueStatuses, Versions
      <3>2. /\ launch' = [launch EXCEPT ![b] = Idle]
            /\ UNCHANGED <<issue, admission, expired, revoked, reservation, launchExpired,
                           registered, reservedRun, sent, posts, hermesRun>>
        BY <2>14 DEF BindingStops
      <3>3. launch' \in [Bindings -> LaunchRow] /\ LaunchFields'
        BY <3>1, <3>2, LaunchStep
      <3> QED BY <3>2, <3>3 DEF TypeOK, AllAdmitted
    <2>15. ASSUME NEW p \in posts, PostLost(p) PROVE TypeInv'
      BY <2>15 DEF PostLost, TypeOK, LaunchFields, AllAdmitted
    <2>16. ASSUME NEW p \in posts, NEW r \in HermesRuns, HermesAccepts(p, r) PROVE TypeInv'
      <3> DEFINE b == p.by
                 row == [launch[b] EXCEPT !.pc = "submitted", !.run = r]
                 waiting == launch[b].pc = "posting" /\ launch[b].admission = p.admission
      <3>1. /\ b \in Bindings /\ p.admission \in Admissions /\ admission[p.admission] # 0
            /\ launch[b] \in LaunchRow
        BY DEF TypeOK, AllAdmitted
      <3>2. /\ posts' = posts \ {p}
            /\ hermesRun' = [hermesRun EXCEPT ![r] = [admission |-> p.admission, asked |-> "binding"]]
            /\ UNCHANGED <<issue, admission, expired, revoked, reservation, launchExpired,
                           registered, reservedRun, sent>>
        BY <2>16 DEF HermesAccepts
      <3>3. launch' \in [Bindings -> LaunchRow] /\ LaunchFields'
        <4>1. CASE waiting
          <5>1. launch' = [launch EXCEPT ![b] = row]
            BY <2>16, <3>1, <4>1 DEF HermesAccepts, TypeOK
          <5>2. /\ row \in LaunchRow /\ row.pc = "submitted" /\ row.run = r
                /\ row.admission = p.admission /\ row.key = launch[b].key
            BY <3>1, <4>1 DEF LaunchRow, LaunchPCs
          <5>3. launch[b].key \in Keys
            BY <3>1, <4>1 DEF LaunchFields
          <5> HIDE DEF row
          <5> QED BY <3>1, <3>2, <5>1, <5>2, <5>3, LaunchStep
        <4>2. CASE ~waiting
          <5>1. launch' = launch
            BY <2>16, <4>2 DEF HermesAccepts
          <5> QED BY <3>2, <5>1 DEF TypeOK, LaunchFields
        <4> QED BY <4>1, <4>2
      <3>4. AllAdmitted'
        BY <3>1, <3>2 DEF AllAdmitted, TypeOK
      <3>5. hermesRun' \in [HermesRuns -> [admission : Admissions \cup {None},
                                           asked : {None, "binding", "direct"}]]
        BY <3>1, <3>2 DEF TypeOK
      <3> QED BY <3>2, <3>3, <3>4, <3>5 DEF TypeOK
    <2>17. CASE UNCHANGED vars
      BY <2>17 DEF vars, TypeOK, LaunchFields, AllAdmitted
    <2> QED BY <2>1, <2>2, <2>3, <2>4, <2>5, <2>6, <2>7, <2>8, <2>9, <2>10, <2>11, <2>12, <2>13,
               <2>14, <2>15, <2>16, <2>17 DEF Next, OnAdmission, OnLaunch
  <1> QED BY <1>1, <1>2, PTL DEF Spec

THEOREM TypeCorrect == Spec => []TypeOK
  BY TypeInvariant, PTL DEF TypeInv

-----------------------------------------------------------------------------
(* One submission.                                                         *)

\* A process that may submit holds the one reservation of its admission, and
\* nothing was submitted yet; without a reservation nothing ever was.
SubmitInv ==
    /\ \A b \in Bindings : launch[b].pc = "reserved" =>
          reservation[launch[b].admission] # None /\ sent[launch[b].admission] = 0
    /\ \A b, c \in Bindings :
          launch[b].pc = "reserved" /\ launch[c].pc = "reserved" /\ b # c =>
             launch[b].admission # launch[c].admission
    /\ \A a \in Admissions : reservation[a] = None => sent[a] = 0
    /\ OneSubmission

\* Only ReserveCommit makes a process ready to submit, only PostRun submits.
LEMMA OtherSteps ==
    ASSUME TypeInv, [Next]_vars
    PROVE  \/ \E b \in Bindings : ReserveCommit(b)
           \/ \E b \in Bindings : PostRun(b)
           \/ /\ UNCHANGED <<reservation, sent>>
              /\ \A b \in Bindings : launch'[b].pc = "reserved" => launch'[b] = launch[b]
  <1>1. launch \in [Bindings -> LaunchRow]
    BY DEF TypeInv, TypeOK
  <1>2. ASSUME NEW a \in Admissions, OnAdmission(a)
        PROVE  UNCHANGED <<reservation, sent, launch>>
    BY <1>2 DEF OnAdmission, SubmitHandoff, AdmitHandoff, RevokeAdmission, CommentIssue, MoveIssue,
                AdmissionExpires, LaunchExpires, RunDirect, RegisterDirect,
                reservationVars, outsideVars
  <1>3. ASSUME NEW b \in Bindings, NEW a \in Admissions, NEW k \in Keys,
               ReserveBegin(b, a, k) \/ ReserveReplay(b, a, k)
        PROVE  /\ UNCHANGED <<reservation, sent>>
               /\ \A d \in Bindings : launch'[d].pc = "reserved" => launch'[d] = launch[d]
    <2>1. UNCHANGED <<reservation, sent>>
      BY <1>3 DEF ReserveBegin, ReserveReplay, reservationVars
    <2>2. PICK row : launch' = [launch EXCEPT ![b] = row] /\ row.pc \in {"reserving", "replay_refused"}
      <3>1. CASE ReserveBegin(b, a, k)
        <4> DEFINE row == [pc |-> "reserving", admission |-> a, key |-> k,
                           snapshot |-> Rows(a), run |-> None]
        <4>1. row.pc = "reserving"
          OBVIOUS
        <4>2. launch' = [launch EXCEPT ![b] = row]
          BY <3>1 DEF ReserveBegin
        <4> HIDE DEF row
        <4> QED BY <4>1, <4>2
      <3>2. CASE ReserveReplay(b, a, k)
        <4> DEFINE row == [Idle EXCEPT !.pc = "replay_refused", !.admission = a, !.key = k]
        <4>1. row.pc = "replay_refused"
          BY DEF Idle
        <4>2. launch' = [launch EXCEPT ![b] = row]
          BY <3>2 DEF ReserveReplay
        <4> HIDE DEF row
        <4> QED BY <4>1, <4>2
      <3> QED BY <1>3, <3>1, <3>2
    <2> QED BY <1>1, <2>1, <2>2
  <1>4. ASSUME NEW b \in Bindings, SubmissionUnknown(b) \/ RegisterReserved(b) \/ RegisterReplay(b)
                                   \/ RegistrationUnknown(b) \/ BindingStops(b)
        PROVE  /\ UNCHANGED <<reservation, sent>>
               /\ \A d \in Bindings : launch'[d].pc = "reserved" => launch'[d] = launch[d]
    <2>1. UNCHANGED <<reservation, sent>>
      BY <1>4 DEF SubmissionUnknown, RegisterReserved, RegisterReplay, RegistrationUnknown,
                  BindingStops, reservationVars
    <2>2. \/ \E pc \in {"submission_unknown", "registered", "registration_unknown"} :
                launch' = [launch EXCEPT ![b].pc = pc]
          \/ launch' = [launch EXCEPT ![b] = Idle]
      BY <1>4 DEF SubmissionUnknown, RegisterReserved, RegisterReplay, RegistrationUnknown, BindingStops
    <2>3. \A d \in Bindings : launch'[d].pc = "reserved" => launch'[d] = launch[d]
      BY <1>1, <2>2 DEF Idle, LaunchRow
    <2> QED BY <2>1, <2>3
  <1>5. ASSUME NEW p \in posts, PostLost(p) \/ \E r \in HermesRuns : HermesAccepts(p, r)
        PROVE  /\ UNCHANGED <<reservation, sent>>
               /\ \A d \in Bindings : launch'[d].pc = "reserved" => launch'[d] = launch[d]
    <2>1. UNCHANGED <<reservation, sent>>
      BY <1>5 DEF PostLost, HermesAccepts, reservationVars
    <2>2. \/ launch' = launch
          \/ \E r \in HermesRuns :
                launch' = [launch EXCEPT ![p.by].pc = "submitted", ![p.by].run = r]
      BY <1>5 DEF PostLost, HermesAccepts
    <2>3. ASSUME NEW r \in HermesRuns,
                 launch' = [launch EXCEPT ![p.by].pc = "submitted", ![p.by].run = r]
          PROVE  \A d \in Bindings : launch'[d].pc = "reserved" => launch'[d] = launch[d]
      <3>1. p.by \in Bindings
        BY DEF TypeInv, TypeOK
      <3>2. launch[p.by] \in LaunchRow
        BY <1>1, <3>1
      <3>3. launch'[p.by].pc = "submitted" /\ \A d \in Bindings : d # p.by => launch'[d] = launch[d]
        BY <1>1, <2>3, <3>1, <3>2 DEF LaunchRow
      <3> QED BY <3>3
    <2>4. \A d \in Bindings : launch'[d].pc = "reserved" => launch'[d] = launch[d]
      BY <2>2, <2>3
    <2> QED BY <2>1, <2>4
  <1>6. CASE UNCHANGED vars
    BY <1>6 DEF vars
  <1> QED BY <1>2, <1>3, <1>4, <1>5, <1>6 DEF Next, OnLaunch

LEMMA SubmitInvariant == Spec => []SubmitInv
  <1>1. Init => SubmitInv
    BY DEF Init, SubmitInv, OneSubmission, Idle
  <1>2. TypeInv /\ SubmitInv /\ [Next]_vars => SubmitInv'
    <2> SUFFICES ASSUME TypeInv, SubmitInv, [Next]_vars PROVE SubmitInv'
      OBVIOUS
    <2>0. /\ launch \in [Bindings -> LaunchRow]
          /\ reservation \in [Admissions -> Keys \cup {None}]
          /\ sent \in [Admissions -> Nat]
      BY DEF TypeInv, TypeOK
    <2>1. ASSUME NEW b \in Bindings, ReserveCommit(b) PROVE SubmitInv'
      <3> DEFINE a == launch[b].admission
      <3>1. a \in Admissions /\ launch[b].key \in Keys /\ reservation[a] = None
        BY <2>1 DEF ReserveCommit, TypeInv, LaunchFields
      <3>2. /\ reservation' = [reservation EXCEPT ![a] = launch[b].key]
            /\ sent' = sent
            /\ launch' = [launch EXCEPT ![b].pc = "reserved", ![b].snapshot = NoSnapshot]
        BY <2>1 DEF ReserveCommit
      <3>3. reservation'[a] # None /\ \A d \in Admissions : d # a => reservation'[d] = reservation[d]
        BY <2>0, <3>1, <3>2, ConstantsAssumption
      <3>4. /\ \A c \in Bindings : c # b => launch'[c] = launch[c]
            /\ launch'[b].admission = a
        BY <2>0, <3>2 DEF LaunchRow
      <3>5. sent[a] = 0
        BY <3>1 DEF SubmitInv
      <3>6. ASSUME NEW c \in Bindings, c # b, launch[c].pc = "reserved"
            PROVE  launch[c].admission # a /\ launch[c].admission \in Admissions
        BY <3>1, <3>6 DEF SubmitInv, TypeInv, LaunchFields
      <3>7. \A c \in Bindings : launch'[c].pc = "reserved" =>
               reservation'[launch'[c].admission] # None /\ sent'[launch'[c].admission] = 0
        <4> SUFFICES ASSUME NEW c \in Bindings, launch'[c].pc = "reserved"
                     PROVE  reservation'[launch'[c].admission] # None
                            /\ sent'[launch'[c].admission] = 0
          OBVIOUS
        <4>1. CASE c = b
          BY <3>2, <3>3, <3>4, <3>5, <4>1
        <4>2. CASE c # b
          <5>1. launch'[c] = launch[c] /\ launch[c].pc = "reserved"
            BY <3>4, <4>2
          <5>2. /\ reservation[launch[c].admission] # None /\ sent[launch[c].admission] = 0
                /\ launch[c].admission # a /\ launch[c].admission \in Admissions
            BY <3>6, <4>2, <5>1 DEF SubmitInv
          <5> QED BY <3>2, <3>3, <5>1, <5>2
        <4> QED BY <4>1, <4>2
      <3>8. \A c, d \in Bindings :
               launch'[c].pc = "reserved" /\ launch'[d].pc = "reserved" /\ c # d =>
                  launch'[c].admission # launch'[d].admission
        BY <3>4, <3>6 DEF SubmitInv
      <3>9. \A d \in Admissions : reservation'[d] = None => sent'[d] = 0
        BY <3>2, <3>3 DEF SubmitInv
      <3> QED BY <3>2, <3>7, <3>8, <3>9 DEF SubmitInv, OneSubmission
    <2>2. ASSUME NEW b \in Bindings, PostRun(b) PROVE SubmitInv'
      <3> DEFINE a == launch[b].admission
      <3>1. a \in Admissions /\ reservation[a] # None /\ sent[a] = 0 /\ launch[b].pc = "reserved"
        BY <2>2 DEF PostRun, TypeInv, LaunchFields, SubmitInv
      <3>2. /\ reservation' = reservation
            /\ sent' = [sent EXCEPT ![a] = @ + 1]
            /\ launch' = [launch EXCEPT ![b].pc = "posting"]
        BY <2>2 DEF PostRun, reservationVars
      <3>3. sent'[a] = 1 /\ \A d \in Admissions : d # a => sent'[d] = sent[d]
        BY <2>0, <3>1, <3>2
      <3>4. /\ \A c \in Bindings : c # b => launch'[c] = launch[c]
            /\ launch'[b].pc = "posting"
        BY <2>0, <3>2 DEF LaunchRow
      <3>5. ASSUME NEW c \in Bindings, launch'[c].pc = "reserved"
            PROVE  c # b /\ launch[c].pc = "reserved" /\ launch[c].admission # a
                   /\ launch[c].admission \in Admissions
        BY <3>1, <3>4, <3>5 DEF SubmitInv, TypeInv, LaunchFields
      <3>6. \A c \in Bindings : launch'[c].pc = "reserved" =>
               reservation'[launch'[c].admission] # None /\ sent'[launch'[c].admission] = 0
        BY <3>2, <3>3, <3>4, <3>5 DEF SubmitInv
      <3>7. \A c, d \in Bindings :
               launch'[c].pc = "reserved" /\ launch'[d].pc = "reserved" /\ c # d =>
                  launch'[c].admission # launch'[d].admission
        BY <3>4, <3>5 DEF SubmitInv
      <3>8. \A d \in Admissions : reservation'[d] = None => sent'[d] = 0
        BY <3>1, <3>2, <3>3 DEF SubmitInv
      <3>9. OneSubmission'
        BY <2>0, <3>1, <3>3 DEF SubmitInv, OneSubmission
      <3> QED BY <3>6, <3>7, <3>8, <3>9 DEF SubmitInv
    <2>3. CASE /\ UNCHANGED <<reservation, sent>>
               /\ \A b \in Bindings : launch'[b].pc = "reserved" => launch'[b] = launch[b]
      BY <2>3 DEF SubmitInv, OneSubmission
    <2> QED BY <2>1, <2>2, <2>3, OtherSteps
  <1> QED BY <1>1, <1>2, TypeInvariant, PTL DEF Spec

\* POST /v1/runs is sent at most once for an admission, for every number of
\* bindings and keys, whatever is lost, repeated or restarted.
THEOREM SubmittedOnce == Spec => []OneSubmission
  <1>1. SubmitInv => OneSubmission
    BY DEF SubmitInv
  <1> QED BY <1>1, SubmitInvariant, PTL

-----------------------------------------------------------------------------
(* The junction implements RunDispatch.                                    *)

\* Every step of the junction is a step of the abstract dispatch, or none.
LEMMA StepRefinement ==
    ASSUME TypeInv, SubmitInv, [Next]_vars
    PROVE  [Dispatch!Next]_(Dispatch!vars)
  <1> USE DEF Dispatch!vars
  <1>0. /\ admission \in [Admissions -> Versions]
        /\ registered \in [Admissions -> HermesRuns \cup {None}]
        /\ sent \in [Admissions -> Nat]
        /\ launch \in [Bindings -> LaunchRow]
        /\ revoked \subseteq Admissions
    BY DEF TypeInv, TypeOK
  <1>1. ASSUME UNCHANGED <<admission, revoked, registered, sent>>
        PROVE  UNCHANGED Dispatch!vars
    BY <1>1 DEF Standing
  \* An admission: standing "none" becomes "admitted", unless it was withdrawn.
  <1>2. ASSUME NEW a \in Admissions, AdmitHandoff(a)
        PROVE  [Dispatch!Next]_(Dispatch!vars)
    <2>1. /\ admission[a] = 0 /\ registered[a] = None /\ issue[a].version # 0
          /\ admission' = [admission EXCEPT ![a] = issue[a].version]
          /\ UNCHANGED <<revoked, registered, sent>>
      BY <1>2, ConstantsAssumption DEF AdmitHandoff, runVars, outsideVars, TypeInv, TypeOK, Versions
    <2>2. CASE a \in revoked
      <3>1. Standing' = Standing
        BY <1>0, <2>1, <2>2 DEF Standing
      <3> QED BY <2>1, <3>1
    <2>3. CASE a \notin revoked
      <3>1. Standing[a] = "none" /\ Standing' = [Standing EXCEPT ![a] = "admitted"]
        BY <1>0, <2>1, <2>3 DEF Standing
      <3>2. Dispatch!Admit(a)
        BY <2>1, <3>1 DEF Dispatch!Admit
      <3> QED BY <3>2 DEF Dispatch!Next
    <2> QED BY <2>2, <2>3
  <1>3. ASSUME NEW a \in Admissions, RevokeAdmission(a)
        PROVE  [Dispatch!Next]_(Dispatch!vars)
    <2>1. /\ admission[a] # 0 /\ registered[a] = None /\ a \notin revoked
          /\ revoked' = revoked \cup {a}
          /\ UNCHANGED <<admission, registered, sent>>
      BY <1>3, StateOfRows DEF RevokeAdmission, runVars, outsideVars
    <2>2. Standing[a] = "admitted" /\ Standing' = [Standing EXCEPT ![a] = "withdrawn"]
      BY <1>0, <2>1 DEF Standing
    <2>3. Dispatch!Withdraw(a)
      BY <2>1, <2>2 DEF Dispatch!Withdraw
    <2> QED BY <2>3 DEF Dispatch!Next
  <1>4. ASSUME NEW b \in Bindings, PostRun(b)
        PROVE  [Dispatch!Next]_(Dispatch!vars)
    <2> DEFINE a == launch[b].admission
    <2>1. /\ a \in Admissions /\ admission[a] # 0 /\ sent[a] = 0
          /\ sent' = [sent EXCEPT ![a] = @ + 1]
          /\ UNCHANGED <<admission, revoked, registered>>
      BY <1>4 DEF PostRun, TypeInv, LaunchFields, SubmitInv, admissionVars, runVars
    <2>2. sent' = [sent EXCEPT ![a] = 1]
      BY <1>0, <2>1
    <2>3. Standing[a] # "none" /\ Standing' = Standing
      BY <2>1 DEF Standing
    <2>4. Dispatch!Dispatch(a)
      BY <2>1, <2>2, <2>3 DEF Dispatch!Dispatch
    <2> QED BY <2>1, <2>4 DEF Dispatch!Next
  \* A start, under a reservation or without one, consumes the admission.
  <1>5. ASSUME NEW a \in Admissions, NEW r \in HermesRuns, admission[a] # 0,
               registered[a] = None, a \notin revoked, StartRun(a, r),
               UNCHANGED <<admission, revoked, sent>>
        PROVE  [Dispatch!Next]_(Dispatch!vars)
    <2>1. /\ registered' = [registered EXCEPT ![a] = r]
          /\ \A d \in Admissions : registered[d] # r
          /\ r # None
      BY <1>5, ConstantsAssumption DEF StartRun
    <2>2. Standing[a] = "admitted" /\ Standing' = [Standing EXCEPT ![a] = "consumed"]
      BY <1>0, <1>5, <2>1 DEF Standing
    <2>3. Dispatch!Consume(a, r)
      BY <1>5, <2>1, <2>2 DEF Dispatch!Consume
    <2> QED BY <2>3 DEF Dispatch!Next
  <1>6. ASSUME NEW b \in Bindings, RegisterReserved(b)
        PROVE  [Dispatch!Next]_(Dispatch!vars)
    <2> DEFINE a == launch[b].admission
    <2>1. a \in Admissions /\ launch[b].run \in HermesRuns /\ admission[a] # 0
      BY <1>6 DEF RegisterReserved, TypeInv, LaunchFields
    <2>2. registered[a] = None /\ a \notin revoked
      BY <1>6, StateOfRows DEF RegisterReserved
    <2>3. StartRun(a, launch[b].run) /\ UNCHANGED <<admission, revoked, sent>>
      BY <1>6 DEF RegisterReserved, admissionVars
    <2> QED BY <1>5, <2>1, <2>2, <2>3
  <1>7. ASSUME NEW a \in Admissions, NEW r \in HermesRuns, RegisterDirect(a, r)
        PROVE  [Dispatch!Next]_(Dispatch!vars)
    <2>1. admission[a] # 0
      BY <1>7, ConstantsAssumption DEF RegisterDirect, TypeInv, AllAdmitted
    <2>2. registered[a] = None /\ a \notin revoked
      BY <1>7, StateOfRows DEF RegisterDirect
    <2>3. StartRun(a, r) /\ UNCHANGED <<admission, revoked, sent>>
      BY <1>7 DEF RegisterDirect, admissionVars, outsideVars
    <2> QED BY <1>5, <2>1, <2>2, <2>3
  \* Nothing else moves what RunDispatch speaks of.
  <1>8. ASSUME NEW a \in Admissions,
               \/ SubmitHandoff(a) \/ CommentIssue(a) \/ AdmissionExpires(a) \/ LaunchExpires(a)
               \/ \E t \in IssueStatuses : MoveIssue(a, t)
               \/ \E r \in HermesRuns : RunDirect(a, r)
        PROVE  UNCHANGED <<admission, revoked, registered, sent>>
    BY <1>8 DEF SubmitHandoff, CommentIssue, AdmissionExpires, LaunchExpires, MoveIssue, RunDirect,
                admissionVars, runVars, outsideVars
  <1>9. ASSUME NEW b \in Bindings,
               \/ \E a \in Admissions, k \in Keys : ReserveBegin(b, a, k) \/ ReserveReplay(b, a, k)
               \/ ReserveCommit(b) \/ SubmissionUnknown(b) \/ RegisterReplay(b)
               \/ RegistrationUnknown(b) \/ BindingStops(b)
        PROVE  UNCHANGED <<admission, revoked, registered, sent>>
    BY <1>9 DEF ReserveBegin, ReserveReplay, ReserveCommit, SubmissionUnknown, RegisterReplay,
                RegistrationUnknown, BindingStops, admissionVars, runVars
  <1>10. ASSUME NEW p \in posts, PostLost(p) \/ \E r \in HermesRuns : HermesAccepts(p, r)
         PROVE  UNCHANGED <<admission, revoked, registered, sent>>
    BY <1>10 DEF PostLost, HermesAccepts, admissionVars, runVars
  <1>11. CASE UNCHANGED vars
    BY <1>1, <1>11 DEF vars
  <1> QED BY <1>1, <1>2, <1>3, <1>4, <1>6, <1>7, <1>8, <1>9, <1>10, <1>11
          DEF Next, OnAdmission, OnLaunch

\* The launch junction implements RunDispatch: an admission is withdrawn or
\* consumed by one run, for good, and dispatched at most once.
THEOREM Implementation == Spec => ImplementsRunDispatch
  <1>1. Init => Dispatch!Init
    BY DEF Init, Dispatch!Init, Standing
  <1>2. TypeInv /\ SubmitInv /\ [Next]_vars => [Dispatch!Next]_(Dispatch!vars)
    BY StepRefinement
  <1> QED BY <1>1, <1>2, TypeInvariant, SubmitInvariant, PTL
          DEF Spec, ImplementsRunDispatch, Dispatch!Spec

\* A run never consumes an admission that a human has revoked.
THEOREM RevokedStaysUnused == Spec => []RevokedNeverConsumed
  <1>1. Init => RevokedNeverConsumed
    BY DEF Init, RevokedNeverConsumed
  <1>2. TypeInv /\ RevokedNeverConsumed /\ [Next]_vars => RevokedNeverConsumed'
    <2> SUFFICES ASSUME TypeInv, RevokedNeverConsumed, [Next]_vars PROVE RevokedNeverConsumed'
      OBVIOUS
    <2>0. registered \in [Admissions -> HermesRuns \cup {None}] /\ revoked \subseteq Admissions
      BY DEF TypeInv, TypeOK
    <2>1. ASSUME NEW a \in Admissions, RevokeAdmission(a) PROVE RevokedNeverConsumed'
      <3>1. registered[a] = None /\ revoked' = revoked \cup {a} /\ registered' = registered
        BY <2>1, StateOfRows DEF RevokeAdmission, runVars
      <3> QED BY <3>1 DEF RevokedNeverConsumed
    <2>2. ASSUME NEW a \in Admissions, NEW r \in HermesRuns, a \notin revoked,
                 StartRun(a, r), UNCHANGED revoked
          PROVE  RevokedNeverConsumed'
      <3>1. registered' = [registered EXCEPT ![a] = r]
        BY <2>2 DEF StartRun
      <3> QED BY <2>0, <2>2, <3>1 DEF RevokedNeverConsumed
    <2>3. ASSUME NEW b \in Bindings, RegisterReserved(b) PROVE RevokedNeverConsumed'
      <3>1. /\ launch[b].admission \in Admissions /\ launch[b].run \in HermesRuns
            /\ launch[b].admission \notin revoked
            /\ StartRun(launch[b].admission, launch[b].run) /\ UNCHANGED revoked
        BY <2>3, StateOfRows DEF RegisterReserved, TypeInv, LaunchFields, admissionVars
      <3> QED BY <2>2, <3>1
    <2>4. ASSUME NEW a \in Admissions, NEW r \in HermesRuns, RegisterDirect(a, r)
          PROVE  RevokedNeverConsumed'
      <3>1. a \notin revoked /\ StartRun(a, r) /\ UNCHANGED revoked
        BY <2>4, StateOfRows DEF RegisterDirect, admissionVars
      <3> QED BY <2>2, <3>1
    <2>5. ASSUME UNCHANGED <<revoked, registered>> PROVE RevokedNeverConsumed'
      BY <2>5 DEF RevokedNeverConsumed
    <2>6. ASSUME NEW a \in Admissions,
                 \/ SubmitHandoff(a) \/ AdmitHandoff(a) \/ CommentIssue(a)
                 \/ AdmissionExpires(a) \/ LaunchExpires(a)
                 \/ \E t \in IssueStatuses : MoveIssue(a, t)
                 \/ \E r \in HermesRuns : RunDirect(a, r)
          PROVE  UNCHANGED <<revoked, registered>>
      BY <2>6 DEF SubmitHandoff, AdmitHandoff, CommentIssue, AdmissionExpires, LaunchExpires,
                  MoveIssue, RunDirect, admissionVars, runVars
    <2>7. ASSUME NEW b \in Bindings,
                 \/ \E a \in Admissions, k \in Keys : ReserveBegin(b, a, k) \/ ReserveReplay(b, a, k)
                 \/ ReserveCommit(b) \/ PostRun(b) \/ SubmissionUnknown(b) \/ RegisterReplay(b)
                 \/ RegistrationUnknown(b) \/ BindingStops(b)
          PROVE  UNCHANGED <<revoked, registered>>
      BY <2>7 DEF ReserveBegin, ReserveReplay, ReserveCommit, PostRun, SubmissionUnknown,
                  RegisterReplay, RegistrationUnknown, BindingStops, admissionVars, runVars
    <2>8. ASSUME NEW p \in posts, PostLost(p) \/ \E r \in HermesRuns : HermesAccepts(p, r)
          PROVE  UNCHANGED <<revoked, registered>>
      BY <2>8 DEF PostLost, HermesAccepts, admissionVars, runVars
    <2>9. CASE UNCHANGED vars
      BY <2>5, <2>9 DEF vars
    <2> QED BY <2>1, <2>3, <2>4, <2>5, <2>6, <2>7, <2>8, <2>9 DEF Next, OnAdmission, OnLaunch
  <1> QED BY <1>1, <1>2, TypeInvariant, PTL DEF Spec

-----------------------------------------------------------------------------
(* The registered run is the run that was asked for.                       *)

Asked(a) == [admission |-> a, asked |-> "binding"]

\* The places of launch() at which the process knows the run Hermes answered.
RunPCs == {"submitted", "registered", "registration_unknown"}

\* The run a process knows is the run that Hermes started on its request.
KnownRunsAreAsked ==
    \A b \in Bindings :
        launch[b].pc \in RunPCs => hermesRun[launch[b].run] = Asked(launch[b].admission)

\* A run linked to a reservation was started on the request of a binding.
ReservedRunsAreAsked ==
    \A r \in reservedRun : hermesRun[r].admission # None /\ hermesRun[r].asked = "binding"

RegisterInv == RegistrationIsExact /\ KnownRunsAreAsked /\ ReservedRunsAreAsked

\* Reservations are never taken back, Hermes never works for another admission
\* than the one it started a run for, and only PostRun sends requests.
OutsideKept ==
    /\ \A a \in Admissions : reservation[a] # None => reservation'[a] = reservation[a]
    /\ \A r \in HermesRuns :
          \/ hermesRun'[r] = hermesRun[r]
          \/ /\ hermesRun[r].admission = None
             /\ \/ hermesRun'[r].asked = "direct"
                \/ \E p \in posts : hermesRun'[r] = Asked(p.admission)
    /\ \A p \in posts' :
          p \in posts \/ \E b \in Bindings : launch[b].pc = "reserved" /\ p.admission = launch[b].admission

LEMMA OutsideSteps ==
    ASSUME TypeInv, [Next]_vars
    PROVE  OutsideKept
  <1> USE DEF issueVars, admissionVars, reservationVars, runVars, outsideVars
  <1>0. /\ reservation \in [Admissions -> Keys \cup {None}]
        /\ hermesRun \in [HermesRuns -> [admission : Admissions \cup {None},
                                         asked : {None, "binding", "direct"}]]
    BY DEF TypeInv, TypeOK
  <1>1. ASSUME UNCHANGED <<reservation, hermesRun, posts>>
        PROVE  OutsideKept
    BY <1>1 DEF OutsideKept
  <1>2. ASSUME NEW a \in Admissions,
               \/ SubmitHandoff(a) \/ AdmitHandoff(a) \/ RevokeAdmission(a) \/ CommentIssue(a)
               \/ AdmissionExpires(a) \/ LaunchExpires(a)
               \/ \E t \in IssueStatuses : MoveIssue(a, t)
               \/ \E r \in HermesRuns : RegisterDirect(a, r)
        PROVE  UNCHANGED <<reservation, hermesRun, posts>>
    BY <1>2 DEF SubmitHandoff, AdmitHandoff, RevokeAdmission, CommentIssue, AdmissionExpires,
                LaunchExpires, MoveIssue, RegisterDirect
  <1>3. ASSUME NEW b \in Bindings,
               \/ \E a \in Admissions, k \in Keys : ReserveBegin(b, a, k) \/ ReserveReplay(b, a, k)
               \/ SubmissionUnknown(b) \/ RegisterReserved(b) \/ RegisterReplay(b)
               \/ RegistrationUnknown(b) \/ BindingStops(b)
        PROVE  UNCHANGED <<reservation, hermesRun, posts>>
    BY <1>3 DEF ReserveBegin, ReserveReplay, SubmissionUnknown, RegisterReserved, RegisterReplay,
                RegistrationUnknown, BindingStops
  <1>4. ASSUME NEW a \in Admissions, NEW r \in HermesRuns, RunDirect(a, r)
        PROVE  OutsideKept
    <2>1. /\ hermesRun[r].admission = None
          /\ hermesRun' = [hermesRun EXCEPT ![r] = [admission |-> a, asked |-> "direct"]]
          /\ UNCHANGED <<reservation, posts>>
      BY <1>4 DEF RunDirect
    <2> QED BY <1>0, <2>1 DEF OutsideKept
  <1>5. ASSUME NEW b \in Bindings, ReserveCommit(b)
        PROVE  OutsideKept
    <2>1. /\ reservation[launch[b].admission] = None
          /\ reservation' = [reservation EXCEPT ![launch[b].admission] = launch[b].key]
          /\ UNCHANGED <<hermesRun, posts>>
      BY <1>5 DEF ReserveCommit
    <2> QED BY <1>0, <2>1 DEF OutsideKept
  <1>6. ASSUME NEW b \in Bindings, PostRun(b)
        PROVE  OutsideKept
    <2>1. /\ launch[b].pc = "reserved"
          /\ posts' = posts \cup {[by |-> b, admission |-> launch[b].admission]}
          /\ UNCHANGED <<reservation, hermesRun>>
      BY <1>6 DEF PostRun
    <2> QED BY <2>1 DEF OutsideKept
  <1>7. ASSUME NEW p \in posts, PostLost(p)
        PROVE  OutsideKept
    BY <1>7 DEF PostLost, OutsideKept
  <1>8. ASSUME NEW p \in posts, NEW r \in HermesRuns, HermesAccepts(p, r)
        PROVE  OutsideKept
    <2>1. /\ hermesRun[r].admission = None
          /\ hermesRun' = [hermesRun EXCEPT ![r] = Asked(p.admission)]
          /\ posts' = posts \ {p} /\ UNCHANGED reservation
      BY <1>8 DEF HermesAccepts, Asked
    <2> QED BY <1>0, <2>1 DEF OutsideKept
  <1>9. CASE UNCHANGED vars
    BY <1>1, <1>9 DEF vars
  <1> QED BY <1>1, <1>2, <1>3, <1>4, <1>5, <1>6, <1>7, <1>8, <1>9 DEF Next, OnAdmission, OnLaunch

\* A step registers nothing, or the run a reserving process knows, or a run
\* that Hermes started for the same admission on a direct request.
Registers ==
    \/ UNCHANGED <<registered, reservedRun>>
    \/ \E a \in Admissions, r \in HermesRuns :
          /\ registered[a] = None
          /\ registered' = [registered EXCEPT ![a] = r]
          /\ \A d \in Admissions : registered[d] # r
          /\ UNCHANGED <<hermesRun, reservation>>
          /\ \/ /\ reservedRun' = reservedRun
                /\ hermesRun[r] = [admission |-> a, asked |-> "direct"]
             \/ /\ reservedRun' = reservedRun \cup {r}
                /\ reservation[a] # None
                /\ \E b \in Bindings : /\ launch[b].pc \in RunPCs
                                       /\ launch[b].admission = a /\ launch[b].run = r

LEMMA RegistrationSteps ==
    ASSUME TypeInv, [Next]_vars
    PROVE  Registers
  <1> USE DEF issueVars, admissionVars, reservationVars, runVars, outsideVars
  <1>1. ASSUME NEW b \in Bindings, RegisterReserved(b)
        PROVE  Registers
    <2> DEFINE a == launch[b].admission
               r == launch[b].run
    <2>1. a \in Admissions /\ r \in HermesRuns /\ launch[b].key \in Keys
      BY <1>1 DEF RegisterReserved, TypeInv, LaunchFields
    <2>2. /\ launch[b].pc \in RunPCs
          /\ registered[a] = None /\ reservation[a] = launch[b].key
          /\ registered' = [registered EXCEPT ![a] = r]
          /\ \A d \in Admissions : registered[d] # r
          /\ reservedRun' = reservedRun \cup {r}
          /\ UNCHANGED <<hermesRun, reservation>>
      BY <1>1 DEF RegisterReserved, StartRun, RunPCs
    <2>3. reservation[a] # None
      BY <2>1, <2>2, ConstantsAssumption
    <2> QED BY <2>1, <2>2, <2>3 DEF Registers
  <1>2. ASSUME NEW a \in Admissions, NEW r \in HermesRuns, RegisterDirect(a, r)
        PROVE  Registers
    BY <1>2 DEF RegisterDirect, StartRun, Registers
  <1>3. ASSUME NEW a \in Admissions,
               \/ SubmitHandoff(a) \/ AdmitHandoff(a) \/ RevokeAdmission(a) \/ CommentIssue(a)
               \/ AdmissionExpires(a) \/ LaunchExpires(a)
               \/ \E t \in IssueStatuses : MoveIssue(a, t)
               \/ \E r \in HermesRuns : RunDirect(a, r)
        PROVE  UNCHANGED <<registered, reservedRun>>
    BY <1>3 DEF SubmitHandoff, AdmitHandoff, RevokeAdmission, CommentIssue, AdmissionExpires,
                LaunchExpires, MoveIssue, RunDirect
  <1>4. ASSUME NEW b \in Bindings,
               \/ \E a \in Admissions, k \in Keys : ReserveBegin(b, a, k) \/ ReserveReplay(b, a, k)
               \/ ReserveCommit(b) \/ PostRun(b) \/ SubmissionUnknown(b) \/ RegisterReplay(b)
               \/ RegistrationUnknown(b) \/ BindingStops(b)
        PROVE  UNCHANGED <<registered, reservedRun>>
    BY <1>4 DEF ReserveBegin, ReserveReplay, ReserveCommit, PostRun, SubmissionUnknown,
                RegisterReplay, RegistrationUnknown, BindingStops
  <1>5. ASSUME NEW p \in posts, PostLost(p) \/ \E r \in HermesRuns : HermesAccepts(p, r)
        PROVE  UNCHANGED <<registered, reservedRun>>
    BY <1>5 DEF PostLost, HermesAccepts
  <1>6. ASSUME UNCHANGED <<registered, reservedRun>> PROVE Registers
    BY <1>6 DEF Registers
  <1>7. CASE UNCHANGED vars
    BY <1>6, <1>7 DEF vars
  <1> QED BY <1>1, <1>2, <1>3, <1>4, <1>5, <1>6, <1>7 DEF Next, OnAdmission, OnLaunch

\* A process learns its run from the answer to its own request, keeps it, and
\* reports a receipt only when that run is registered.
RunKept(b) ==
    launch'[b].pc \in RunPCs =>
        \/ /\ launch[b].pc \in RunPCs
           /\ launch'[b].run = launch[b].run
           /\ launch'[b].admission = launch[b].admission
           /\ launch'[b].pc = "registered" =>
                 launch[b].pc = "registered" \/ registered'[launch[b].admission] = launch[b].run
        \/ /\ launch'[b].pc = "submitted"
           /\ launch'[b].run \in HermesRuns
           /\ hermesRun'[launch'[b].run] = Asked(launch'[b].admission)

LEMMA LaunchSteps ==
    ASSUME TypeInv, [Next]_vars
    PROVE  \A b \in Bindings : RunKept(b)
  <1> USE DEF issueVars, admissionVars, reservationVars, runVars, outsideVars
  <1>0. launch \in [Bindings -> LaunchRow]
    BY DEF TypeInv, TypeOK
  <1>1. ASSUME NEW b \in Bindings, launch'[b] = launch[b]
        PROVE  RunKept(b)
    BY <1>1 DEF RunKept
  \* One process moves on, to a place where it knows no run or keeps its own.
  <1>2. ASSUME NEW b \in Bindings, NEW row, launch' = [launch EXCEPT ![b] = row],
               row.pc \in RunPCs =>
                  /\ launch[b].pc \in RunPCs
                  /\ row.run = launch[b].run /\ row.admission = launch[b].admission
                  /\ row.pc = "registered" => registered'[launch[b].admission] = launch[b].run
        PROVE  \A d \in Bindings : RunKept(d)
    <2>1. launch'[b] = row /\ \A d \in Bindings : d # b => launch'[d] = launch[d]
      BY <1>0, <1>2
    <2>2. RunKept(b)
      BY <1>2, <2>1 DEF RunKept
    <2> QED BY <1>1, <2>1, <2>2
  <1>3. ASSUME NEW a \in Admissions, OnAdmission(a)
        PROVE  UNCHANGED launch
    BY <1>3 DEF OnAdmission, SubmitHandoff, AdmitHandoff, RevokeAdmission, CommentIssue, MoveIssue,
                AdmissionExpires, LaunchExpires, RunDirect, RegisterDirect
  <1>4. ASSUME NEW b \in Bindings, NEW a \in Admissions, NEW k \in Keys, ReserveBegin(b, a, k)
        PROVE  \A d \in Bindings : RunKept(d)
    <2> DEFINE row == [pc |-> "reserving", admission |-> a, key |-> k,
                       snapshot |-> Rows(a), run |-> None]
    <2>1. launch' = [launch EXCEPT ![b] = row]
      BY <1>4 DEF ReserveBegin
    <2>2. row.pc \notin RunPCs
      BY DEF RunPCs
    <2> HIDE DEF row
    <2> QED BY <1>2, <2>1, <2>2
  <1>5. ASSUME NEW b \in Bindings, NEW a \in Admissions, NEW k \in Keys, ReserveReplay(b, a, k)
        PROVE  \A d \in Bindings : RunKept(d)
    <2> DEFINE row == [Idle EXCEPT !.pc = "replay_refused", !.admission = a, !.key = k]
    <2>1. launch' = [launch EXCEPT ![b] = row]
      BY <1>5 DEF ReserveReplay
    <2>2. row.pc \notin RunPCs
      BY DEF RunPCs, Idle
    <2> HIDE DEF row
    <2> QED BY <1>2, <2>1, <2>2
  <1>6. ASSUME NEW b \in Bindings, BindingStops(b)
        PROVE  \A d \in Bindings : RunKept(d)
    <2>1. launch' = [launch EXCEPT ![b] = Idle] /\ Idle.pc \notin RunPCs
      BY <1>6 DEF BindingStops, RunPCs, Idle
    <2> QED BY <1>2, <2>1
  <1>7. ASSUME NEW b \in Bindings, ReserveCommit(b) \/ PostRun(b) \/ SubmissionUnknown(b)
        PROVE  \A d \in Bindings : RunKept(d)
    <2>1. PICK row : launch' = [launch EXCEPT ![b] = row]
                     /\ row.pc \in {"reserved", "posting", "submission_unknown"}
      <3>1. CASE ReserveCommit(b)
        <4> DEFINE row == [launch[b] EXCEPT !.pc = "reserved", !.snapshot = NoSnapshot]
        <4>1. launch' = [launch EXCEPT ![b] = row] /\ row.pc = "reserved"
          BY <1>0, <3>1 DEF ReserveCommit, LaunchRow
        <4> QED BY <4>1
      <3>2. CASE PostRun(b)
        <4> DEFINE row == [launch[b] EXCEPT !.pc = "posting"]
        <4>1. launch' = [launch EXCEPT ![b] = row] /\ row.pc = "posting"
          BY <1>0, <3>2 DEF PostRun, LaunchRow
        <4> QED BY <4>1
      <3>3. CASE SubmissionUnknown(b)
        <4> DEFINE row == [launch[b] EXCEPT !.pc = "submission_unknown"]
        <4>1. launch' = [launch EXCEPT ![b] = row] /\ row.pc = "submission_unknown"
          BY <1>0, <3>3 DEF SubmissionUnknown, LaunchRow
        <4> QED BY <4>1
      <3> QED BY <1>7, <3>1, <3>2, <3>3
    <2>2. row.pc \notin RunPCs
      BY <2>1 DEF RunPCs
    <2> QED BY <1>2, <2>1, <2>2
  <1>8. ASSUME NEW b \in Bindings, RegisterReserved(b) \/ RegisterReplay(b) \/ RegistrationUnknown(b)
        PROVE  \A d \in Bindings : RunKept(d)
    <2>1. PICK pc \in {"registered", "registration_unknown"} :
             /\ launch' = [launch EXCEPT ![b].pc = pc]
             /\ launch[b].pc \in {"submitted", "registration_unknown"}
             /\ pc = "registered" => RegisterReserved(b) \/ RegisterReplay(b)
      BY <1>8 DEF RegisterReserved, RegisterReplay, RegistrationUnknown
    <2> DEFINE row == [launch[b] EXCEPT !.pc = pc]
               a == launch[b].admission
    <2>2. /\ launch' = [launch EXCEPT ![b] = row]
          /\ row.pc = pc /\ row.run = launch[b].run /\ row.admission = a
      BY <1>0, <2>1 DEF LaunchRow
    <2>3. RegisterReserved(b) => registered'[a] = launch[b].run
      BY <2>1 DEF RegisterReserved, StartRun, TypeInv, TypeOK, LaunchFields
    <2>4. RegisterReplay(b) => registered'[a] = launch[b].run
      BY DEF RegisterReplay
    <2>5. launch[b].pc \in RunPCs
      BY <2>1 DEF RunPCs
    <2> HIDE DEF row
    <2> QED BY <1>2, <2>1, <2>2, <2>3, <2>4, <2>5
  <1>9. ASSUME NEW p \in posts, PostLost(p)
        PROVE  UNCHANGED launch
    BY <1>9 DEF PostLost
  <1>10. ASSUME NEW p \in posts, NEW r \in HermesRuns, HermesAccepts(p, r)
         PROVE  \A d \in Bindings : RunKept(d)
    <2> DEFINE b == p.by
               row == [launch[b] EXCEPT !.pc = "submitted", !.run = r]
    <2>1. b \in Bindings /\ launch[b] \in LaunchRow
      BY <1>0 DEF TypeInv, TypeOK
    <2>2. CASE launch[b].pc = "posting" /\ launch[b].admission = p.admission
      <3>1. launch' = [launch EXCEPT ![b] = row]
        BY <1>10, <1>0, <2>1, <2>2 DEF HermesAccepts
      <3>2. row.pc = "submitted" /\ row.run = r /\ row.admission = p.admission
        BY <2>1, <2>2 DEF LaunchRow
      <3>3. hermesRun'[r] = Asked(p.admission)
        BY <1>10 DEF HermesAccepts, Asked, TypeInv, TypeOK
      <3> HIDE DEF row
      <3>4. launch'[b] = row /\ \A d \in Bindings : d # b => launch'[d] = launch[d]
        BY <1>0, <2>1, <3>1
      <3>5. RunKept(b)
        BY <3>2, <3>3, <3>4 DEF RunKept
      <3> QED BY <1>1, <3>4, <3>5
    <2>3. CASE ~(launch[b].pc = "posting" /\ launch[b].admission = p.admission)
      <3>1. launch' = launch
        BY <1>10, <2>3 DEF HermesAccepts
      <3> QED BY <1>1, <3>1
    <2> QED BY <2>2, <2>3
  <1>11. CASE UNCHANGED vars
    BY <1>1, <1>11 DEF vars
  <1> QED BY <1>1, <1>3, <1>4, <1>5, <1>6, <1>7, <1>8, <1>9, <1>10, <1>11 DEF Next, OnLaunch

\* The durable reservation stands before anything leaves for Hermes, the run
\* that is registered for an admission is the run Hermes started for it under
\* that reservation or on a direct request, and a receipt names that run.
THEOREM RegistrationStaysExact == Spec => []RegistrationIsExact
  <1>1. Init => RegisterInv
    BY ConstantsAssumption
       DEF Init, RegisterInv, RegistrationIsExact, ReservedBeforeSubmission, RegisteredRunIsExact,
           ReceiptIsRegistered, KnownRunsAreAsked, ReservedRunsAreAsked, AskedByBinding, Idle, RunPCs
  <1>2. TypeInv /\ TypeInv' /\ SubmitInv /\ RegisterInv /\ [Next]_vars => RegisterInv'
    <2> SUFFICES ASSUME TypeInv, TypeInv', SubmitInv, RegisterInv, [Next]_vars PROVE RegisterInv'
      OBVIOUS
    <2> USE DEF RegisterInv, RegistrationIsExact
    <2>1. OutsideKept /\ Registers /\ \A b \in Bindings : RunKept(b)
      BY OutsideSteps, RegistrationSteps, LaunchSteps
    <2>2. /\ registered \in [Admissions -> HermesRuns \cup {None}]
          /\ hermesRun \in [HermesRuns -> [admission : Admissions \cup {None},
                                           asked : {None, "binding", "direct"}]]
          /\ \A p \in posts : p.admission \in Admissions
          /\ reservedRun \subseteq HermesRuns
          /\ None \notin Admissions /\ None \notin HermesRuns
      BY ConstantsAssumption DEF TypeInv, TypeOK
    <2>3. \A r \in HermesRuns : hermesRun[r].admission # None => hermesRun'[r] = hermesRun[r]
      BY <2>1 DEF OutsideKept
    <2>4. ReservedBeforeSubmission'
      <3>1. \A p \in posts : reservation'[p.admission] # None
        BY <2>1, <2>2 DEF OutsideKept, ReservedBeforeSubmission
      <3>2. ASSUME NEW p \in posts' PROVE reservation'[p.admission] # None
        <4>1. CASE p \in posts
          BY <3>1, <4>1
        <4>2. ASSUME NEW b \in Bindings, launch[b].pc = "reserved", p.admission = launch[b].admission
              PROVE  reservation'[p.admission] # None
          <5>1. launch[b].admission \in Admissions /\ reservation[launch[b].admission] # None
            BY <4>2 DEF SubmitInv, TypeInv, LaunchFields
          <5> QED BY <2>1, <4>2, <5>1 DEF OutsideKept
        <4> QED BY <2>1, <4>1, <4>2 DEF OutsideKept
      <3>3. ASSUME NEW a \in Admissions, NEW r \in HermesRuns, hermesRun'[r] = Asked(a)
            PROVE  reservation'[a] # None
        <4>1. CASE hermesRun'[r] = hermesRun[r]
          <5>1. r \in AskedByBinding(a)
            BY <3>3, <4>1 DEF AskedByBinding, Asked
          <5> QED BY <2>1, <5>1 DEF OutsideKept, ReservedBeforeSubmission
        <4>2. ASSUME NEW p \in posts, hermesRun'[r] = Asked(p.admission)
              PROVE  reservation'[a] # None
          <5>1. p.admission = a
            BY <3>3, <4>2 DEF Asked
          <5> QED BY <3>1, <5>1
        <4>3. hermesRun'[r].asked # "direct"
          BY <3>3 DEF Asked
        <4> QED BY <2>1, <4>1, <4>2, <4>3 DEF OutsideKept
      <3> QED BY <3>2, <3>3 DEF ReservedBeforeSubmission, AskedByBinding, Asked
    <2>5. KnownRunsAreAsked'
      <3> SUFFICES ASSUME NEW b \in Bindings, launch'[b].pc \in RunPCs
                   PROVE  hermesRun'[launch'[b].run] = Asked(launch'[b].admission)
        BY DEF KnownRunsAreAsked
      <3>1. CASE /\ launch[b].pc \in RunPCs
                 /\ launch'[b].run = launch[b].run
                 /\ launch'[b].admission = launch[b].admission
        <4>1. /\ hermesRun[launch[b].run] = Asked(launch[b].admission)
              /\ launch[b].run \in HermesRuns /\ launch[b].admission \in Admissions
          BY <3>1 DEF KnownRunsAreAsked, RunPCs, TypeInv, LaunchFields
        <4>2. hermesRun[launch[b].run].admission # None
          BY <2>2, <4>1 DEF Asked
        <4> QED BY <2>3, <3>1, <4>1, <4>2
      <3> QED BY <2>1, <3>1 DEF RunKept
    <2>6. ReservedRunsAreAsked'
      <3> SUFFICES ASSUME NEW r \in reservedRun'
                   PROVE  hermesRun'[r].admission # None /\ hermesRun'[r].asked = "binding"
        BY DEF ReservedRunsAreAsked
      <3>1. CASE r \in reservedRun
        BY <2>2, <2>3, <3>1 DEF ReservedRunsAreAsked
      <3>2. CASE r \notin reservedRun
        <4>1. PICK b \in Bindings : launch[b].pc \in RunPCs /\ launch[b].run = r
                                    /\ UNCHANGED hermesRun
          BY <2>1, <3>2 DEF Registers
        <4>2. hermesRun'[r] = Asked(launch[b].admission) /\ launch[b].admission \in Admissions
          BY <4>1 DEF KnownRunsAreAsked, RunPCs, TypeInv, LaunchFields
        <4> QED BY <2>2, <4>2 DEF Asked
      <3> QED BY <3>1, <3>2
    <2>7. RegisteredRunIsExact'
      <3> DEFINE Exact(a, r, linked, run, res) ==
                     /\ run[r].admission = a
                     /\ r \in linked <=> run[r].asked = "binding"
                     /\ r \in linked => res[a] # None
      <3> SUFFICES ASSUME NEW a \in Admissions, registered'[a] # None
                   PROVE  Exact(a, registered'[a], reservedRun', hermesRun', reservation')
        BY DEF RegisteredRunIsExact
      <3>1. ASSUME registered'[a] = registered[a],
                   registered[a] \in reservedRun' <=> registered[a] \in reservedRun
            PROVE  Exact(a, registered'[a], reservedRun', hermesRun', reservation')
        <4>1. Exact(a, registered[a], reservedRun, hermesRun, reservation)
          BY <3>1 DEF RegisteredRunIsExact
        <4>2. registered[a] \in HermesRuns /\ hermesRun[registered[a]].admission # None
          BY <2>2, <3>1, <4>1
        <4>3. hermesRun'[registered[a]] = hermesRun[registered[a]]
          BY <2>3, <4>2
        <4> QED BY <2>1, <3>1, <4>1, <4>3 DEF OutsideKept
      <3>2. CASE UNCHANGED <<registered, reservedRun>>
        BY <3>1, <3>2
      <3>3. ASSUME NEW d \in Admissions, NEW r \in HermesRuns,
                   registered' = [registered EXCEPT ![d] = r],
                   \A x \in Admissions : registered[x] # r,
                   UNCHANGED <<hermesRun, reservation>>,
                   \/ reservedRun' = reservedRun /\ hermesRun[r] = [admission |-> d, asked |-> "direct"]
                   \/ /\ reservedRun' = reservedRun \cup {r} /\ reservation[d] # None
                      /\ \E b \in Bindings : /\ launch[b].pc \in RunPCs
                                             /\ launch[b].admission = d /\ launch[b].run = r
            PROVE  Exact(a, registered'[a], reservedRun', hermesRun', reservation')
        <4>1. CASE a # d
          BY <2>2, <3>1, <3>3, <4>1
        <4>2. CASE a = d
          <5>1. registered'[a] = r
            BY <2>2, <3>3, <4>2
          <5>2. CASE reservedRun' = reservedRun /\ hermesRun[r] = [admission |-> d, asked |-> "direct"]
            <6>1. hermesRun[r].asked = "direct" /\ hermesRun[r].admission = a
              BY <4>2, <5>2
            <6>2. r \notin reservedRun
              BY <6>1 DEF ReservedRunsAreAsked
            <6> QED BY <3>3, <5>1, <5>2, <6>1, <6>2
          <5>3. CASE /\ reservedRun' = reservedRun \cup {r} /\ reservation[d] # None
                     /\ \E b \in Bindings : /\ launch[b].pc \in RunPCs
                                            /\ launch[b].admission = d /\ launch[b].run = r
            <6>1. hermesRun[r] = Asked(a)
              BY <4>2, <5>3 DEF KnownRunsAreAsked
            <6> QED BY <3>3, <4>2, <5>1, <5>3, <6>1 DEF Asked
          <5> QED BY <3>3, <5>2, <5>3
        <4> QED BY <4>1, <4>2
      <3> HIDE DEF Exact
      <3> QED BY <2>1, <3>2, <3>3 DEF Registers
    <2>8. ReceiptIsRegistered'
      <3> SUFFICES ASSUME NEW b \in Bindings, launch'[b].pc = "registered"
                   PROVE  registered'[launch'[b].admission] = launch'[b].run
        BY DEF ReceiptIsRegistered
      <3>1. /\ launch[b].pc \in RunPCs
            /\ launch'[b].run = launch[b].run /\ launch'[b].admission = launch[b].admission
            /\ launch[b].pc = "registered" \/ registered'[launch[b].admission] = launch[b].run
        BY <2>1 DEF RunKept, RunPCs
      <3>2. CASE launch[b].pc = "registered"
        <4>1. /\ registered[launch[b].admission] = launch[b].run
              /\ launch[b].run \in HermesRuns /\ launch[b].admission \in Admissions
          BY <3>2 DEF ReceiptIsRegistered, TypeInv, LaunchFields
        <4>2. registered'[launch[b].admission] = registered[launch[b].admission]
          BY <2>1, <2>2, <4>1 DEF Registers
        <4> QED BY <3>1, <4>1, <4>2
      <3> QED BY <3>1, <3>2
    <2> QED BY <2>4, <2>5, <2>6, <2>7, <2>8
  <1>3. RegisterInv => RegistrationIsExact
    BY DEF RegisterInv
  <1> QED BY <1>1, <1>2, <1>3, TypeInvariant, SubmitInvariant, PTL DEF Spec

-----------------------------------------------------------------------------
(* The return.                                                             *)

-----------------------------------------------------------------------------
(* What the conversions of a return yield.                                 *)

LEMMA ReturnValues ==
    ASSUME NEW p \in Payload
    PROVE  /\ BoundedReturn(p) \in Stored /\ BoundedReturn(p) # NoReturn
           /\ BoundedReturn(p).outcome = p.outcome /\ BoundedReturn(p).content = p.content
           /\ BoundedReturn(p).candidate <=> p.outcome = "result_candidate"
           /\ CardOf(p) \in Contents \cup {NoReturn}
           /\ ReturnToRunStatus[p.outcome] \in RunStatuses \ {"running"}
           /\ ReturnToIssueStatus[p.outcome] \in {"review", "waiting"}
  <1>1. p.outcome \in Outcomes /\ p.content \in Contents
    BY DEF Payload
  <1>2. BoundedReturn(p) \in Stored
    BY <1>1 DEF BoundedReturn, Stored
  <1>3. BoundedReturn(p) # NoReturn
    BY <1>2, ReturnAssumption
  <1>4. ReturnToRunStatus[p.outcome] \in RunStatuses \ {"running"}
    BY <1>1 DEF ReturnToRunStatus, Outcomes, RunStatuses
  <1>5. ReturnToIssueStatus[p.outcome] \in {"review", "waiting"}
    BY <1>1 DEF ReturnToIssueStatus
  <1> QED BY <1>1, <1>2, <1>3, <1>4, <1>5 DEF BoundedReturn, CardOf

\* Only an open status has a successor.
LEMMA MovesAreOpen ==
    ASSUME NEW s \in IssueStatuses, NEW t, NEW k, MayTransition(s, t, k)
    PROVE  s \notin TerminalStatuses /\ t \in IssueStatuses
  BY DEF MayTransition, AllowedTransitions, IssueStatuses, TerminalStatuses

-----------------------------------------------------------------------------
(* Type correctness, with the promise of the callers: what is in flight    *)
(* under a key is something that is sent under it.                         *)

CallsCarry == \A c \in Calls : call[c] # NoCall => <<call[c].key, call[c].payload>> \in Carries

ReturnTypeInv == ReturnTypeOK /\ CallsCarry

LEMMA Busy ==
    ASSUME ReturnTypeInv, NEW c \in Calls, call[c] # NoCall
    PROVE  /\ call[c] \in Request /\ call[c].run \in Runs /\ call[c].key \in CallKeys
           /\ call[c].payload \in Payload /\ <<call[c].key, call[c].payload>> \in Carries
  BY DEF ReturnTypeInv, ReturnTypeOK, CallsCarry, Request

LEMMA Working ==
    ASSUME NEW c, call[c].pc # "idle"
    PROVE  call[c] # NoCall
  BY DEF NoCall

LEMMA NotIdle ==
    ASSUME NEW q \in Request
    PROVE  q # NoCall
  BY DEF Request, NoCall

\* A request that moves on within its handler, or ends.
LEMMA CallStep ==
    ASSUME ReturnTypeInv, NEW c \in Calls, NEW q \in Request \cup {NoCall},
           call' = [call EXCEPT ![c] = q],
           q # NoCall => <<q.key, q.payload>> \in Carries
    PROVE  call' \in [Calls -> Request \cup {NoCall}] /\ CallsCarry'
  BY DEF ReturnTypeInv, ReturnTypeOK, CallsCarry

LEMMA Committed ==
    ASSUME ReturnTypeInv, NEW c \in Calls, call[c] # NoCall,
           call' = [call EXCEPT ![c].pc = "committed"]
    PROVE  call' \in [Calls -> Request \cup {NoCall}] /\ CallsCarry'
  <1> DEFINE q == [call[c] EXCEPT !.pc = "committed"]
  <1>1. call[c] \in Request /\ <<call[c].key, call[c].payload>> \in Carries
    BY Busy
  <1>2. q \in Request /\ q.key = call[c].key /\ q.payload = call[c].payload
    BY <1>1 DEF Request
  <1>3. call' = [call EXCEPT ![c] = q]
    BY DEF ReturnTypeInv, ReturnTypeOK
  <1> HIDE DEF q
  <1> QED BY <1>1, <1>2, <1>3, CallStep

\* What a commit writes beside the run and the issue.
LEMMA CandidateTypes ==
    ASSUME ReturnTypeInv, NEW q \in Request, StoreCandidate(q), ProjectResult(q)
    PROVE  /\ candidate' \in [Runs -> [key : CallKeys, content : Contents] \cup {NoReturn}]
           /\ card' \in [Runs -> Contents \cup {NoReturn}]
  <1>1. q.run \in Runs /\ q.key \in CallKeys /\ q.payload \in Payload
    BY DEF Request
  <1>2. q.payload.content \in Contents /\ CardOf(q.payload) \in Contents \cup {NoReturn}
    BY <1>1, ReturnValues DEF Payload
  <1>3. [key |-> q.key, content |-> q.payload.content] \in [key : CallKeys, content : Contents]
    BY <1>1, <1>2
  <1>4. card' \in [Runs -> Contents \cup {NoReturn}]
    BY <1>1, <1>2 DEF ProjectResult, ReturnTypeInv, ReturnTypeOK
  <1>5. candidate' \in [Runs -> [key : CallKeys, content : Contents] \cup {NoReturn}]
    BY <1>1, <1>3 DEF StoreCandidate, ReturnTypeInv, ReturnTypeOK
  <1> QED BY <1>4, <1>5

LEMMA RecordTypes ==
    ASSUME ReturnTypeInv, NEW q \in Request, RecordReturn(q, ReturnToIssueStatus[q.payload.outcome])
    PROVE  /\ runIssue' \in [Runs -> [status : IssueStatuses, version : IssueVersions]]
           /\ runStatus' \in [Runs -> RunStatuses]
           /\ stored' \in [Runs -> Stored \cup {NoReturn}]
           /\ returnKeys' \in [Runs -> SUBSET CallKeys]
  <1> DEFINE target == ReturnToIssueStatus[q.payload.outcome]
  <1>1. q.run \in Runs /\ q.key \in CallKeys /\ q.payload \in Payload
    BY DEF Request
  <1>2. /\ BoundedReturn(q.payload) \in Stored
        /\ ReturnToRunStatus[q.payload.outcome] \in RunStatuses
        /\ target \in IssueStatuses
    BY <1>1, ReturnValues DEF IssueStatuses
  <1>3. runIssue[q.run].version + 1 \in IssueVersions
    BY <1>1, ReturnAssumption DEF RecordReturn, ReturnTypeInv, ReturnTypeOK, IssueVersions
  <1>4. [status |-> target, version |-> runIssue[q.run].version + 1]
            \in [status : IssueStatuses, version : IssueVersions]
    BY <1>2, <1>3
  <1>5. /\ runIssue' = [runIssue EXCEPT ![q.run] = [status |-> target, version |-> runIssue[q.run].version + 1]]
        /\ runStatus' = [runStatus EXCEPT ![q.run] = ReturnToRunStatus[q.payload.outcome]]
        /\ stored' = [stored EXCEPT ![q.run] = BoundedReturn(q.payload)]
        /\ returnKeys' = [returnKeys EXCEPT ![q.run] = @ \cup {q.key}]
    BY DEF RecordReturn
  <1> HIDE DEF target
  <1> QED BY <1>1, <1>2, <1>4, <1>5 DEF ReturnTypeInv, ReturnTypeOK

LEMMA ReceiveTypes ==
    ASSUME ReturnTypeInv, NEW c \in Calls, NEW r \in Runs, NEW k \in CallKeys, NEW p \in Payload,
           NEW v \in IssueVersions, Receive(c, r, k, p, v)
    PROVE  ReturnTypeInv'
  <1> DEFINE q == [pc |-> "received", run |-> r, key |-> k, payload |-> p, expected |-> v,
                   seenStatus |-> "running", seenReturn |-> NoReturn]
  <1>1. q \in Request /\ <<q.key, q.payload>> \in Carries
    BY DEF Receive, Request, RunStatuses
  <1>2. call' = [call EXCEPT ![c] = q] /\ UNCHANGED <<rows, hermes, acked>>
    BY DEF Receive
  <1> HIDE DEF q
  <1>3. call' \in [Calls -> Request \cup {NoCall}] /\ CallsCarry'
    BY <1>1, <1>2, CallStep
  <1> QED BY <1>2, <1>3 DEF ReturnTypeInv, ReturnTypeOK, rows

\* The tables and the requests in flight hold values of their columns, and
\* every request what its key carries.
LEMMA ReturnTypeInvariant == ReturnSpec => []ReturnTypeInv
  <1>1. ReturnInit => ReturnTypeInv
    <2> SUFFICES ASSUME ReturnInit PROVE ReturnTypeInv
      OBVIOUS
    <2>1. StartVersion \in IssueVersions /\ "in_progress" \in IssueStatuses
          /\ "running" \in HermesStatuses /\ "running" \in RunStatuses
      BY ReturnAssumption DEF IssueVersions, StartVersion, IssueStatuses, HermesStatuses, RunStatuses
    <2>2. ReturnTypeOK
      BY <2>1 DEF ReturnInit, ReturnTypeOK
    <2> QED BY <2>2 DEF ReturnInit, ReturnTypeInv, CallsCarry
  <1>2. ReturnTypeInv /\ [ReturnNext]_returnVars => ReturnTypeInv'
    <2> SUFFICES ASSUME ReturnTypeInv, [ReturnNext]_returnVars PROVE ReturnTypeInv'
      OBVIOUS
    <2>1. ASSUME NEW r \in Runs, NEW s \in HermesStatuses, HermesEnds(r, s) PROVE ReturnTypeInv'
      BY <2>1 DEF HermesEnds, ReturnTypeInv, ReturnTypeOK, CallsCarry, rows
    <2>2. ASSUME NEW r \in Runs, HumanComments(r) PROVE ReturnTypeInv'
      <3>1. runIssue[r].version + 1 \in IssueVersions
        BY <2>2, ReturnAssumption DEF HumanComments, ReturnTypeInv, ReturnTypeOK, IssueVersions
      <3> QED BY <2>2, <3>1 DEF HumanComments, ReturnTypeInv, ReturnTypeOK, CallsCarry
    <2>3. ASSUME NEW r \in Runs, NEW t \in IssueStatuses, HumanMoves(r, t) PROVE ReturnTypeInv'
      <3>1. runIssue[r].version + 1 \in IssueVersions
        BY <2>3, ReturnAssumption DEF HumanMoves, ReturnTypeInv, ReturnTypeOK, IssueVersions
      <3> QED BY <2>3, <3>1 DEF HumanMoves, ReturnTypeInv, ReturnTypeOK, CallsCarry
    <2>4. ASSUME NEW r \in Runs, NEW c \in Calls, NEW k \in CallKeys, NEW x \in Contents,
                 Reconcile(c, r, k, x)
          PROVE  ReturnTypeInv'
      <3>1. StartVersion \in IssueVersions
        BY ReturnAssumption DEF IssueVersions, StartVersion
      <3>2. [outcome |-> "result_candidate", content |-> x] \in Payload
            /\ [outcome |-> "failed", content |-> x] \in Payload
        BY DEF Payload, Outcomes
      <3> QED BY <2>4, <3>1, <3>2, ReceiveTypes DEF Reconcile
    <2>5. ASSUME NEW r \in Runs, NEW c \in Calls, NEW k \in CallKeys, NEW p \in Payload,
                 NEW v \in IssueVersions, Report(c, r, k, p, v)
          PROVE  ReturnTypeInv'
      BY <2>5, ReceiveTypes DEF Report
    <2>6. ASSUME NEW c \in Calls, ReadRun(c) PROVE ReturnTypeInv'
      <3> DEFINE q == [call[c] EXCEPT !.pc = "run_read", !.seenStatus = runStatus[call[c].run],
                                      !.seenReturn = stored[call[c].run]]
      <3>1. call[c] \in Request /\ call[c].run \in Runs
            /\ <<call[c].key, call[c].payload>> \in Carries
        BY <2>6, Working, Busy DEF ReadRun
      <3>2. runStatus[call[c].run] \in RunStatuses /\ stored[call[c].run] \in Stored \cup {NoReturn}
        BY <3>1 DEF ReturnTypeInv, ReturnTypeOK
      <3>3. q \in Request /\ q.key = call[c].key /\ q.payload = call[c].payload
        BY <3>1, <3>2 DEF Request
      <3>4. call' = [call EXCEPT ![c] = q] /\ UNCHANGED <<rows, hermes, acked>>
        BY <2>6, <3>1 DEF ReadRun, ReturnTypeInv, ReturnTypeOK
      <3> HIDE DEF q
      <3>5. call' \in [Calls -> Request \cup {NoCall}] /\ CallsCarry'
        BY <3>1, <3>3, <3>4, CallStep
      <3> QED BY <3>4, <3>5 DEF ReturnTypeInv, ReturnTypeOK, rows
    <2>7. ASSUME NEW c \in Calls, ReadIssue(c) PROVE ReturnTypeInv'
      <3> DEFINE q == [call[c] EXCEPT !.pc = "issue_read"]
      <3>1. call[c] \in Request /\ <<call[c].key, call[c].payload>> \in Carries
        BY <2>7, Working, Busy DEF ReadIssue
      <3>2. q \in Request /\ q.key = call[c].key /\ q.payload = call[c].payload
        BY <3>1 DEF Request
      <3>3. call' = [call EXCEPT ![c] = q] /\ UNCHANGED <<rows, hermes, acked>>
        BY <2>7 DEF ReadIssue, ReturnTypeInv, ReturnTypeOK
      <3> HIDE DEF q
      <3>4. call' \in [Calls -> Request \cup {NoCall}] /\ CallsCarry'
        BY <3>1, <3>2, <3>3, CallStep
      <3> QED BY <3>3, <3>4 DEF ReturnTypeInv, ReturnTypeOK, rows
    <2>8. ASSUME NEW c \in Calls, CommitReplay(c) PROVE ReturnTypeInv'
      <3>1. call[c] # NoCall /\ call[c] \in Request
        BY <2>8, Working, Busy DEF CommitReplay
      <3>2. call' \in [Calls -> Request \cup {NoCall}] /\ CallsCarry'
        BY <2>8, <3>1, Committed DEF CommitReplay
      <3>3. /\ candidate' \in [Runs -> [key : CallKeys, content : Contents] \cup {NoReturn}]
            /\ card' \in [Runs -> Contents \cup {NoReturn}]
        BY <2>8, <3>1, CandidateTypes DEF CommitReplay
      <3> QED BY <2>8, <3>2, <3>3 DEF CommitReplay, ReturnTypeInv, ReturnTypeOK
    <2>9. ASSUME NEW c \in Calls, CommitReturn(c) PROVE ReturnTypeInv'
      <3>1. call[c] # NoCall /\ call[c] \in Request
        BY <2>9, Working, Busy DEF CommitReturn
      <3>2. call' \in [Calls -> Request \cup {NoCall}] /\ CallsCarry'
        BY <2>9, <3>1, Committed DEF CommitReturn
      <3>3. /\ candidate' \in [Runs -> [key : CallKeys, content : Contents] \cup {NoReturn}]
            /\ card' \in [Runs -> Contents \cup {NoReturn}]
        BY <2>9, <3>1, CandidateTypes DEF CommitReturn, RecordReturn
      <3>4. /\ runIssue' \in [Runs -> [status : IssueStatuses, version : IssueVersions]]
            /\ runStatus' \in [Runs -> RunStatuses]
            /\ stored' \in [Runs -> Stored \cup {NoReturn}]
            /\ returnKeys' \in [Runs -> SUBSET CallKeys]
        BY <2>9, <3>1, RecordTypes DEF CommitReturn
      <3> QED BY <2>9, <3>2, <3>3, <3>4 DEF CommitReturn, ReturnTypeInv, ReturnTypeOK
    <2>10. ASSUME NEW c \in Calls, Answer(c) PROVE ReturnTypeInv'
      <3>1. call[c] \in Request /\ call[c].run \in Runs /\ call[c].payload \in Payload
        BY <2>10, Working, Busy DEF Answer
      <3>2. acked' \subseteq [run : Runs, payload : Payload]
        BY <2>10, <3>1 DEF Answer, ReturnTypeInv, ReturnTypeOK
      <3>3. call' \in [Calls -> Request \cup {NoCall}] /\ CallsCarry'
        BY <2>10, CallStep DEF Answer
      <3> QED BY <2>10, <3>2, <3>3 DEF Answer, ReturnTypeInv, ReturnTypeOK, rows
    <2>11. ASSUME NEW c \in Calls, Drop(c) PROVE ReturnTypeInv'
      <3>1. call' \in [Calls -> Request \cup {NoCall}] /\ CallsCarry'
        BY <2>11, CallStep DEF Drop
      <3> QED BY <2>11, <3>1 DEF Drop, ReturnTypeInv, ReturnTypeOK, rows
    <2>12. CASE UNCHANGED returnVars
      BY <2>12 DEF returnVars, ReturnTypeInv, ReturnTypeOK, CallsCarry
    <2> QED BY <2>1, <2>2, <2>3, <2>4, <2>5, <2>6, <2>7, <2>8, <2>9, <2>10, <2>11, <2>12
            DEF ReturnNext, OnRun, OnCall
  <1> QED BY <1>1, <1>2, PTL DEF ReturnSpec

-----------------------------------------------------------------------------
(* The recorded return.  The invariant adds to the safety properties that  *)
(* the key of a recorded return carries what is stored: under one payload  *)
(* per key a replay that races then says what is stored, so it finds the   *)
(* candidate that the return came with.                                    *)

KeyTellsReturn ==
    \A r \in Runs : \A k \in returnKeys[r] :
        \E p \in Payload : <<k, p>> \in Carries /\ stored[r] = BoundedReturn(p)

ReturnInv ==
    ReturnTypeInv /\ ReturnIsWhole /\ ReturnIsRecordedOnce /\ CardShowsStoredCandidate /\ KeyTellsReturn

rowVars == <<runStatus, stored, candidate, card, returnKeys>>

\* Only a commit touches the run, its return, its candidate and its card.
LEMMA StepKinds ==
    ASSUME ReturnTypeInv, [ReturnNext]_returnVars
    PROVE  \/ \E c \in Calls : CommitReplay(c) \/ CommitReturn(c)
           \/ UNCHANGED rowVars
  <1> USE DEF rowVars
  <1>1. ASSUME NEW r \in Runs, OnRun(r) PROVE UNCHANGED rowVars
    BY <1>1 DEF OnRun, HermesEnds, HumanComments, HumanMoves, Reconcile, Report, Receive, rows
  <1>2. ASSUME NEW c \in Calls, ReadRun(c) \/ ReadIssue(c) \/ Answer(c) \/ Drop(c)
        PROVE  UNCHANGED rowVars
    BY <1>2 DEF ReadRun, ReadIssue, Answer, Drop, rows
  <1>3. CASE UNCHANGED returnVars
    BY <1>3 DEF returnVars
  <1> QED BY <1>1, <1>2, <1>3 DEF ReturnNext, OnCall

\* A replay comes after a recorded return; if keys carry one payload, it finds
\* the candidate it would have stored.
LEMMA ReplayMeetsReturn ==
    ASSUME ReturnInv, NEW c \in Calls, CommitReplay(c)
    PROVE  /\ stored[call[c].run] # NoReturn
           /\ OnePayloadPerKey => UNCHANGED candidate
  <1> DEFINE q == call[c]
             r == call[c].run
  <1>1. q \in Request /\ r \in Runs /\ q.payload \in Payload /\ <<q.key, q.payload>> \in Carries
    BY Working, Busy DEF CommitReplay, ReturnInv
  <1>2. q.key \in returnKeys[r]
    BY DEF CommitReplay
  <1>3. PICK p \in Payload : <<q.key, p>> \in Carries /\ stored[r] = BoundedReturn(p)
    BY <1>1, <1>2 DEF ReturnInv, KeyTellsReturn
  <1>4. stored[r] # NoReturn
    BY <1>3, ReturnValues
  <1>5. ASSUME OnePayloadPerKey PROVE UNCHANGED candidate
    <2>1. p = q.payload
      BY <1>1, <1>3, <1>5 DEF OnePayloadPerKey
    <2>2. q.payload.outcome = "result_candidate" => candidate[r] # NoReturn
      BY <1>1, <1>3, <1>4, <1>5, <2>1, ReturnValues DEF ReturnInv, ReturnIsWhole
    <2>3. StoreCandidate(q)
      BY DEF CommitReplay
    <2> QED BY <2>2, <2>3 DEF StoreCandidate
  <1> QED BY <1>4, <1>5

\* A commit that records a return finds none, and no candidate.
LEMMA ReturnMeetsNone ==
    ASSUME ReturnInv, NEW c \in Calls, CommitReturn(c)
    PROVE  /\ stored[call[c].run] = NoReturn /\ returnKeys[call[c].run] = {}
           /\ OnePayloadPerKey => candidate[call[c].run] = NoReturn
  <1>1. call[c].run \in Runs /\ runStatus[call[c].run] = "running"
    BY Working, Busy DEF CommitReturn, ReturnInv
  <1>2. stored[call[c].run] = NoReturn
    BY <1>1 DEF ReturnInv, ReturnIsRecordedOnce
  <1> QED BY <1>1, <1>2 DEF ReturnInv, ReturnIsRecordedOnce, ReturnIsWhole

\* What a commit writes, row by row: to its own run, and to no other.
LEMMA Recorded ==
    ASSUME ReturnTypeInv, NEW c \in Calls, CommitReturn(c), NEW s \in Runs
    PROVE  /\ call[c] \in Request /\ call[c].run \in Runs
           /\ s # call[c].run => /\ stored'[s] = stored[s] /\ runStatus'[s] = runStatus[s]
                                 /\ returnKeys'[s] = returnKeys[s] /\ candidate'[s] = candidate[s]
           /\ s = call[c].run => /\ stored'[s] = BoundedReturn(call[c].payload)
                                 /\ runStatus'[s] = ReturnToRunStatus[call[c].payload.outcome]
                                 /\ returnKeys'[s] = returnKeys[s] \cup {call[c].key}
                                 /\ runIssue'[s].status = ReturnToIssueStatus[call[c].payload.outcome]
  <1>1. call[c] \in Request /\ call[c].run \in Runs
    BY Working, Busy DEF CommitReturn
  <1>2. RecordReturn(call[c], ReturnToIssueStatus[call[c].payload.outcome])
    BY DEF CommitReturn
  <1>3. s # call[c].run => candidate'[s] = candidate[s]
    BY <1>1, <1>2 DEF RecordReturn, StoreCandidate, ReturnTypeInv, ReturnTypeOK
  <1>4. s # call[c].run => /\ stored'[s] = stored[s] /\ runStatus'[s] = runStatus[s]
                           /\ returnKeys'[s] = returnKeys[s]
    BY <1>1, <1>2 DEF RecordReturn, ReturnTypeInv, ReturnTypeOK
  <1>5. s = call[c].run => /\ stored'[s] = BoundedReturn(call[c].payload)
                           /\ runStatus'[s] = ReturnToRunStatus[call[c].payload.outcome]
                           /\ returnKeys'[s] = returnKeys[s] \cup {call[c].key}
                           /\ runIssue'[s].status = ReturnToIssueStatus[call[c].payload.outcome]
    BY <1>1, <1>2 DEF RecordReturn, ReturnTypeInv, ReturnTypeOK
  <1> QED BY <1>1, <1>3, <1>4, <1>5

\* The card follows the candidate that is written with it.
LEMMA CardFollows ==
    ASSUME ReturnTypeInv, CardShowsStoredCandidate, NEW q \in Request,
           CandidateAccepted(q), StoreCandidate(q), ProjectResult(q)
    PROVE  CardShowsStoredCandidate'
  <1>1. q.run \in Runs /\ q.key \in CallKeys /\ q.payload \in Payload
    BY DEF Request
  <1>2. /\ card' \in [Runs -> Contents \cup {NoReturn}]
        /\ card'[q.run] = CardOf(q.payload)
        /\ \A s \in Runs : s # q.run => card'[s] = card[s] /\ candidate'[s] = candidate[s]
    BY <1>1, CandidateTypes DEF ProjectResult, StoreCandidate, ReturnTypeInv, ReturnTypeOK
  <1>3. ASSUME card'[q.run] # NoReturn
        PROVE  candidate'[q.run] # NoReturn /\ card'[q.run] = candidate'[q.run].content
    <2>1. q.payload.outcome = "result_candidate" /\ card'[q.run] = q.payload.content
      BY <1>2, <1>3 DEF CardOf
    <2>2. CASE candidate[q.run] = NoReturn
      <3> DEFINE row == [key |-> q.key, content |-> q.payload.content]
      <3>1. candidate'[q.run] = row
        BY <1>1, <2>1, <2>2 DEF StoreCandidate, ReturnTypeInv, ReturnTypeOK
      <3>2. row \in [key : CallKeys, content : Contents] /\ row.content = q.payload.content
        BY <1>1 DEF Payload
      <3> HIDE DEF row
      <3> QED BY <2>1, <3>1, <3>2, ReturnAssumption
    <2>3. CASE candidate[q.run] # NoReturn
      BY <2>1, <2>3 DEF StoreCandidate, CandidateAccepted
    <2> QED BY <2>2, <2>3
  <1> QED BY <1>2, <1>3 DEF CardShowsStoredCandidate

LEMMA ReplayKeepsReturn ==
    ASSUME ReturnInv, NEW c \in Calls, CommitReplay(c), ReturnTypeInv'
    PROVE  ReturnInv'
  <1>1. call[c] \in Request
    BY Working, Busy DEF CommitReplay, ReturnInv
  <1>2. UNCHANGED <<runStatus, stored, returnKeys>>
    BY DEF CommitReplay
  <1>3. CardShowsStoredCandidate'
    BY <1>1, CardFollows DEF CommitReplay, ReturnInv
  <1>4. ReturnIsWhole'
    BY <1>2, ReplayMeetsReturn DEF ReturnIsWhole, ReturnInv
  <1>5. ReturnIsRecordedOnce'
    BY <1>2 DEF ReturnInv, ReturnIsRecordedOnce
  <1>6. KeyTellsReturn'
    <2>1. KeyTellsReturn
      BY DEF ReturnInv
    <2> QED BY <1>2, <2>1 DEF KeyTellsReturn
  <1> QED BY <1>3, <1>4, <1>5, <1>6 DEF ReturnInv

LEMMA CommitKeepsReturn ==
    ASSUME ReturnInv, NEW c \in Calls, CommitReturn(c), ReturnTypeInv'
    PROVE  ReturnInv'
  <1> DEFINE q == call[c]
             r == call[c].run
             b == BoundedReturn(call[c].payload)
             row == [key |-> call[c].key, content |-> call[c].payload.content]
  <1>1. q \in Request /\ r \in Runs /\ q.key \in CallKeys /\ q.payload \in Payload
        /\ <<q.key, q.payload>> \in Carries
    BY Working, Busy DEF CommitReturn, ReturnInv
  <1>2. /\ b # NoReturn /\ b.outcome = q.payload.outcome /\ b.content = q.payload.content
        /\ b.candidate <=> q.payload.outcome = "result_candidate"
        /\ ReturnToRunStatus[b.outcome] # "running"
    BY <1>1, ReturnValues
  <1>3. /\ stored'[r] = b /\ runStatus'[r] = ReturnToRunStatus[b.outcome] /\ returnKeys'[r] = {q.key}
        /\ \A s \in Runs : s # r =>
              /\ stored'[s] = stored[s] /\ runStatus'[s] = runStatus[s]
              /\ returnKeys'[s] = returnKeys[s]
    <2>1. ReturnTypeInv /\ returnKeys[r] = {}
      BY ReturnMeetsNone DEF ReturnInv
    <2> QED BY <1>1, <1>2, <2>1, Recorded
  <1>4. row # NoReturn /\ row.key = q.key /\ row.content = q.payload.content
    <2>1. row \in [key : CallKeys, content : Contents]
      BY <1>1 DEF Payload
    <2> QED BY <2>1, ReturnAssumption
  <1>5. /\ \A s \in Runs : s # r => candidate'[s] = candidate[s]
        /\ candidate[r] = NoReturn =>
              candidate'[r] = IF q.payload.outcome = "result_candidate" THEN row ELSE NoReturn
    <2>1. ReturnTypeInv
      BY DEF ReturnInv
    <2>2. StoreCandidate(q)
      BY DEF CommitReturn, RecordReturn
    <2> QED BY <1>1, <2>1, <2>2, Recorded DEF StoreCandidate, ReturnTypeInv, ReturnTypeOK
  <1>6. CardShowsStoredCandidate'
    <2>1. ReturnTypeInv /\ CardShowsStoredCandidate
      BY DEF ReturnInv
    <2>2. CandidateAccepted(q) /\ StoreCandidate(q) /\ ProjectResult(q)
      BY DEF CommitReturn, RecordReturn
    <2> QED BY <1>1, <2>1, <2>2, CardFollows
  <1> HIDE DEF row, b
  <1>7. ReturnIsWhole'
    <2> SUFFICES ASSUME OnePayloadPerKey, NEW s \in Runs
                 PROVE  /\ candidate'[s] # NoReturn <=> (stored'[s] # NoReturn /\ stored'[s].candidate)
                        /\ candidate'[s] # NoReturn =>
                              /\ candidate'[s].content = stored'[s].content
                              /\ candidate'[s].key \in returnKeys'[s]
      BY DEF ReturnIsWhole
    <2>1. CASE s # r
      BY <1>3, <1>5, <2>1 DEF ReturnInv, ReturnIsWhole
    <2>2. CASE s = r
      BY <1>2, <1>3, <1>4, <1>5, <2>2, ReturnMeetsNone
    <2> QED BY <2>1, <2>2
  <1>8. ReturnIsRecordedOnce'
    BY <1>1, <1>2, <1>3 DEF ReturnInv, ReturnIsRecordedOnce
  <1>9. KeyTellsReturn'
    <2>1. KeyTellsReturn
      BY DEF ReturnInv
    <2>2. SUFFICES ASSUME NEW s \in Runs, NEW k \in returnKeys'[s]
                   PROVE  \E p \in Payload : <<k, p>> \in Carries /\ stored'[s] = BoundedReturn(p)
      BY DEF KeyTellsReturn
    <2>3. CASE s = r
      BY <1>1, <1>3, <2>3 DEF b
    <2>4. CASE s # r
      BY <1>3, <2>1, <2>4 DEF KeyTellsReturn
    <2> QED BY <2>3, <2>4
  <1> QED BY <1>6, <1>7, <1>8, <1>9 DEF ReturnInv

LEMMA ReturnInvariant == ReturnSpec => []ReturnInv
  <1>1. ReturnInit /\ ReturnTypeInv => ReturnInv
    BY DEF ReturnInit, ReturnInv, ReturnIsWhole, ReturnIsRecordedOnce, CardShowsStoredCandidate,
           KeyTellsReturn
  <1>2. ReturnInv /\ ReturnTypeInv' /\ [ReturnNext]_returnVars => ReturnInv'
    <2> SUFFICES ASSUME ReturnInv, ReturnTypeInv', [ReturnNext]_returnVars PROVE ReturnInv'
      OBVIOUS
    <2>1. CASE UNCHANGED rowVars
      BY <2>1 DEF rowVars, ReturnInv, ReturnIsWhole, ReturnIsRecordedOnce,
                  CardShowsStoredCandidate, KeyTellsReturn
    <2>2. ReturnTypeInv
      BY DEF ReturnInv
    <2> QED BY <2>1, <2>2, StepKinds, ReplayKeepsReturn, CommitKeepsReturn
  <1> QED BY <1>1, <1>2, ReturnTypeInvariant, PTL DEF ReturnSpec

\* One whole return is recorded for each run, and the card shows the candidate
\* that is stored, whatever requests race (ReturnIsSound).
THEOREM ReturnsAreSound == ReturnSpec => []ReturnIsSound
  <1>1. ReturnInv => ReturnIsSound
    BY DEF ReturnInv, ReturnTypeInv, ReturnIsSound
  <1> QED BY <1>1, ReturnInvariant, PTL

-----------------------------------------------------------------------------
(* What a step may do to a return.                                         *)

\* A step that changes what is stored of a run is the commit of a return for
\* that run, on the version of its request, and leaves the issue open.
LEMMA StepEndsNoIssue ==
    ASSUME ReturnInv, [ReturnNext]_returnVars, NEW r \in Runs, stored'[r] # stored[r]
    PROVE  /\ runIssue[r].status \notin TerminalStatuses
           /\ runIssue'[r].status \in {"review", "waiting"}
           /\ \E c \in Calls : call[c].pc = "issue_read" /\ call[c].expected = runIssue[r].version
  <1>1. PICK c \in Calls : CommitReturn(c)
    BY StepKinds DEF ReturnInv, rowVars, CommitReplay
  <1>2. ReturnTypeInv
    BY DEF ReturnInv
  <1>3. call[c].run = r /\ call[c].payload \in Payload
    BY <1>1, <1>2, Recorded DEF Request
  <1>4. call[c].pc = "issue_read" /\ call[c].expected = runIssue[r].version
    BY <1>1, <1>3 DEF CommitReturn
  <1>5. MayTransition(runIssue[r].status, ReturnToIssueStatus[call[c].payload.outcome], "hermes")
    BY <1>1, <1>3 DEF CommitReturn, RecordReturn
  <1>6. runIssue[r].status \notin TerminalStatuses
    BY <1>5, MovesAreOpen DEF ReturnInv, ReturnTypeInv, ReturnTypeOK
  <1>7. runIssue'[r].status = ReturnToIssueStatus[call[c].payload.outcome]
    BY <1>1, <1>2, <1>3, Recorded
  <1> QED BY <1>3, <1>4, <1>6, <1>7, ReturnValues

\* A stored return and its status stay whatever callers send; its candidate
\* stays if a key carries one payload.
LEMMA StepKeepsReturn ==
    ASSUME ReturnInv, [ReturnNext]_returnVars, NEW r \in Runs, stored[r] # NoReturn
    PROVE  /\ stored'[r] = stored[r] /\ runStatus'[r] = runStatus[r]
           /\ OnePayloadPerKey => candidate'[r] = candidate[r]
  <1>1. CASE UNCHANGED rowVars
    BY <1>1 DEF rowVars
  <1>2. ASSUME NEW c \in Calls, CommitReplay(c)
        PROVE  /\ stored'[r] = stored[r] /\ runStatus'[r] = runStatus[r]
               /\ OnePayloadPerKey => candidate'[r] = candidate[r]
    BY <1>2, ReplayMeetsReturn DEF CommitReplay
  <1>3. ASSUME NEW c \in Calls, CommitReturn(c)
        PROVE  /\ stored'[r] = stored[r] /\ runStatus'[r] = runStatus[r]
               /\ candidate'[r] = candidate[r]
    <2>1. call[c].run \in Runs /\ call[c].run # r
      BY <1>3, ReturnMeetsNone, Working, Busy DEF CommitReturn, ReturnInv
    <2> QED BY <1>3, <2>1, Recorded DEF ReturnInv
  <1> QED BY <1>1, <1>2, <1>3, StepKinds DEF ReturnInv

\* If callers keep to one payload per key, a recorded return is final and was
\* recorded on the version its request names, and it ends no issue
\* (ReturnIsKept).  Without that hypothesis a second payload under the key of
\* a recorded return, racing with it, adds a candidate: see the README.
THEOREM ReturnsAreKept == OnePayloadPerKey => (ReturnSpec => ReturnIsKept)
  <1> DEFINE Final == \A r \in Runs : stored[r] # NoReturn =>
                          /\ stored'[r] = stored[r]
                          /\ runStatus'[r] = runStatus[r]
                          /\ candidate'[r] = candidate[r]
             EndsNone == \A r \in Runs : stored'[r] # stored[r] =>
                          /\ runIssue[r].status \notin TerminalStatuses
                          /\ runIssue'[r].status \in {"review", "waiting"}
                          /\ \E c \in Calls : call[c].pc = "issue_read"
                                              /\ call[c].expected = runIssue[r].version
  <1> SUFFICES ASSUME OnePayloadPerKey PROVE ReturnSpec => ReturnIsKept
    OBVIOUS
  <1>1. ReturnInv /\ [ReturnNext]_returnVars => [Final]_returnVars
    BY StepKeepsReturn
  <1>2. ReturnInv /\ [ReturnNext]_returnVars => [EndsNone]_returnVars
    BY StepEndsNoIssue
  <1>3. ReturnSpec => [][Final]_returnVars
    BY <1>1, ReturnInvariant, PTL DEF ReturnSpec
  <1>4. ReturnSpec => [][EndsNone]_returnVars
    BY <1>2, ReturnInvariant, PTL DEF ReturnSpec
  <1> QED BY <1>3, <1>4 DEF ReturnIsKept, ReturnIsFinal, ReturnNeverEndsIssue

=============================================================================
