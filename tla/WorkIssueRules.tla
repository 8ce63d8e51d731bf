--------------------------- MODULE WorkIssueRules ---------------------------
(***************************************************************************)
(* The status tables of the Work Issue aggregate, shared by every module   *)
(* in which a Work Issue changes status (mvp_vertical/work_issues.py).     *)
(***************************************************************************)

IssueStatuses == {"open", "in_progress", "waiting", "review", "done", "cancelled"}

TerminalStatuses == {"done", "cancelled"}

HermesTargets == {"in_progress", "waiting", "review"}

\* Seeded fault: a cancelled issue can still be set to waiting.
AllowedTransitionsReopening ==
    [s \in IssueStatuses |->
        CASE s = "open"        -> {"in_progress", "waiting", "cancelled"}
          [] s = "in_progress" -> {"waiting", "review", "cancelled"}
          [] s = "waiting"     -> {"in_progress", "review", "cancelled"}
          [] s = "review"      -> {"in_progress", "waiting", "done", "cancelled"}
          [] s = "cancelled"   -> {"waiting"}
          [] OTHER             -> {}]

\* ALLOWED_TRANSITIONS.get(current, set()): a terminal status has no successor.
AllowedTransitions ==
    [s \in IssueStatuses |->
        CASE s = "open"        -> {"in_progress", "waiting", "cancelled"}
          [] s = "in_progress" -> {"waiting", "review", "cancelled"}
          [] s = "waiting"     -> {"in_progress", "review", "cancelled"}
          [] s = "review"      -> {"in_progress", "waiting", "done", "cancelled"}
          [] OTHER             -> {}]

ActorKinds == {"human", "hermes"}

Outcomes == {"result_candidate", "partial", "failed", "capability_gap"}

RunStatuses == {"running", "returned", "partial", "failed"}

\* Seeded fault: the outcome is written to the status column unmapped.
ReturnToRunStatusUnmapped == [o \in Outcomes |-> o]

ReturnToRunStatus ==
    [o \in Outcomes |->
        CASE o = "result_candidate" -> "returned"
          [] o = "failed"           -> "failed"
          [] OTHER                  -> "partial"]

ReturnToIssueStatus ==
    [o \in Outcomes |-> IF o = "result_candidate" THEN "review" ELSE "waiting"]

\* The refusals of _transition_locked that do not depend on the version.
MayTransition(current, target, kind) ==
    /\ target \in AllowedTransitions[current]
    /\ kind \in ActorKinds
    /\ kind = "hermes" => target \in HermesTargets
    /\ target \in TerminalStatuses => kind = "human"

=============================================================================
