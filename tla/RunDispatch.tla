------------------------------ MODULE RunDispatch ------------------------------
(***************************************************************************)
(* What the launch junction promises about one execution admission,        *)
(* without transactions, snapshots, messages or time: an admission is      *)
(* either withdrawn or consumed by exactly one run, for good, and the      *)
(* binding asks Hermes to run it at most once.                             *)
(***************************************************************************)
CONSTANTS Admissions, HermesRuns, None

VARIABLES
    standing,   \* standing[a]: "none", "admitted", "withdrawn" or "consumed"
    consumer,   \* consumer[a]: the one run that consumed the admission
    dispatched  \* dispatched[a]: how many times a binding asked Hermes to run it

vars == <<standing, consumer, dispatched>>

Init ==
    /\ standing = [a \in Admissions |-> "none"]
    /\ consumer = [a \in Admissions |-> None]
    /\ dispatched = [a \in Admissions |-> 0]

Admit(a) ==
    /\ standing[a] = "none"
    /\ standing' = [standing EXCEPT ![a] = "admitted"]
    /\ UNCHANGED <<consumer, dispatched>>

Withdraw(a) ==
    /\ standing[a] = "admitted"
    /\ standing' = [standing EXCEPT ![a] = "withdrawn"]
    /\ UNCHANGED <<consumer, dispatched>>

\* A dispatch is not a consumption, and neither needs the other to come first.
Dispatch(a) ==
    /\ standing[a] # "none"
    /\ dispatched[a] = 0
    /\ dispatched' = [dispatched EXCEPT ![a] = 1]
    /\ UNCHANGED <<standing, consumer>>

Consume(a, r) ==
    /\ standing[a] = "admitted"
    /\ \A b \in Admissions : consumer[b] # r
    /\ standing' = [standing EXCEPT ![a] = "consumed"]
    /\ consumer' = [consumer EXCEPT ![a] = r]
    /\ UNCHANGED dispatched

Next ==
    \E a \in Admissions :
        \/ Admit(a)
        \/ Withdraw(a)
        \/ Dispatch(a)
        \/ \E r \in HermesRuns : Consume(a, r)

Spec == Init /\ [][Next]_vars

=============================================================================
