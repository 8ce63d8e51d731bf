---------------------------- MODULE ProjectClaims ----------------------------
(***************************************************************************)
(* The claims of a Project (agency_claims.py): assertions that are never   *)
(* changed, only superseded by later ones, made directly by a human or     *)
(* from one reviewed item of an execution result                           *)
(* (project_claim_candidates.py), and the read cache that a trigger of     *)
(* agency_project_claims keeps on the Project.                             *)
(*                                                                         *)
(* A claim is inserted in two steps.  The insertion fires the trigger,     *)
(* which reads the claims that are committed then and computes the cache;  *)
(* the update of the Project waits for the row, and commits.               *)
(***************************************************************************)
EXTENDS ExecutionReview

CONSTANTS
    Claims,   \* identifiers drawn for claims that are made directly
    Listed,   \* the claim types of which all active claims are shown ("parcelle")
    Single,   \* the claim types of which the newest active claim is shown
    Times     \* values of observed_at

VARIABLES
    claim, \* claim[i]: the agency_project_claims row, or None
    cache  \* cache[p]: claim_refs of the Project: what is shown for each type

claimVars == <<claim, cache>>

ClaimIds == Claims \cup Results
Types == Listed \cup Single

ClaimRow == [project : Projects, type : Types, observed : Times, retired : BOOLEAN,
             supersedes : ClaimIds \cup {None}, accepted : Nat]

ClaimCommand ==
         [op : {"store"}, key : Keys, execution : Executions, project : Projects,
          items : SUBSET Results]
    \cup [op : {"review"}, key : Keys, execution : Executions, result : Results,
          disposition : Dispositions]
    \cup [op : {"claim"}, key : Keys, project : Projects, type : Types, observed : Times,
          retired : BOOLEAN]
    \cup [op : {"claim_candidate"}, key : Keys, execution : Executions, result : Results]

\* The commands among those of the instance that are about claims.
ClaimRequests == {m \in Commands : m.op \in {"store", "review", "claim", "claim_candidate"}}

ClaimItem == [kind : {"project_claim_candidate"}, project : Projects, type : Types,
              observed : Times]

\* Of some claims there is always one that was observed last.
ASSUME ClaimAssumption ==
    /\ ClaimRequests \subseteq ClaimCommand
    /\ \A r \in Results : ItemOf[r].kind = "project_claim_candidate" => ItemOf[r] \in ClaimItem
    /\ Claims \cap Results = {} /\ None \notin ClaimIds /\ None \notin ClaimRow
    /\ \A T \in (SUBSET Times) \ {{}} : \E t \in T : \A u \in T : u <= t

Recorded == {i \in ClaimIds : claim[i] # None}

Inserting == {c \in Calls : Step(c, "claiming")}

-----------------------------------------------------------------------------
(* The derived projection, over a function "rows" of claims.               *)

Active(rows) ==
    {i \in DOMAIN rows : /\ ~rows[i].retired
                         /\ \A j \in DOMAIN rows : rows[j].supersedes # i}

\* Newest first by observed_at; created_at and claim_id decide between equals.
Newest(rows, S) == CHOOSE i \in S : \A j \in S : rows[j].observed <= rows[i].observed

\* refresh_agency_project_claim_projection
Projection(rows, p) ==
    [t \in Types |->
        LET shown == {i \in Active(rows) : rows[i].project = p /\ rows[i].type = t} IN
        IF t \in Listed \/ shown = {} THEN shown ELSE {Newest(rows, shown)}]

CommittedRows == [i \in Recorded |-> claim[i]]

\* Seeded fault: the trigger fires before the row is there.
VisibleBeforeInsert(id, row) == CommittedRows

\* What the AFTER INSERT trigger reads: the committed claims and the new one.
Visible(id, row) == [i \in Recorded \cup {id} |-> IF i = id THEN row ELSE claim[i]]

-----------------------------------------------------------------------------
(* Execution results.                                                      *)

\* An execution_result_items row that a call holds.
ItemHeld(r) == \E c \in Inserting : call[c].id = r

Reviewable(r) == ~ItemHeld(r)

ReviewItem(m) == m.op = "review" /\ Reviewable(m.result) /\ Reviews(m)

DepositClaims(m) ==
    /\ StoreResult(m) \/ ReplayStore(m) \/ ReviewItem(m)
    /\ Answers(m, None)
    /\ UNCHANGED <<claimVars, call>>

-----------------------------------------------------------------------------
(* Claims.                                                                 *)

\* The claim to supersede, if any, is one of the same Project and type.
ClaimSupersedable(s, p, t) ==
    s # None => claim[s] # None /\ claim[s].project = p /\ claim[s].type = t

Insert(c, m, id, row) ==
    /\ claim[id] = None
    /\ \A d \in Inserting : call[d].id # id
    /\ ClaimSupersedable(row.supersedes, row.project, row.type)
    /\ Begin(c, [pc |-> "claiming", command |-> m, id |-> id, row |-> row,
                 read |-> Recorded,
                 shown |-> Projection(Visible(id, row), row.project)])
    /\ UNCHANGED <<reviewVars, claimVars, answer>>

\* record_claim as its route calls it: no key, a fresh identifier every time.
InsertDirect(c, m, id, s) ==
    /\ m.op = "claim"
    /\ id \in Claims
    /\ Insert(c, m, id, [project |-> m.project, type |-> m.type, observed |-> m.observed,
                         retired |-> m.retired, supersedes |-> s, accepted |-> 0])

\* The last disposition of the item accepts it.
Accepted(r) == Of(r) # {} /\ dispositions[Latest(r)].disposition = "accepted_for_claim"

Claimable(m) ==
    /\ m.op = "claim_candidate"
    /\ ~ItemHeld(m.result)
    /\ Returned(m.result, m.execution)

\* The item is locked and has no claim; the checks of create_claim_from_candidate
\* and of the BEFORE INSERT trigger; the identifier follows from the item.
InsertFromCandidate(c, m, s) ==
    LET r == m.result IN
    /\ Claimable(m)
    /\ ItemOf[r].kind = "project_claim_candidate"
    /\ Accepted(r)
    /\ stored[m.execution].project = ItemOf[r].project
    /\ Insert(c, m, r, [project |-> ItemOf[r].project, type |-> ItemOf[r].type,
                        observed |-> ItemOf[r].observed, retired |-> FALSE,
                        supersedes |-> s, accepted |-> Latest(r)])

\* The claim that the item already has is returned, whatever was asked for.
ReplayClaim(m) ==
    /\ Claimable(m)
    /\ claim[m.result] # None
    /\ Answers(m, m.result)
    /\ UNCHANGED <<reviewVars, claimVars, call>>

\* The Project row is free: the cache is written as it was computed.  A direct
\* claim that names a prior one has read it before its block.
Commit(c) ==
    LET row == call[c].row
        durable == row.supersedes = None \/ call[c].command.op = "claim_candidate"
    IN
    /\ Step(c, "claiming")
    /\ IF durable \/ Autocommit
       THEN /\ claim' = [claim EXCEPT ![call[c].id] = row]
            /\ cache' = [cache EXCEPT ![row.project] = call[c].shown]
       ELSE UNCHANGED claimVars
    /\ Answers(call[c].command, call[c].id)
    /\ End(c)
    /\ UNCHANGED reviewVars

RefuseClaim(c) ==
    /\ Step(c, "claiming")
    /\ Refused(c)
    /\ UNCHANGED <<reviewVars, claimVars>>

ClaimInit ==
    /\ ReviewInit
    /\ claim = [i \in ClaimIds |-> None]
    /\ cache = [p \in Projects |-> [t \in Types |-> {}]]

ClaimNext ==
    \/ \E m \in ClaimRequests : DepositClaims(m) \/ ReplayClaim(m)
    \/ \E c \in Calls, m \in ClaimRequests, s \in ClaimIds \cup {None} :
          InsertFromCandidate(c, m, s) \/ \E id \in Claims : InsertDirect(c, m, id, s)
    \/ \E c \in Calls : Commit(c) \/ RefuseClaim(c)

ClaimSpec ==
    ClaimInit /\ RequestsInit /\ [][ClaimNext]_<<reviewVars, claimVars, requestVars>>

-----------------------------------------------------------------------------
(* Properties.                                                             *)

\* Every row has the shape of its table, and every call that of its handler.
ClaimTypeOK ==
    /\ ReviewTypeOK
    /\ claim \in [ClaimIds -> ClaimRow \cup {None}]
    /\ cache \in [Projects -> [Types -> SUBSET ClaimIds]]
    /\ \A c \in Inserting : call[c].row \in ClaimRow /\ call[c].id \in ClaimIds

\* An execution result becomes a claim only while the last word of the humans
\* who reviewed its item is acceptance, up to the commit of the claim; the claim
\* says what the item says, and no item gets two.
ClaimsFollowAcceptance ==
    [][\A r \in Results : claim[r] = None /\ claim'[r] # None =>
          /\ dispositions' = dispositions
          /\ Accepted(r) /\ claim'[r].accepted = Latest(r)
          /\ claim'[r].project = ItemOf[r].project
          /\ claim'[r].type = ItemOf[r].type
          /\ claim'[r].observed = ItemOf[r].observed]_<<dispositions, claim>>

\* A claim that overlapped no other leaves a cache that shows what the claims
\* then say, the new one included and what it supersedes left out.
LoneClaimRefreshes ==
    [][\A i \in ClaimIds : claim[i] = None /\ claim'[i] # None =>
          \A c \in Calls :
             Step(c, "claiming") /\ call[c].id = i /\ call[c].read = Recorded =>
                cache'[claim'[i].project]
                   = Projection([j \in Recorded \cup {i} |-> claim'[j]], claim'[i].project)
      ]_claimVars

\* Claims have the shape of their table, follow the reviews of their item
\* (ClaimsFollowAcceptance), and one that overlaps no other leaves the cache true
\* (LoneClaimRefreshes).
ClaimsAreKept == []ClaimTypeOK /\ ClaimsFollowAcceptance /\ LoneClaimRefreshes

\* The cache of a Project is what its claims say (the comment on claim_values
\* in 002_agency_data.sql), at least while no claim is being inserted.
CacheIsDerived ==
    Inserting = {} => \A p \in Projects : cache[p] = Projection(CommittedRows, p)

=============================================================================
