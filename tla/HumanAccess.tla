------------------------------ MODULE HumanAccess ------------------------------
(***************************************************************************)
(* The people who collaborate on a Project from outside (human_access.py,  *)
(* human_access_api.py) and what they say of its revisions                 *)
(* (document_revision_discussion.py): local principals, the identities     *)
(* bound to them, direct grants, and comments.                             *)
(*                                                                         *)
(* An operator provisions principals, bindings and grants and commits.  A  *)
(* remote request first resolves its identity to a principal, on one       *)
(* connection, and then, in one transaction on another, looks for the      *)
(* grants it needs, statement by statement and without a lock, and writes. *)
(* What has lapsed is what had lapsed when its transaction began           *)
(* (CURRENT_TIMESTAMP); what was revoked is seen by each statement.        *)
(*                                                                         *)
(* The Project is one, with its SharedDocuments and their revisions.             *)
(***************************************************************************)
EXTENDS Requests

CONSTANTS
    Principals,
    Identities, \* issuer and subject of a token
    Revisions,
    DocumentOf, \* DocumentOf[v]: the Document of revision v
    MaxRows     \* bound on the bindings, and on the grants

VARIABLES
    principals,     \* principals[p]: "enabled", "disabled", or None
    bindings,       \* human_oidc_bindings, as inserted
    lapsedBindings, \* those whose valid_until has passed
    grants,         \* human_resource_grants, as inserted
    lapsed,         \* those whose valid_until has passed
    comments        \* doc_document_revision_comments, as inserted

bindingVars == <<bindings, lapsedBindings>>
grantVars == <<grants, lapsed>>
accessVars == <<principals, bindingVars, grantVars, comments>>

SharedDocuments == {DocumentOf[v] : v \in Revisions}
Resources == {"project"} \cup SharedDocuments

ProjectActions == {"project.read", "project.access.manage"}
DocumentActions == {"document.read", "document.revision.submit", "document.comment"}

\* Seeded fault: the right to manage is delegated like the others.
AnyAction == ProjectActions \cup DocumentActions

RemoteManageableActions == {"project.read"} \cup DocumentActions

\* _validate_grant_target, and the CHECK of the table.
Targets == ({"project"} \X ProjectActions) \cup (SharedDocuments \X DocumentActions)

Binding == [principal : Principals, identity : Identities, limited : BOOLEAN,
            revoked : BOOLEAN]

Grant == [principal : Principals, target : Targets, by : Principals \cup {None},
          limited : BOOLEAN, revoked : BOOLEAN]

Comment == [key : Keys, revision : Revisions, parent : Nat, by : Principals]

\* What operators and people from outside may ask; any right may be named.
AccessRequest ==
         [op : {"bind"}, key : Keys, principal : Principals, identity : Identities,
          limited : BOOLEAN]
    \cup [op : {"grant"}, key : Keys, principal : Principals, target : Resources \X AnyAction,
          limited : BOOLEAN]
    \cup [op : {"grant_remote"}, key : Keys, principal : Principals,
          target : Resources \X AnyAction, identity : Identities, limited : BOOLEAN]
    \cup [op : {"revoke_remote"}, key : Keys, principal : Principals,
          target : Resources \X AnyAction, identity : Identities]
    \cup [op : {"documents"}, key : Keys, identity : Identities]
    \cup [op : {"comment"}, key : Keys, identity : Identities, revision : Revisions,
          parent : Keys \cup {None}]

AccessOps == {"bind", "grant", "grant_remote", "revoke_remote", "documents", "comment"}

\* A document_id is not the name of the Project as a resource.
ASSUME AccessAssumption ==
    /\ {m \in Commands : m.op \in AccessOps} \subseteq AccessRequest
    /\ "project" \notin SharedDocuments

-----------------------------------------------------------------------------
(* What is in force, for a transaction that began when "since" had lapsed   *)
(* and, for grants that it reads in several statements, when the first      *)
(* "upto" had been made: valid_from is the time of the insertion.           *)

Enabled(p) == principals[p] = "enabled"

BindingsInForce(identity, since) ==
    {i \in DOMAIN bindings : /\ bindings[i].identity = identity
                             /\ ~bindings[i].revoked /\ i \notin since}

GrantsInForce(p, target, since, upto) ==
    {i \in DOMAIN grants : /\ grants[i].principal = p /\ grants[i].target = target
                           /\ ~grants[i].revoked /\ i \notin since /\ i <= upto}

HasAccess(p, target, since, upto) ==
    Enabled(p) /\ GrantsInForce(p, target, since, upto) # {}

ProjectRead == <<"project", "project.read">>
ProjectManage == <<"project", "project.access.manage">>

\* The rows of a tuple that were not revoked.
Open(rows, same) == {i \in same : ~rows[i].revoked}

\* Seeded fault: the trigger retires whatever row is in the way.
Retire(rows, same, since) ==
    [i \in DOMAIN rows |-> IF i \in same THEN [rows[i] EXCEPT !.revoked = TRUE] ELSE rows[i]]

\* The BEFORE INSERT trigger: rows of the tuple that had lapsed are revoked.
RetireLapsed(rows, same, since) ==
    [i \in DOMAIN rows |-> IF i \in same \cap since THEN [rows[i] EXCEPT !.revoked = TRUE]
                           ELSE rows[i]]

\* After which the unique index lets a new row of the tuple in.
Insertable(rows, same, since) ==
    Len(rows) < MaxRows /\ Open(RetireLapsed(rows, same, since), same) = {}

-----------------------------------------------------------------------------
(* The operator.                                                           *)

CreatePrincipal(p) ==
    /\ principals[p] = None
    /\ principals' = [principals EXCEPT ![p] = "enabled"]
    /\ UNCHANGED <<bindingVars, grantVars, comments, call, answer>>

DisablePrincipal(p) ==
    /\ Enabled(p)
    /\ principals' = [principals EXCEPT ![p] = "disabled"]
    /\ UNCHANGED <<bindingVars, grantVars, comments, call, answer>>

\* bind_oidc_identity reads the principal, then looks for a binding in force.
LookUpBinding(c, m) ==
    /\ m.op = "bind"
    /\ Enabled(m.principal)
    /\ BindingsInForce(m.identity, lapsedBindings) = {}
    /\ Begin(c, [pc |-> "binding", command |-> m, since |-> lapsedBindings])
    /\ UNCHANGED <<accessVars, answer>>

\* A binding in force for the same principal is returned.
ReplayBinding(m) ==
    /\ m.op = "bind"
    /\ Enabled(m.principal)
    /\ \E i \in BindingsInForce(m.identity, lapsedBindings) :
          bindings[i].principal = m.principal
    /\ Answers(m, None)
    /\ UNCHANGED <<accessVars, call>>

InsertBinding(c) ==
    LET m == call[c].command
        since == call[c].since
        same == {i \in DOMAIN bindings : bindings[i].identity = m.identity}
        row == [principal |-> m.principal, identity |-> m.identity, limited |-> m.limited,
                revoked |-> FALSE]
    IN
    /\ Step(c, "binding")
    /\ Insertable(bindings, same, since)
    /\ bindings' = Append(RetireLapsed(bindings, same, since), row)
    /\ Answers(m, None)
    /\ End(c)
    /\ UNCHANGED <<principals, lapsedBindings, grantVars, comments>>

RevokeBinding(i) ==
    /\ ~bindings[i].revoked
    /\ bindings' = [bindings EXCEPT ![i].revoked = TRUE]
    /\ UNCHANGED <<principals, lapsedBindings, grantVars, comments, call, answer>>

\* A grant that an operator makes is looked up like one made remotely.
LookUpGrant(c, m) ==
    /\ m.op = "grant"
    /\ Enabled(m.principal) /\ m.target \in Targets
    /\ GrantsInForce(m.principal, m.target, lapsed, Len(grants)) = {}
    /\ Begin(c, [pc |-> "granting", command |-> m, by |-> None, since |-> lapsed])
    /\ UNCHANGED <<accessVars, answer>>

ReplayOperatorGrant(m) ==
    /\ m.op = "grant"
    /\ Enabled(m.principal) /\ m.target \in Targets
    /\ GrantsInForce(m.principal, m.target, lapsed, Len(grants)) # {}
    /\ Answers(m, None)
    /\ UNCHANGED <<accessVars, call>>

InsertGrant(c) ==
    LET m == call[c].command
        since == call[c].since
        same == {i \in DOMAIN grants :
                    grants[i].principal = m.principal /\ grants[i].target = m.target}
        row == [principal |-> m.principal, target |-> m.target, by |-> call[c].by,
                limited |-> m.limited, revoked |-> FALSE]
    IN
    /\ Step(c, "granting")
    /\ Insertable(grants, same, since)
    /\ grants' = Append(RetireLapsed(grants, same, since), row)
    /\ Answers(m, call[c].by)
    /\ End(c)
    /\ UNCHANGED <<principals, bindingVars, lapsed, comments>>

RevokeGrant(i) ==
    /\ ~grants[i].revoked
    /\ grants' = [grants EXCEPT ![i].revoked = TRUE]
    /\ UNCHANGED <<principals, bindingVars, lapsed, comments, call, answer>>

\* The time of a row passes.
LapseBinding(i) ==
    /\ bindings[i].limited /\ i \notin lapsedBindings
    /\ lapsedBindings' = lapsedBindings \cup {i}
    /\ UNCHANGED <<principals, bindings, grantVars, comments, call, answer>>

LapseGrant(i) ==
    /\ grants[i].limited /\ i \notin lapsed
    /\ lapsed' = lapsed \cup {i}
    /\ UNCHANGED <<principals, bindingVars, grants, comments, call, answer>>

-----------------------------------------------------------------------------
(* A remote request.                                                       *)

RemoteOps == {"documents", "grant_remote", "revoke_remote", "comment"}

\* require_principal: the identity is resolved on a connection of its own.  What
\* may not be delegated is refused before anything is read.
Resolve(c, m, i) ==
    /\ m.op \in RemoteOps
    /\ m.op = "grant_remote" => m.target[2] \in RemoteManageableActions
    /\ i \in BindingsInForce(m.identity, lapsedBindings)
    /\ Enabled(bindings[i].principal)
    /\ Begin(c, [pc |-> "resolved", command |-> m, by |-> bindings[i].principal])
    /\ UNCHANGED <<accessVars, answer>>

\* The first statement of the transaction, which fixes its time.
RequireProjectRead(c) ==
    /\ Step(c, "resolved")
    /\ HasAccess(call[c].by, ProjectRead, lapsed, Len(grants))
    /\ call' = [call EXCEPT ![c] =
          [pc |-> "reading", command |-> @.command, by |-> @.by, since |-> lapsed,
           upto |-> Len(grants)]]
    /\ UNCHANGED <<accessVars, answer>>

\* list_accessible_documents
ListDocuments(c) ==
    /\ Step(c, "reading") /\ call[c].command.op = "documents"
    /\ Answers(call[c].command,
          [by |-> call[c].by,
           documents |-> {d \in SharedDocuments :
              GrantsInForce(call[c].by, <<d, "document.read">>, call[c].since, call[c].upto) # {}}])
    /\ End(c)
    /\ UNCHANGED accessVars

RequireManager(c) ==
    /\ Step(c, "reading") /\ call[c].command.op \in {"grant_remote", "revoke_remote"}
    /\ HasAccess(call[c].by, ProjectManage, call[c].since, call[c].upto)
    /\ call' = [call EXCEPT ![c].pc = "managing"]
    /\ UNCHANGED <<accessVars, answer>>

\* grant_project_access: who is granted a Document must read the Project.
Grantable(c) ==
    LET m == call[c].command IN
    /\ Enabled(m.principal) /\ m.target \in Targets
    /\ m.target[1] # "project" =>
          HasAccess(m.principal, ProjectRead, call[c].since, call[c].upto)

GrantRemotely(c) ==
    LET m == call[c].command IN
    /\ Step(c, "managing") /\ m.op = "grant_remote"
    /\ Grantable(c)
    /\ GrantsInForce(m.principal, m.target, call[c].since, call[c].upto) = {}
    /\ call' = [call EXCEPT ![c] =
          [pc |-> "granting", command |-> m, by |-> @.by, since |-> @.since]]
    /\ UNCHANGED <<accessVars, answer>>

\* The grant that is in force is returned.
ReplayGrant(c) ==
    LET m == call[c].command IN
    /\ Step(c, "managing") /\ m.op = "grant_remote"
    /\ Grantable(c)
    /\ GrantsInForce(m.principal, m.target, call[c].since, call[c].upto) # {}
    /\ Answers(m, call[c].by)
    /\ End(c)
    /\ UNCHANGED accessVars

\* revoke_project_access names a grant of the Project, but not one that manages.
RevokeRemotely(c, i) ==
    LET m == call[c].command IN
    /\ Step(c, "managing") /\ m.op = "revoke_remote"
    /\ grants[i].principal = m.principal /\ grants[i].target = m.target
    /\ m.target # ProjectManage
    /\ grants' = [grants EXCEPT ![i].revoked = TRUE]
    /\ Answers(m, i)
    /\ End(c)
    /\ UNCHANGED <<principals, bindingVars, lapsed, comments>>

\* require_exact_revision, then document.comment.
Commentable(p, v, since, upto) ==
    /\ HasAccess(p, <<DocumentOf[v], "document.read">>, since, upto)
    /\ HasAccess(p, <<DocumentOf[v], "document.comment">>, since, upto)

RequireComment(c) ==
    LET m == call[c].command IN
    /\ Step(c, "reading") /\ m.op = "comment"
    /\ Commentable(call[c].by, m.revision, call[c].since, call[c].upto)
    /\ call' = [call EXCEPT ![c] = [pc |-> "commenting", command |-> m, by |-> @.by]]
    /\ UNCHANGED <<accessVars, answer>>

\* The row of a command, or None if it replies to what is not on its revision.
CommentOf(key) == {j \in DOMAIN comments : comments[j].key = key}

ParentOf(m) == IF m.parent = None THEN {0} ELSE
    {j \in CommentOf(m.parent) : comments[j].revision = m.revision}

\* create_comment, and the unique key.
CreateComment(c, parent) ==
    LET m == call[c].command IN
    /\ Step(c, "commenting")
    /\ CommentOf(m.key) = {}
    /\ parent \in ParentOf(m)
    /\ comments' = Append(comments,
          [key |-> m.key, revision |-> m.revision, parent |-> parent, by |-> call[c].by])
    /\ Answers(m, call[c].by)
    /\ End(c)
    /\ UNCHANGED <<principals, bindingVars, grantVars>>

\* The digest covers the revision, the parent and the author.
ReplayComment(c) ==
    LET m == call[c].command IN
    /\ Step(c, "commenting")
    /\ \E j \in CommentOf(m.key) :
          /\ comments[j].revision = m.revision /\ comments[j].by = call[c].by
          /\ comments[j].parent \in ParentOf(m)
    /\ Answers(m, call[c].by)
    /\ End(c)
    /\ UNCHANGED accessVars

RefuseAccess(c) ==
    /\ Refused(c)
    /\ UNCHANGED accessVars

AccessInit ==
    /\ principals = [p \in Principals |-> None]
    /\ bindings = <<>> /\ lapsedBindings = {}
    /\ grants = <<>> /\ lapsed = {}
    /\ comments = <<>>

AccessNext ==
    \/ \E p \in Principals : CreatePrincipal(p) \/ DisablePrincipal(p)
    \/ \E c \in Calls, m \in Commands : LookUpBinding(c, m) \/ LookUpGrant(c, m)
    \/ \E m \in Commands : ReplayBinding(m) \/ ReplayOperatorGrant(m)
    \/ \E i \in DOMAIN bindings : RevokeBinding(i) \/ LapseBinding(i)
    \/ \E i \in DOMAIN grants : RevokeGrant(i) \/ LapseGrant(i)
    \/ \E c \in Calls, m \in Commands, i \in DOMAIN bindings : Resolve(c, m, i)
    \/ \E c \in Calls : InsertBinding(c) \/ InsertGrant(c) \/ RequireProjectRead(c)
                        \/ ListDocuments(c) \/ RequireManager(c) \/ GrantRemotely(c)
    \/ \E c \in Calls : ReplayGrant(c) \/ RequireComment(c) \/ ReplayComment(c)
                        \/ RefuseAccess(c)
    \/ \E c \in Calls, i \in DOMAIN grants : RevokeRemotely(c, i)
    \/ \E c \in Calls, j \in 0..Len(comments) : CreateComment(c, j)

AccessSpec == AccessInit /\ RequestsInit /\ [][AccessNext]_<<accessVars, requestVars>>

-----------------------------------------------------------------------------
(* Properties.                                                             *)

\* Every row has the shape of its table.
AccessTypeOK ==
    /\ principals \in [Principals -> {"enabled", "disabled", None}]
    /\ \A i \in DOMAIN bindings : bindings[i] \in Binding
    /\ \A i \in DOMAIN grants : grants[i] \in Grant
    /\ \A j \in DOMAIN comments : comments[j] \in Comment
    /\ lapsedBindings \subseteq DOMAIN bindings /\ lapsed \subseteq DOMAIN grants

\* What is in force is not taken over: when an identity is bound or a right is
\* granted, no other row is in force for that identity or that right, whatever
\* was bound, granted, revoked or lapsed since the request looked; and what the
\* insertion retires had lapsed.
NothingIsTakenOver ==
    [][/\ \A i \in DOMAIN bindings' \ DOMAIN bindings :
             /\ BindingsInForce(bindings'[i].identity, lapsedBindings) = {}
             /\ \A k \in DOMAIN bindings :
                   bindings'[k] # bindings[k] => k \in lapsedBindings
       /\ \A i \in DOMAIN grants' \ DOMAIN grants :
             /\ GrantsInForce(grants'[i].principal, grants'[i].target, lapsed, Len(grants)) = {}
             /\ \A k \in DOMAIN grants : grants'[k] # grants[k] => k \in lapsed]_accessVars

\* Of the grants before the i-th, one gave target to p.
Held(p, target, i) == \E k \in 1..(i - 1) : grants[k].principal = p /\ grants[k].target = target

\* Rights come from the operator: who grants remotely was given the management
\* and the reading of the Project, which no remote request gives to anyone, and
\* a Document is granted to who was given the Project.
RightsComeFromTheOperator ==
    \A i \in DOMAIN grants : grants[i].by # None =>
       /\ grants[i].target # ProjectManage
       /\ Held(grants[i].by, ProjectManage, i) /\ Held(grants[i].by, ProjectRead, i)
       /\ grants[i].target # ProjectRead => Held(grants[i].principal, ProjectRead, i)

\* Who comments was given the reading of the Project and both rights on the very
\* Document of the revision, and a thread stays on one revision.
CommentsAreGranted ==
    \A j \in DOMAIN comments : LET comment == comments[j]
                                   last == Len(grants) + 1 IN
       /\ Held(comment.by, ProjectRead, last)
       /\ \A right \in {"document.read", "document.comment"} :
             Held(comment.by, <<DocumentOf[comment.revision], right>>, last)
       /\ comment.parent # 0 => /\ comment.parent < j
                                /\ comments[comment.parent].revision = comment.revision
       /\ \A k \in DOMAIN comments : comments[k].key = comment.key => k = j

\* A success that was answered is on record, on connections that do not commit.
AccessOnRecord(m) ==
    CASE m.op = "bind" -> \E i \in DOMAIN bindings : /\ bindings[i].principal = m.principal
                                                     /\ bindings[i].identity = m.identity
      [] m.op \in {"grant", "grant_remote"} ->
            \E i \in DOMAIN grants :
               grants[i].principal = m.principal /\ grants[i].target = m.target
      [] m.op = "revoke_remote" -> grants[answer.expected].revoked
      [] m.op = "comment" -> \E j \in CommentOf(m.key) : /\ comments[j].by = answer.expected
                                                         /\ comments[j].revision = m.revision
      [] OTHER -> m.op = "documents" => \A d \in answer.expected.documents :
            Held(answer.expected.by, <<d, "document.read">>, Len(grants) + 1)

\* What a person from outside did rests on what was granted before
\* (RightsComeFromTheOperator, CommentsAreGranted), and a success that was answered
\* is on record (AccessOnRecord).
OnlyGrantedActs ==
    /\ AccessTypeOK /\ RightsComeFromTheOperator /\ CommentsAreGranted
    /\ answer # None => AccessOnRecord(answer.command)

=============================================================================
