-------------------------------- MODULE Access --------------------------------
(***************************************************************************)
(* Who may call what: the guards in front of the endpoints (JwtAuthGuard   *)
(* with JwtStrategy, SseJwtGuard, RolesGuard, PermissionsGuard,            *)
(* TestnetOnlyGuard), and the handlers that change what the guards read:   *)
(* roles, role assignments and the deletion of accounts.  Which handler    *)
(* takes which request, and what it asks for, is in module Endpoints.      *)
(* Handlers that touch neither users nor roles are served without effect   *)
(* here; the modules of their components say what they do.                 *)
(***************************************************************************)
EXTENDS Naturals, FiniteSets

CONSTANTS
    Users,      \* accounts; their rows are soft-deleted, never removed
    Admin,      \* the first administrator
    Roles,      \* ids of rows of roles
    AdminRole,  \* the role it has
    Requests,   \* what there is to ask for: RequestsWhere of module Endpoints
    Workers,    \* requests being served at a time
    MaxCalls    \* bound: requests that change users or roles

Permissions == {"manage_roles", "assign_roles"}
NoRole == "none"

(***************************************************************************)
(* State                                                                   *)
(***************************************************************************)
VARIABLES
    users,    \* rows of users: roles, roleId, deletedAt as a flag
    roles,    \* rows of roles
    call,     \* per worker, the request it serves
    ever,     \* history, per worker: what its caller has had since the request came
    raced,    \* history: a row's roleId was saved around the removal of that role
    calls     \* requests so far
vars == <<users, roles, call, ever, raced, calls>>

RoleIds == Roles \cup {NoRole}
UserRows == [roles : SUBSET {"ADMIN", "USER"}, roleId : RoleIds, deleted : BOOLEAN]
RoleRows == [state : {"unborn", "stored", "removed"}, permissions : SUBSET Permissions]

Idle == [stage |-> "idle"]
NoCopy == [stage |-> "not read"]
UserWorks == {"assignRole", "softDelete", "restore", "edit"}
RoleWorks == {"createRole", "updateRole", "deleteRole"}
Nothing == [roles |-> {}, roleIds |-> {}, granted |-> {}]

Stages == {"authenticate", "permit", "find", "check", "save"}
Works == UserWorks \cup RoleWorks \cup {"none"}
Calls == [stage : Stages, request : Requests, work : Works, by : Users, user : Users, role : RoleIds,
          grant : SUBSET Permissions, seen : RoleIds, copy : UserRows \cup RoleRows \cup {NoCopy}]

TypeOK ==
    /\ users \in [Users -> UserRows]
    /\ roles \in [Roles -> RoleRows]
    /\ raced \in [Users -> BOOLEAN]
    /\ calls \in 0 .. MaxCalls
    /\ \A w \in Workers : call[w] = Idle \/ call[w] \in Calls

(* One administrator, in roles and by a role with both permissions. *)
Init ==
    /\ users = [u \in Users |-> IF u = Admin
                   THEN [roles |-> {"ADMIN"}, roleId |-> AdminRole, deleted |-> FALSE]
                   ELSE [roles |-> {"USER"}, roleId |-> NoRole, deleted |-> FALSE]]
    /\ roles = [x \in Roles |-> IF x = AdminRole
                   THEN [state |-> "stored", permissions |-> Permissions]
                   ELSE [state |-> "unborn", permissions |-> {}]]
    /\ call = [w \in Workers |-> Idle]
    /\ ever = [w \in Workers |-> Nothing]
    /\ raced = [u \in Users |-> FALSE]
    /\ calls = 0

(***************************************************************************)
(* History                                                                 *)
(***************************************************************************)
\* what u has when its row and the roles are as given
Has(u, us, rs) ==
    [roles |-> us[u].roles, roleIds |-> {us[u].roleId},
     granted |-> {g \in Roles \X Permissions :
                      rs[g[1]].state = "stored" /\ g[2] \in rs[g[1]].permissions}]

\* the rows become us and rs: every caller has what it had, and what it has now
Rows(us, rs) ==
    /\ users' = us /\ roles' = rs
    /\ ever' = [v \in Workers |->
           IF call[v] = Idle \/ ~call[v].request.admin THEN Nothing
           ELSE LET now == Has(call[v].by, us, rs)
                IN [roles |-> ever[v].roles \cup now.roles,
                    roleIds |-> ever[v].roleIds \cup now.roleIds,
                    granted |-> ever[v].granted \cup now.granted]]

Finish(w) == call' = [call EXCEPT ![w] = Idle]
Goto(w, stage) == call' = [call EXCEPT ![w].stage = stage]

(***************************************************************************)
(* The request                                                             *)
(***************************************************************************)
Targets(q, u) ==
    IF q.work \in UserWorks /\ (q.names = "any" \/ (q.names /= "own" /\ "ADMIN" \in users[u].roles))
    THEN Users ELSE {u}
RolesNamed(q) == IF q.work \in RoleWorks \cup {"assignRole"} THEN Roles ELSE {NoRole}
Grants(q) == IF q.work \in {"createRole", "updateRole"} THEN SUBSET Permissions ELSE {{}}

(* The throttler in front of the guards is in module Throttling. *)
Arrive(w) ==
    /\ call[w] = Idle
    /\ calls < MaxCalls
    /\ \E u \in Users, q \in Requests :
        /\ \E user \in Targets(q, u), role \in RolesNamed(q), grant \in Grants(q) :
            call' = [call EXCEPT ![w] =
                [stage |-> "authenticate", request |-> q, work |-> q.work, by |-> u,
                 user |-> user, role |-> role, grant |-> grant, seen |-> NoRole, copy |-> NoCopy]]
        /\ ever' = [ever EXCEPT ![w] = IF q.admin THEN Has(u, users, roles) ELSE Nothing]
    /\ calls' = calls + 1
    /\ UNCHANGED <<users, roles, raced>>

\* every signed-in caller is let in
AdmitsAll(needs, row) == TRUE

\* RolesGuard
Admits(needs, row) == needs = {} \/ needs \cap row.roles /= {}

(* JwtStrategy.validate and validateUser read the caller's row: findOne's  *)
(* deletedAt: null is no condition to TypeORM, so a deleted row is found.  *)
(* RolesGuard decides on that copy without another await.                  *)

Authenticate(w) ==
    /\ call[w].stage = "authenticate"
    /\ LET row == users[call[w].by]
       IN IF Admits(call[w].request.roles, row)
          THEN call' = [call EXCEPT ![w].stage = IF call[w].request.permissions = {} THEN "find" ELSE "permit",
                                 ![w].seen = IF call[w].request.permissions = {} THEN NoRole ELSE row.roleId]
          ELSE Finish(w)
    /\ Rows(users, roles)
    /\ UNCHANGED <<raced, calls>>

(* PermissionsGuard.canActivate: the role of that copy, as it is stored by now. *)
Permit(w) ==
    /\ call[w].stage = "permit"
    /\ LET r == call[w].seen
       IN IF /\ r \in Roles /\ roles[r].state = "stored"
             /\ call[w].request.permissions \subseteq roles[r].permissions
          THEN call' = [call EXCEPT ![w].stage = "find", ![w].seen = NoRole]
          ELSE Finish(w)
    /\ Rows(users, roles)
    /\ UNCHANGED <<raced, calls>>

(***************************************************************************)
(* The handlers                                                            *)
(***************************************************************************)
\* any handler that reads and writes neither users nor roles
Serve(w) ==
    /\ call[w].stage = "find" /\ call[w].work = "none"
    /\ Finish(w)
    /\ Rows(users, roles)
    /\ UNCHANGED <<raced, calls>>

(* The handler's copy of the user's row, in every method a findOne: update *)
(* and updateRateLimit, unlockAccount, softDelete, restore (whose          *)
(* deletedAt: null is no condition either), assignRole.                    *)
FindUser(w) ==
    /\ call[w].stage = "find" /\ call[w].work \in UserWorks
    /\ call' = [call EXCEPT ![w].copy = users[call[w].user],
                            ![w].stage = IF call[w].work = "assignRole" THEN "check" ELSE "save"]
    /\ Rows(users, roles)
    /\ UNCHANGED <<raced, calls>>

\* assignRole: the role must exist
FindRole(w) ==
    /\ call[w].stage = "check" /\ call[w].work = "assignRole"
    /\ IF roles[call[w].role].state = "stored" THEN Goto(w, "save") ELSE Finish(w)
    /\ Rows(users, roles)
    /\ UNCHANGED <<raced, calls>>

Changed(work, copy, role) ==
    CASE work = "assignRole" -> [copy EXCEPT !.roleId = role]
      [] work = "softDelete" -> [copy EXCEPT !.deleted = TRUE]
      [] work = "restore" -> [copy EXCEPT !.deleted = FALSE]
      [] OTHER -> copy

\* a deletion of r has counted its users, or is done
Going(r) ==
    \/ roles[r].state /= "stored"
    \/ \E v \in Workers : call[v] /= Idle /\ call[v].work = "deleteRole"
                          /\ call[v].stage = "save" /\ call[v].role = r

\* the row takes the handler's copy, with what the handler changed in it
SaveUser(w) ==
    /\ call[w].stage = "save" /\ call[w].work \in UserWorks
    /\ LET row == Changed(call[w].work, call[w].copy, call[w].role)
       IN /\ Rows([users EXCEPT ![call[w].user] = row], roles)
          /\ raced' = [raced EXCEPT ![call[w].user] = row.roleId \in Roles /\ Going(row.roleId)]
    /\ Finish(w)
    /\ UNCHANGED calls

\* createRole: a fresh id
CreateRole(w) ==
    /\ call[w].stage = "find" /\ call[w].work = "createRole"
    /\ roles[call[w].role].state = "unborn"
    /\ Rows(users, [roles EXCEPT ![call[w].role] = [state |-> "stored", permissions |-> call[w].grant]])
    /\ Finish(w)
    /\ UNCHANGED <<raced, calls>>

\* updateRole, deleteRole: findOne, 404 unless the role is there
FindRoleRow(w) ==
    /\ call[w].stage = "find" /\ call[w].work \in {"updateRole", "deleteRole"}
    /\ IF roles[call[w].role].state = "stored"
       THEN call' = [call EXCEPT ![w].copy = roles[call[w].role],
                                 ![w].stage = IF call[w].work = "updateRole" THEN "save" ELSE "check"]
       ELSE Finish(w)
    /\ Rows(users, roles)
    /\ UNCHANGED <<raced, calls>>

\* updateRole saves its copy; a role removed meanwhile is inserted again
SaveRole(w) ==
    /\ call[w].stage = "save" /\ call[w].work = "updateRole"
    /\ Rows(users, [roles EXCEPT ![call[w].role] = [call[w].copy EXCEPT !.permissions = call[w].grant]])
    /\ Finish(w)
    /\ UNCHANGED <<raced, calls>>

\* counts only the accounts that are not deleted
UnassignedAlive(r) == \A u \in Users : users[u].deleted \/ users[u].roleId /= r

Unassigned(r) == \A u \in Users : users[u].roleId /= r

\* deleteRole: refused while a user has the role
CountUsers(w) ==
    /\ call[w].stage = "check" /\ call[w].work = "deleteRole"
    /\ IF Unassigned(call[w].role) THEN Goto(w, "save") ELSE Finish(w)
    /\ Rows(users, roles)
    /\ UNCHANGED <<raced, calls>>

RemoveRole(w) ==
    /\ call[w].stage = "save" /\ call[w].work = "deleteRole"
    /\ Rows(users, [roles EXCEPT ![call[w].role] = [state |-> "removed", permissions |-> {}]])
    /\ Finish(w)
    /\ UNCHANGED <<raced, calls>>

Next ==
    \E w \in Workers :
        \/ Arrive(w) \/ Authenticate(w) \/ Permit(w) \/ Serve(w)
        \/ FindUser(w) \/ FindRole(w) \/ SaveUser(w)
        \/ CreateRole(w) \/ FindRoleRow(w) \/ SaveRole(w) \/ CountUsers(w) \/ RemoveRole(w)

Spec == Init /\ [][Next]_vars

(***************************************************************************)
(* Properties                                                              *)
(***************************************************************************)
Admitted(w) == call[w] /= Idle /\ call[w].stage \notin {"authenticate", "permit"}

(* Whoever is served under an "admin" path has been an administrator, or   *)
(* has had a role that carried a permission, at some time since the        *)
(* request came in.  The two halves of the second need not have been true  *)
(* at once: the guards read the user and the role one after the other.     *)
AdminServedToAdmins ==
    \A w \in Workers : Admitted(w) /\ call[w].request.admin =>
        \/ "ADMIN" \in ever[w].roles
        \/ \E g \in ever[w].granted : g[1] \in ever[w].roleIds

(* A request is answered by the handler it is written for, except the one  *)
(* that deletes one's own account: DELETE users/me is declared after       *)
(* DELETE users/:id (users.controller.ts:327-367), which takes it.         *)
AnsweredAsWritten ==
    \A w \in Workers : call[w] /= Idle /\ call[w].request.astray => call[w].work = "softDelete"

(* A role that users have is not removed: an account names a role that is  *)
(* gone only if its row was saved while a deletion of the role had counted *)
(* its users (auth.service.ts:1084-1100), or with a copy from before that. *)
RolesInUseStay ==
    \A u \in Users : users[u].roleId \in Roles /\ roles[users[u].roleId].state /= "stored"
                     => raced[u]

(***************************************************************************)
(* The inductive invariant behind the three                                *)
(***************************************************************************)
\* What the table of endpoints must say: a path with "admin" in it asks for the
\* administrator's role or for a permission, and one request goes astray.
RequestsGuarded ==
    \A q \in Requests :
        /\ q.work \in Works
        /\ q.admin => IF q.permissions = {} THEN q.roles = {"ADMIN"} ELSE q.permissions \subseteq Permissions
        /\ q.astray => q.work = "softDelete"

\* What is right for a caller on its way stays so, and an account whose role a
\* deletion is about to remove was given it around that deletion.
InCall(w) ==
    LET c == call[w]
    IN  /\ c \in Calls /\ c.work = c.request.work
        /\ c.work \in RoleWorks \cup {"assignRole"} => c.role \in Roles
        /\ c.stage = "permit" => /\ c.request.permissions /= {}
                                 /\ c.request.admin => c.seen \in ever[w].roleIds
        /\ c.stage \in {"check", "save"} /\ c.work \in UserWorks => c.copy \in UserRows
        /\ c.stage = "save" /\ c.work = "updateRole" => c.copy \in RoleRows /\ c.copy.state = "stored"
        /\ c.stage = "save" /\ c.work = "deleteRole"
             => \A u \in Users : users[u].roleId = c.role => raced[u]

AccessInv ==
    /\ users \in [Users -> UserRows] /\ roles \in [Roles -> RoleRows] /\ raced \in [Users -> BOOLEAN]
    /\ DOMAIN call = Workers /\ DOMAIN ever = Workers
    /\ \A w \in Workers : call[w] = Idle \/ InCall(w)
    /\ AdminServedToAdmins /\ RolesInUseStay
===============================================================================
