--------------------------------- MODULE Rbac ---------------------------------
(***************************************************************************)
(* Roles and permissions (app/identity/permissions.py, routes.py 319-385). *)
(* PermissionMiddleware checks the caller of a protected endpoint in one   *)
(* session: it reads the user, then his roles, then whether one of them    *)
(* has the permission, and commits an entry of the audit log.  Then the    *)
(* handler runs in a session, and a thread, of its own.  Those that only   *)
(* read are left out.                                                      *)
(*                                                                         *)
(* Nothing in the program writes role_permissions or withdraws a role: an  *)
(* operator does that in the database, at any time.                        *)
(***************************************************************************)
EXTENDS Naturals

CONSTANTS
    Users, Roles,
    Requests,       \* of protected endpoints
    Seeds,          \* rows of user_roles that the operator inserts
    MaxEdits,       \* bound on the operator's changes
    None

ASSUME RowsAssumption == Seeds \cap Requests = {}
ASSUME EditsAssumption == MaxEdits \in Nat

Required ==
    [create_role |-> "role_management:write",
     assign_role |-> "role_management:write",
     create_permission |-> "permission_management:write"]

Endpoints == DOMAIN Required
Permissions == {Required[e] : e \in Endpoints}
Rows == Requests \cup Seeds

VARIABLES
    users, roles, permissions,  \* tables, by key
    role_permissions,
    user_roles,     \* by the request, or seed, that inserted the row
    audit,          \* permission_audit_log: the entry of each request
    step, caller, endpoint,     \* where each request is, and what it is
    role_ids,       \* the caller's roles, as they were read
    allowed,        \* the middleware's decision
    target,         \* the user and the role of assign_role
    edits,
    made,           \* history: the requests whose handler committed
    seen,           \* history: whether the caller had the permission at the
                    \* moments of the check,
    changes         \* and how many times (two or more) that could change

tables == <<users, roles, permissions, role_permissions, user_roles>>
check == <<caller, endpoint, role_ids, allowed>>
history == <<made, seen, changes>>
vars == <<tables, audit, step, check, target, edits, history>>

UserRole(known) == [user : Users, role : known, is_active : BOOLEAN]

ASSUME NoneAssumption ==
    /\ None \notin UserRole(Roles) /\ None \notin Users /\ None \notin Endpoints
    /\ None \notin Users \X Roles /\ None \notin {"granted", "denied"}

TypeOK ==
    /\ users \subseteq Users /\ roles \subseteq Roles /\ permissions \subseteq Permissions
    /\ role_permissions \subseteq roles \X permissions
    /\ user_roles \in [Rows -> UserRole(roles) \cup {None}]
    /\ audit \in [Requests -> {"granted", "denied", None}]
    /\ step \in [Requests -> {"idle", "roles", "count", "log", "handler", "insert", "ended"}]
    /\ caller \in [Requests -> Users \cup {None}]
    /\ endpoint \in [Requests -> Endpoints \cup {None}]
    /\ role_ids \in [Requests -> SUBSET Roles]
    /\ allowed \in [Requests -> BOOLEAN]
    /\ target \in [Requests -> (Users \X roles) \cup {None}]
    /\ edits \in 0..MaxEdits
    /\ made \subseteq Requests
    /\ seen \in [Requests -> SUBSET BOOLEAN]
    /\ changes \in [Requests -> 0..2]

Init ==
    /\ users = Users
    /\ roles \in SUBSET Roles /\ permissions \in SUBSET Permissions
    /\ role_permissions \in SUBSET (roles \X permissions)
    /\ user_roles = [i \in Rows |-> None]
    /\ audit = [q \in Requests |-> None]
    /\ step = [q \in Requests |-> "idle"]
    /\ caller = [q \in Requests |-> None]
    /\ endpoint = [q \in Requests |-> None]
    /\ role_ids = [q \in Requests |-> {}]
    /\ allowed = [q \in Requests |-> FALSE]
    /\ target = [q \in Requests |-> None]
    /\ edits = 0
    /\ made = {}
    /\ seen = [q \in Requests |-> {}]
    /\ changes = [q \in Requests |-> 0]

Go(q, s) == step' = [step EXCEPT ![q] = s]

-----------------------------------------------------------------------------
(* PermissionMiddleware.dispatch                                           *)

\* Mutant: withdrawn roles count.
AllRolesOf(rows, u) == {r \in Roles : \E i \in Rows : rows[i] # None /\ rows[i].user = u
                                                        /\ rows[i].role = r}

ActiveRoles(rows, u) ==
    {r \in Roles : \E i \in Rows : rows[i] = [user |-> u, role |-> r, is_active |-> TRUE]}

\* The number of matching role_permissions is positive.
Grants(grants, ids, p) == \E r \in ids : <<r, p>> \in grants

\* What the two queries ask together: the caller has an active role with the
\* permission.
May(rows, grants, u, p) ==
    \E i \in Rows, r \in Roles :
        rows[i] = [user |-> u, role |-> r, is_active |-> TRUE] /\ <<r, p>> \in grants

\* No bearer token (an exception), an invalid one, or an unknown user.
Unauthenticated(q) ==
    /\ step[q] = "idle"
    /\ Go(q, "ended")
    /\ UNCHANGED <<tables, audit, check, target, edits, history>>

ReadUser(q, u, e) ==
    /\ step[q] = "idle"
    /\ u \in users
    /\ caller' = [caller EXCEPT ![q] = u]
    /\ endpoint' = [endpoint EXCEPT ![q] = e]
    /\ seen' = [seen EXCEPT ![q] = {May(user_roles, role_permissions, u, Required[e])}]
    /\ Go(q, "roles")
    /\ UNCHANGED <<tables, audit, role_ids, allowed, target, edits, made, changes>>

ReadRoles(q) ==
    /\ step[q] = "roles"
    /\ role_ids' = [role_ids EXCEPT ![q] = ActiveRoles(user_roles, caller[q])]
    /\ Go(q, "count")
    /\ UNCHANGED <<tables, audit, caller, endpoint, allowed, target, edits, history>>

CountPermissions(q) ==
    /\ step[q] = "count"
    /\ allowed' = [allowed EXCEPT ![q] =
                     Grants(role_permissions, role_ids[q], Required[endpoint[q]])]
    /\ Go(q, "log")
    /\ UNCHANGED <<tables, audit, caller, endpoint, role_ids, target, edits, history>>

\* The answer is 403 unless the request is allowed.
Log(q) ==
    /\ step[q] = "log"
    /\ audit' = [audit EXCEPT ![q] = IF allowed[q] THEN "granted" ELSE "denied"]
    /\ Go(q, IF allowed[q] THEN "handler" ELSE "ended")
    /\ UNCHANGED <<tables, check, target, edits, history>>

\* Mutant: the request goes on without an entry.
LogSkipped(q) ==
    /\ step[q] = "log"
    /\ Go(q, IF allowed[q] THEN "handler" ELSE "ended")
    /\ UNCHANGED <<tables, audit, check, target, edits, history>>

LogFails(q) ==
    /\ step[q] = "log"
    /\ Go(q, "ended")
    /\ UNCHANGED <<tables, audit, check, target, edits, history>>

-----------------------------------------------------------------------------
(* The handlers                                                            *)

\* History: every check in progress sees what the tables say now.
Observe ==
    LET checking == {q \in Requests : step[q] \in {"roles", "count"}} IN
    /\ changes' = [q \in Requests |->
          IF q \in checking /\ changes[q] < 2 THEN changes[q] + 1 ELSE changes[q]]
    /\ seen' = [q \in Requests |->
          IF q \in checking
          THEN seen[q] \cup {May(user_roles', role_permissions', caller[q], Required[endpoint[q]])}
          ELSE seen[q]]

CreateRole(q, r) ==
    /\ step[q] = "handler" /\ endpoint[q] = "create_role"
    /\ r \notin roles
    /\ roles' = roles \cup {r}
    /\ made' = made \cup {q}
    /\ Go(q, "ended")
    /\ UNCHANGED <<users, permissions, role_permissions, user_roles, audit, check, target,
                   edits, seen, changes>>

CreatePermission(q, p) ==
    /\ step[q] = "handler" /\ endpoint[q] = "create_permission"
    /\ p \notin permissions
    /\ permissions' = permissions \cup {p}
    /\ made' = made \cup {q}
    /\ Go(q, "ended")
    /\ UNCHANGED <<users, roles, role_permissions, user_roles, audit, check, target,
                   edits, seen, changes>>

\* Mutant: the role is not looked up (SQLite does not check the foreign key).
AssignUnknown(q, u, r) ==
    /\ step[q] = "handler" /\ endpoint[q] = "assign_role"
    /\ u \in users
    /\ target' = [target EXCEPT ![q] = <<u, r>>]
    /\ Go(q, "insert")
    /\ UNCHANGED <<tables, audit, check, edits, history>>

AssignRole(q, u, r) ==
    /\ step[q] = "handler" /\ endpoint[q] = "assign_role"
    /\ u \in users /\ r \in roles
    /\ target' = [target EXCEPT ![q] = <<u, r>>]
    /\ Go(q, "insert")
    /\ UNCHANGED <<tables, audit, check, edits, history>>

\* The row may be a second one of its kind, and its user be gone.
InsertUserRole(q) ==
    /\ step[q] = "insert"
    /\ user_roles' = [user_roles EXCEPT ![q] =
          [user |-> target[q][1], role |-> target[q][2], is_active |-> TRUE]]
    /\ made' = made \cup {q}
    /\ UNCHANGED <<users, roles, permissions, role_permissions, audit, check, target, edits>>
    /\ Observe
    /\ Go(q, "ended")

\* An unknown user or role, a name that is taken, or an error of the database.
HandlerFails(q) ==
    /\ step[q] \in {"handler", "insert"}
    /\ Go(q, "ended")
    /\ UNCHANGED <<tables, audit, check, target, edits, history>>

\* delete_account (module Accounts has its statements).
DeleteAccount(u) ==
    /\ u \in users
    /\ \A i \in Rows : user_roles[i] # None => user_roles[i].user # u
    /\ users' = users \ {u}
    /\ UNCHANGED <<roles, permissions, role_permissions, user_roles, audit, step, check,
                   target, edits, history>>

-----------------------------------------------------------------------------
(* The operator                                                            *)

Edit ==
    /\ edits < MaxEdits
    /\ edits' = edits + 1
    /\ Observe
    /\ UNCHANGED <<users, roles, permissions, audit, step, check, target, made>>

Give(r, p) ==
    /\ r \in roles /\ p \in permissions
    /\ role_permissions' = role_permissions \cup {<<r, p>>}
    /\ UNCHANGED user_roles
    /\ Edit

Take(r, p) ==
    /\ role_permissions' = role_permissions \ {<<r, p>>}
    /\ UNCHANGED user_roles
    /\ Edit

Assign(i, u, r) ==
    /\ user_roles[i] = None
    /\ r \in roles
    /\ user_roles' = [user_roles EXCEPT ![i] = [user |-> u, role |-> r, is_active |-> TRUE]]
    /\ UNCHANGED role_permissions
    /\ Edit

Withdraw(i) ==
    /\ user_roles[i] # None
    /\ user_roles' = [user_roles EXCEPT ![i].is_active = FALSE]
    /\ UNCHANGED role_permissions
    /\ Edit

Finished ==
    /\ \A q \in Requests : step[q] = "ended"
    /\ UNCHANGED vars

Next ==
    \/ \E q \in Requests :
          \/ \E u \in Users, e \in Endpoints : ReadUser(q, u, e)
          \/ Unauthenticated(q) \/ ReadRoles(q) \/ CountPermissions(q) \/ Log(q) \/ LogFails(q)
          \/ \E r \in Roles : CreateRole(q, r) \/ \E u \in Users : AssignRole(q, u, r)
          \/ \E p \in Permissions : CreatePermission(q, p)
          \/ InsertUserRole(q) \/ HandlerFails(q)
    \/ \E u \in Users : DeleteAccount(u)
    \/ \E r \in Roles, p \in Permissions : Give(r, p) \/ Take(r, p)
    \/ \E i \in Seeds, u \in Users, r \in Roles : Assign(i, u, r)
    \/ \E i \in Rows : Withdraw(i)
    \/ Finished

Spec == Init /\ [][Next]_vars
-----------------------------------------------------------------------------
(* Properties                                                              *)

\* The check makes two queries, and the tables may change before, between and
\* after them.  If they change once, its decision is right for one moment of
\* the check.  (After two changes it need not be: a role taken from the caller
\* and then given the permission lets him pass who never had it.)
DecisionHadItsMoment ==
    \A q \in Requests : step[q] \notin {"idle", "roles", "count"} /\ caller[q] # None /\ changes[q] < 2 =>
        allowed[q] \in seen[q]

\* Whatever a handler changed was granted before, and the log says so: no
\* handler runs on a denied request, nor when the entry could not be written.
ChangeWasAudited ==
    \A q \in Requests : q \in made \/ user_roles[q] # None => audit[q] = "granted"
=============================================================================
