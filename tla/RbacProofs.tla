------------------------------ MODULE RbacProofs ------------------------------
(***************************************************************************)
(* Proofs about Rbac, for any users, roles, requests and edits.  While a   *)
(* check is under way, Checks says what its request remembers of tables    *)
(* that others change: as long as they changed once at most, the roles it  *)
(* read give the answer of some moment; Lifecycle ties the rest of a       *)
(* request to the line it is at.                                           *)
(***************************************************************************)
EXTENDS Rbac, TLAPS

MayNow(q) == May(user_roles, role_permissions, caller[q], Required[endpoint[q]])

Checks(q) ==
    /\ step[q] \in {"roles", "count"} => MayNow(q) \in seen[q]
    /\ step[q] = "count" /\ changes[q] = 0 => role_ids[q] = ActiveRoles(user_roles, caller[q])
    /\ step[q] = "count" /\ changes[q] < 2 =>
          Grants(role_permissions, role_ids[q], Required[endpoint[q]]) \in seen[q]
    /\ step[q] \in {"log", "handler", "insert", "ended"} /\ caller[q] # None /\ changes[q] < 2 =>
          allowed[q] \in seen[q]

Lifecycle(q) ==
    /\ step[q] \notin {"idle", "ended"} => caller[q] \in Users /\ endpoint[q] \in Endpoints
    /\ step[q] = "idle" => changes[q] = 0 /\ caller[q] = None
    /\ step[q] \in {"handler", "insert"} => audit[q] = "granted"
    /\ step[q] = "insert" => target[q] # None
    /\ q \in made \/ user_roles[q] # None => step[q] = "ended" /\ audit[q] = "granted"

IInv == TypeOK /\ (\A q \in Requests : Checks(q)) /\ (\A q \in Requests : Lifecycle(q))

-----------------------------------------------------------------------------
\* What the two queries find together, they find one after the other.
LEMMA TwoQueries ==
    ASSUME NEW rows, NEW grants, NEW u, NEW p
    PROVE  May(rows, grants, u, p) = Grants(grants, ActiveRoles(rows, u), p)
  BY DEF May, Grants, ActiveRoles

LEMMA InitIInv == Init => IInv
<1> SUFFICES ASSUME Init PROVE IInv
  OBVIOUS
<1>1. TypeOK
  BY EditsAssumption DEF Init, TypeOK
<1>2. \A q \in Requests : Checks(q) /\ Lifecycle(q)
  BY DEF Init, Checks, Lifecycle, Rows
<1> QED BY <1>1, <1>2 DEF IInv

\* A step of q that leaves the tables of the check alone does not touch the
\* other requests.
LEMMA OthersKept ==
    ASSUME IInv, NEW q \in Requests,
           UNCHANGED <<role_permissions, user_roles>>, TypeOK', Checks(q)', Lifecycle(q)',
           \A x \in Requests \ {q} :
               /\ step'[x] = step[x] /\ caller'[x] = caller[x] /\ endpoint'[x] = endpoint[x]
               /\ role_ids'[x] = role_ids[x] /\ allowed'[x] = allowed[x]
               /\ audit'[x] = audit[x] /\ target'[x] = target[x]
               /\ seen'[x] = seen[x] /\ changes'[x] = changes[x]
               /\ x \in made' <=> x \in made
    PROVE  IInv'
<1> SUFFICES ASSUME NEW x \in Requests, x # q PROVE Checks(x)' /\ Lifecycle(x)'
  BY DEF IInv
<1>1. x \in Requests \ {q} /\ Checks(x) /\ Lifecycle(x)
  BY DEF IInv
<1>2. Checks(x)'
  BY <1>1 DEF Checks, MayNow
<1>3. Lifecycle(x)'
  BY <1>1 DEF Lifecycle
<1> QED BY <1>2, <1>3

\* Whatever changes in the tables, a check under way sees it; and one change
\* is either of the roles or of their permissions.
LEMMA ObservedChange ==
    ASSUME IInv, Observe, TypeOK', UNCHANGED check,
           role_permissions' = role_permissions \/ user_roles' = user_roles,
           NEW x \in Requests,
           step'[x] = step[x] \/ (step[x] = "insert" /\ step'[x] = "ended")
    PROVE  Checks(x)'
<1> DEFINE p == Required[endpoint[x]]
           u == caller[x]
<1>1. Checks(x) /\ Lifecycle(x) /\ TypeOK
  BY DEF IInv
<1>2. MayNow(x)' = May(user_roles', role_permissions', u, p)
  BY DEF MayNow, check
<1>3. CASE step[x] \in {"roles", "count"}
  <2>1. /\ changes'[x] = IF changes[x] < 2 THEN changes[x] + 1 ELSE changes[x]
        /\ seen'[x] = seen[x] \cup {May(user_roles', role_permissions', u, p)}
        /\ step'[x] = step[x]
    BY <1>3 DEF Observe
  <2>2. MayNow(x)' \in seen'[x]
    BY <2>1, <1>2
  <2>3. changes'[x] # 0 /\ (changes'[x] < 2 => changes[x] = 0)
    BY <2>1, <1>1 DEF TypeOK
  <2>4. ASSUME step[x] = "count", changes'[x] < 2
        PROVE  Grants(role_permissions', role_ids[x], p) \in seen'[x]
    <3>1. CASE role_permissions' = role_permissions
      BY <3>1, <2>1, <2>3, <2>4, <1>1 DEF Checks
    <3>2. CASE user_roles' = user_roles
      <4>1. role_ids[x] = ActiveRoles(user_roles', u)
        BY <3>2, <2>3, <2>4, <1>1 DEF Checks
      <4>2. Grants(role_permissions', role_ids[x], p) = May(user_roles', role_permissions', u, p)
        BY <4>1, TwoQueries
      <4> QED BY <4>2, <2>1
    <3> QED BY <3>1, <3>2
  <2> QED BY <2>1, <2>2, <2>3, <2>4, <1>3 DEF Checks, check
<1>4. CASE step[x] \notin {"roles", "count"}
  <2>1. changes'[x] = changes[x] /\ seen'[x] = seen[x]
    BY <1>4 DEF Observe
  <2> QED BY <2>1, <1>1, <1>4 DEF Checks, check
<1> QED BY <1>3, <1>4

LEMMA ObserveTypes ==
    ASSUME TypeOK, Observe
    PROVE  seen' \in [Requests -> SUBSET BOOLEAN] /\ changes' \in [Requests -> 0..2]
<1>1. \A x \in Requests : changes[x] < 2 => changes[x] + 1 \in 0..2
  BY DEF TypeOK
<1>2. changes' \in [Requests -> 0..2]
  BY <1>1 DEF Observe, TypeOK
<1>3. seen' \in [Requests -> SUBSET BOOLEAN]
  BY DEF Observe, TypeOK, May
<1> QED BY <1>2, <1>3

-----------------------------------------------------------------------------
(* The check                                                               *)

LEMMA MiddlewareStep ==
    ASSUME IInv, NEW q \in Requests,
           \/ Unauthenticated(q) \/ ReadRoles(q) \/ CountPermissions(q) \/ Log(q) \/ LogFails(q)
           \/ \E u \in Users, e \in Endpoints : ReadUser(q, u, e)
    PROVE  IInv'
<1> USE NoneAssumption
<1>1. TypeOK /\ Checks(q) /\ Lifecycle(q)
  BY DEF IInv
<1>2. CASE Unauthenticated(q)
  <2>1. TypeOK' /\ Checks(q)' /\ Lifecycle(q)'
    BY <1>1, <1>2 DEF Unauthenticated, Go, TypeOK, Checks, Lifecycle, tables, check, history
  <2> QED BY <1>1, <1>2, <2>1, OthersKept DEF Unauthenticated, Go, TypeOK, tables, check, history
<1>3. CASE \E u \in Users, e \in Endpoints : ReadUser(q, u, e)
  <2> PICK u \in Users, e \in Endpoints : ReadUser(q, u, e)
    BY <1>3
  <2>1. /\ step[q] = "idle" /\ step'[q] = "roles" /\ caller'[q] = u /\ endpoint'[q] = e
        /\ seen'[q] = {May(user_roles, role_permissions, u, Required[e])}
        /\ UNCHANGED <<tables, audit, made, changes>>
    BY <1>1 DEF ReadUser, Go, TypeOK
  <2>2. TypeOK'
    BY <1>1 DEF ReadUser, Go, TypeOK, tables, May
  <2>3. Checks(q)'
    BY <2>1 DEF Checks, MayNow, tables
  <2>4. Lifecycle(q)'
    BY <1>1, <2>1 DEF Lifecycle, tables
  <2> QED BY <1>1, <2>2, <2>3, <2>4, OthersKept DEF ReadUser, Go, TypeOK, tables
<1>4. CASE ReadRoles(q)
  <2>1. /\ step[q] = "roles" /\ step'[q] = "count"
        /\ role_ids'[q] = ActiveRoles(user_roles, caller[q])
        /\ UNCHANGED <<tables, audit, caller, endpoint, allowed, target, edits, history>>
    BY <1>1, <1>4 DEF ReadRoles, Go, TypeOK
  <2>2. TypeOK'
    BY <1>1, <1>4 DEF ReadRoles, Go, TypeOK, tables, history, ActiveRoles
  <2>3. Grants(role_permissions, role_ids'[q], Required[endpoint[q]]) = MayNow(q)
    BY <2>1, TwoQueries DEF MayNow
  <2>4. Checks(q)'
    BY <1>1, <2>1, <2>3 DEF Checks, MayNow, tables, history
  <2>5. Lifecycle(q)'
    BY <1>1, <2>1 DEF Lifecycle, tables, history
  <2> QED BY <1>1, <1>4, <2>2, <2>4, <2>5, OthersKept DEF ReadRoles, Go, TypeOK, tables, history
<1>5. CASE CountPermissions(q)
  <2>1. /\ step[q] = "count" /\ step'[q] = "log"
        /\ allowed'[q] = Grants(role_permissions, role_ids[q], Required[endpoint[q]])
        /\ UNCHANGED <<tables, audit, caller, endpoint, role_ids, target, edits, history>>
    BY <1>1, <1>5 DEF CountPermissions, Go, TypeOK
  <2>2. TypeOK'
    BY <1>1, <1>5 DEF CountPermissions, Go, TypeOK, tables, history, Grants
  <2>3. Checks(q)'
    BY <1>1, <2>1 DEF Checks, history
  <2>4. Lifecycle(q)'
    BY <1>1, <2>1 DEF Lifecycle, tables, history
  <2> QED BY <1>1, <1>5, <2>2, <2>3, <2>4, OthersKept
          DEF CountPermissions, Go, TypeOK, tables, history
<1>6. CASE Log(q) \/ LogFails(q)
  <2>1. /\ step[q] = "log" /\ step'[q] \in {"handler", "ended"}
        /\ step'[q] = "handler" => audit'[q] = "granted"
        /\ UNCHANGED <<tables, check, target, edits, history>>
    BY <1>1, <1>6 DEF Log, LogFails, Go, TypeOK, check
  <2>2. TypeOK'
    BY <1>1, <1>6 DEF Log, LogFails, Go, TypeOK, tables, check, history
  <2>3. Checks(q)'
    BY <1>1, <2>1 DEF Checks, check, history
  <2>4. Lifecycle(q)'
    BY <1>1, <2>1 DEF Lifecycle, tables, check, history
  <2> QED BY <1>1, <1>6, <2>2, <2>3, <2>4, OthersKept
          DEF Log, LogFails, Go, TypeOK, tables, check, history
<1> QED BY <1>2, <1>3, <1>4, <1>5, <1>6

-----------------------------------------------------------------------------
(* The handlers, and the operator                                          *)

LEMMA HandlerStep ==
    ASSUME IInv, NEW q \in Requests,
           \/ \E r \in Roles : CreateRole(q, r) \/ \E u \in Users : AssignRole(q, u, r)
           \/ \E p \in Permissions : CreatePermission(q, p)
           \/ HandlerFails(q)
    PROVE  IInv'
<1> USE NoneAssumption
<1>1. TypeOK /\ Checks(q) /\ Lifecycle(q)
  BY DEF IInv
<1>2. CASE \/ \E r \in Roles : CreateRole(q, r)
           \/ \E p \in Permissions : CreatePermission(q, p)
  <2>1. /\ step[q] = "handler" /\ step'[q] = "ended"
        /\ made' = made \cup {q}
        /\ UNCHANGED <<role_permissions, user_roles, audit, check, seen, changes>>
    BY <1>1, <1>2 DEF CreateRole, CreatePermission, Go, TypeOK
  <2>2. TypeOK'
    BY <1>1, <1>2 DEF CreateRole, CreatePermission, Go, TypeOK, UserRole, check
  <2>3. Checks(q)'
    BY <1>1, <2>1 DEF Checks, check
  <2>4. Lifecycle(q)'
    BY <1>1, <2>1 DEF Lifecycle, check
  <2> QED BY <1>1, <1>2, <2>2, <2>3, <2>4, OthersKept
          DEF CreateRole, CreatePermission, Go, TypeOK, check
<1>3. CASE \E r \in Roles, u \in Users : AssignRole(q, u, r)
  <2> PICK r \in Roles, u \in Users : AssignRole(q, u, r)
    BY <1>3
  <2>1. /\ step[q] = "handler" /\ step'[q] = "insert"
        /\ target'[q] = <<u, r>>
        /\ UNCHANGED <<tables, audit, check, edits, history>>
    BY <1>1 DEF AssignRole, Go, TypeOK
  <2>2. TypeOK'
    BY <1>1 DEF AssignRole, Go, TypeOK, tables, check, history
  <2>3. Checks(q)'
    BY <1>1, <2>1 DEF Checks, check, history
  <2>4. Lifecycle(q)'
    BY <1>1, <2>1 DEF Lifecycle, tables, check, history
  <2> QED BY <1>1, <2>2, <2>3, <2>4, OthersKept
          DEF AssignRole, Go, TypeOK, tables, check, history
<1>4. CASE HandlerFails(q)
  <2>1. TypeOK' /\ Checks(q)' /\ Lifecycle(q)'
    BY <1>1, <1>4 DEF HandlerFails, Go, TypeOK, Checks, Lifecycle, tables, check, history
  <2> QED BY <1>1, <1>4, <2>1, OthersKept DEF HandlerFails, Go, TypeOK, tables, check, history
<1> QED BY <1>2, <1>3, <1>4

LEMMA InsertStep ==
    ASSUME IInv, NEW q \in Requests, InsertUserRole(q)
    PROVE  IInv'
<1> USE NoneAssumption
<1>1. TypeOK /\ Lifecycle(q)
  BY DEF IInv
<1>2. PICK row \in UserRole(roles) :
        /\ user_roles' = [user_roles EXCEPT ![q] = row]
        /\ step[q] = "insert" /\ step' = [step EXCEPT ![q] = "ended"]
        /\ made' = made \cup {q}
        /\ Observe
        /\ UNCHANGED <<users, roles, permissions, role_permissions, audit, check, target, edits>>
  <2>1. target[q] \in Users \X roles
    BY <1>1 DEF InsertUserRole, Lifecycle, TypeOK
  <2>2. [user |-> target[q][1], role |-> target[q][2], is_active |-> TRUE] \in UserRole(roles)
    BY <2>1 DEF UserRole
  <2> QED BY <2>2 DEF InsertUserRole, Go
<1>3. seen' \in [Requests -> SUBSET BOOLEAN] /\ changes' \in [Requests -> 0..2]
  BY <1>1, <1>2, ObserveTypes
<1>4. TypeOK'
  BY <1>1, <1>2, <1>3 DEF TypeOK, check, Rows
<1>5. \A x \in Requests : step'[x] = step[x] \/ (step[x] = "insert" /\ step'[x] = "ended")
  BY <1>1, <1>2 DEF TypeOK
<1>6. \A x \in Requests : Checks(x)'
  BY <1>2, <1>4, <1>5, ObservedChange
<1>7. ASSUME NEW x \in Requests PROVE Lifecycle(x)'
  <2>1. changes[x] = changes'[x] \/ step[x] \in {"roles", "count"}
    BY <1>2 DEF Observe
  <2>2. CASE x = q
    BY <2>1, <2>2, <1>1, <1>2 DEF Lifecycle, TypeOK, check, Rows
  <2>3. CASE x # q
    BY <2>1, <2>3, <1>2 DEF IInv, Lifecycle, TypeOK, check, Rows
  <2> QED BY <2>2, <2>3
<1> QED BY <1>4, <1>6, <1>7 DEF IInv

\* The operator's rows refer to known roles, and no request's row appears or
\* disappears.
Rewrites ==
    /\ role_permissions' \subseteq roles \X permissions
    /\ user_roles' \in [Rows -> UserRole(roles) \cup {None}]
    /\ \A q \in Requests : user_roles'[q] = None <=> user_roles[q] = None

LEMMA OperatorStep ==
    ASSUME IInv,
           \/ \E r \in Roles, p \in Permissions : Give(r, p) \/ Take(r, p)
           \/ \E i \in Seeds, u \in Users, r \in Roles : Assign(i, u, r)
           \/ \E i \in Rows : Withdraw(i)
    PROVE  IInv'
<1> USE NoneAssumption
<1>1. TypeOK
  BY DEF IInv
<1>2. Edit /\ (role_permissions' = role_permissions \/ user_roles' = user_roles)
  BY DEF Give, Take, Assign, Withdraw
<1>3. /\ UNCHANGED <<users, roles, permissions, audit, step, check, target, made>>
      /\ Observe
      /\ edits' \in 0..MaxEdits
  BY <1>1, <1>2, EditsAssumption DEF Edit, TypeOK
<1>4. Rewrites
  <2>1. ASSUME NEW r \in Roles, NEW p \in Permissions, Give(r, p) \/ Take(r, p) PROVE Rewrites
    BY <2>1, <1>1 DEF Give, Take, TypeOK, Rewrites
  <2>2. ASSUME NEW i \in Seeds, NEW u \in Users, NEW r \in Roles, Assign(i, u, r) PROVE Rewrites
    BY <2>2, <1>1, RowsAssumption DEF Assign, TypeOK, UserRole, Rows, Rewrites
  <2>3. ASSUME NEW i \in Rows, Withdraw(i) PROVE Rewrites
    <3> DEFINE row == [user_roles[i] EXCEPT !.is_active = FALSE]
    <3>1. user_roles' = [user_roles EXCEPT ![i] = row] /\ user_roles[i] # None
      BY <2>3 DEF Withdraw
    <3>2. user_roles[i] \in UserRole(roles)
      BY <3>1, <1>1 DEF TypeOK
    <3>3. row \in UserRole(roles)
      BY <3>2 DEF UserRole
    <3>4. row # None
      BY <3>3, <1>1 DEF TypeOK, UserRole
    <3> HIDE DEF row
    <3>5. role_permissions' = role_permissions
      BY <2>3 DEF Withdraw
    <3> QED BY <3>3, <3>1, <3>4, <3>5, <1>1 DEF TypeOK, Rewrites, Rows
  <2> QED BY <2>1, <2>2, <2>3
<1>5. TypeOK'
  BY <1>1, <1>3, <1>4, ObserveTypes DEF TypeOK, check, Rewrites
<1>6. \A x \in Requests : Checks(x)'
  BY <1>2, <1>3, <1>5, ObservedChange
<1>7. ASSUME NEW x \in Requests PROVE Lifecycle(x)'
  <2>1. changes[x] = changes'[x] \/ step[x] \in {"roles", "count"}
    BY <1>3 DEF Observe
  <2> QED BY <2>1, <1>3, <1>4 DEF IInv, Lifecycle, check, Rewrites
<1> QED BY <1>5, <1>6, <1>7 DEF IInv

LEMMA AccountStep ==
    ASSUME IInv, NEW u \in Users, DeleteAccount(u)
    PROVE  IInv'
<1>1. TypeOK'
  BY DEF IInv, TypeOK, DeleteAccount, check, history
<1>2. \A q \in Requests : Checks(q)' /\ Lifecycle(q)'
  BY DEF IInv, Checks, MayNow, Lifecycle, DeleteAccount, check, history
<1> QED BY <1>1, <1>2 DEF IInv

LEMMA StutterStep == IInv /\ UNCHANGED vars => IInv'
  BY DEF IInv, TypeOK, Checks, MayNow, Lifecycle, vars, tables, check, history

LEMMA NextIInv == IInv /\ [Next]_vars => IInv'
<1> SUFFICES ASSUME IInv, [Next]_vars PROVE IInv'
  OBVIOUS
<1>1. ASSUME NEW q \in Requests,
             \/ Unauthenticated(q) \/ ReadRoles(q) \/ CountPermissions(q) \/ Log(q) \/ LogFails(q)
             \/ \E u \in Users, e \in Endpoints : ReadUser(q, u, e)
      PROVE  IInv'
  BY <1>1, MiddlewareStep
<1>2. ASSUME NEW q \in Requests,
             \/ \E r \in Roles : CreateRole(q, r) \/ \E u \in Users : AssignRole(q, u, r)
             \/ \E p \in Permissions : CreatePermission(q, p)
             \/ HandlerFails(q)
      PROVE  IInv'
  BY <1>2, HandlerStep
<1>3. ASSUME NEW q \in Requests, InsertUserRole(q) PROVE IInv'
  BY <1>3, InsertStep
<1>4. ASSUME NEW u \in Users, DeleteAccount(u) PROVE IInv'
  BY <1>4, AccountStep
<1>5. CASE Finished \/ UNCHANGED vars
  BY <1>5, StutterStep DEF Finished
<1> QED BY <1>1, <1>2, <1>3, <1>4, <1>5, OperatorStep DEF Next

THEOREM Invariance == Spec => []IInv
  BY InitIInv, NextIInv, PTL DEF Spec

-----------------------------------------------------------------------------
\* The tables refer to nothing that does not exist, and the requests' variables
\* keep their types.
THEOREM TypeCorrect == Spec => []TypeOK
<1>1. IInv => TypeOK
  BY DEF IInv
<1> QED BY <1>1, Invariance, PTL

\* PermissionMiddleware decides as the tables said at one moment of its check,
\* if they changed once at most while it went on.
THEOREM DecisionsAreRight == Spec => []DecisionHadItsMoment
<1>1. IInv => DecisionHadItsMoment
  <2> SUFFICES ASSUME IInv, NEW q \in Requests, step[q] \notin {"idle", "roles", "count"},
                      caller[q] # None, changes[q] < 2
               PROVE  allowed[q] \in seen[q]
    BY DEF DecisionHadItsMoment
  <2> QED BY DEF IInv, TypeOK, Checks
<1> QED BY <1>1, Invariance, PTL

\* No handler changes anything without an entry "granted" in the audit log.
THEOREM ChangesAreAudited == Spec => []ChangeWasAudited
<1>1. IInv => ChangeWasAudited
  BY DEF IInv, Lifecycle, ChangeWasAudited
<1> QED BY <1>1, Invariance, PTL
=============================================================================
