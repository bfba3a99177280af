------------------------------ MODULE TokenAuth ------------------------------
(***************************************************************************)
(* verify_token (app/identity/auth.py), which webhook() calls for a        *)
(* request with a token and a nonce, against the life of the two kinds of  *)
(* tokens: webhook tokens (table tokens, app/identity/token_store.py) and  *)
(* API tokens (table api_tokens, app/identity/routes.py 388-485).  The     *)
(* requests and the handlers that edit an API token run in several threads *)
(* and processes; their SQL statements interleave.                         *)
(*                                                                         *)
(* Which nonces are new is the subject of NonceStore and how the rate is   *)
(* counted that of TokenRate: here either may refuse any request.          *)
(***************************************************************************)
EXTENDS Naturals, UnitOfWork

CONSTANTS
    Tokens,     \* strings that may be issued as a token, of either kind
    Roles,
    Requests,   \* calls of verify_token
    Edits,      \* calls of revoke_token_route and update_token_route
    Lifetimes,  \* values of ttl and expires_in
    TokenTtl,   \* settings.TOKEN_TTL
    Horizon,    \* bound on the clock
    None

ASSUME LifetimesAssumption == Lifetimes \subseteq Nat /\ TokenTtl \in Nat
ASSUME CallsAssumption == Requests \cap Edits = {}

VARIABLES
    clock,
    issued,     \* tokens that were given out
    hooks,      \* table tokens: expires_at, None without a row
    rows,       \* table api_tokens, None without a row
    roles,      \* active rows of user_roles of the tokens' owner
    usage,      \* table token_usage_log: rows written by each request
    step,       \* where each call is
    token,      \* the token it is about
    loaded,     \* the row of api_tokens as the call has read it
    dirty,      \* the same object as an edit left it
    granted     \* history: the role restrictions under which the token could
                \* be used at some moment of the request

tables == <<issued, hooks, rows, roles, usage>>
calls == <<step, token, loaded, dirty>>
vars == <<clock, tables, calls, granted>>

Calls == Requests \cup Edits

Row == [revoked : BOOLEAN, expires : Nat \cup {None},
        allowed : SUBSET Roles, used : Nat \cup {None}]

ASSUME NoneAssumption ==
    None \notin Nat \cup BOOLEAN \cup Tokens \cup Row /\ \A a \in SUBSET Roles : None # a

Waiting == {"hook", "find", "nonce", "roles", "log", "write"}
Ended == {"accepted", "refused", "failed", "done"}

TypeOK ==
    /\ clock \in Nat
    /\ issued \subseteq Tokens
    /\ hooks \in [Tokens -> Nat \cup {None}]
    /\ rows \in [Tokens -> Row \cup {None}]
    /\ roles \subseteq Roles
    /\ usage \in [Requests -> Nat]
    /\ step \in [Calls -> {"idle"} \cup Waiting \cup Ended]
    /\ token \in [Calls -> Tokens \cup {None}]
    /\ loaded \in [Calls -> Row \cup {None}]
    /\ dirty \in [Edits -> Row \cup {None}]
    /\ granted \in [Requests -> SUBSET SUBSET Roles]

Init ==
    /\ clock = 0
    /\ issued = {}
    /\ hooks = [t \in Tokens |-> None]
    /\ rows = [t \in Tokens |-> None]
    /\ roles = {}
    /\ usage = [r \in Requests |-> 0]
    /\ step = [c \in Calls |-> "idle"]
    /\ token = [c \in Calls |-> None]
    /\ loaded = [c \in Calls |-> None]
    /\ dirty = [e \in Edits |-> None]
    /\ granted = [r \in Requests |-> {}]

Tick ==
    /\ clock < Horizon
    /\ clock' = clock + 1
    /\ UNCHANGED <<tables, calls>>

Go(c, s) == step' = [step EXCEPT ![c] = s]

-----------------------------------------------------------------------------
(* Tokens are given out: token_hex never repeats one.                      *)

Lasts(ttl) == IF ttl = 0 THEN TokenTtl ELSE ttl

IssueHook(t, ttl) ==
    /\ t \notin issued
    /\ issued' = issued \cup {t}
    /\ hooks' = [hooks EXCEPT ![t] = clock + Lasts(ttl)]
    /\ UNCHANGED <<clock, rows, roles, usage, calls>>

RevokeHook(t) ==
    /\ hooks[t] # None
    /\ hooks' = [hooks EXCEPT ![t] = None]
    /\ UNCHANGED <<clock, issued, rows, roles, usage, calls>>

\* Without expires_in, or with 0, the token never expires.
Expiry(expires_in) == IF expires_in = 0 THEN None ELSE clock + expires_in

IssueToken(t, expires_in, allowed) ==
    /\ t \notin issued
    /\ issued' = issued \cup {t}
    /\ rows' = [rows EXCEPT ![t] =
                  [revoked |-> FALSE, expires |-> Expiry(expires_in),
                   allowed |-> allowed, used |-> None]]
    /\ UNCHANGED <<clock, hooks, roles, usage, calls>>

AssignRole(a) ==
    /\ a \notin roles
    /\ roles' = roles \cup {a}
    /\ UNCHANGED <<clock, issued, hooks, rows, usage, calls>>

-----------------------------------------------------------------------------
(* The owner edits an API token.  An ask has None for every field that the *)
(* request does not send; is_revoked may be sent as null, which counts as  *)
(* revoked wherever the column is read.                                    *)

Ask == [revoked : {None} \cup BOOLEAN,
        expires : {None} \cup {clock + n : n \in Lifetimes},
        allowed : {None} \cup SUBSET Roles]

RevokeAsk == [revoked |-> TRUE, expires |-> None, allowed |-> None]

\* Mutant: is_revoked is written as null when it was not sent.
ChangedByDefaults(row, ask) == [row EXCEPT !.revoked = ask.revoked]

Changed(row, ask) ==
    [c \in DOMAIN row |->
        IF c \in DOMAIN ask /\ ask[c] # None THEN ask[c] ELSE row[c]]

Fetch(e, t, ask) ==
    /\ step[e] = "idle"
    /\ rows[t] # None
    /\ token' = [token EXCEPT ![e] = t]
    /\ loaded' = [loaded EXCEPT ![e] = rows[t]]
    /\ dirty' = [dirty EXCEPT ![e] = Changed(rows[t], ask)]
    /\ Go(e, "write")
    /\ UNCHANGED <<clock, tables>>

RevokeTokenRoute(e, t) == Fetch(e, t, RevokeAsk)

UpdateTokenRoute(e, t) == \E ask \in Ask : Fetch(e, t, ask)

\* The handler has returned or raised; its object is gone.
Leave(e) ==
    /\ Go(e, "done")
    /\ token' = [token EXCEPT ![e] = None]
    /\ loaded' = [loaded EXCEPT ![e] = None]
    /\ dirty' = [dirty EXCEPT ![e] = None]

\* Mutant: the whole object is written back.
WriteAll(e) ==
    /\ step[e] = "write"
    /\ rows' = [rows EXCEPT ![token[e]] = dirty[e]]
    /\ Leave(e)
    /\ UNCHANGED <<clock, issued, hooks, roles, usage>>

Write(e) ==
    /\ step[e] = "write"
    /\ rows' = [rows EXCEPT ![token[e]] = Flush(@, loaded[e], dirty[e])]
    /\ Leave(e)
    /\ UNCHANGED <<clock, issued, hooks, roles, usage>>

\* No such token of this user, a null that a column or timedelta refuses, a
\* locked database, or the death of the process: nothing is written.
EditFails(e) ==
    /\ step[e] \in {"idle", "write"}
    /\ Leave(e)
    /\ UNCHANGED <<clock, tables>>

-----------------------------------------------------------------------------
(* verify_token                                                            *)

Begin(r, t, s) ==
    /\ step[r] = "idle"
    /\ token' = [token EXCEPT ![r] = t]
    /\ Go(r, s)
    /\ UNCHANGED <<clock, issued, rows, roles, usage, loaded, dirty>>

HookUsable(t) == hooks[t] # None /\ hooks[t] >= clock

HookFound(r, t) ==
    /\ HookUsable(t)
    /\ Begin(r, t, "hook")
    /\ UNCHANGED hooks

HookMissing(r, t) ==
    /\ hooks[t] = None
    /\ Begin(r, t, "find")
    /\ UNCHANGED hooks

\* An expired webhook token is deleted when it is seen.
HookExpired(r, t) ==
    /\ hooks[t] # None /\ ~HookUsable(t)
    /\ Begin(r, t, "find")
    /\ hooks' = [hooks EXCEPT ![t] = None]

Unexpired(row) == row.expires # None => row.expires >= clock

\* Mutant: the SELECT does not ask for is_revoked == False.
FoundByHash(row) == row # None

Found(row) == row # None /\ ~row.revoked

Find(r) ==
    /\ step[r] = "find"
    /\ Found(rows[token[r]]) /\ Unexpired(rows[token[r]])
    /\ loaded' = [loaded EXCEPT ![r] = rows[token[r]]]
    /\ Go(r, "nonce")
    /\ UNCHANGED <<clock, tables, token, dirty>>

End(r, s) ==
    /\ Go(r, s)
    /\ token' = [token EXCEPT ![r] = None]
    /\ loaded' = [loaded EXCEPT ![r] = None]
    /\ UNCHANGED dirty

\* The token is unknown, revoked or expired, or its rate is exceeded.
FindNone(r) ==
    /\ step[r] = "find"
    /\ End(r, "refused")
    /\ UNCHANGED <<clock, tables>>

NonceNew(r) ==
    /\ step[r] \in {"hook", "nonce"}
    /\ Go(r, IF step[r] = "hook" THEN "accepted" ELSE "roles")
    /\ UNCHANGED <<clock, tables, token, loaded, dirty>>

NonceSeen(r) ==
    /\ step[r] \in {"hook", "nonce"}
    /\ End(r, "refused")
    /\ UNCHANGED <<clock, tables>>

\* Mutant: every user has some role.
AnyRole(row) == TRUE

RoleHeld(row) == row.allowed = {} \/ row.allowed \cap roles # {}

RolesHeld(r) ==
    /\ step[r] = "roles"
    /\ RoleHeld(loaded[r])
    /\ Go(r, "log")
    /\ UNCHANGED <<clock, tables, token, loaded, dirty>>

RoleMissing(r) ==
    /\ step[r] = "roles"
    /\ ~RoleHeld(loaded[r])
    /\ End(r, "refused")
    /\ UNCHANGED <<clock, tables>>

\* Mutant: the whole object is written back.
Overwrite(row, was) == [was EXCEPT !.used = clock]

MarkUsed(row, was) == Flush(row, was, [was EXCEPT !.used = clock])

\* last_used_at and the log entry are committed together.
Commit(r) ==
    /\ step[r] = "log"
    /\ rows' = [rows EXCEPT ![token[r]] = MarkUsed(@, loaded[r])]
    /\ usage' = [usage EXCEPT ![r] = @ + 1]
    /\ Go(r, "accepted")
    /\ UNCHANGED <<clock, issued, hooks, roles, token, loaded, dirty>>

CommitFails(r) ==
    /\ step[r] = "log"
    /\ End(r, "refused")
    /\ UNCHANGED <<clock, tables>>

\* An error that nobody catches (sqlite3's own, from the tables of tokens and
\* nonces), or the death of the process.
Fails(r) ==
    /\ step[r] \in Waiting
    /\ End(r, "failed")
    /\ UNCHANGED <<clock, tables>>

Request(r) ==
    \/ \E t \in Tokens : HookFound(r, t) \/ HookMissing(r, t) \/ HookExpired(r, t)
    \/ Find(r) \/ FindNone(r)
    \/ NonceNew(r) \/ NonceSeen(r)
    \/ RolesHeld(r) \/ RoleMissing(r)
    \/ Commit(r) \/ CommitFails(r) \/ Fails(r)

Edit(e) ==
    \/ \E t \in Tokens : RevokeTokenRoute(e, t) \/ UpdateTokenRoute(e, t)
    \/ Write(e) \/ EditFails(e)

\* All calls have ended.
Finished ==
    /\ \A c \in Calls : step[c] \in Ended
    /\ UNCHANGED <<clock, tables, calls>>

Step ==
    \/ Tick \/ Finished
    \/ \E t \in Tokens, n \in Lifetimes :
          IssueHook(t, n) \/ \E a \in SUBSET Roles : IssueToken(t, n, a)
    \/ \E t \in Tokens : RevokeHook(t)
    \/ \E a \in Roles : AssignRole(a)
    \/ \E r \in Requests : Request(r)
    \/ \E e \in Edits : Edit(e)

-----------------------------------------------------------------------------
(* The history: what a token permits now, and has permitted to a request.  *)

Permits(t) ==
    {a \in SUBSET Roles :
        \/ HookUsable(t) /\ a = {}
        \/ /\ rows[t] # None /\ ~rows[t].revoked /\ Unexpired(rows[t])
           /\ a = rows[t].allowed}

Running(r) == step[r] \in Waiting

Remember ==
    granted' = [r \in Requests |->
        {a \in SUBSET Roles : \E t \in Tokens :
            t = token'[r] /\ (a \in granted[r] \/ (Running(r)' /\ a \in Permits(t)'))}]

Next == Step /\ Remember

Spec == Init /\ [][Next]_vars
-----------------------------------------------------------------------------
(* Properties                                                              *)

\* A request is accepted only if, at some moment while it ran, its token was
\* issued, not revoked and not expired, under a restriction that its owner
\* meets: whatever was edited meanwhile, a request that starts after the
\* revocation or the expiry of its token is refused.
AcceptedWasPermitted ==
    \A r \in Requests : step[r] = "accepted" =>
        \E a \in granted[r] : a = {} \/ a \cap roles # {}

\* A revocation is lifted only by an edit that has seen it and says so: not by
\* the use of the token, and not by an edit or a use that began before it.
RevocationSticks ==
    [][\A t \in Tokens : (rows[t] # None /\ rows[t].revoked /\ ~rows'[t].revoked) =>
          \E e \in Edits : /\ step[e] = "write" /\ token[e] = t
                           /\ loaded[e].revoked /\ ~dirty[e].revoked]_vars

\* Every accepted use of an API token has one entry in the log and shows in
\* last_used_at, and no other request has: no edit takes that away.
UseIsRecorded ==
    \A r \in Requests :
        IF step[r] = "accepted" /\ loaded[r] # None
        THEN usage[r] = 1 /\ rows[token[r]].used # None
        ELSE usage[r] = 0
=============================================================================
