------------------------------ MODULE Accounts ------------------------------
(***************************************************************************)
(* User accounts (app/identity/routes.py 132-301): registration, e-mail    *)
(* verification, login, password reset, profile, MFA and deletion, by      *)
(* concurrent requests.  Each handler has a session of its own; one that   *)
(* needs a user gets the object that get_current_user has read in another  *)
(* session, which is closed.                                               *)
(*                                                                         *)
(* A token is a JWT of its subject and the second it expires at: two of    *)
(* one account and one second are the same.  The column reset stands for   *)
(* password_reset_token and password_reset_expires_at, which are written   *)
(* together.  Password hashes are salted: each is named by the call that   *)
(* made it (or None, before).  Columns that only carry data (names,        *)
(* picture, last login) are left out.                                      *)
(***************************************************************************)
EXTENDS Naturals, UnitOfWork

CONSTANTS
    Ids, Emails,
    Calls,      \* requests
    TokenLife,  \* expires_in of verification and reset tokens, in seconds
    Horizon,    \* bound on the clock
    None

ASSUME LifeAssumption == TokenLife \in Nat /\ Horizon \in Nat

VARIABLES
    clock,
    users,      \* table users, None without a row
    gone,       \* identifiers of deleted accounts
    children,   \* user_id of the rows of api_tokens, user_roles, kyc_verifications
    op, step, id, \* what a call does, where it is, and its account
    loaded, dirty, \* the user object as read, and as changed
    spent       \* history: reset tokens used, and not issued again since

tables == <<users, gone, children>>
calls == <<op, step, id, loaded, dirty>>
vars == <<clock, tables, calls, spent>>

Row == [email : Emails, password : Calls \cup {None}, email_verified : BOOLEAN,
        verification : Nat \cup {None}, reset : Nat \cup {None}, mfa_secret : BOOLEAN]

ASSUME NoneAssumption == None \notin Nat \cup Ids \cup Row

UserOps == {"profile", "picture", "mfa_setup", "mfa_disable", "issue_token", "delete"}
Ops == UserOps \cup {"register", "verify", "login", "forgot", "reset"}
Answers == {"ok", "refused", "raised", "failed"}

TypeOK ==
    /\ clock \in Nat
    /\ users \in [Ids -> Row \cup {None}]
    /\ gone \subseteq Ids
    /\ children \subseteq Ids
    /\ op \in [Calls -> Ops \cup {None}]
    /\ step \in [Calls -> {"idle", "insert", "write", "current", "delete"} \cup Answers]
    /\ id \in [Calls -> Ids \cup {None}]
    /\ loaded \in [Calls -> Row \cup {None}]
    /\ dirty \in [Calls -> Row \cup {None}]
    /\ spent \subseteq Ids \X Nat

\* Mutant: email_verified is left null until the address is verified.
NewUserUnset(e, c, standard) ==
    [email |-> e, password |-> c, email_verified |-> IF standard THEN None ELSE TRUE,
     verification |-> IF standard THEN clock + TokenLife ELSE None,
     reset |-> None, mfa_secret |-> FALSE]

NewUser(e, c, standard) ==
    [email |-> e, password |-> c, email_verified |-> ~standard,
     verification |-> IF standard THEN clock + TokenLife ELSE None,
     reset |-> None, mfa_secret |-> FALSE]

\* Whatever registrations run at the same time, an address has one account.
OneAccountPerEmail ==
    \A i, j \in Ids :
        users[i] # None /\ users[j] # None /\ users[i].email = users[j].email => i = j

\* The table may hold accounts that were registered before.
Init ==
    /\ clock = 0
    /\ users \in [Ids -> {None} \cup {NewUser(e, None, s) : e \in Emails, s \in BOOLEAN}]
    /\ OneAccountPerEmail
    /\ gone = {} /\ children = {}
    /\ op = [c \in Calls |-> None]
    /\ step = [c \in Calls |-> "idle"]
    /\ id = [c \in Calls |-> None]
    /\ loaded = [c \in Calls |-> None]
    /\ dirty = [c \in Calls |-> None]
    /\ spent = {}

Tick ==
    /\ clock < Horizon
    /\ clock' = clock + 1
    /\ UNCHANGED <<tables, calls, spent>>

Begin(c, o, s) ==
    /\ step[c] = "idle"
    /\ op' = [op EXCEPT ![c] = o]
    /\ step' = [step EXCEPT ![c] = s]
    /\ UNCHANGED <<clock, tables, spent>>

Answer(c, s) ==
    /\ step' = [step EXCEPT ![c] = s]
    /\ loaded' = [loaded EXCEPT ![c] = None]
    /\ dirty' = [dirty EXCEPT ![c] = None]
    /\ id' = [id EXCEPT ![c] = None]
    /\ UNCHANGED op

\* A row is read, and its object changed.
Fetch(c, i, row) ==
    /\ id' = [id EXCEPT ![c] = i]
    /\ loaded' = [loaded EXCEPT ![c] = users[i]]
    /\ dirty' = [dirty EXCEPT ![c] = row]

-----------------------------------------------------------------------------
(* register                                                                *)

Taken(e) == \E i \in Ids : users[i] # None /\ users[i].email = e

Register(c, e, standard) ==
    /\ ~Taken(e)
    /\ Begin(c, "register", "insert")
    /\ dirty' = [dirty EXCEPT ![c] = NewUser(e, c, standard)]
    /\ UNCHANGED <<id, loaded>>

RegisterTaken(c, e) ==
    /\ Taken(e)
    /\ Begin(c, None, "refused")
    /\ UNCHANGED <<id, loaded, dirty>>

\* Mutant: the address is checked by the SELECT only.
Unchecked(e) == TRUE

\* The unique constraint on the address.
Unique(e) == ~Taken(e)

Insert(c, i) ==
    /\ step[c] = "insert"
    /\ Unique(dirty[c].email)
    /\ users[i] = None /\ i \notin gone
    /\ users' = [users EXCEPT ![i] = dirty[c]]
    /\ Answer(c, "ok")
    /\ UNCHANGED <<clock, gone, children, spent>>

InsertConflicts(c) ==
    /\ step[c] = "insert"
    /\ ~Unique(dirty[c].email)
    /\ Answer(c, "raised")
    /\ UNCHANGED <<clock, tables, spent>>

InsertFails(c) ==
    /\ step[c] = "insert"
    /\ Answer(c, "failed")
    /\ UNCHANGED <<clock, tables, spent>>

-----------------------------------------------------------------------------
(* Handlers that change a row                                              *)

Valid(t) == t # None /\ clock < t

VerifyEmail(c, i) ==
    /\ users[i] # None /\ Valid(users[i].verification)
    /\ Begin(c, "verify", "write")
    /\ Fetch(c, i, [users[i] EXCEPT !.email_verified = TRUE, !.verification = None])

\* Only last_login_at changes.
Login(c, i) ==
    /\ users[i] # None
    /\ Begin(c, "login", "write")
    /\ Fetch(c, i, users[i])

ForgotPassword(c, i) ==
    /\ users[i] # None
    /\ Begin(c, "forgot", "write")
    /\ Fetch(c, i, [users[i] EXCEPT !.reset = clock + TokenLife])

\* Mutant: the token is left in the row.
KeepToken(row, c) == [row EXCEPT !.password = c]

NewPassword(row, c) == [row EXCEPT !.password = c, !.reset = None]

ResetPassword(c, i) ==
    /\ users[i] # None /\ Valid(users[i].reset)
    /\ Begin(c, "reset", "write")
    /\ Fetch(c, i, NewPassword(users[i], c))

\* An unknown address, a wrong password, an expired or unknown token.
Refuse(c) ==
    /\ Begin(c, None, "refused")
    /\ UNCHANGED <<id, loaded, dirty>>

\* Mutant: every column is written.
Overwrite(c) == dirty[c]

Written(c) == Flush(users[id[c]], loaded[c], dirty[c])

\* What the commit means for the tokens that were used.
Spend(c) ==
    spent' = CASE op[c] = "reset"  -> spent \cup {<<id[c], loaded[c].reset>>}
               [] op[c] = "forgot" -> spent \ {<<id[c], dirty[c].reset>>}
               [] OTHER            -> spent

\* Mutant: a row that is gone is inserted again.
WriteMerged(c) ==
    /\ step[c] = "write"
    /\ users' = [users EXCEPT ![id[c]] = IF @ = None THEN dirty[c] ELSE Written(c)]
    /\ Spend(c)
    /\ Answer(c, "ok")
    /\ UNCHANGED <<clock, gone, children>>

Write(c) ==
    /\ step[c] = "write"
    /\ users[id[c]] # None
    /\ users' = [users EXCEPT ![id[c]] = Written(c)]
    /\ Spend(c)
    /\ Answer(c, "ok")
    /\ UNCHANGED <<clock, gone, children>>

\* The row is gone (an UPDATE of no row raises), or the commit fails.
WriteFails(c) ==
    /\ step[c] = "write"
    /\ Answer(c, "raised")
    /\ UNCHANGED <<clock, tables, spent>>

-----------------------------------------------------------------------------
(* Handlers of the current user                                            *)

GetCurrentUser(c, o, i) ==
    /\ users[i] # None
    /\ Begin(c, o, "current")
    /\ Fetch(c, i, None)

At(c, o) == step[c] = "current" /\ op[c] = o

\* The account is read again, by the handler's own session.
Reload(c) ==
    /\ users[id[c]] # None
    /\ step' = [step EXCEPT ![c] = "write"]
    /\ Fetch(c, id[c], users[id[c]])
    /\ UNCHANGED <<clock, tables, op, spent>>

UpdateProfile(c) == At(c, "profile") /\ Reload(c)

UploadProfilePicture(c) == At(c, "picture") /\ Reload(c)

\* The secret is put into the object of the closed session: nothing is written.
MfaSetup(c) ==
    /\ At(c, "mfa_setup")
    /\ Answer(c, IF loaded[c].mfa_secret THEN "refused" ELSE "ok")
    /\ UNCHANGED <<clock, tables, spent>>

MfaDisable(c) ==
    /\ At(c, "mfa_disable")
    /\ Answer(c, "ok")
    /\ UNCHANGED <<clock, tables, spent>>

\* submit_kyc and assign_role add rows of the user in the same way.
IssueToken(c) ==
    /\ At(c, "issue_token")
    /\ children' = children \cup {id[c]}
    /\ Answer(c, "ok")
    /\ UNCHANGED <<clock, users, gone, spent>>

\* The commit looks for rows that refer to the user; their user_id must not
\* become null.
DeleteAccount(c) ==
    /\ At(c, "delete")
    /\ users[id[c]] # None /\ id[c] \notin children
    /\ step' = [step EXCEPT ![c] = "delete"]
    /\ UNCHANGED <<clock, tables, op, id, loaded, dirty, spent>>

Delete(c) ==
    /\ step[c] = "delete"
    /\ users' = [users EXCEPT ![id[c]] = None]
    /\ gone' = gone \cup {id[c]}
    /\ Answer(c, "ok")
    /\ UNCHANGED <<clock, children, spent>>

\* The account is gone, has rows that refer to it, the picture has a virus, or
\* the commit fails.
CurrentFails(c) ==
    /\ step[c] \in {"current", "delete"}
    /\ Answer(c, "raised")
    /\ UNCHANGED <<clock, tables, spent>>

Finished ==
    /\ \A c \in Calls : step[c] \in Answers
    /\ UNCHANGED vars

Call(c) ==
    \/ \E e \in Emails : RegisterTaken(c, e) \/ \E s \in BOOLEAN : Register(c, e, s)
    \/ InsertConflicts(c) \/ InsertFails(c)
    \/ \E i \in Ids :
          \/ Insert(c, i) \/ VerifyEmail(c, i) \/ Login(c, i)
          \/ ForgotPassword(c, i) \/ ResetPassword(c, i)
          \/ \E o \in UserOps : GetCurrentUser(c, o, i)
    \/ Refuse(c) \/ Write(c) \/ WriteFails(c)
    \/ UpdateProfile(c) \/ UploadProfilePicture(c)
    \/ MfaSetup(c) \/ MfaDisable(c) \/ IssueToken(c)
    \/ DeleteAccount(c) \/ Delete(c) \/ CurrentFails(c)

Next == Tick \/ Finished \/ \E c \in Calls : Call(c)

Spec == Init /\ [][Next]_vars
-----------------------------------------------------------------------------
(* Properties                                                              *)

\* A password changes only by the reset that sets it: no handler that read the
\* account before brings the old one back.
PasswordByReset ==
    [][\A i \in Ids :
          (users[i] # None /\ users'[i] # None /\ users'[i].password # users[i].password) =>
              \E c \in Calls : c = users'[i].password /\ op[c] = "reset" /\ step[c] = "write"]_vars

\* A reset token that has been used is not in the table, unless it has been
\* issued again: a later reset with it is refused.
UsedTokenGone ==
    \A i \in Ids : users[i] # None => <<i, users[i].reset>> \notin spent

\* No request that is still under way brings a deleted account back.
DeletedStaysGone == \A i \in gone : users[i] = None
=============================================================================
