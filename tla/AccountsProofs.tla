---------------------------- MODULE AccountsProofs ----------------------------
(***************************************************************************)
(* Proofs about Accounts, for any accounts, addresses and requests.  What  *)
(* a request has read is history when it writes.  The proofs rest on what  *)
(* it has changed against what it read (Change), because nothing else is   *)
(* written: an address never, a password by its reset only, and a reset    *)
(* token only by the handlers that issue it or use it up.                  *)
(***************************************************************************)
EXTENDS Accounts, TLAPS

Change(c) ==
    /\ dirty[c] \in Row
    /\ dirty[c].email = loaded[c].email
    /\ dirty[c].password # loaded[c].password => op[c] = "reset" /\ dirty[c].password = c
    /\ op[c] = "reset" => loaded[c].reset \in Nat /\ dirty[c].reset = None
    /\ op[c] = "forgot" => dirty[c].reset \in Nat
    /\ op[c] \notin {"reset", "forgot"} => dirty[c].reset = loaded[c].reset

Working(c) ==
    /\ step[c] = "insert" => dirty[c] \in Row /\ dirty[c].reset = None
    /\ step[c] \in {"current", "delete", "write"} => id[c] \in Ids /\ loaded[c] \in Row
    /\ step[c] = "write" => Change(c)

CallsOK ==
    /\ op \in [Calls -> Ops \cup {None}]
    /\ step \in [Calls -> {"idle", "insert", "write", "current", "delete"} \cup Answers]
    /\ id \in [Calls -> Ids \cup {None}]
    /\ loaded \in [Calls -> Row \cup {None}]
    /\ dirty \in [Calls -> Row \cup {None}]

TablesOK ==
    /\ clock \in Nat
    /\ users \in [Ids -> Row \cup {None}]
    /\ gone \subseteq Ids
    /\ children \subseteq Ids
    /\ spent \subseteq Ids \X Nat
    /\ OneAccountPerEmail
    /\ UsedTokenGone
    /\ DeletedStaysGone

IInv == CallsOK /\ TablesOK /\ \A c \in Calls : Working(c)

-----------------------------------------------------------------------------
(* Rows                                                                    *)

LEMMA NewRow ==
    ASSUME NEW e \in Emails, NEW c \in Calls \cup {None}, NEW s \in BOOLEAN, clock \in Nat
    PROVE  /\ NewUser(e, c, s) \in Row
           /\ NewUser(e, c, s).email = e
           /\ NewUser(e, c, s).reset = None
  BY LifeAssumption DEF NewUser, Row

\* What a commit leaves of a row.
LEMMA FlushedRow ==
    ASSUME NEW row \in Row, NEW old \in Row, NEW new \in Row
    PROVE  /\ Flush(row, old, new) \in Row
           /\ Flush(row, old, new).email = IF new.email = old.email THEN row.email ELSE new.email
           /\ Flush(row, old, new).password =
                 IF new.password = old.password THEN row.password ELSE new.password
           /\ Flush(row, old, new).reset = IF new.reset = old.reset THEN row.reset ELSE new.reset
  BY DEF Flush, Row

LEMMA InitIInv == Init => IInv
<1> SUFFICES ASSUME Init PROVE IInv
  OBVIOUS
<1>1. \A i \in Ids : users[i] # None =>
         \E e \in Emails, s \in BOOLEAN : users[i] = NewUser(e, None, s)
  BY DEF Init
<1>2. users \in [Ids -> Row \cup {None}]
  <2>1. clock \in Nat /\ None \in Calls \cup {None}
    BY DEF Init
  <2>2. ASSUME NEW i \in Ids, users[i] # None PROVE users[i] \in Row
    <3>1. PICK e \in Emails, s \in BOOLEAN : users[i] = NewUser(e, None, s)
      BY <1>1, <2>2
    <3> QED BY <2>1, <3>1, NewRow
  <2>3. users = [i \in Ids |-> users[i]]
    BY DEF Init
  <2>4. \A i \in Ids : users[i] \in Row \cup {None}
    BY <2>2
  <2> QED BY <2>3, <2>4
<1>3. CallsOK
  BY DEF Init, CallsOK
<1>4. TablesOK
  BY <1>2 DEF Init, TablesOK, UsedTokenGone, DeletedStaysGone
<1>5. \A c \in Calls : Working(c)
  BY DEF Init, Working
<1> QED BY <1>3, <1>4, <1>5 DEF IInv

-----------------------------------------------------------------------------
(* What a step does to the calls                                           *)

Only(c) ==
    \A d \in Calls \ {c} :
        /\ op'[d] = op[d] /\ step'[d] = step[d] /\ id'[d] = id[d]
        /\ loaded'[d] = loaded[d] /\ dirty'[d] = dirty[d]

LEMMA CallStep ==
    ASSUME IInv, NEW c \in Calls, CallsOK', Only(c), Working(c)', TablesOK'
    PROVE  IInv'
<1>1. ASSUME NEW d \in Calls, d # c PROVE Working(d)'
  BY <1>1 DEF IInv, Only, Working, Change
<1> QED BY <1>1 DEF IInv

LEMMA TablesKept == TablesOK /\ UNCHANGED <<clock, tables, spent>> => TablesOK'
  BY DEF TablesOK, tables, OneAccountPerEmail, UsedTokenGone, DeletedStaysGone

LEMMA AnswerFacts ==
    ASSUME CallsOK, NEW c \in Calls, NEW s \in Answers, Answer(c, s)
    PROVE  CallsOK' /\ Only(c) /\ Working(c)'
  BY DEF CallsOK, Answer, Answers, Only, Working

LEMMA BeginFacts ==
    ASSUME CallsOK, NEW c \in Calls, NEW o \in Ops \cup {None}, NEW s \in {"insert", "refused"},
           Begin(c, o, s), UNCHANGED <<id, loaded>>,
           NEW d \in Row \cup {None}, dirty' = [dirty EXCEPT ![c] = d],
           s = "insert" => d \in Row /\ d.reset = None
    PROVE  CallsOK' /\ Only(c) /\ Working(c)'
  BY DEF CallsOK, Begin, Answers, Only, Working

LEMMA FetchFacts ==
    ASSUME CallsOK, TablesOK, NEW c \in Calls, NEW i \in Ids, users[i] # None,
           NEW row \in Row \cup {None}, Fetch(c, i, row),
           NEW o \in Ops, op' = [op EXCEPT ![c] = o],
           NEW s \in {"current", "write"}, step' = [step EXCEPT ![c] = s],
           s = "write" => Change(c)'
    PROVE  CallsOK' /\ Only(c) /\ Working(c)'
<1>1. users[i] \in Row
  BY DEF TablesOK
<1>2. CallsOK' /\ Only(c)
  BY <1>1 DEF CallsOK, Fetch, Only
<1>3. id'[c] = i /\ loaded'[c] = users[i] /\ step'[c] = s
  BY DEF CallsOK, Fetch
<1> QED BY <1>1, <1>2, <1>3 DEF Working

-----------------------------------------------------------------------------
(* Steps that leave the tables alone                                       *)

LEMMA RegisterStep ==
    ASSUME IInv, NEW c \in Calls,
           \/ \E e \in Emails : RegisterTaken(c, e) \/ \E s \in BOOLEAN : Register(c, e, s)
           \/ Refuse(c)
    PROVE  IInv'
<1> USE DEF IInv
<1>1. ASSUME NEW e \in Emails, NEW s \in BOOLEAN, Register(c, e, s) PROVE IInv'
  <2>1. clock \in Nat
    BY DEF TablesOK
  <2>2. NewUser(e, c, s) \in Row /\ NewUser(e, c, s).reset = None
    BY <2>1, NewRow
  <2>3. /\ Begin(c, "register", "insert") /\ UNCHANGED <<id, loaded, clock, tables, spent>>
        /\ dirty' = [dirty EXCEPT ![c] = NewUser(e, c, s)]
    BY <1>1 DEF Register, Begin
  <2>4. CallsOK' /\ Only(c) /\ Working(c)'
    BY <2>2, <2>3, BeginFacts DEF Ops
  <2> QED BY <2>3, <2>4, TablesKept, CallStep
<1>2. ASSUME Refuse(c) \/ \E e \in Emails : RegisterTaken(c, e) PROVE IInv'
  <2>1. Begin(c, None, "refused") /\ UNCHANGED <<id, loaded, dirty, clock, tables, spent>>
    BY <1>2 DEF Refuse, RegisterTaken, Begin
  <2>2. dirty' = [dirty EXCEPT ![c] = dirty[c]] /\ dirty[c] \in Row \cup {None}
    BY <2>1 DEF CallsOK
  <2>3. CallsOK' /\ Only(c) /\ Working(c)'
    BY <2>1, <2>2, BeginFacts
  <2> QED BY <2>1, <2>3, TablesKept, CallStep
<1> QED BY <1>1, <1>2

\* Answers that change no table.
LEMMA AnswerStep ==
    ASSUME IInv, NEW c \in Calls,
           \/ InsertConflicts(c) \/ InsertFails(c) \/ WriteFails(c)
           \/ MfaSetup(c) \/ MfaDisable(c) \/ CurrentFails(c)
    PROVE  IInv'
<1>1. /\ UNCHANGED <<clock, tables, spent>>
      /\ \E s \in Answers : Answer(c, s)
  BY DEF InsertConflicts, InsertFails, WriteFails, MfaSetup, MfaDisable, CurrentFails, Answers
<1> QED BY <1>1, AnswerFacts, TablesKept, CallStep DEF IInv

-----------------------------------------------------------------------------
(* Rows that are read                                                      *)

LEMMA FetchStep ==
    ASSUME IInv, NEW c \in Calls, NEW i \in Ids,
           \/ VerifyEmail(c, i) \/ Login(c, i) \/ ForgotPassword(c, i) \/ ResetPassword(c, i)
    PROVE  IInv'
<1> USE NoneAssumption DEF IInv
<1>1. users[i] \in Row /\ users[i] # None /\ clock \in Nat
  BY DEF TablesOK, VerifyEmail, Login, ForgotPassword, ResetPassword
<1>2. UNCHANGED <<clock, tables, spent>>
  BY DEF VerifyEmail, Login, ForgotPassword, ResetPassword, Begin
<1>3. ASSUME NEW o \in {"verify", "login", "forgot", "reset"}, NEW row \in Row,
             Begin(c, o, "write"), Fetch(c, i, row),
             row.email = users[i].email,
             row.password # users[i].password => o = "reset" /\ row.password = c,
             o = "reset" => users[i].reset \in Nat /\ row.reset = None,
             o = "forgot" => row.reset \in Nat,
             o \notin {"reset", "forgot"} => row.reset = users[i].reset
      PROVE  IInv'
  <2>1. op' = [op EXCEPT ![c] = o] /\ step' = [step EXCEPT ![c] = "write"] /\ o \in Ops
    BY <1>3 DEF Begin, Ops
  <2>2. op'[c] = o /\ loaded'[c] = users[i] /\ dirty'[c] = row
    BY <1>3, <2>1 DEF CallsOK, Fetch
  <2>3. Change(c)'
    BY <1>3, <2>2 DEF Change
  <2>4. CallsOK' /\ Only(c) /\ Working(c)'
    BY <1>1, <1>3, <2>1, <2>3, FetchFacts
  <2> QED BY <1>2, <2>4, TablesKept, CallStep
<1>4. CASE VerifyEmail(c, i)
  <2> DEFINE row == [users[i] EXCEPT !.email_verified = TRUE, !.verification = None]
  <2>1. /\ row \in Row /\ row.email = users[i].email /\ row.password = users[i].password
        /\ row.reset = users[i].reset
    BY <1>1 DEF Row
  <2>2. Begin(c, "verify", "write") /\ Fetch(c, i, row)
    BY <1>4 DEF VerifyEmail
  <2> HIDE DEF row
  <2> QED BY <2>1, <2>2, <1>3
<1>5. CASE Login(c, i)
  BY <1>1, <1>3, <1>5 DEF Login
<1>6. CASE ForgotPassword(c, i)
  <2> DEFINE row == [users[i] EXCEPT !.reset = clock + TokenLife]
  <2>1. clock + TokenLife \in Nat
    BY <1>1, LifeAssumption
  <2>2. /\ row \in Row /\ row.email = users[i].email /\ row.password = users[i].password
        /\ row.reset \in Nat
    BY <1>1, <2>1 DEF Row
  <2>3. Begin(c, "forgot", "write") /\ Fetch(c, i, row)
    BY <1>6 DEF ForgotPassword
  <2> HIDE DEF row
  <2> QED BY <2>2, <2>3, <1>3
<1>7. CASE ResetPassword(c, i)
  <2> DEFINE row == NewPassword(users[i], c)
  <2>1. users[i].reset \in Nat
    BY <1>1, <1>7 DEF ResetPassword, Valid, Row
  <2>2. row \in Row /\ row.email = users[i].email /\ row.password = c /\ row.reset = None
    BY <1>1 DEF Row, NewPassword
  <2>3. Begin(c, "reset", "write") /\ Fetch(c, i, row)
    BY <1>7 DEF ResetPassword
  <2> HIDE DEF row
  <2> QED BY <2>1, <2>2, <2>3, <1>3
<1> QED BY <1>4, <1>5, <1>6, <1>7

LEMMA CurrentStep ==
    ASSUME IInv, NEW c \in Calls, NEW i \in Ids, NEW o \in UserOps, GetCurrentUser(c, o, i)
    PROVE  IInv'
<1>1. /\ users[i] # None /\ Fetch(c, i, None) /\ o \in Ops
      /\ op' = [op EXCEPT ![c] = o] /\ step' = [step EXCEPT ![c] = "current"]
      /\ UNCHANGED <<clock, tables, spent>>
  BY DEF GetCurrentUser, Begin, Ops
<1>2. CallsOK' /\ Only(c) /\ Working(c)'
  BY <1>1, FetchFacts DEF IInv
<1> QED BY <1>1, <1>2, TablesKept, CallStep DEF IInv

\* The handler's own session reads the row again, or the deletion is begun.
LEMMA ReloadStep ==
    ASSUME IInv, NEW c \in Calls,
           UpdateProfile(c) \/ UploadProfilePicture(c) \/ DeleteAccount(c)
    PROVE  IInv'
<1> USE DEF IInv
<1>1. op[c] \in UserOps /\ id[c] \in Ids /\ users[id[c]] # None
  BY DEF UpdateProfile, UploadProfilePicture, DeleteAccount, At, Reload, Working, UserOps
<1>2. CASE UpdateProfile(c) \/ UploadProfilePicture(c)
  <2>1. /\ Fetch(c, id[c], users[id[c]]) /\ step' = [step EXCEPT ![c] = "write"]
        /\ UNCHANGED <<clock, tables, spent, op>>
    BY <1>2 DEF UpdateProfile, UploadProfilePicture, Reload
  <2>2. users[id[c]] \in Row
    BY <1>1 DEF TablesOK
  <2>3. loaded'[c] = users[id[c]] /\ dirty'[c] = users[id[c]] /\ op'[c] \in UserOps
    BY <1>1, <2>1 DEF CallsOK, Fetch
  <2>4. Change(c)'
    BY <2>2, <2>3 DEF Change, UserOps
  <2>5. op' = [op EXCEPT ![c] = op[c]] /\ op[c] \in Ops
    BY <1>1, <2>1 DEF CallsOK, Ops
  <2>6. CallsOK' /\ Only(c) /\ Working(c)'
    BY <1>1, <2>1, <2>2, <2>4, <2>5, FetchFacts
  <2> QED BY <2>1, <2>6, TablesKept, CallStep
<1>3. CASE DeleteAccount(c)
  <2>1. /\ step[c] = "current" /\ step' = [step EXCEPT ![c] = "delete"]
        /\ UNCHANGED <<clock, tables, op, id, loaded, dirty, spent>>
    BY <1>3 DEF DeleteAccount, At
  <2>2. CallsOK' /\ Only(c) /\ Working(c)'
    BY <2>1 DEF CallsOK, Only, Working
  <2> QED BY <2>1, <2>2, TablesKept, CallStep
<1> QED BY <1>2, <1>3

-----------------------------------------------------------------------------
(* Steps that change a table                                               *)

LEMMA InsertStep ==
    ASSUME IInv, NEW c \in Calls, NEW i \in Ids, Insert(c, i)
    PROVE  IInv'
<1> USE NoneAssumption DEF IInv
<1>1. /\ dirty[c] \in Row /\ dirty[c].reset = None /\ Unique(dirty[c].email)
      /\ i \notin gone /\ users' = [users EXCEPT ![i] = dirty[c]]
      /\ Answer(c, "ok") /\ UNCHANGED <<clock, gone, children, spent>>
  BY DEF Insert, Working
<1>2. \A j \in Ids : users'[j] = IF j = i THEN dirty[c] ELSE users[j]
  BY <1>1 DEF TablesOK
<1>3. OneAccountPerEmail'
  BY <1>1, <1>2 DEF TablesOK, OneAccountPerEmail, Unique, Taken
<1>4. UsedTokenGone'
  <2> SUFFICES ASSUME NEW j \in Ids, users'[j] # None
               PROVE  <<j, users'[j].reset>> \notin spent
    BY <1>1 DEF UsedTokenGone
  <2>1. CASE j = i
    <3>1. users'[j].reset \notin Nat
      BY <1>1, <1>2, <2>1
    <3> QED BY <3>1 DEF TablesOK
  <2>2. CASE j # i
    BY <1>2, <2>2 DEF TablesOK, UsedTokenGone
  <2> QED BY <2>1, <2>2
<1>5. DeletedStaysGone'
  BY <1>1, <1>2 DEF TablesOK, DeletedStaysGone
<1>6. TablesOK'
  BY <1>1, <1>3, <1>4, <1>5 DEF TablesOK
<1> QED BY <1>1, <1>6, AnswerFacts, CallStep DEF Answers

\* What a write leaves in the row of its account.
LEMMA WriteFacts ==
    ASSUME IInv, NEW c \in Calls, Write(c)
    PROVE  \E row \in Row :
              /\ id[c] \in Ids /\ users[id[c]] # None /\ Change(c)
              /\ loaded[c] \in Row /\ users[id[c]] \in Row
              /\ users' = [users EXCEPT ![id[c]] = row]
              /\ row.email = users[id[c]].email
              /\ row.password # users[id[c]].password => op[c] = "reset" /\ row.password = c
              /\ row.reset = IF dirty[c].reset = loaded[c].reset
                             THEN users[id[c]].reset ELSE dirty[c].reset
<1>1. /\ id[c] \in Ids /\ users[id[c]] # None /\ Change(c) /\ loaded[c] \in Row
      /\ users' = [users EXCEPT ![id[c]] = Written(c)]
  BY DEF IInv, Write, Working
<1>2. users[id[c]] \in Row /\ dirty[c] \in Row
  BY <1>1 DEF IInv, TablesOK, Change
<1> DEFINE row == Written(c)
<1>3. /\ row \in Row
      /\ row.email = IF dirty[c].email = loaded[c].email THEN users[id[c]].email ELSE dirty[c].email
      /\ row.password = IF dirty[c].password = loaded[c].password
                        THEN users[id[c]].password ELSE dirty[c].password
      /\ row.reset = IF dirty[c].reset = loaded[c].reset THEN users[id[c]].reset ELSE dirty[c].reset
  BY <1>1, <1>2, FlushedRow DEF Written
<1>4. users' = [users EXCEPT ![id[c]] = row]
  BY <1>1
<1> HIDE DEF row
<1>5. /\ row.email = users[id[c]].email
      /\ row.password # users[id[c]].password => op[c] = "reset" /\ row.password = c
  BY <1>1, <1>3 DEF Change
<1> QED BY <1>1, <1>2, <1>3, <1>4, <1>5

LEMMA WriteStep ==
    ASSUME IInv, NEW c \in Calls, Write(c)
    PROVE  IInv'
<1> USE NoneAssumption DEF IInv
<1> DEFINE i == id[c]
<1>1. PICK row \in Row :
        /\ i \in Ids /\ users[i] # None /\ Change(c)
        /\ loaded[c] \in Row /\ users[i] \in Row
        /\ users' = [users EXCEPT ![i] = row]
        /\ row.email = users[i].email
        /\ row.reset = IF dirty[c].reset = loaded[c].reset THEN users[i].reset ELSE dirty[c].reset
  BY WriteFacts
<1>2. Spend(c) /\ Answer(c, "ok") /\ UNCHANGED <<clock, gone, children>>
  BY DEF Write
<1> HIDE DEF i
<1>3. \A j \in Ids : users'[j] = IF j = i THEN row ELSE users[j]
  BY <1>1 DEF TablesOK
<1>4. OneAccountPerEmail'
  BY <1>1, <1>3 DEF TablesOK, OneAccountPerEmail
<1>5. /\ op[c] = "reset" => spent' = spent \cup {<<i, loaded[c].reset>>}
      /\ op[c] = "forgot" => spent' = spent \ {<<i, dirty[c].reset>>}
      /\ op[c] \notin {"reset", "forgot"} => spent' = spent
  BY <1>2 DEF Spend, i
<1>6. /\ spent' \subseteq Ids \X Nat
      /\ \A j \in Ids : \A t : j # i /\ <<j, t>> \in spent' => <<j, t>> \in spent
  BY <1>1, <1>5 DEF TablesOK, Change
<1>7. <<i, row.reset>> \notin spent'
  <2>1. <<i, users[i].reset>> \notin spent
    BY <1>1 DEF TablesOK, UsedTokenGone
  <2>2. CASE op[c] = "reset"
    <3>1. row.reset = None
      BY <1>1, <2>2 DEF Change
    <3> QED BY <3>1, <1>6
  <2>3. CASE op[c] = "forgot"
    BY <1>1, <1>5, <2>1, <2>3
  <2>4. CASE op[c] \notin {"reset", "forgot"}
    BY <1>1, <1>5, <2>1, <2>4 DEF Change
  <2> QED BY <2>2, <2>3, <2>4
<1>8. UsedTokenGone'
  BY <1>3, <1>6, <1>7 DEF TablesOK, UsedTokenGone
<1>9. DeletedStaysGone'
  BY <1>1, <1>2, <1>3 DEF TablesOK, DeletedStaysGone
<1>10. TablesOK'
  BY <1>1, <1>2, <1>4, <1>6, <1>8, <1>9 DEF TablesOK
<1> QED BY <1>2, <1>10, AnswerFacts, CallStep DEF Answers

LEMMA DeleteStep ==
    ASSUME IInv, NEW c \in Calls, Delete(c) \/ IssueToken(c)
    PROVE  IInv'
<1> USE DEF IInv
<1>1. id[c] \in Ids /\ Answer(c, "ok") /\ UNCHANGED <<clock, spent>>
  BY DEF Delete, IssueToken, At, Working
<1>2. CASE Delete(c)
  <2>1. users' = [users EXCEPT ![id[c]] = None] /\ gone' = gone \cup {id[c]} /\ UNCHANGED children
    BY <1>2 DEF Delete
  <2>2. TablesOK'
    BY <1>1, <2>1 DEF TablesOK, OneAccountPerEmail, UsedTokenGone, DeletedStaysGone
  <2> QED BY <1>1, <2>2, AnswerFacts, CallStep DEF Answers
<1>3. CASE IssueToken(c)
  <2>1. children' = children \cup {id[c]} /\ UNCHANGED <<users, gone>>
    BY <1>3 DEF IssueToken
  <2>2. TablesOK'
    BY <1>1, <2>1 DEF TablesOK, OneAccountPerEmail, UsedTokenGone, DeletedStaysGone
  <2> QED BY <1>1, <2>2, AnswerFacts, CallStep DEF Answers
<1> QED BY <1>2, <1>3

LEMMA QuietStep ==
    ASSUME IInv, Tick \/ UNCHANGED vars
    PROVE  IInv'
<1> USE DEF IInv
<1>1. UNCHANGED <<tables, calls, spent>> /\ clock' \in Nat
  BY DEF Tick, vars, TablesOK
<1>2. CallsOK' /\ TablesOK'
  BY <1>1 DEF calls, tables, CallsOK, TablesOK, OneAccountPerEmail, UsedTokenGone, DeletedStaysGone
<1>3. \A c \in Calls : Working(c)'
  BY <1>1 DEF calls, Working, Change
<1> QED BY <1>2, <1>3

LEMMA NextIInv == IInv /\ [Next]_vars => IInv'
<1> SUFFICES ASSUME IInv, [Next]_vars PROVE IInv'
  OBVIOUS
<1>1. CASE Tick \/ Finished \/ UNCHANGED vars
  BY <1>1, QuietStep DEF Finished
<1>2. ASSUME NEW c \in Calls, Call(c) PROVE IInv'
  BY <1>2, RegisterStep, AnswerStep, FetchStep, CurrentStep, ReloadStep, InsertStep,
     WriteStep, DeleteStep DEF Call
<1> QED BY <1>1, <1>2 DEF Next

THEOREM Invariance == Spec => []IInv
  BY InitIInv, NextIInv, PTL DEF Spec

-----------------------------------------------------------------------------
\* The tables and the objects of the requests keep their types.
THEOREM TypeCorrect == Spec => []TypeOK
<1>1. IInv => TypeOK
  BY DEF IInv, CallsOK, TablesOK, TypeOK
<1> QED BY <1>1, Invariance, PTL

\* Whatever registrations run at once, an address has one account: no handler
\* writes an address, and only the row of a free one is inserted.
THEOREM AddressesAreUnique == Spec => []OneAccountPerEmail
<1>1. IInv => OneAccountPerEmail
  BY DEF IInv, TablesOK
<1> QED BY <1>1, Invariance, PTL

\* A reset token that has been used is not in the table, whatever requests had
\* read the row while it was.
THEOREM UsedTokensAreGone == Spec => []UsedTokenGone
<1>1. IInv => UsedTokenGone
  BY DEF IInv, TablesOK
<1> QED BY <1>1, Invariance, PTL

\* No request that had read an account brings it back after its deletion.
THEOREM DeletedAccountsStayGone == Spec => []DeletedStaysGone
<1>1. IInv => DeletedStaysGone
  BY DEF IInv, TablesOK
<1> QED BY <1>1, Invariance, PTL

\* A password is changed by the commit of a reset, which sets its own, and by
\* nothing else: what a request read before does not come back.
THEOREM PasswordsChangeByReset == Spec => PasswordByReset
<1> DEFINE Changed(i) == /\ users[i] # None /\ users'[i] # None
                         /\ users'[i].password # users[i].password
           By(i) == \E c \in Calls : c = users'[i].password /\ op[c] = "reset" /\ step[c] = "write"
<1>1. ASSUME IInv, Next, NEW i \in Ids, Changed(i) PROVE By(i)
  <2>1. users' # users
    BY <1>1
  <2>2. PICK c \in Calls : \/ \E j \in Ids : Insert(c, j)
                           \/ Write(c) \/ Delete(c)
    BY <1>1, <2>1 DEF Next, Tick, Finished, vars, tables, Call, RegisterTaken, Register, Refuse,
       InsertConflicts, InsertFails, VerifyEmail, Login, ForgotPassword, ResetPassword,
       GetCurrentUser, WriteFails, UpdateProfile, UploadProfilePicture, Reload, MfaSetup,
       MfaDisable, IssueToken, DeleteAccount, CurrentFails, Begin
  <2>3. ASSUME NEW j \in Ids, Insert(c, j) PROVE FALSE
    BY <1>1, <2>3 DEF Insert, IInv, TablesOK
  <2>4. CASE Delete(c)
    BY <1>1, <2>4 DEF Delete, IInv, TablesOK
  <2>5. CASE Write(c)
    <3>1. PICK row \in Row :
            /\ users' = [users EXCEPT ![id[c]] = row] /\ id[c] \in Ids
            /\ row.password # users[id[c]].password => op[c] = "reset" /\ row.password = c
      BY <1>1, <2>5, WriteFacts
    <3>2. id[c] = i /\ users'[i] = row
      BY <1>1, <3>1 DEF IInv, TablesOK
    <3> QED BY <1>1, <2>5, <3>1, <3>2 DEF Write
  <2> QED BY <2>2, <2>3, <2>4, <2>5
<1>2. IInv /\ [Next]_vars =>
         [\A i \in Ids :
             (users[i] # None /\ users'[i] # None /\ users'[i].password # users[i].password) =>
                 \E c \in Calls : c = users'[i].password /\ op[c] = "reset" /\ step[c] = "write"]_vars
  BY <1>1
<1> QED BY <1>2, Invariance, PTL DEF Spec, PasswordByReset
=============================================================================
