---------------------------- MODULE TokenAuthProofs ----------------------------
(***************************************************************************)
(* Proofs about TokenAuth, for any tokens, roles, requests and edits.      *)
(* What a request has read is history when it is used: the proofs rest on  *)
(* what stays true of it (Reading) - the restriction that was read was in  *)
(* force during the request, the row is still there, and a use once        *)
(* recorded in it stays recorded, since an edit leaves that column as it   *)
(* was (Editing).                                                          *)
(***************************************************************************)
EXTENDS TokenAuth, TLAPS

Reading(r) ==
    /\ step[r] \in Waiting \cup {"accepted"} => token[r] \in Tokens
    /\ step[r] \in {"nonce", "roles", "log"} => loaded[r] # None
    /\ step[r] \in {"idle", "hook", "find", "refused", "failed"} => loaded[r] = None
    /\ loaded[r] # None =>
          /\ token[r] \in Tokens /\ rows[token[r]] # None
          /\ loaded[r].used # None => rows[token[r]].used # None
          /\ loaded[r].allowed \in granted[r]
    /\ step[r] = "hook" => {} \in granted[r]
    /\ step[r] = "log" => RoleHeld(loaded[r])

Editing(e) ==
    step[e] = "write" =>
        /\ token[e] \in Tokens /\ rows[token[e]] # None
        /\ loaded[e] \in Row /\ dirty[e] \in Row
        /\ dirty[e].used = loaded[e].used

Permitted(r) ==
    step[r] = "accepted" => \E a \in granted[r] : a = {} \/ a \cap roles # {}

Recorded(r) ==
    IF step[r] = "accepted" /\ loaded[r] # None
    THEN usage[r] = 1 /\ rows[token[r]].used # None
    ELSE usage[r] = 0

Fine(r) == Reading(r) /\ Permitted(r) /\ Recorded(r)

IInv ==
    /\ TypeOK
    /\ \A t \in Tokens : rows[t] # None => t \in issued
    /\ \A r \in Requests : Fine(r)
    /\ \A e \in Edits : Editing(e)

-----------------------------------------------------------------------------
LEMMA InitIInv == Init => IInv
<1> SUFFICES ASSUME Init PROVE IInv
  OBVIOUS
<1>1. TypeOK
  BY DEF Init, TypeOK
<1>2. ASSUME NEW r \in Requests PROVE Fine(r)
  BY DEF Init, Fine, Reading, Permitted, Recorded, Calls, Waiting
<1>3. \A e \in Edits : Editing(e)
  BY DEF Init, Editing, Calls
<1>4. \A t \in Tokens : rows[t] = None
  BY DEF Init
<1> QED BY <1>1, <1>2, <1>3, <1>4 DEF IInv

-----------------------------------------------------------------------------
(* What the history keeps                                                  *)

LEMMA HistoryType ==
    ASSUME Remember
    PROVE  granted' \in [Requests -> SUBSET SUBSET Roles]
  BY DEF Remember

LEMMA HistoryKept ==
    ASSUME Remember, NEW r \in Requests, NEW t \in Tokens, t = token'[r],
           granted \in [Requests -> SUBSET SUBSET Roles]
    PROVE  granted[r] \subseteq granted'[r]
  BY DEF Remember

LEMMA HistoryGrows ==
    ASSUME Remember, NEW r \in Requests, NEW t \in Tokens, t = token'[r],
           step'[r] \in Waiting, NEW a \in SUBSET Roles, a \in Permits(t)'
    PROVE  a \in granted'[r]
  BY DEF Remember, Running

\* Rows stay, and uses stay recorded; roles are not lost.
Later ==
    /\ roles \subseteq roles'
    /\ \A t \in Tokens : rows[t] # None =>
          rows'[t] # None /\ (rows[t].used # None => rows'[t].used # None)

\* A request that does not step is not disturbed by the others.
LEMMA RequestKept ==
    ASSUME NEW r \in Requests, Fine(r), TypeOK, Later, Remember, r \in Calls,
           step'[r] = step[r], token'[r] = token[r], loaded'[r] = loaded[r],
           usage'[r] = usage[r]
    PROVE  Fine(r)'
<1>1. token[r] \in Tokens => granted[r] \subseteq granted'[r]
  BY HistoryKept DEF TypeOK
<1>2. Reading(r)'
  <2>1. step[r] = "log" => RoleHeld(loaded[r])'
    BY DEF Fine, Reading, RoleHeld, Later
  <2>2. loaded[r] # None =>
          /\ rows'[token[r]] # None /\ loaded[r].allowed \in granted'[r]
          /\ loaded[r].used # None => rows'[token[r]].used # None
    BY <1>1 DEF Fine, Reading, Later
  <2> QED BY <1>1, <2>1, <2>2 DEF Fine, Reading, Waiting
<1>3. Permitted(r)'
  BY <1>1 DEF Fine, Reading, Permitted, Later
<1>4. Recorded(r)'
  BY DEF Fine, Reading, Recorded, Later
<1> QED BY <1>2, <1>3, <1>4 DEF Fine

LEMMA EditKept ==
    ASSUME NEW e \in Edits, Editing(e), Later,
           step'[e] = step[e], token'[e] = token[e], loaded'[e] = loaded[e],
           dirty'[e] = dirty[e]
    PROVE  Editing(e)'
  BY DEF Editing, Later

\* Steps that leave the calls alone.
LEMMA TableStep ==
    ASSUME IInv, Remember, UNCHANGED <<calls, usage>>, Later, TypeOK',
           \A t \in Tokens : rows'[t] # None => t \in issued'
    PROVE  IInv'
<1>1. ASSUME NEW r \in Requests PROVE Fine(r)'
  BY RequestKept DEF IInv, calls, Calls
<1>2. ASSUME NEW e \in Edits PROVE Editing(e)'
  BY EditKept DEF IInv, calls
<1> QED BY <1>1, <1>2 DEF IInv

LEMMA WorldStep ==
    ASSUME IInv, Remember,
           \/ Tick \/ Finished
           \/ \E t \in Tokens, n \in Lifetimes :
                 IssueHook(t, n) \/ \E a \in SUBSET Roles : IssueToken(t, n, a)
           \/ \E t \in Tokens : RevokeHook(t)
           \/ \E a \in Roles : AssignRole(a)
    PROVE  IInv'
<1> USE NoneAssumption DEF tables
<1>0. TypeOK /\ (\A t \in Tokens : rows[t] # None => t \in issued)
      /\ granted' \in [Requests -> SUBSET SUBSET Roles]
  BY HistoryType DEF IInv
<1>1. CASE Tick \/ Finished
  <2>1. UNCHANGED <<tables, calls>> /\ clock' \in Nat
    BY <1>0, <1>1 DEF Tick, Finished, TypeOK
  <2>2. TypeOK' /\ Later
    BY <1>0, <2>1 DEF TypeOK, calls, Later
  <2> QED BY <2>1, <2>2, <1>0, TableStep
<1>2. ASSUME NEW t \in Tokens, NEW n \in Lifetimes, IssueHook(t, n) PROVE IInv'
  <2>1. clock + Lasts(n) \in Nat
    BY <1>0, LifetimesAssumption DEF Lasts, TypeOK
  <2>2. /\ issued' = issued \cup {t} /\ hooks' = [hooks EXCEPT ![t] = clock + Lasts(n)]
        /\ UNCHANGED <<clock, rows, roles, usage, calls>>
    BY <1>2 DEF IssueHook
  <2>3. TypeOK' /\ Later
    BY <1>0, <2>1, <2>2 DEF TypeOK, calls, Later
  <2> QED BY <2>2, <2>3, <1>0, TableStep
<1>3. ASSUME NEW t \in Tokens, NEW n \in Lifetimes, NEW a \in SUBSET Roles,
             IssueToken(t, n, a)
      PROVE  IInv'
  <2> DEFINE row == [revoked |-> FALSE, expires |-> Expiry(n), allowed |-> a, used |-> None]
  <2>1. row \in Row
    BY <1>0, LifetimesAssumption DEF Row, Expiry, TypeOK
  <2>2. /\ t \notin issued /\ issued' = issued \cup {t}
        /\ rows' = [rows EXCEPT ![t] = row]
        /\ UNCHANGED <<clock, hooks, roles, usage, calls>>
    BY <1>3 DEF IssueToken
  <2> HIDE DEF row
  <2>3. TypeOK'
    BY <1>0, <2>1, <2>2 DEF TypeOK, calls
  <2>4. Later
    BY <1>0, <2>2 DEF TypeOK, Later
  <2>5. \A s \in Tokens : rows'[s] # None => s \in issued'
    BY <1>0, <2>2 DEF TypeOK
  <2> QED BY <2>2, <2>3, <2>4, <2>5, TableStep
<1>4. ASSUME NEW t \in Tokens, RevokeHook(t) PROVE IInv'
  <2>1. hooks' = [hooks EXCEPT ![t] = None] /\ UNCHANGED <<clock, issued, rows, roles, usage, calls>>
    BY <1>4 DEF RevokeHook
  <2>2. TypeOK' /\ Later
    BY <1>0, <2>1 DEF TypeOK, calls, Later
  <2> QED BY <2>1, <2>2, <1>0, TableStep
<1>5. ASSUME NEW a \in Roles, AssignRole(a) PROVE IInv'
  <2>1. roles' = roles \cup {a} /\ UNCHANGED <<clock, issued, hooks, rows, usage, calls>>
    BY <1>5 DEF AssignRole
  <2>2. TypeOK' /\ Later
    BY <1>0, <2>1 DEF TypeOK, calls, Later
  <2> QED BY <2>1, <2>2, <1>0, TableStep
<1> QED BY <1>1, <1>2, <1>3, <1>4, <1>5

LEMMA StutterStep == ASSUME IInv, UNCHANGED vars PROVE IInv'
<1> USE DEF vars, tables, calls
<1>1. TypeOK'
  BY DEF IInv, TypeOK
<1>2. ASSUME NEW r \in Requests PROVE Fine(r)'
  BY DEF IInv, Fine, Reading, Permitted, Recorded, RoleHeld
<1>3. \A e \in Edits : Editing(e)'
  BY DEF IInv, Editing
<1> QED BY <1>1, <1>2, <1>3 DEF IInv

-----------------------------------------------------------------------------
(* Edits                                                                   *)

LEMMA ChangedRow ==
    ASSUME NEW row \in Row, clock \in Nat, NEW ask \in Ask \cup {RevokeAsk}
    PROVE  Changed(row, ask) \in Row /\ Changed(row, ask).used = row.used
<1>1. ask \in [revoked : {None} \cup BOOLEAN, expires : {None} \cup Nat,
               allowed : {None} \cup SUBSET Roles]
  <2>1. CASE ask = RevokeAsk
    BY <2>1 DEF RevokeAsk
  <2>2. CASE ask \in Ask
    <3>1. {clock + n : n \in Lifetimes} \subseteq Nat
      BY LifetimesAssumption
    <3> QED BY <2>2, <3>1 DEF Ask
  <2> QED BY <2>1, <2>2
<1>2. DOMAIN ask = {"revoked", "expires", "allowed"}
      /\ DOMAIN row = {"revoked", "expires", "allowed", "used"}
  BY <1>1 DEF Row
<1> DEFINE new == Changed(row, ask)
<1>3. /\ DOMAIN new = {"revoked", "expires", "allowed", "used"}
      /\ new.revoked = IF ask.revoked # None THEN ask.revoked ELSE row.revoked
      /\ new.expires = IF ask.expires # None THEN ask.expires ELSE row.expires
      /\ new.allowed = IF ask.allowed # None THEN ask.allowed ELSE row.allowed
      /\ new.used = row.used
  BY <1>2 DEF Changed
<1>4. new = [revoked |-> new.revoked, expires |-> new.expires,
            allowed |-> new.allowed, used |-> new.used]
  BY <1>2 DEF Changed
<1>5. /\ new.revoked \in BOOLEAN /\ new.expires \in Nat \cup {None}
      /\ new.allowed \in SUBSET Roles /\ new.used \in Nat \cup {None}
  BY <1>1, <1>3 DEF Row
<1> HIDE DEF new
<1>6. new \in Row
  BY <1>4, <1>5 DEF Row
<1> QED BY <1>3, <1>6 DEF new

LEMMA FlushedRow ==
    ASSUME NEW row \in Row, NEW old \in Row, NEW new \in Row
    PROVE  /\ Flush(row, old, new) \in Row
           /\ Flush(row, old, new).used = IF new.used = old.used THEN row.used ELSE new.used
           /\ Flush(row, old, new).revoked =
                 IF new.revoked = old.revoked THEN row.revoked ELSE new.revoked
  BY DEF Flush, Row

\* A step of one edit, which changes no more than the row of its token.
LEMMA EditStep ==
    ASSUME IInv, Remember, NEW e \in Edits, Later, TypeOK', Editing(e)',
           UNCHANGED <<issued, hooks, roles, usage>>,
           \A t \in Tokens : rows[t] = None => rows'[t] = None,
           \A c \in Calls : c # e =>
              step'[c] = step[c] /\ token'[c] = token[c] /\ loaded'[c] = loaded[c],
           \A d \in Edits : d # e => dirty'[d] = dirty[d]
    PROVE  IInv'
<1>1. ASSUME NEW r \in Requests PROVE Fine(r)'
  BY RequestKept, CallsAssumption DEF IInv, Calls
<1>2. ASSUME NEW d \in Edits PROVE Editing(d)'
  BY EditKept DEF IInv, Calls
<1> QED BY <1>1, <1>2 DEF IInv

LEMMA FetchStep ==
    ASSUME IInv, Remember, NEW e \in Edits, NEW t \in Tokens,
           RevokeTokenRoute(e, t) \/ UpdateTokenRoute(e, t)
    PROVE  IInv'
<1> USE NoneAssumption DEF Calls, tables
<1>0. TypeOK /\ granted' \in [Requests -> SUBSET SUBSET Roles]
  BY HistoryType DEF IInv
<1>1. PICK ask \in Ask \cup {RevokeAsk} : Fetch(e, t, ask)
  BY DEF RevokeTokenRoute, UpdateTokenRoute
<1> DEFINE new == Changed(rows[t], ask)
<1>2. /\ rows[t] # None
      /\ token' = [token EXCEPT ![e] = t]
      /\ loaded' = [loaded EXCEPT ![e] = rows[t]]
      /\ dirty' = [dirty EXCEPT ![e] = new]
      /\ step' = [step EXCEPT ![e] = "write"]
      /\ UNCHANGED <<clock, tables>>
  BY <1>1 DEF Fetch, Go
<1>3. rows[t] \in Row /\ clock \in Nat
  BY <1>0, <1>2 DEF TypeOK
<1>4. new \in Row /\ new.used = rows[t].used
  BY <1>3, ChangedRow
<1> HIDE DEF new
<1>5. TypeOK'
  BY <1>0, <1>2, <1>3, <1>4 DEF TypeOK, Waiting
<1>6. Editing(e)' /\ Later
  BY <1>0, <1>2, <1>3, <1>4 DEF TypeOK, Editing, Later
<1>7. /\ \A c \in Calls : c # e =>
            step'[c] = step[c] /\ token'[c] = token[c] /\ loaded'[c] = loaded[c]
      /\ \A d \in Edits : d # e => dirty'[d] = dirty[d]
  BY <1>0, <1>2 DEF TypeOK
<1> QED BY <1>2, <1>5, <1>6, <1>7, EditStep

\* What an edit leaves of the row of its token.
LEMMA WriteFacts ==
    ASSUME IInv, NEW e \in Edits, Write(e)
    PROVE  /\ token[e] \in Tokens /\ rows[token[e]] \in Row /\ rows[token[e]] # None
           /\ loaded[e] \in Row /\ dirty[e] \in Row /\ dirty[e].used = loaded[e].used
           /\ rows' = [rows EXCEPT ![token[e]] = Flush(rows[token[e]], loaded[e], dirty[e])]
  BY DEF IInv, TypeOK, Write, Editing

LEMMA WriteStep ==
    ASSUME IInv, Remember, NEW e \in Edits, Write(e) \/ EditFails(e)
    PROVE  IInv'
<1> USE NoneAssumption DEF Calls, tables
<1>0. TypeOK /\ granted' \in [Requests -> SUBSET SUBSET Roles]
  BY HistoryType DEF IInv
<1>1. /\ Leave(e) /\ UNCHANGED <<clock, issued, hooks, roles, usage>>
  BY DEF Write, EditFails
<1>2. /\ rows' \in [Tokens -> Row \cup {None}]
      /\ \A t \in Tokens : rows[t] = None <=> rows'[t] = None
      /\ \A t \in Tokens : rows[t] # None => rows'[t].used = rows[t].used
  <2>1. CASE EditFails(e)
    BY <1>0, <2>1 DEF EditFails, TypeOK
  <2>2. CASE Write(e)
    <3> DEFINE t == token[e]
               new == Flush(rows[t], loaded[e], dirty[e])
    <3>1. /\ t \in Tokens /\ rows[t] # None
          /\ rows' = [rows EXCEPT ![t] = new]
          /\ new \in Row /\ new.used = rows[t].used
      BY <2>2, WriteFacts, FlushedRow
    <3> HIDE DEF t, new
    <3>2. new # None
      BY <3>1
    <3> QED BY <3>1, <3>2, <1>0 DEF TypeOK
  <2> QED BY <2>1, <2>2
<1>3. TypeOK'
  BY <1>0, <1>1, <1>2 DEF TypeOK, Leave, Go, Ended
<1>4. Editing(e)' /\ Later
  BY <1>0, <1>1, <1>2 DEF TypeOK, Editing, Later, Leave, Go
<1>5. /\ \A c \in Calls : c # e =>
            step'[c] = step[c] /\ token'[c] = token[c] /\ loaded'[c] = loaded[c]
      /\ \A d \in Edits : d # e => dirty'[d] = dirty[d]
  BY <1>0, <1>1 DEF TypeOK, Leave, Go
<1> QED BY <1>1, <1>2, <1>3, <1>4, <1>5, EditStep

-----------------------------------------------------------------------------
(* Requests                                                                *)

LEMMA RequestStep ==
    ASSUME IInv, Remember, NEW r \in Requests, Later, TypeOK', Fine(r)',
           UNCHANGED <<issued, roles, dirty>>,
           \A t \in Tokens : rows[t] = None => rows'[t] = None,
           \A c \in Calls : c # r =>
              step'[c] = step[c] /\ token'[c] = token[c] /\ loaded'[c] = loaded[c],
           \A q \in Requests : q # r => usage'[q] = usage[q]
    PROVE  IInv'
<1>1. ASSUME NEW q \in Requests PROVE Fine(q)'
  BY RequestKept DEF IInv, Calls
<1>2. ASSUME NEW e \in Edits PROVE Editing(e)'
  BY EditKept, CallsAssumption DEF IInv, Calls
<1> QED BY <1>1, <1>2 DEF IInv

\* A step of a request that writes no row of api_tokens and no log entry.
LEMMA QuietStep ==
    ASSUME IInv, Remember, NEW r \in Requests, TypeOK', Fine(r)',
           UNCHANGED <<issued, rows, roles, usage, dirty>>,
           \A c \in Calls : c # r =>
              step'[c] = step[c] /\ token'[c] = token[c] /\ loaded'[c] = loaded[c]
    PROVE  IInv'
<1>1. Later
  BY DEF Later
<1> QED BY <1>1, RequestStep

LEMMA BeginStep ==
    ASSUME IInv, Remember, NEW r \in Requests, NEW t \in Tokens,
           HookFound(r, t) \/ HookMissing(r, t) \/ HookExpired(r, t)
    PROVE  IInv'
<1> USE NoneAssumption DEF Calls, Waiting
<1>0. TypeOK /\ Fine(r) /\ granted' \in [Requests -> SUBSET SUBSET Roles]
  BY HistoryType DEF IInv
<1>1. PICK s \in {"hook", "find"} : Begin(r, t, s) /\ (s = "hook" => HookFound(r, t))
  BY DEF HookFound, HookMissing, HookExpired
<1>2. /\ step[r] = "idle" /\ step' = [step EXCEPT ![r] = s]
      /\ token' = [token EXCEPT ![r] = t]
      /\ UNCHANGED <<clock, issued, rows, roles, usage, loaded, dirty>>
  BY <1>1 DEF Begin, Go
<1>3. hooks' \in [Tokens -> Nat \cup {None}]
  BY <1>0 DEF HookFound, HookMissing, HookExpired, Begin, TypeOK
<1>4. TypeOK'
  BY <1>0, <1>2, <1>3 DEF TypeOK
<1>5. s = "hook" => {} \in granted'[r]
  <2> SUFFICES ASSUME s = "hook" PROVE {} \in granted'[r]
    OBVIOUS
  <2>1. HookUsable(t) /\ UNCHANGED <<clock, hooks>>
    BY <1>1 DEF HookFound, Begin
  <2>2. {} \in Permits(t)'
    BY <2>1 DEF Permits, HookUsable
  <2>3. t = token'[r] /\ step'[r] \in Waiting
    BY <1>0, <1>2 DEF TypeOK
  <2> QED BY <2>2, <2>3, HistoryGrows
<1>6. Fine(r)'
  <2>1. step'[r] = s /\ token'[r] = t /\ loaded'[r] = None /\ usage'[r] = 0
    BY <1>0, <1>2 DEF TypeOK, Fine, Reading, Recorded
  <2>2. Reading(r)'
    BY <2>1, <1>5 DEF Reading
  <2> QED BY <2>1, <2>2 DEF Fine, Permitted, Recorded
<1>7. \A c \in Calls : c # r =>
         step'[c] = step[c] /\ token'[c] = token[c] /\ loaded'[c] = loaded[c]
  BY <1>0, <1>2 DEF TypeOK
<1> QED BY <1>2, <1>4, <1>6, <1>7, QuietStep

LEMMA FindStep ==
    ASSUME IInv, Remember, NEW r \in Requests, Find(r)
    PROVE  IInv'
<1> USE NoneAssumption DEF Calls, Waiting
<1>0. TypeOK /\ Fine(r) /\ granted' \in [Requests -> SUBSET SUBSET Roles]
  BY HistoryType DEF IInv
<1> DEFINE t == token[r]
           row == rows[t]
<1>1. /\ step[r] = "find" /\ step' = [step EXCEPT ![r] = "nonce"]
      /\ row # None /\ ~row.revoked /\ Unexpired(row)
      /\ loaded' = [loaded EXCEPT ![r] = row]
      /\ UNCHANGED <<clock, issued, hooks, rows, roles, usage, token, dirty>>
  BY DEF Find, Found, Go, tables
<1>2. t \in Tokens /\ row \in Row /\ usage[r] = 0
  BY <1>0, <1>1 DEF Fine, Reading, Recorded, TypeOK
<1>3. TypeOK'
  BY <1>0, <1>1, <1>2 DEF TypeOK
<1>4. row.allowed \in granted'[r]
  <2>1. row.allowed \in SUBSET Roles
    BY <1>2 DEF Row
  <2>2. row.allowed \in Permits(t)'
    BY <1>1, <1>2, <2>1 DEF Permits, Unexpired
  <2>3. t = token'[r] /\ step'[r] \in Waiting
    BY <1>0, <1>1 DEF TypeOK
  <2> QED BY <1>2, <2>1, <2>2, <2>3, HistoryGrows
<1>5. Fine(r)'
  <2>1. step'[r] = "nonce" /\ token'[r] = t /\ loaded'[r] = row /\ usage'[r] = 0 /\ rows'[t] = row
    BY <1>0, <1>1, <1>2 DEF TypeOK
  <2> HIDE DEF t, row
  <2>2. Reading(r)'
    BY <2>1, <1>1, <1>2, <1>4 DEF Reading
  <2> QED BY <2>1, <2>2 DEF Fine, Permitted, Recorded
<1>6. \A c \in Calls : c # r =>
         step'[c] = step[c] /\ token'[c] = token[c] /\ loaded'[c] = loaded[c]
  BY <1>0, <1>1 DEF TypeOK
<1> QED BY <1>1, <1>3, <1>5, <1>6, QuietStep

LEMMA EndStep ==
    ASSUME IInv, Remember, NEW r \in Requests,
           FindNone(r) \/ NonceSeen(r) \/ RoleMissing(r) \/ CommitFails(r) \/ Fails(r)
    PROVE  IInv'
<1> USE NoneAssumption DEF Calls
<1>0. TypeOK /\ Fine(r) /\ granted' \in [Requests -> SUBSET SUBSET Roles]
  BY HistoryType DEF IInv
<1>1. /\ step[r] # "accepted"
      /\ \E s \in {"refused", "failed"} : step' = [step EXCEPT ![r] = s]
      /\ token' = [token EXCEPT ![r] = None]
      /\ loaded' = [loaded EXCEPT ![r] = None]
      /\ UNCHANGED <<clock, issued, hooks, rows, roles, usage, dirty>>
  BY DEF FindNone, NonceSeen, RoleMissing, CommitFails, Fails, End, Go, tables, Waiting
<1>2. TypeOK'
  BY <1>0, <1>1 DEF TypeOK, Ended
<1>3. Fine(r)'
  <2>1. step'[r] \in {"refused", "failed"} /\ loaded'[r] = None /\ usage'[r] = 0
    BY <1>0, <1>1 DEF TypeOK, Fine, Recorded
  <2> QED BY <2>1 DEF Fine, Reading, Permitted, Recorded, Waiting
<1>4. \A c \in Calls : c # r =>
         step'[c] = step[c] /\ token'[c] = token[c] /\ loaded'[c] = loaded[c]
  BY <1>0, <1>1 DEF TypeOK
<1> QED BY <1>1, <1>2, <1>3, <1>4, QuietStep

LEMMA CheckedStep ==
    ASSUME IInv, Remember, NEW r \in Requests, NonceNew(r) \/ RolesHeld(r)
    PROVE  IInv'
<1> USE NoneAssumption DEF Calls, Waiting
<1>0. TypeOK /\ Fine(r) /\ granted' \in [Requests -> SUBSET SUBSET Roles]
  BY HistoryType DEF IInv
<1>1. /\ \/ step[r] = "hook" /\ step' = [step EXCEPT ![r] = "accepted"]
         \/ step[r] = "nonce" /\ step' = [step EXCEPT ![r] = "roles"]
         \/ step[r] = "roles" /\ RoleHeld(loaded[r]) /\ step' = [step EXCEPT ![r] = "log"]
      /\ UNCHANGED <<clock, issued, hooks, rows, roles, usage, token, loaded, dirty>>
  BY DEF NonceNew, RolesHeld, Go, tables
<1>2. TypeOK'
  BY <1>0, <1>1 DEF TypeOK, Ended
<1>3. token[r] \in Tokens /\ token'[r] = token[r] /\ granted[r] \subseteq granted'[r]
  BY <1>0, <1>1, HistoryKept DEF TypeOK, Fine, Reading
<1>4. Fine(r)'
  <2>1. CASE step[r] = "hook"
    <3>1. step'[r] = "accepted" /\ loaded'[r] = None /\ usage'[r] = 0 /\ {} \in granted'[r]
      BY <2>1, <1>0, <1>1, <1>3 DEF TypeOK, Fine, Reading, Recorded
    <3> QED BY <3>1, <1>3 DEF Fine, Reading, Permitted, Recorded
  <2>2. CASE step[r] # "hook"
    <3>1. /\ step'[r] \in {"roles", "log"} /\ usage'[r] = 0
          /\ step'[r] = "log" => RoleHeld(loaded[r])'
      BY <2>2, <1>0, <1>1 DEF TypeOK, Fine, Recorded, RoleHeld
    <3>2. Reading(r)'
      BY <3>1, <2>2, <1>0, <1>1, <1>3 DEF Fine, Reading
    <3> QED BY <3>1, <3>2 DEF Fine, Permitted, Recorded
  <2> QED BY <2>1, <2>2
<1>5. \A c \in Calls : c # r =>
         step'[c] = step[c] /\ token'[c] = token[c] /\ loaded'[c] = loaded[c]
  BY <1>0, <1>1 DEF TypeOK
<1> QED BY <1>1, <1>2, <1>4, <1>5, QuietStep

\* What a commit leaves of the row of its token.
LEMMA CommitFacts ==
    ASSUME IInv, NEW r \in Requests, Commit(r)
    PROVE  LET t == token[r]
               new == MarkUsed(rows[t], loaded[r])
           IN  /\ t \in Tokens /\ rows[t] \in Row /\ rows[t] # None
               /\ rows' = [rows EXCEPT ![t] = new]
               /\ new \in Row /\ new.used # None /\ new.revoked = rows[t].revoked
<1> USE NoneAssumption
<1> DEFINE t == token[r]
           was == loaded[r]
           marked == [was EXCEPT !.used = clock]
           new == Flush(rows[t], was, marked)
<1>1. TypeOK /\ Reading(r)
  BY DEF IInv, Fine
<1>2. /\ t \in Tokens /\ rows[t] \in Row /\ rows[t] # None /\ was \in Row
      /\ was.used # None => rows[t].used # None
      /\ rows' = [rows EXCEPT ![t] = new]
  BY <1>1 DEF Commit, TypeOK, Reading, MarkUsed, Calls
<1>3. marked \in Row /\ marked.used = clock /\ marked.revoked = was.revoked /\ clock \in Nat
  BY <1>1, <1>2 DEF TypeOK, Row
<1> HIDE DEF t, was, marked
<1>4. /\ new \in Row /\ new.revoked = rows[t].revoked
      /\ new.used = IF clock = was.used THEN rows[t].used ELSE clock
  BY <1>2, <1>3, FlushedRow
<1>5. new.used # None
  BY <1>2, <1>3, <1>4
<1> QED BY <1>2, <1>4, <1>5 DEF MarkUsed, t, was, marked

LEMMA CommitStep ==
    ASSUME IInv, Remember, NEW r \in Requests, Commit(r)
    PROVE  IInv'
<1> USE NoneAssumption DEF Calls, Waiting
<1>0. TypeOK /\ Fine(r) /\ granted' \in [Requests -> SUBSET SUBSET Roles]
  BY HistoryType DEF IInv
<1> DEFINE t == token[r]
           new == MarkUsed(rows[t], loaded[r])
<1>1. /\ t \in Tokens /\ rows[t] # None /\ rows' = [rows EXCEPT ![t] = new]
      /\ new \in Row /\ new.used # None
  BY CommitFacts
<1>2. /\ step[r] = "log" /\ step' = [step EXCEPT ![r] = "accepted"]
      /\ usage' = [usage EXCEPT ![r] = usage[r] + 1]
      /\ UNCHANGED <<clock, issued, hooks, roles, token, loaded, dirty>>
  BY DEF Commit, Go
<1> HIDE DEF new
<1>3. TypeOK'
  BY <1>0, <1>1, <1>2 DEF TypeOK, Ended
<1>4. /\ Later
      /\ \A s \in Tokens : rows[s] = None => rows'[s] = None
  BY <1>0, <1>1, <1>2 DEF TypeOK, Later
<1>5. /\ step'[r] = "accepted" /\ token'[r] = t /\ loaded'[r] = loaded[r]
      /\ usage'[r] = 1 /\ rows'[t] = new
  BY <1>0, <1>1, <1>2 DEF TypeOK, Fine, Recorded
<1>6. granted[r] \subseteq granted'[r]
  BY <1>0, <1>1, <1>5, HistoryKept DEF TypeOK
<1>7. Fine(r)'
  <2>1. /\ loaded[r] # None /\ loaded[r].allowed \in granted[r] /\ RoleHeld(loaded[r])
        /\ new # None
    BY <1>0, <1>1, <1>2 DEF Fine, Reading
  <2>2. Reading(r)' /\ Recorded(r)'
    BY <1>1, <1>5, <1>6, <2>1 DEF Reading, Recorded
  <2>3. Permitted(r)'
    BY <1>2, <1>6, <2>1 DEF Permitted, RoleHeld
  <2> QED BY <2>2, <2>3 DEF Fine
<1>8. /\ \A c \in Calls : c # r =>
            step'[c] = step[c] /\ token'[c] = token[c] /\ loaded'[c] = loaded[c]
      /\ \A q \in Requests : q # r => usage'[q] = usage[q]
  BY <1>0, <1>2 DEF TypeOK
<1> QED BY <1>2, <1>3, <1>4, <1>7, <1>8, RequestStep

-----------------------------------------------------------------------------
LEMMA NextIInv == IInv /\ [Next]_vars => IInv'
<1> SUFFICES ASSUME IInv, [Next]_vars PROVE IInv'
  OBVIOUS
<1>1. CASE UNCHANGED vars
  BY <1>1, StutterStep
<1>2. CASE Next
  <2>0. Remember
    BY <1>2 DEF Next
  <2>1. CASE \/ Tick \/ Finished
             \/ \E t \in Tokens, n \in Lifetimes :
                   IssueHook(t, n) \/ \E a \in SUBSET Roles : IssueToken(t, n, a)
             \/ \E t \in Tokens : RevokeHook(t)
             \/ \E a \in Roles : AssignRole(a)
    BY <2>0, <2>1, WorldStep
  <2>2. ASSUME NEW r \in Requests, Request(r) PROVE IInv'
    BY <2>0, <2>2, BeginStep, FindStep, EndStep, CheckedStep, CommitStep DEF Request
  <2>3. ASSUME NEW e \in Edits, Edit(e) PROVE IInv'
    BY <2>0, <2>3, FetchStep, WriteStep DEF Edit
  <2> QED BY <1>2, <2>1, <2>2, <2>3 DEF Next, Step
<1> QED BY <1>1, <1>2

\* The inductive invariant.
THEOREM Invariance == Spec => []IInv
BY InitIInv, NextIInv, PTL DEF Spec

-----------------------------------------------------------------------------
\* The tables and the calls hold what their columns and variables are declared
\* for, after any sequence of partial updates.
THEOREM TypeCorrect == Spec => []TypeOK
<1>1. IInv => TypeOK
  BY DEF IInv
<1> QED BY <1>1, Invariance, PTL

\* verify_token accepts only what was permitted at some moment of the request
\* (auth.py 126-196), whatever is edited between its statements.
THEOREM AcceptanceIsPermitted == Spec => []AcceptedWasPermitted
<1>1. IInv => AcceptedWasPermitted
  BY DEF IInv, Fine, Permitted, AcceptedWasPermitted
<1> QED BY <1>1, Invariance, PTL

\* The use of an API token is logged once and stays in last_used_at (auth.py
\* 184-193), although edits of the same row commit before and after it.
THEOREM UsesAreRecorded == Spec => []UseIsRecorded
<1>1. IInv => UseIsRecorded
  BY DEF IInv, Fine, Recorded, UseIsRecorded
<1> QED BY <1>1, Invariance, PTL

\* No commit of an object that was read before a revocation lifts it
\* (routes.py 443-485, auth.py 184-193).
THEOREM RevocationsStick == Spec => RevocationSticks
<1> DEFINE Sticks ==
      \A t \in Tokens : (rows[t] # None /\ rows[t].revoked /\ ~rows'[t].revoked) =>
          \E e \in Edits : /\ step[e] = "write" /\ token[e] = t
                           /\ loaded[e].revoked /\ ~dirty[e].revoked
<1>1. IInv /\ [Next]_vars => [Sticks]_vars
  <2> SUFFICES ASSUME IInv, Next, NEW t \in Tokens,
                      rows[t] # None, rows[t].revoked, ~rows'[t].revoked
               PROVE  \E e \in Edits : /\ step[e] = "write" /\ token[e] = t
                                       /\ loaded[e].revoked /\ ~dirty[e].revoked
    OBVIOUS
  <2>0. rows \in [Tokens -> Row \cup {None}] /\ rows' # rows
    BY DEF IInv, TypeOK
  <2>1. PICK e \in Edits : Write(e)
    <3>1. ASSUME NEW s \in Tokens, NEW n \in Lifetimes, NEW a \in SUBSET Roles, IssueToken(s, n, a)
          PROVE  FALSE
      BY <2>0, <3>1 DEF IssueToken, IInv
    <3>2. ASSUME NEW r \in Requests, Commit(r) PROVE FALSE
      BY <2>0, <3>2, CommitFacts
    <3>3. ASSUME NEW r \in Requests, Request(r) PROVE FALSE
      BY <2>0, <3>2, <3>3 DEF Request, HookFound, HookMissing, HookExpired, Begin, Find,
         FindNone, NonceNew, NonceSeen, RolesHeld, RoleMissing, CommitFails, Fails, tables
    <3>4. ASSUME NEW e \in Edits, Edit(e) PROVE Write(e)
      BY <2>0, <3>4 DEF Edit, RevokeTokenRoute, UpdateTokenRoute, Fetch, EditFails, tables
    <3>5. ~(Tick \/ Finished \/ (\E s \in Tokens : RevokeHook(s)) \/ \E a \in Roles : AssignRole(a))
      BY <2>0 DEF Tick, Finished, RevokeHook, AssignRole, tables
    <3>6. ASSUME NEW s \in Tokens, NEW n \in Lifetimes, IssueHook(s, n) PROVE FALSE
      BY <2>0, <3>6 DEF IssueHook
    <3> QED BY <3>1, <3>3, <3>4, <3>5, <3>6 DEF Next, Step
  <2>2. /\ token[e] \in Tokens /\ rows[token[e]] \in Row
        /\ loaded[e] \in Row /\ dirty[e] \in Row
        /\ rows' = [rows EXCEPT ![token[e]] = Flush(rows[token[e]], loaded[e], dirty[e])]
    BY <2>1, WriteFacts
  <2>3. token[e] = t /\ rows'[t] = Flush(rows[t], loaded[e], dirty[e])
    BY <2>0, <2>2
  <2>4. dirty[e].revoked # loaded[e].revoked /\ ~dirty[e].revoked
    BY <2>2, <2>3, FlushedRow
  <2>5. loaded[e].revoked \in BOOLEAN /\ dirty[e].revoked \in BOOLEAN
    BY <2>2 DEF Row
  <2> QED BY <2>1, <2>3, <2>4, <2>5 DEF Write
<1> QED BY <1>1, Invariance, PTL DEF Spec, RevocationSticks
=============================================================================
