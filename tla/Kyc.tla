--------------------------------- MODULE Kyc ---------------------------------
(***************************************************************************)
(* KYC applications (app/identity/routes.py 488-641): users submit them    *)
(* and upload documents, reviewers approve or reject them, and the         *)
(* compliance report counts them.  The handlers run in a thread pool, each *)
(* with a session of its own, and their SQL statements interleave.  What a *)
(* review answers is read from the table after its commit, which is left   *)
(* out: it changes nothing.                                                *)
(*                                                                         *)
(* Documents are encrypted and written to files before their row           *)
(* (app/compliance/storage.py).  The key is a setting; if it is not        *)
(* configured, whoever finds it missing generates one and sets it.         *)
(***************************************************************************)
EXTENDS Naturals, Sequences, UnitOfWork

CONSTANTS
    Users, Reviewers,
    Apps,       \* identifiers of applications
    Uploads,    \* calls of upload_kyc_document
    Reviews,    \* calls of approve_kyc and reject_kyc
    DocumentKey,    \* the configured DOCUMENT_ENCRYPTION_KEY, or None
    Horizon,    \* bound on the clock
    None

ASSUME CallsAssumption == Uploads \cap Reviews = {}
ASSUME HorizonAssumption == Horizon \in Nat

VARIABLES
    clock,      \* seconds: the grain of submitted_at
    apps,       \* table kyc_verifications, None without a row
    docs,       \* table kyc_documents: the row of each upload
    files,      \* the key each upload's file is encrypted with
    setting,    \* settings.DOCUMENT_ENCRYPTION_KEY: a key is named after
                \* the upload that generated it
    step, app,  \* where a call is, and the application it is about
    loaded, dirty, \* a reviewer's object as read, and as changed
    key,        \* the key an upload works with
    counting,   \* how many of its queries the report has made
    counted,    \* the applications they counted
    before,     \* history: the applications when the report began,
    overturned  \* and those approved since then that were rejected

tables == <<apps, docs>>
storage == <<files, setting>>
calls == <<step, app, key, loaded, dirty>>
reports == <<counting, counted, before, overturned>>
vars == <<clock, tables, storage, calls, reports>>

Calls == Uploads \cup Reviews
Statuses == <<"pending", "approved", "rejected">>
Decisions == {"approved", "rejected"}
DocumentKeys == Uploads \cup ({DocumentKey} \ {None})

Row == [user : Users, status : {"pending"} \cup Decisions,
        reviewed_by : Reviewers \cup {None}, submitted_at : Nat]
Document == [app : Apps, key : DocumentKeys]

ASSUME NoneAssumption ==
    /\ None \notin Apps /\ None \notin Reviewers /\ None \notin Uploads
    /\ None \notin Row /\ None \notin Document

TypeOK ==
    /\ clock \in 0..Horizon
    /\ apps \in [Apps -> Row \cup {None}]
    /\ \A a \in Apps : apps[a] # None => apps[a].submitted_at <= clock
    /\ docs \in [Uploads -> Document \cup {None}]
    /\ files \in [Uploads -> DocumentKeys \cup {None}]
    /\ setting \in DocumentKeys \cup {None}
    /\ step \in [Calls -> {"idle", "scan", "save", "insert", "write", "ended"}]
    /\ key \in [Uploads -> DocumentKeys \cup {None}]
    /\ app \in [Calls -> Apps \cup {None}]
    /\ loaded \in [Reviews -> Row \cup {None}]
    /\ dirty \in [Reviews -> Row \cup {None}]
    /\ counting \in 0..Len(Statuses)
    /\ counted \subseteq Apps /\ before \subseteq Apps /\ overturned \subseteq Apps

Init ==
    /\ clock = 0
    /\ apps = [a \in Apps |-> None]
    /\ docs = [d \in Uploads |-> None]
    /\ files = [d \in Uploads |-> None]
    /\ setting = DocumentKey
    /\ key = [d \in Uploads |-> None]
    /\ step = [c \in Calls |-> "idle"]
    /\ app = [c \in Calls |-> None]
    /\ loaded = [c \in Reviews |-> None]
    /\ dirty = [c \in Reviews |-> None]
    /\ counting = 0
    /\ counted = {} /\ before = {} /\ overturned = {}

Tick ==
    /\ clock < Horizon
    /\ clock' = clock + 1
    /\ UNCHANGED <<tables, storage, calls, reports>>

Go(c, s) == step' = [step EXCEPT ![c] = s]

\* The local variables go with their call.
End(c) ==
    /\ Go(c, "ended")
    /\ app' = [app EXCEPT ![c] = None]
    /\ key' = [d \in Uploads |-> IF d = c THEN None ELSE key[d]]
    /\ loaded' = [r \in Reviews |-> IF r = c THEN None ELSE loaded[r]]
    /\ dirty' = [r \in Reviews |-> IF r = c THEN None ELSE dirty[r]]

-----------------------------------------------------------------------------
(* Users                                                                   *)

\* Mutant: the time of submission is taken in another time zone.
SubmitAhead(u, a) ==
    /\ apps[a] = None
    /\ apps' = [apps EXCEPT ![a] =
                  [user |-> u, status |-> "pending", reviewed_by |-> None,
                   submitted_at |-> clock + 1]]
    /\ UNCHANGED <<clock, docs, storage, calls, reports>>

SubmitKyc(u, a) ==
    /\ apps[a] = None
    /\ apps' = [apps EXCEPT ![a] =
                  [user |-> u, status |-> "pending", reviewed_by |-> None,
                   submitted_at |-> clock]]
    /\ UNCHANGED <<clock, docs, storage, calls, reports>>

PendingOf(u) ==
    {a \in Apps : apps[a] # None /\ apps[a].user = u /\ apps[a].status = "pending"}

\* Of those submitted in one second, any may come first.
Newest(s) == {a \in s : \A b \in s : apps[b].submitted_at <= apps[a].submitted_at}

UploadFinds(d, u) ==
    /\ step[d] = "idle"
    /\ \E a \in Newest(PendingOf(u)) : app' = [app EXCEPT ![d] = a]
    /\ Go(d, "scan")
    /\ UNCHANGED <<clock, tables, storage, key, loaded, dirty, reports>>

\* The scan finds nothing, and the key is read or generated.
GetFernet(d) ==
    /\ step[d] = "scan"
    /\ key' = [key EXCEPT ![d] = IF setting = None THEN d ELSE setting]
    /\ Go(d, "save")
    /\ UNCHANGED <<clock, tables, storage, app, loaded, dirty, reports>>

\* A key that was generated is set, though another upload may have set one since.
KeepKey(d) == setting' = IF step[d] = "save" /\ key[d] = d THEN d ELSE setting

SaveEncryptedData(d) ==
    /\ step[d] = "save"
    /\ KeepKey(d)
    /\ files' = [files EXCEPT ![d] = key[d]]
    /\ Go(d, "insert")
    /\ UNCHANGED <<clock, tables, app, key, loaded, dirty, reports>>

\* Mutant: the row names the key that is set now.
UploadInsertsSetting(d) ==
    /\ step[d] = "insert"
    /\ docs' = [docs EXCEPT ![d] = [app |-> app[d], key |-> setting]]
    /\ End(d)
    /\ UNCHANGED <<clock, apps, storage, reports>>

UploadInserts(d) ==
    /\ step[d] = "insert"
    /\ docs' = [docs EXCEPT ![d] = [app |-> app[d], key |-> key[d]]]
    /\ End(d)
    /\ UNCHANGED <<clock, apps, storage, reports>>

\* Nothing is pending, a virus is found, or the file or the row is not written.
UploadFails(d) ==
    /\ \/ step[d] = "idle" /\ \E u \in Users : PendingOf(u) = {}
       \/ step[d] \in {"scan", "save", "insert"}
    /\ KeepKey(d)
    /\ End(d)
    /\ UNCHANGED <<clock, tables, files, reports>>

-----------------------------------------------------------------------------
(* Reviewers.  Neither handler looks at the status it finds.               *)

Fetch(c, a, row) ==
    /\ step[c] = "idle"
    /\ apps[a] # None
    /\ app' = [app EXCEPT ![c] = a]
    /\ loaded' = [loaded EXCEPT ![c] = apps[a]]
    /\ dirty' = [dirty EXCEPT ![c] = row]
    /\ Go(c, "write")
    /\ UNCHANGED <<clock, tables, storage, key, reports>>

\* Mutant: the reviewer is not recorded.
ApproveUnsigned(c, a, x) ==
    Fetch(c, a, [apps[a] EXCEPT !.status = "approved"])

ApproveKyc(c, a, x) ==
    Fetch(c, a, [apps[a] EXCEPT !.status = "approved", !.reviewed_by = x])

RejectKyc(c, a, x) ==
    Fetch(c, a, [apps[a] EXCEPT !.status = "rejected", !.reviewed_by = x])

Write(c) ==
    /\ step[c] = "write"
    /\ apps' = [apps EXCEPT ![app[c]] = Flush(@, loaded[c], dirty[c])]
    /\ overturned' = overturned \cup
          {a \in Apps : a = app[c] /\ apps[a].status = "rejected" /\ apps'[a].status = "approved"}
    /\ End(c)
    /\ UNCHANGED <<clock, docs, storage, counting, counted, before>>

\* No such application, or the commit fails.
ReviewFails(c) ==
    /\ \/ step[c] = "idle" /\ \E a \in Apps : apps[a] = None
       \/ step[c] = "write"
    /\ End(c)
    /\ UNCHANGED <<clock, tables, storage, reports>>

-----------------------------------------------------------------------------
(* compliance_report: one query for each status.                           *)

\* Mutant: the statuses in another order.
LastFirst(i) == Statuses[Len(Statuses) + 1 - i]

Nth(i) == Statuses[i]

Count ==
    /\ counting < Len(Statuses)
    /\ counting' = counting + 1
    /\ counted' = counted \cup
          {a \in Apps : apps[a] # None /\ apps[a].status = Nth(counting + 1)}
    /\ IF counting = 0 THEN before' = {a \in Apps : apps[a] # None} /\ overturned' = {}
                       ELSE UNCHANGED <<before, overturned>>
    /\ UNCHANGED <<clock, tables, storage, calls>>

\* The process dies with its calls, the report among them, and starts again:
\* a key that was generated is lost.
Restart ==
    /\ step' = [c \in Calls |-> IF step[c] = "idle" THEN "idle" ELSE "ended"]
    /\ app' = [c \in Calls |-> None]
    /\ key' = [d \in Uploads |-> None]
    /\ loaded' = [c \in Reviews |-> None]
    /\ dirty' = [c \in Reviews |-> None]
    /\ setting' = DocumentKey
    /\ counting' = 0 /\ counted' = {}
    /\ UNCHANGED <<clock, tables, files, before, overturned>>

Finished ==
    /\ \A c \in Calls : step[c] = "ended"
    /\ UNCHANGED vars

Next ==
    \/ Tick \/ Count \/ Restart \/ Finished
    \/ \E u \in Users, a \in Apps : SubmitKyc(u, a)
    \/ \E d \in Uploads :
          \/ \E u \in Users : UploadFinds(d, u)
          \/ GetFernet(d) \/ SaveEncryptedData(d) \/ UploadInserts(d) \/ UploadFails(d)
    \/ \E c \in Reviews :
          \/ \E a \in Apps, x \in Reviewers :
                ApproveKyc(c, a, x) \/ RejectKyc(c, a, x)
          \/ Write(c) \/ ReviewFails(c)

Spec == Init /\ [][Next]_vars
-----------------------------------------------------------------------------
(* Properties                                                              *)

\* An application is pending exactly as long as it has no reviewer, whichever
\* columns concurrent reviews write.
DecidedIsSigned ==
    \A a \in Apps : apps[a] # None =>
        (apps[a].status = "pending" <=> apps[a].reviewed_by = None)

\* The report counts every application that was there when it began, although
\* reviews go on between its queries, except one whose rejection is overturned
\* meanwhile.
ReportMissesNone ==
    counting = Len(Statuses) => before \subseteq counted \cup overturned

\* Every document in the table can be decrypted with the key its row names,
\* also if two first uploads generate a key each, and after a restart has
\* lost both.
DocumentReadable ==
    \A d \in Uploads : docs[d] # None => files[d] = docs[d].key
=============================================================================
