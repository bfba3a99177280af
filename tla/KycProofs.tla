------------------------------- MODULE KycProofs -------------------------------
(***************************************************************************)
(* Proofs about Kyc, for any users, applications, reviews and uploads.  A  *)
(* review writes the columns that differ from what it read, so that a      *)
(* decision stays signed only because what was decided when a review read  *)
(* it is decided when it writes (Reviewing); the report misses nothing     *)
(* because of the order in which it asks (Counting).                       *)
(***************************************************************************)
EXTENDS Kyc, TLAPS

Signed(row) == row.status = "pending" <=> row.reviewed_by = None

Reviewing(c) ==
    step[c] = "write" =>
        /\ app[c] \in Apps /\ apps[app[c]] # None
        /\ loaded[c] \in Row /\ Signed(loaded[c])
        /\ dirty[c] \in Row /\ dirty[c].status \in Decisions /\ dirty[c].reviewed_by # None
        /\ dirty[c].submitted_at = loaded[c].submitted_at
        /\ loaded[c].status # "pending" => apps[app[c]].status # "pending"

Storing(d) ==
    /\ step[d] \in {"scan", "save", "insert"} => app[d] \in Apps
    /\ step[d] \in {"save", "insert"} => key[d] \in DocumentKeys
    /\ step[d] = "insert" => files[d] = key[d]
    /\ docs[d] # None => step[d] = "ended" /\ files[d] = docs[d].key

Missed == before \ (counted \cup overturned)

Counting ==
    /\ \A a \in before : counting # 0 => apps[a] # None
    /\ counting # 0 => \A a \in Missed : apps[a].status # "pending"
    /\ counting \in 2..3 => \A a \in Missed : apps[a].status # "approved"
    /\ counting = 3 => Missed = {}

IInv ==
    /\ TypeOK
    /\ DecidedIsSigned
    /\ \A c \in Reviews : Reviewing(c)
    /\ \A d \in Uploads : Storing(d)
    /\ Counting

-----------------------------------------------------------------------------
LEMMA StatusFacts ==
    /\ Len(Statuses) = 3
    /\ Nth(1) = "pending" /\ Nth(2) = "approved" /\ Nth(3) = "rejected"
  BY DEF Statuses, Nth

LEMMA InitIInv == Init => IInv
<1> SUFFICES ASSUME Init PROVE IInv
  OBVIOUS
<1>1. TypeOK
  BY HorizonAssumption, StatusFacts DEF Init, TypeOK, DocumentKeys
<1>2. DecidedIsSigned /\ Counting
  BY DEF Init, DecidedIsSigned, Counting, Missed
<1>3. (\A c \in Reviews : Reviewing(c)) /\ (\A d \in Uploads : Storing(d))
  BY DEF Init, Calls, Reviewing, Storing
<1> QED BY <1>1, <1>2, <1>3 DEF IInv

\* What is decided stays decided, and what is there stays there.
Proceeds ==
    \A a \in Apps : apps[a] # None =>
        apps'[a] # None /\ (apps[a].status # "pending" => apps'[a].status # "pending")

\* A review that does not step is not disturbed by the others.
LEMMA ReviewKept ==
    ASSUME NEW c \in Reviews, Reviewing(c), Proceeds,
           step'[c] = "write" =>
               /\ step[c] = "write" /\ app'[c] = app[c]
               /\ loaded'[c] = loaded[c] /\ dirty'[c] = dirty[c]
    PROVE  Reviewing(c)'
  BY DEF Reviewing, Proceeds

LEMMA UploadKept ==
    ASSUME NEW d \in Uploads, Storing(d), docs'[d] = docs[d], files'[d] = files[d],
           \/ step'[d] = step[d] /\ app'[d] = app[d] /\ key'[d] = key[d]
           \/ step'[d] = "ended"
    PROVE  Storing(d)'
  BY DEF Storing

\* A step that leaves the applications and the report alone.
LEMMA CallStep ==
    ASSUME IInv, UNCHANGED <<apps, counting, counted, before, overturned>>, TypeOK',
           \A c \in Reviews : Reviewing(c)', \A d \in Uploads : Storing(d)'
    PROVE  IInv'
<1>1. DecidedIsSigned'
  BY DEF IInv, DecidedIsSigned
<1>2. Counting'
  BY DEF IInv, Counting, Missed
<1> QED BY <1>1, <1>2 DEF IInv

-----------------------------------------------------------------------------
(* Users                                                                   *)

LEMMA TickStep == ASSUME IInv, Tick PROVE IInv'
<1>1. TypeOK'
  <2>1. clock \in 0..Horizon /\ clock' = clock + 1 /\ clock' \in 0..Horizon /\ apps' = apps
    BY HorizonAssumption DEF IInv, TypeOK, Tick, tables
  <2>2. \A a \in Apps : apps[a] # None => apps[a].submitted_at \in Nat
    BY DEF IInv, TypeOK, Row
  <2>3. \A a \in Apps : apps[a] # None => apps[a].submitted_at <= clock + 1
    BY <2>1, <2>2 DEF IInv, TypeOK
  <2> QED
    BY <2>1, <2>3 DEF IInv, TypeOK, Tick, tables, storage, calls, reports
<1>2. \A c \in Reviews : Reviewing(c)'
  BY DEF IInv, Reviewing, Tick, tables, calls
<1>3. \A d \in Uploads : Storing(d)'
  BY DEF IInv, Storing, Tick, tables, storage, calls
<1> QED BY <1>1, <1>2, <1>3, CallStep DEF Tick, tables, reports

LEMMA SubmitStep ==
    ASSUME IInv, NEW u \in Users, NEW a \in Apps, SubmitKyc(u, a)
    PROVE  IInv'
<1> DEFINE row == [user |-> u, status |-> "pending", reviewed_by |-> None, submitted_at |-> clock]
<1>1. /\ apps[a] = None /\ apps' = [apps EXCEPT ![a] = row]
      /\ UNCHANGED <<clock, docs, storage, calls, reports>>
  BY DEF SubmitKyc
<1>2. /\ row \in Row /\ row.status = "pending" /\ row.reviewed_by = None
      /\ row.submitted_at <= clock
  BY HorizonAssumption DEF Row, IInv, TypeOK
<1>3. row # None
  BY <1>2, NoneAssumption
<1> HIDE DEF row
<1>4. TypeOK'
  BY <1>1, <1>2 DEF IInv, TypeOK, storage, calls, reports
<1>5. DecidedIsSigned'
  BY <1>1, <1>2 DEF IInv, TypeOK, DecidedIsSigned
<1>6. Proceeds
  BY <1>1, <1>3 DEF IInv, TypeOK, Proceeds
<1>7. \A c \in Reviews : Reviewing(c)'
  BY <1>1, <1>6, ReviewKept DEF IInv, calls
<1>8. \A d \in Uploads : Storing(d)'
  BY <1>1 DEF IInv, Storing, storage, calls
<1>9. Counting'
  <2>1. counting # 0 => \A b \in before : apps'[b] = apps[b]
    BY <1>1 DEF IInv, TypeOK, Counting
  <2> QED BY <2>1, <1>1 DEF IInv, Counting, Missed, reports
<1> QED BY <1>4, <1>5, <1>7, <1>8, <1>9 DEF IInv

LEMMA UploadStep ==
    ASSUME IInv, NEW d \in Uploads,
           \/ \E u \in Users : UploadFinds(d, u)
           \/ GetFernet(d) \/ SaveEncryptedData(d) \/ UploadInserts(d) \/ UploadFails(d)
    PROVE  IInv'
<1> USE NoneAssumption DEF Calls
<1>0. TypeOK /\ Storing(d) /\ (\A e \in Uploads : Storing(e)) /\ (\A c \in Reviews : Reviewing(c))
      /\ \A c \in Reviews : c # d
  BY CallsAssumption DEF IInv
<1>1. CASE \E u \in Users : UploadFinds(d, u)
  <2> PICK u \in Users : UploadFinds(d, u)
    BY <1>1
  <2>1. PICK a \in Apps : app' = [app EXCEPT ![d] = a]
    BY DEF UploadFinds, Newest, PendingOf
  <2>2. /\ step[d] = "idle" /\ step' = [step EXCEPT ![d] = "scan"]
        /\ UNCHANGED <<clock, tables, storage, key, loaded, dirty, reports>>
    BY DEF UploadFinds, Go
  <2>3. TypeOK'
    BY <1>0, <2>1, <2>2 DEF TypeOK, tables, storage, reports
  <2>4. \A e \in Uploads : Storing(e)'
    BY <1>0, <2>1, <2>2 DEF TypeOK, Storing, tables, storage
  <2>5. \A c \in Reviews : Reviewing(c)'
    BY <1>0, <2>1, <2>2 DEF TypeOK, Reviewing, tables
  <2> QED BY <2>2, <2>3, <2>4, <2>5, CallStep DEF tables, reports
<1>2. CASE GetFernet(d)
  <2>1. PICK k \in DocumentKeys : key' = [key EXCEPT ![d] = k]
    BY <1>0, <1>2 DEF GetFernet, TypeOK, DocumentKeys
  <2>2. /\ step[d] = "scan" /\ step' = [step EXCEPT ![d] = "save"]
        /\ UNCHANGED <<clock, tables, storage, app, loaded, dirty, reports>>
    BY <1>2 DEF GetFernet, Go
  <2>3. TypeOK'
    BY <1>0, <2>1, <2>2 DEF TypeOK, tables, storage, reports
  <2>4. \A e \in Uploads : Storing(e)'
    BY <1>0, <2>1, <2>2 DEF TypeOK, Storing, tables, storage
  <2>5. \A c \in Reviews : Reviewing(c)'
    BY <1>0, <2>1, <2>2 DEF TypeOK, Reviewing, tables
  <2> QED BY <2>2, <2>3, <2>4, <2>5, CallStep DEF tables, reports
<1>3. CASE SaveEncryptedData(d)
  <2>1. setting' \in DocumentKeys \cup {None} /\ key[d] \in DocumentKeys
    BY <1>0, <1>3 DEF SaveEncryptedData, KeepKey, TypeOK, Storing, DocumentKeys
  <2>2. /\ step[d] = "save" /\ step' = [step EXCEPT ![d] = "insert"]
        /\ files' = [files EXCEPT ![d] = key[d]]
        /\ UNCHANGED <<clock, tables, app, key, loaded, dirty, reports>>
    BY <1>3 DEF SaveEncryptedData, Go
  <2>3. TypeOK'
    BY <1>0, <2>1, <2>2 DEF TypeOK, tables, reports
  <2>4. \A e \in Uploads : Storing(e)'
    BY <1>0, <2>1, <2>2 DEF TypeOK, Storing, tables
  <2>5. \A c \in Reviews : Reviewing(c)'
    BY <1>0, <2>2 DEF TypeOK, Reviewing, tables
  <2> QED BY <2>2, <2>3, <2>4, <2>5, CallStep DEF tables, reports
<1>4. CASE UploadInserts(d) \/ UploadFails(d)
  <2>1. End(d) /\ UNCHANGED <<clock, apps, files, reports>>
    BY <1>4 DEF UploadInserts, UploadFails, tables, storage
  <2>2. setting' \in DocumentKeys \cup {None}
    BY <1>0, <1>4 DEF UploadInserts, UploadFails, KeepKey, storage, TypeOK, DocumentKeys
  <2>3. \/ docs' = docs
        \/ /\ step[d] = "insert"
           /\ docs' = [docs EXCEPT ![d] = [app |-> app[d], key |-> key[d]]]
    BY <1>4 DEF UploadInserts, UploadFails, tables
  <2>4. step[d] = "insert" => [app |-> app[d], key |-> key[d]] \in Document
    BY <1>0 DEF Storing, Document
  <2>5. TypeOK'
    BY <1>0, <2>1, <2>2, <2>3, <2>4 DEF TypeOK, End, Go, reports
  <2>6. Storing(d)'
    BY <1>0, <2>1, <2>3 DEF TypeOK, Storing, End, Go
  <2>7. ASSUME NEW e \in Uploads, e # d PROVE Storing(e)'
    BY <1>0, <2>1, <2>3, <2>7, UploadKept DEF TypeOK, End, Go
  <2>8. \A c \in Reviews : Reviewing(c)'
    BY <1>0, <2>1 DEF TypeOK, Reviewing, End, Go
  <2> QED BY <2>1, <2>5, <2>6, <2>7, <2>8, CallStep DEF reports
<1> QED BY <1>1, <1>2, <1>3, <1>4

-----------------------------------------------------------------------------
(* Reviewers                                                               *)

LEMMA FetchStep ==
    ASSUME IInv, NEW c \in Reviews, NEW a \in Apps, NEW x \in Reviewers,
           ApproveKyc(c, a, x) \/ RejectKyc(c, a, x)
    PROVE  IInv'
<1> USE NoneAssumption DEF Calls
<1>0. TypeOK /\ DecidedIsSigned /\ (\A d \in Uploads : Storing(d) /\ d # c)
      /\ \A r \in Reviews : Reviewing(r)
  BY CallsAssumption DEF IInv
<1>1. PICK s \in Decisions : Fetch(c, a, [apps[a] EXCEPT !.status = s, !.reviewed_by = x])
  BY DEF ApproveKyc, RejectKyc, Decisions
<1> DEFINE row == [apps[a] EXCEPT !.status = s, !.reviewed_by = x]
<1>2. /\ step[c] = "idle" /\ step' = [step EXCEPT ![c] = "write"]
      /\ apps[a] # None
      /\ app' = [app EXCEPT ![c] = a]
      /\ loaded' = [loaded EXCEPT ![c] = apps[a]]
      /\ dirty' = [dirty EXCEPT ![c] = row]
      /\ UNCHANGED <<clock, tables, storage, key, reports>>
  BY <1>1 DEF Fetch, Go
<1>3. apps[a] \in Row /\ Signed(apps[a])
  BY <1>0, <1>2 DEF TypeOK, DecidedIsSigned, Signed
<1>4. /\ row \in Row /\ row.status = s /\ row.reviewed_by = x
      /\ row.submitted_at = apps[a].submitted_at
  BY <1>3 DEF Row, Decisions
<1> HIDE DEF row
<1>5. TypeOK'
  BY <1>0, <1>2, <1>3, <1>4 DEF TypeOK, tables, storage, reports
<1>6. Reviewing(c)'
  BY <1>0, <1>2, <1>3, <1>4 DEF TypeOK, Reviewing, tables
<1>7. ASSUME NEW r \in Reviews, r # c PROVE Reviewing(r)'
  BY <1>0, <1>2, <1>7 DEF TypeOK, Reviewing, tables
<1>8. \A d \in Uploads : Storing(d)'
  BY <1>0, <1>2 DEF TypeOK, Storing, tables, storage
<1> QED BY <1>2, <1>5, <1>6, <1>7, <1>8, CallStep DEF tables, reports

LEMMA ReviewFailsStep ==
    ASSUME IInv, NEW c \in Reviews, ReviewFails(c)
    PROVE  IInv'
<1> USE DEF Calls
<1>0. TypeOK /\ (\A d \in Uploads : Storing(d) /\ d # c) /\ \A r \in Reviews : Reviewing(r)
  BY CallsAssumption DEF IInv
<1>1. End(c) /\ UNCHANGED <<clock, tables, storage, reports>>
  BY DEF ReviewFails
<1>2. TypeOK'
  BY <1>0, <1>1 DEF TypeOK, End, Go, tables, storage, reports
<1>3. \A r \in Reviews : Reviewing(r)'
  BY <1>0, <1>1 DEF TypeOK, Reviewing, End, Go, tables
<1>4. \A d \in Uploads : Storing(d)'
  BY <1>0, <1>1 DEF TypeOK, Storing, End, Go, tables, storage
<1> QED BY <1>1, <1>2, <1>3, <1>4, CallStep DEF tables, reports

\* The row that a review leaves behind.
LEMMA FlushFacts ==
    ASSUME NEW row \in Row, NEW old \in Row, NEW new \in Row,
           Signed(row), Signed(old), new.status \in Decisions, new.reviewed_by # None,
           new.submitted_at = old.submitted_at,
           old.status # "pending" => row.status # "pending"
    PROVE  /\ Flush(row, old, new) \in Row
           /\ Flush(row, old, new).submitted_at = row.submitted_at
           /\ Signed(Flush(row, old, new))
           /\ Flush(row, old, new).status # "pending"
<1> DEFINE flushed == Flush(row, old, new)
<1>1. /\ flushed \in Row
      /\ flushed.status = IF new.status = old.status THEN row.status ELSE new.status
      /\ flushed.submitted_at = row.submitted_at
      /\ flushed.reviewed_by =
            IF new.reviewed_by = old.reviewed_by THEN row.reviewed_by ELSE new.reviewed_by
  BY DEF Flush, Row
<1>2. flushed.status # "pending"
  BY <1>1 DEF Decisions
<1>3. flushed.reviewed_by # None
  BY <1>1 DEF Signed
<1> QED BY <1>1, <1>2, <1>3 DEF Signed

LEMMA WriteStep ==
    ASSUME IInv, NEW c \in Reviews, Write(c)
    PROVE  IInv'
<1> USE NoneAssumption DEF Calls
<1>0. TypeOK /\ DecidedIsSigned /\ (\A d \in Uploads : Storing(d) /\ d # c)
      /\ (\A r \in Reviews : Reviewing(r)) /\ Counting
  BY CallsAssumption DEF IInv
<1> DEFINE a == app[c]
           row == Flush(apps[a], loaded[c], dirty[c])
<1>1. /\ a \in Apps /\ apps[a] \in Row /\ Signed(apps[a])
      /\ apps' = [apps EXCEPT ![a] = row]
      /\ End(c)
      /\ UNCHANGED <<clock, docs, storage, counting, counted, before>>
  BY <1>0 DEF Write, Reviewing, TypeOK, DecidedIsSigned, Signed
<1>2. /\ row \in Row /\ Signed(row) /\ row.status # "pending"
      /\ row.submitted_at = apps[a].submitted_at
  BY <1>0, <1>1, FlushFacts DEF Write, Reviewing
<1>3. /\ overturned' \in SUBSET Apps /\ overturned \subseteq overturned'
      /\ apps[a].status = "rejected" /\ row.status = "approved" => a \in overturned'
  BY <1>0, <1>1 DEF Write, TypeOK
<1> HIDE DEF row, a
<1>4. TypeOK'
  BY <1>0, <1>1, <1>2, <1>3 DEF TypeOK, End, Go, storage
<1>5. DecidedIsSigned'
  BY <1>0, <1>1, <1>2 DEF TypeOK, DecidedIsSigned, Signed
<1>6. Proceeds
  BY <1>0, <1>1, <1>2 DEF TypeOK, Proceeds
<1>7. ASSUME NEW r \in Reviews PROVE Reviewing(r)'
  <2>1. step'[r] = "write" =>
          /\ step[r] = "write" /\ app'[r] = app[r]
          /\ loaded'[r] = loaded[r] /\ dirty'[r] = dirty[r]
    BY <1>0, <1>1 DEF TypeOK, End, Go
  <2> QED BY <2>1, <1>0, <1>6, ReviewKept
<1>8. \A d \in Uploads : Storing(d)'
  BY <1>0, <1>1 DEF TypeOK, Storing, End, Go, storage
<1>9. Counting'
  <2>1. counting' = counting /\ before' = before /\ Missed' \subseteq Missed
    BY <1>1, <1>3 DEF Missed
  <2>2. counting # 0 => \A b \in before : apps'[b] # None
    BY <1>0, <1>6 DEF TypeOK, Counting, Proceeds
  <2>3. counting # 0 => \A b \in Missed' : apps'[b].status # "pending"
    BY <1>0, <1>6, <2>1 DEF TypeOK, Counting, Proceeds, Missed
  <2>4. counting \in 2..3 => \A b \in Missed' : apps'[b].status # "approved"
    <3> SUFFICES ASSUME counting \in 2..3, NEW b \in Missed', apps'[b].status = "approved"
                 PROVE  FALSE
      OBVIOUS
    <3>1. b \in Missed /\ b \in Apps /\ b \notin overturned' /\ counting # 0
      BY <1>0, <2>1 DEF TypeOK, Missed
    <3>2. apps[b] # None /\ apps[b].status \notin {"pending", "approved"}
      BY <3>1, <1>0 DEF Counting, Missed
    <3>3. apps[b].status = "rejected"
      BY <3>1, <3>2, <1>0 DEF TypeOK, Row, Decisions
    <3>4. b = a
      BY <3>1, <3>3, <1>0, <1>1 DEF TypeOK
    <3> QED BY <3>1, <3>3, <3>4, <1>0, <1>1, <1>3 DEF TypeOK
  <2> QED BY <2>1, <2>2, <2>3, <2>4, <1>0 DEF Counting
<1> QED BY <1>4, <1>5, <1>7, <1>8, <1>9 DEF IInv

-----------------------------------------------------------------------------
(* The report, and the process                                             *)

LEMMA CountStep == ASSUME IInv, Count PROVE IInv'
<1>0. TypeOK /\ Counting /\ DecidedIsSigned
  BY DEF IInv
<1>1. /\ counting \in 0..2 /\ counting' = counting + 1 /\ counting' \in 1..3
      /\ UNCHANGED <<clock, tables, storage, calls>>
  BY <1>0, StatusFacts DEF Count, TypeOK
<1>2. /\ counted' \subseteq Apps /\ before' \subseteq Apps /\ overturned' \subseteq Apps
      /\ \A a \in before' : apps[a] # None
      /\ counting # 0 => before' = before /\ overturned' = overturned
  BY <1>0 DEF Count, TypeOK, Counting
<1>3. /\ counting # 0 => Missed' \subseteq Missed
      /\ Missed' \subseteq before' /\ Missed' \subseteq Apps
      /\ \A a \in Missed' : apps[a].status # Nth(counting + 1)
  BY <1>2 DEF Count, Missed
<1>4. TypeOK'
  BY <1>0, <1>1, <1>2, StatusFacts DEF TypeOK, tables, storage, calls
<1>5. \A c \in Reviews : Reviewing(c)'
  BY <1>1 DEF IInv, Reviewing, tables, calls
<1>6. \A d \in Uploads : Storing(d)'
  BY <1>1 DEF IInv, Storing, tables, storage, calls
<1>7. /\ apps' = apps /\ \A a \in before' : apps'[a] # None
      /\ \A a \in Missed' : apps[a].status # "pending"
  <2>1. CASE counting = 0
    BY <2>1, <1>1, <1>2, <1>3, StatusFacts DEF tables
  <2>2. CASE counting # 0
    BY <2>2, <1>0, <1>1, <1>2, <1>3 DEF Counting, tables
  <2> QED BY <2>1, <2>2
<1>8. counting' \in 2..3 => \A a \in Missed' : apps[a].status # "approved"
  <2>1. CASE counting = 0
    BY <2>1, <1>1
  <2>2. CASE counting = 1
    BY <2>2, <1>3, StatusFacts
  <2>3. CASE counting = 2
    BY <2>3, <1>0, <1>3 DEF Counting
  <2> QED BY <2>1, <2>2, <2>3, <1>1
<1>9. counting' = 3 => Missed' = {}
  <2> SUFFICES ASSUME counting' = 3, NEW a \in Missed' PROVE FALSE
    OBVIOUS
  <2>1. apps[a] \in Row /\ apps[a].status \notin {"pending", "approved"}
    BY <1>0, <1>1, <1>2, <1>3, <1>7, <1>8 DEF TypeOK
  <2>2. apps[a].status # "rejected"
    BY <1>1, <1>3, StatusFacts
  <2> QED BY <2>1, <2>2 DEF Row, Decisions
<1>10. Counting'
  BY <1>7, <1>8, <1>9 DEF Counting
<1> QED BY <1>0, <1>4, <1>5, <1>6, <1>7, <1>10 DEF IInv, DecidedIsSigned

LEMMA RestartStep == ASSUME IInv, Restart PROVE IInv'
<1>0. TypeOK /\ DecidedIsSigned /\ (\A d \in Uploads : Storing(d))
  BY DEF IInv
<1>1. TypeOK'
  BY <1>0, StatusFacts DEF Restart, TypeOK, DocumentKeys, tables
<1>2. DecidedIsSigned' /\ Counting'
  BY <1>0 DEF Restart, DecidedIsSigned, Counting, tables
<1>3. (\A c \in Reviews : Reviewing(c)') /\ \A d \in Uploads : Storing(d)'
  BY <1>0 DEF Restart, Reviewing, Storing, Calls, tables
<1> QED BY <1>1, <1>2, <1>3 DEF IInv

LEMMA StutterStep == ASSUME IInv, UNCHANGED vars PROVE IInv'
<1> USE DEF vars, tables, storage, calls, reports
<1>1. TypeOK'
  BY DEF IInv, TypeOK
<1>2. DecidedIsSigned' /\ Counting'
  BY DEF IInv, DecidedIsSigned, Counting, Missed
<1>3. (\A c \in Reviews : Reviewing(c)') /\ \A d \in Uploads : Storing(d)'
  BY DEF IInv, Reviewing, Storing
<1> QED BY <1>1, <1>2, <1>3 DEF IInv

LEMMA NextIInv == IInv /\ [Next]_vars => IInv'
<1> SUFFICES ASSUME IInv, [Next]_vars PROVE IInv'
  OBVIOUS
<1>1. CASE Tick \/ Count \/ Restart
  BY <1>1, TickStep, CountStep, RestartStep
<1>2. CASE Finished \/ UNCHANGED vars
  BY <1>2, StutterStep DEF Finished
<1>3. CASE \E u \in Users, a \in Apps : SubmitKyc(u, a)
  BY <1>3, SubmitStep
<1>4. ASSUME NEW d \in Uploads,
             \/ \E u \in Users : UploadFinds(d, u)
             \/ GetFernet(d) \/ SaveEncryptedData(d) \/ UploadInserts(d) \/ UploadFails(d)
      PROVE  IInv'
  BY <1>4, UploadStep
<1>5. ASSUME NEW c \in Reviews, NEW a \in Apps, NEW x \in Reviewers,
             ApproveKyc(c, a, x) \/ RejectKyc(c, a, x)
      PROVE  IInv'
  BY <1>5, FetchStep
<1>6. ASSUME NEW c \in Reviews, Write(c) \/ ReviewFails(c)
      PROVE  IInv'
  BY <1>6, WriteStep, ReviewFailsStep
<1> QED BY <1>1, <1>2, <1>3, <1>4, <1>5, <1>6 DEF Next

\* The inductive invariant.
THEOREM Invariance == Spec => []IInv
BY InitIInv, NextIInv, PTL DEF Spec

-----------------------------------------------------------------------------
\* The tables, the files and the calls hold what their columns and variables
\* are declared for: in particular no application is dated in the future.
THEOREM TypeCorrect == Spec => []TypeOK
<1>1. IInv => TypeOK
  BY DEF IInv
<1> QED BY <1>1, Invariance, PTL

\* Any number of reviews of one application, each writing only the columns it
\* changed, leave it pending or signed: routes.py 574-603.
THEOREM DecisionsAreSigned == Spec => []DecidedIsSigned
<1>1. IInv => DecidedIsSigned
  BY DEF IInv
<1> QED BY <1>1, Invariance, PTL

\* The three queries of compliance_report miss no application that was there
\* when it began, but those whose rejection is overturned: routes.py 606-615.
THEOREM ReportIsComplete == Spec => []ReportMissesNone
<1>1. IInv => ReportMissesNone
  BY StatusFacts DEF IInv, Counting, Missed, ReportMissesNone
<1> QED BY <1>1, Invariance, PTL

\* The row of a document names the key its file was encrypted with, however
\* many uploads generate one: storage.py 8-25, routes.py 537-556.
THEOREM DocumentsReadable == Spec => []DocumentReadable
<1>1. IInv => DocumentReadable
  BY DEF IInv, Storing, DocumentReadable
<1> QED BY <1>1, Invariance, PTL
=============================================================================
