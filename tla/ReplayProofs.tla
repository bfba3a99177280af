---------------------------- MODULE ReplayProofs ----------------------------
(***************************************************************************)
(* Proofs about the two guards against a request that is sent again: the   *)
(* nonces table (NonceStore) and the cache of signatures (SignatureCheck), *)
(* for every number of callers, nonces and signatures and every TTL.  The  *)
(* two components share no state and no lemma.                             *)
(***************************************************************************)
EXTENDS NonceStore, MCSignatureCheck, TLAPS

-----------------------------------------------------------------------------
(* The nonces table.  A row outlives the use it stands for by NonceTtl     *)
(* less the delay of the caller that wrote it, because only a reading of   *)
(* the clock that has passed expires_at deletes it (Covered).  A use is    *)
(* recorded only where there is no row.  The SELECT plays no part: the     *)
(* PRIMARY KEY alone keeps the uses apart.                                 *)

\* The reading of the clock of a running call.
Readings ==
    \A p \in Callers :
        pc[p] # "idle" => now[p] <= clock /\ clock <= now[p] + MaxStall

Arguments ==
    \A p \in Callers : pc[p] \in {"delete", "select", "insert"} => nonce[p] \in Nonces

\* What the table, or its silence, says of the last use of a nonce.
Covered ==
    \A n \in Nonces :
        uses[n] # <<>> =>
            /\ nonces[n] # None => LastUse(n) + NonceTtl <= nonces[n] + MaxStall
            /\ nonces[n] = None => LastUse(n) + NonceTtl <= clock + MaxStall

\* Every row stands for a use, and expires NonceTtl after it at the latest.
Grounded ==
    \A n \in Nonces :
        nonces[n] # None =>
            /\ uses[n] # <<>>
            /\ LastUse(n) <= clock
            /\ nonces[n] <= LastUse(n) + NonceTtl

\* A row that survived the caller's own DELETE, or was inserted after it.
Purged ==
    \A p \in Callers, n \in Nonces :
        pc[p] = "select" /\ nonce[p] = n /\ nonces[n] # None =>
            nonces[n] > now[p] \/ LastUse(n) >= now[p]

IInv == TypeOK /\ Readings /\ Arguments /\ Covered /\ Grounded /\ Purged

LEMMA InitIInv == Init => IInv
  BY NoneAssumption DEF Init, IInv, TypeOK, Readings, Arguments, Covered, Grounded, Purged

\* One more use.
LEMMA AppendUse ==
    ASSUME NEW s \in Seq(Nat), NEW t \in Nat
    PROVE  /\ Append(s, t) \in Seq(Nat)
           /\ Append(s, t) # <<>>
           /\ Append(s, t)[Len(Append(s, t))] = t
  OBVIOUS

LEMMA LastUseType ==
    ASSUME TypeOK, NEW n \in Nonces, uses[n] # <<>>
    PROVE  LastUse(n) \in Nat
<1>1. uses[n] \in Seq(Nat)
  BY DEF TypeOK
<1>2. Len(uses[n]) \in 1..Len(uses[n])
  BY <1>1
<1> QED BY <1>1, <1>2 DEF LastUse

LEMMA TickStep ==
    ASSUME IInv, Tick
    PROVE  IInv'
<1>1. /\ clock' = clock + 1
      /\ UNCHANGED <<nonces, pc, nonce, now, result, uses>>
      /\ \A p \in Callers : pc[p] # "idle" => clock < now[p] + MaxStall
  BY DEF Tick
<1>2. \A n \in Nonces : LastUse(n)' = LastUse(n)
  BY <1>1 DEF LastUse
<1>3. TypeOK' /\ Arguments'
  BY <1>1 DEF IInv, TypeOK, Arguments
<1>4. Readings'
  BY <1>1, TimeAssumption DEF IInv, TypeOK, Readings
<1>5. Covered'
  BY <1>1, <1>2, LastUseType, TimeAssumption DEF IInv, TypeOK, Covered
<1>6. Grounded'
  BY <1>1, <1>2, LastUseType DEF IInv, TypeOK, Grounded
<1>7. Purged'
  BY <1>1, <1>2 DEF IInv, Purged, LastUse
<1> QED BY <1>3, <1>4, <1>5, <1>6, <1>7 DEF IInv

\* A step that changes neither the clock nor the history nor any row.
LEMMA LocalStep ==
    ASSUME IInv, UNCHANGED <<clock, nonces, uses>>, TypeOK', Readings', Arguments', Purged'
    PROVE  IInv'
<1>1. \A n \in Nonces : LastUse(n)' = LastUse(n)
  BY DEF LastUse
<1> QED BY <1>1 DEF IInv, Covered, Grounded

LEMMA BeginStep ==
    ASSUME IInv, NEW p \in Callers,
           CleanupExpiredNonces(p) \/ \E n \in Nonces : RegisterNonce(p, n)
    PROVE  IInv'
<1>1. UNCHANGED <<clock, nonces, uses>>
  BY DEF CleanupExpiredNonces, RegisterNonce
<1>2. /\ pc' = [pc EXCEPT ![p] = pc'[p]] /\ pc'[p] \in {"delete", "sweep"}
      /\ nonce' = [nonce EXCEPT ![p] = nonce'[p]] /\ nonce'[p] \in Nonces \cup {None}
      /\ now' = [now EXCEPT ![p] = clock]
      /\ result' = [result EXCEPT ![p] = "none"]
      /\ pc'[p] = "delete" => nonce'[p] \in Nonces
  BY DEF IInv, TypeOK, CleanupExpiredNonces, RegisterNonce
<1>3. TypeOK'
  BY <1>1, <1>2 DEF IInv, TypeOK
<1>4. Readings'
  BY <1>1, <1>2, TimeAssumption DEF IInv, TypeOK, Readings
<1>5. Arguments'
  BY <1>2 DEF IInv, TypeOK, Arguments
<1>6. Purged'
  BY <1>1, <1>2 DEF IInv, TypeOK, Purged, LastUse
<1> QED BY <1>1, <1>3, <1>4, <1>5, <1>6, LocalStep

LEMMA ReturnStep ==
    ASSUME IInv, NEW p \in Callers, NEW r \in {"none", "True", "False", "IntegrityError", "failed"},
           Return(p, r), UNCHANGED <<clock, nonces, uses>>
    PROVE  IInv'
<1>1. TypeOK'
  BY DEF IInv, TypeOK, Return
<1>2. Readings' /\ Arguments'
  BY DEF IInv, TypeOK, Readings, Arguments, Return
<1>3. Purged'
  BY DEF IInv, TypeOK, Purged, LastUse, Return
<1> QED BY <1>1, <1>2, <1>3, LocalStep

\* DELETE removes rows that expired before the clock.
LEMMA CleanupFacts ==
    ASSUME IInv, NEW t \in Nat, t <= clock, CleanupNonces(t),
           UNCHANGED <<clock, uses>>
    PROVE  /\ nonces' \in [Nonces -> Nat \cup {None}]
           /\ Covered'
           /\ Grounded'
           /\ \A n \in Nonces : nonces'[n] # None => nonces'[n] = nonces[n] /\ nonces[n] > t
<1> USE TimeAssumption, NoneAssumption
<1>1. \A n \in Nonces : LastUse(n)' = LastUse(n)
  BY DEF LastUse
<1>2. nonces' \in [Nonces -> Nat \cup {None}]
  BY DEF IInv, TypeOK, CleanupNonces
<1>3. \A n \in Nonces : nonces'[n] # None => nonces'[n] = nonces[n] /\ nonces[n] > t
  BY DEF IInv, TypeOK, CleanupNonces, Expired
<1>4. \A n \in Nonces : nonces'[n] = None /\ nonces[n] # None => nonces[n] <= t
  BY DEF IInv, TypeOK, CleanupNonces, Expired
<1>5. Covered'
  <2> SUFFICES ASSUME NEW n \in Nonces, uses[n] # <<>>
               PROVE  /\ nonces'[n] # None => LastUse(n) + NonceTtl <= nonces'[n] + MaxStall
                      /\ nonces'[n] = None => LastUse(n) + NonceTtl <= clock + MaxStall
    BY <1>1 DEF Covered
  <2>1. LastUse(n) \in Nat
    BY LastUseType DEF IInv
  <2> QED BY <2>1, <1>3, <1>4 DEF IInv, TypeOK, Covered
<1>6. Grounded'
  BY <1>1, <1>3 DEF IInv, Grounded
<1> QED BY <1>2, <1>3, <1>5, <1>6

LEMMA DeleteStep ==
    ASSUME IInv, NEW p \in Callers, Delete(p)
    PROVE  IInv'
<1>1. /\ CleanupNonces(now[p])
      /\ pc' = [pc EXCEPT ![p] = "select"]
      /\ UNCHANGED <<clock, nonce, now, result, uses>>
      /\ pc[p] = "delete"
  BY DEF Delete
<1>2. now[p] \in Nat /\ now[p] <= clock
  BY <1>1 DEF IInv, TypeOK, Readings
<1>3. /\ nonces' \in [Nonces -> Nat \cup {None}]
      /\ Covered'
      /\ Grounded'
      /\ \A n \in Nonces : nonces'[n] # None => nonces'[n] = nonces[n] /\ nonces[n] > now[p]
  BY <1>1, <1>2, CleanupFacts
<1>4. TypeOK' /\ Readings' /\ Arguments'
  BY <1>1, <1>3 DEF IInv, TypeOK, Readings, Arguments
<1>5. Purged'
  <2> SUFFICES ASSUME NEW q \in Callers, NEW n \in Nonces,
                      pc'[q] = "select", nonce[q] = n, nonces'[n] # None
               PROVE  nonces'[n] > now[q] \/ LastUse(n) >= now[q]
    BY <1>1 DEF Purged, LastUse
  <2>1. CASE q = p
    BY <2>1, <1>3
  <2>2. CASE q # p
    <3>1. pc[q] = "select"
      BY <2>2, <1>1 DEF IInv, TypeOK
    <3> QED BY <3>1, <1>3 DEF IInv, Purged
  <2> QED BY <2>1, <2>2
<1> QED BY <1>3, <1>4, <1>5 DEF IInv

LEMMA SweepStep ==
    ASSUME IInv, NEW p \in Callers, Sweep(p)
    PROVE  IInv'
<1>1. /\ CleanupNonces(now[p])
      /\ Return(p, "none")
      /\ UNCHANGED <<clock, uses>>
      /\ pc[p] = "sweep"
  BY DEF Sweep
<1>2. now[p] \in Nat /\ now[p] <= clock
  BY <1>1 DEF IInv, TypeOK, Readings
<1>3. /\ nonces' \in [Nonces -> Nat \cup {None}]
      /\ Covered'
      /\ Grounded'
      /\ \A n \in Nonces : nonces'[n] # None => nonces'[n] = nonces[n] /\ nonces[n] > now[p]
  BY <1>1, <1>2, CleanupFacts
<1>4. TypeOK' /\ Readings' /\ Arguments'
  BY <1>1, <1>3 DEF IInv, TypeOK, Readings, Arguments, Return
<1>5. Purged'
  <2> SUFFICES ASSUME NEW q \in Callers, NEW n \in Nonces,
                      pc'[q] = "select", nonce'[q] = n, nonces'[n] # None
               PROVE  nonces'[n] > now'[q] \/ LastUse(n) >= now'[q]
    BY <1>1 DEF Purged, LastUse
  <2>1. q # p /\ pc[q] = "select" /\ nonce[q] = n /\ now'[q] = now[q]
    BY <1>1 DEF IInv, TypeOK, Return
  <2> QED BY <2>1, <1>3 DEF IInv, Purged
<1> QED BY <1>3, <1>4, <1>5 DEF IInv

LEMMA SelectStep ==
    ASSUME IInv, NEW p \in Callers, Select(p)
    PROVE  IInv'
<1>1. UNCHANGED <<clock, nonces, uses>>
  BY DEF Select
<1>2. CASE Return(p, "False")
  BY <1>1, <1>2, ReturnStep
<1>3. CASE pc' = [pc EXCEPT ![p] = "insert"] /\ UNCHANGED <<nonce, now, result>>
  <2>1. pc[p] = "select"
    BY DEF Select
  <2>2. TypeOK' /\ Readings' /\ Arguments'
    BY <1>1, <1>3, <2>1 DEF IInv, TypeOK, Readings, Arguments
  <2>3. Purged'
    BY <1>1, <1>3 DEF IInv, TypeOK, Purged, LastUse
  <2> QED BY <1>1, <2>2, <2>3, LocalStep
<1> QED BY <1>2, <1>3 DEF Select

LEMMA InsertStep ==
    ASSUME IInv, NEW p \in Callers, Insert(p), NEW n \in Nonces, n = nonce[p]
    PROVE  IInv'
<1> USE TimeAssumption, NoneAssumption
<1>1. /\ pc[p] = "insert"
      /\ nonces[n] = None
      /\ nonces' = [nonces EXCEPT ![n] = now[p] + NonceTtl]
      /\ uses' = [uses EXCEPT ![n] = Append(uses[n], clock)]
      /\ Return(p, "True")
      /\ clock' = clock
  BY DEF Insert
<1>2. now[p] \in Nat /\ now[p] <= clock /\ clock <= now[p] + MaxStall
  BY <1>1 DEF IInv, TypeOK, Readings, Arguments
<1>3. /\ Append(uses[n], clock) \in Seq(Nat)
      /\ uses'[n] # <<>>
      /\ LastUse(n)' = clock
  BY <1>1, <1>2, AppendUse DEF IInv, TypeOK, LastUse
<1>4. \A m \in Nonces : m # n => /\ uses'[m] = uses[m]
                                 /\ nonces'[m] = nonces[m]
                                 /\ LastUse(m)' = LastUse(m)
  BY <1>1 DEF IInv, TypeOK, LastUse
<1>5. nonces'[n] = now[p] + NonceTtl /\ nonces'[n] # None
  BY <1>1, <1>2 DEF IInv, TypeOK
<1>6. TypeOK'
  BY <1>1, <1>2, <1>3 DEF IInv, TypeOK, Return
<1>7. Readings' /\ Arguments'
  BY <1>1 DEF IInv, TypeOK, Readings, Arguments, Return
<1>8. Covered'
  <2>1. clock + NonceTtl <= (now[p] + NonceTtl) + MaxStall
    BY <1>2 DEF IInv, TypeOK
  <2> QED BY <1>1, <1>3, <1>4, <1>5, <2>1 DEF IInv, Covered
<1>9. Grounded'
  <2>1. now[p] + NonceTtl <= clock + NonceTtl /\ clock <= clock
    BY <1>2 DEF IInv, TypeOK
  <2> QED BY <1>1, <1>3, <1>4, <1>5, <2>1 DEF IInv, Grounded
<1>10. Purged'
  <2> SUFFICES ASSUME NEW q \in Callers, NEW m \in Nonces,
                      pc'[q] = "select", nonce'[q] = m, nonces'[m] # None
               PROVE  nonces'[m] > now'[q] \/ LastUse(m)' >= now'[q]
    BY DEF Purged
  <2>1. q # p /\ pc[q] = "select" /\ nonce[q] = m /\ now'[q] = now[q]
    BY <1>1 DEF IInv, TypeOK, Return
  <2>2. now[q] <= clock
    BY <2>1 DEF IInv, Readings
  <2>3. CASE m = n
    BY <2>1, <2>2, <2>3, <1>3
  <2>4. CASE m # n
    BY <2>1, <2>4, <1>4 DEF IInv, Purged
  <2> QED BY <2>3, <2>4
<1> QED BY <1>6, <1>7, <1>8, <1>9, <1>10 DEF IInv

LEMMA NextIInv == IInv /\ [Next]_vars => IInv'
<1> SUFFICES ASSUME IInv, [Next]_vars PROVE IInv'
  OBVIOUS
<1>1. CASE Tick
  BY <1>1, TickStep
<1>2. ASSUME NEW p \in Callers, CleanupExpiredNonces(p) \/ \E n \in Nonces : RegisterNonce(p, n)
      PROVE  IInv'
  BY <1>2, BeginStep
<1>3. ASSUME NEW p \in Callers, Delete(p) \/ Select(p) \/ Insert(p) \/ Sweep(p)
      PROVE  IInv'
  <2>1. Insert(p) => nonce[p] \in Nonces
    BY DEF Insert, IInv, Arguments
  <2> QED BY <1>3, <2>1, DeleteStep, SelectStep, InsertStep, SweepStep
<1>4. ASSUME NEW p \in Callers, InsertConflicts(p) \/ Fail(p)
      PROVE  IInv'
  <2>1. Return(p, "IntegrityError") \/ Return(p, "failed")
    BY <1>4 DEF InsertConflicts, Fail
  <2>2. UNCHANGED <<clock, nonces, uses>>
    BY <1>4 DEF InsertConflicts, Fail
  <2> QED BY <2>1, <2>2, ReturnStep
<1>5. CASE UNCHANGED vars
  BY <1>5 DEF vars, IInv, TypeOK, Readings, Arguments, Covered, Grounded, Purged, LastUse
<1> QED BY <1>1, <1>2, <1>3, <1>4, <1>5 DEF Next

\* The table, the running calls and the uses support each other.
THEOREM Invariance == Spec => []IInv
  BY InitIInv, NextIInv, PTL DEF Spec

\* The table and the callers' variables keep their types.
THEOREM TypeCorrect == Spec => []TypeOK
<1>1. IInv => TypeOK
  BY DEF IInv
<1> QED BY <1>1, Invariance, PTL

-----------------------------------------------------------------------------
(* The uses of a nonce are NonceTtl - MaxStall apart                       *)

LEMMA InsertAccepts ==
    ASSUME IInv, NEW p \in Callers, Insert(p)
    PROVE  Guard!Next
<1> DEFINE n == nonce[p]
<1>1. /\ nonces[n] = None
      /\ uses' = [uses EXCEPT ![n] = Append(@, clock)]
      /\ clock' = clock
      /\ n \in Nonces
  BY DEF Insert, IInv, Arguments
<1>2. uses[n] = <<>> \/ clock - LastUse(n) >= NonceTtl - MaxStall
  <2> SUFFICES ASSUME uses[n] # <<>>
               PROVE  clock - LastUse(n) >= NonceTtl - MaxStall
    OBVIOUS
  <2>1. LastUse(n) \in Nat
    BY <1>1, LastUseType DEF IInv
  <2>2. LastUse(n) + NonceTtl <= clock + MaxStall
    BY <1>1 DEF IInv, Covered
  <2> QED BY <2>1, <2>2, TimeAssumption DEF IInv, TypeOK
<1>3. Guard!Accept(n)
  BY <1>1, <1>2 DEF Guard!Accept, Guard!Rested, LastUse
<1> QED BY <1>1, <1>3 DEF Guard!Next

LEMMA NextRefines == IInv /\ [Next]_vars => [Guard!Next]_<<clock, uses>>
<1> SUFFICES ASSUME IInv, [Next]_vars PROVE [Guard!Next]_<<clock, uses>>
  OBVIOUS
<1>1. CASE Tick
  BY <1>1 DEF Tick, Guard!Next, Guard!Tick
<1>2. ASSUME NEW p \in Callers, Insert(p) PROVE Guard!Next
  BY <1>2, InsertAccepts
<1>3. ASSUME NEW p \in Callers, NEW n \in Nonces, RegisterNonce(p, n)
      PROVE  UNCHANGED <<clock, uses>>
  BY <1>3 DEF RegisterNonce
<1>4. ASSUME NEW p \in Callers,
             \/ Delete(p) \/ Select(p) \/ InsertConflicts(p)
             \/ CleanupExpiredNonces(p) \/ Sweep(p) \/ Fail(p)
      PROVE  UNCHANGED <<clock, uses>>
  BY <1>4 DEF Delete, Select, InsertConflicts, CleanupExpiredNonces, Sweep, Fail
<1>5. CASE UNCHANGED vars
  BY <1>5 DEF vars
<1> QED BY <1>1, <1>2, <1>3, <1>4, <1>5 DEF Next

\* Two registrations of a nonce are at least NonceTtl - MaxStall seconds apart,
\* for any number of callers that interleave, stall and die.
THEOREM StoreImplementsReplayGuard == Spec => ImplementsReplayGuard
<1>1. Init => Guard!Init
  BY DEF Init, Guard!Init
<1> QED BY <1>1, NextRefines, Invariance, PTL
        DEF Spec, ImplementsReplayGuard, Guard!Spec

-----------------------------------------------------------------------------
(* Nobody is refused without a recent use                                  *)

LEMMA RefusalStep ==
    ASSUME IInv, [Next]_vars, NEW p \in Callers,
           pc[p] = "select", result'[p] = "False", pc'[p] = "idle"
    PROVE  /\ uses[nonce[p]] # <<>>
           /\ clock < LastUse(nonce[p]) + NonceTtl + MaxStall
<1> DEFINE n == nonce[p]
<1>1. n \in Nonces /\ now[p] \in Nat /\ clock <= now[p] + MaxStall
  BY DEF IInv, TypeOK, Arguments, Readings
<1>2. nonces[n] # None
  <2>1. ASSUME NEW q \in Callers, Return(q, "failed") \/ Return(q, "none") \/ Return(q, "True")
                                  \/ Return(q, "IntegrityError")
        PROVE  q # p
    BY <2>1 DEF Return, IInv, TypeOK
  <2>2. CASE Tick \/ UNCHANGED vars
    BY <2>2 DEF Tick, vars
  <2>3. ASSUME NEW q \in Callers, q # p PROVE pc' # [pc EXCEPT ![q] = pc'[q]]
    BY <2>3 DEF IInv, TypeOK
  <2>4. CASE Select(p)
    BY <2>4 DEF Select, Return, IInv, TypeOK
  <2>5. ASSUME NEW q \in Callers, q # p,
               \/ Delete(q) \/ Select(q) \/ Insert(q) \/ InsertConflicts(q)
               \/ CleanupExpiredNonces(q) \/ Sweep(q) \/ Fail(q)
               \/ \E m \in Nonces : RegisterNonce(q, m)
        PROVE  FALSE
    BY <2>5, <2>3 DEF Delete, Select, Insert, InsertConflicts, CleanupExpiredNonces,
                      Sweep, Fail, RegisterNonce, Return, IInv, TypeOK
  <2>6. CASE \/ Delete(p) \/ Insert(p) \/ InsertConflicts(p)
             \/ CleanupExpiredNonces(p) \/ Sweep(p) \/ Fail(p)
             \/ \E m \in Nonces : RegisterNonce(p, m)
    BY <2>6, <2>1 DEF Delete, Insert, InsertConflicts, CleanupExpiredNonces,
                      Sweep, Fail, RegisterNonce, IInv, TypeOK
  <2> QED BY <2>2, <2>4, <2>5, <2>6 DEF Next
<1>3. /\ uses[n] # <<>>
      /\ nonces[n] <= LastUse(n) + NonceTtl
      /\ nonces[n] > now[p] \/ LastUse(n) >= now[p]
      /\ nonces[n] \in Nat
  BY <1>1, <1>2 DEF IInv, TypeOK, Grounded, Purged
<1>4. LastUse(n) \in Nat
  BY <1>1, <1>3, LastUseType DEF IInv
<1> QED BY <1>1, <1>3, <1>4, TimeAssumption DEF IInv, TypeOK

\* A refused nonce was registered less than NonceTtl + MaxStall seconds ago.
THEOREM RefusalsJustified == Spec => RefusalJustified
<1>1. IInv /\ [Next]_vars =>
        [\A p \in Callers :
            pc[p] = "select" /\ result'[p] = "False" /\ pc'[p] = "idle" =>
                /\ uses[nonce[p]] # <<>>
                /\ clock < LastUse(nonce[p]) + NonceTtl + MaxStall]_vars
  BY RefusalStep
<1> QED BY <1>1, Invariance, PTL DEF Spec, RefusalJustified

-----------------------------------------------------------------------------
(* Quotients                                                               *)

LEMMA Quotient ==
    ASSUME NEW a \in Nat, NEW r \in Nat \ {0}
    PROVE  a \div r \in Nat /\ r * (a \div r) <= a /\ a < r * (a \div r) + r
  OBVIOUS

LEMMA Cancel ==
    ASSUME NEW p \in Int, NEW q \in Int, NEW r \in Nat \ {0}, r * p < r * q
    PROVE  p < q
  OBVIOUS

\* k whole units later the quotient is larger by k, at least.
LEMMA UnitsLater ==
    ASSUME NEW a \in Nat, NEW b \in Nat, NEW k \in Nat, NEW r \in Nat \ {0}, a + k * r <= b
    PROVE  a \div r + k <= b \div r
<1> DEFINE p == a \div r
           q == b \div r
<1>1. p \in Nat /\ q \in Nat /\ r * p <= a /\ b < r * q + r
  BY Quotient
<1> HIDE DEF p, q
<1>2. r * (p + k) < r * (q + 1)
  <2>1. r * (p + k) = r * p + k * r /\ r * (q + 1) = r * q + r
    BY <1>1
  <2> QED BY <1>1, <2>1
<1>3. p + k < q + 1
  BY <1>1, <1>2, Cancel
<1> QED BY <1>1, <1>3 DEF p, q

-----------------------------------------------------------------------------
(* The signature cache.  An entry stands for the last acceptance of its    *)
(* signature (Stood); and as long as that is recent and fewer than         *)
(* CacheSize others followed, they are all that stand behind it (Held).    *)

Past == \A s \in Sigs : acceptedAt[s] # Unset => acceptedAt[s] <= time

Stood ==
    \A i \in 1..Len(cache) :
        /\ acceptedAt[cache[i].sig] # Unset
        /\ cache[i].expires <= acceptedAt[cache[i].sig] + Ttl

Place(s, i) ==
    /\ cache[i].sig = s
    /\ cache[i].expires = acceptedAt[s] + Ttl
    /\ Len(cache) - i <= others[s]

Held ==
    \A s \in Sigs :
        Recent(s) /\ others[s] < CacheSize => \E i \in 1..Len(cache) : Place(s, i)

SigIInv == SigTypeOK /\ Past /\ Stood /\ Held

LEMMA TtlType == Ttl \in Nat
  BY SizeAssumption DEF Ttl

\* What is written to the cache: the new entry comes last, and the d entries
\* that go are expired, or the first of too many.
LEMMA StoreFacts ==
    ASSUME SigTypeOK, NEW s \in Sigs, Store(s)
    PROVE  \E d \in 0..Len(cache) :
              /\ cache' \in Seq(Entry)
              /\ Len(cache') = Len(cache) - d + 1
              /\ \A j \in 1..(Len(cache) - d) : cache'[j] = cache[j + d]
              /\ cache'[Len(cache')] = [sig |-> s, expires |-> time + Ttl]
              /\ \A i \in 1..d : ~Live(cache[i]) \/ Len(cache) - i >= CacheSize - 1
<1> DEFINE new == [sig |-> s, expires |-> time + Ttl]
<1>1. cache \in Seq(Entry) /\ new \in Entry /\ CacheSize \in Nat \ {0}
  BY TtlType, SizeAssumption DEF SigTypeOK, Entry
<1>2. PICK n \in 0..Len(cache) :
        /\ FirstExpired(n)
        /\ cache' = Append(Room(SubSeq(cache, n + 1, Len(cache))), new)
  BY DEF Store
<1> HIDE DEF new
<1> DEFINE live == SubSeq(cache, n + 1, Len(cache))
<1>3. /\ live \in Seq(Entry)
      /\ Len(live) = Len(cache) - n
      /\ \A j \in 1..(Len(cache) - n) : live[j] = cache[j + n]
  BY <1>1, <1>2
<1>4. \A i \in 1..n : ~Live(cache[i])
  BY <1>2 DEF FirstExpired
<1>5. cache' = Append(Room(live), new)
  BY <1>2
<1> HIDE DEF live
<1>6. CASE Len(live) < CacheSize
  <2>1. cache' = Append(live, new)
    BY <1>5, <1>6 DEF Room
  <2>2. /\ cache' \in Seq(Entry) /\ Len(cache') = Len(cache) - n + 1
        /\ \A j \in 1..(Len(cache) - n) : cache'[j] = cache[j + n]
        /\ cache'[Len(cache')] = new
    BY <1>1, <1>3, <2>1
  <2> QED BY <1>2, <1>4, <2>2 DEF new
<1>7. CASE ~(Len(live) < CacheSize)
  <2>1. cache' = Append(Tail(live), new)
    BY <1>5, <1>7 DEF Room
  <2>2. Len(cache) \in Nat /\ Len(live) > 0 /\ n + 1 \in 0..Len(cache)
    BY <1>1, <1>2, <1>3, <1>7
  <2>3. /\ Tail(live) \in Seq(Entry) /\ Len(Tail(live)) = Len(live) - 1
        /\ \A j \in 1..(Len(live) - 1) : Tail(live)[j] = live[j + 1]
    BY <1>3, <2>2
  <2>4. \A j \in 1..(Len(cache) - (n + 1)) : Tail(live)[j] = cache[j + (n + 1)]
    BY <1>2, <1>3, <2>2, <2>3
  <2>5. /\ cache' \in Seq(Entry) /\ Len(cache') = Len(cache) - (n + 1) + 1
        /\ \A j \in 1..(Len(cache) - (n + 1)) : cache'[j] = cache[j + (n + 1)]
        /\ cache'[Len(cache')] = new
    BY <1>1, <1>3, <2>1, <2>2, <2>3, <2>4
  <2>6. \A i \in 1..(n + 1) : ~Live(cache[i]) \/ Len(cache) - i >= CacheSize - 1
    BY <1>1, <1>2, <1>3, <1>4, <1>7, <2>2
  <2> QED BY <2>2, <2>5, <2>6 DEF new
<1> QED BY <1>6, <1>7

\* Where an older entry was before.
LEMMA Shifted ==
    ASSUME NEW n \in Nat, NEW d \in 0..n, NEW m, m = n - d + 1
    PROVE  /\ m \in 1..m
           /\ \A j \in 1..m : j # m => j \in 1..(n - d) /\ j + d \in 1..n
  OBVIOUS

LEMMA SigInitIInv == SigInit => SigIInv
  BY SizeAssumption DEF SigInit, SigIInv, SigTypeOK, NoCall, Call, Answers, Past, Stood, Held, Recent

\* Steps that change neither the cache nor the history.
LEMMA SigQuietStep ==
    ASSUME SigIInv, UNCHANGED <<cache, acceptedAt, others>>,
           time' = time \/ time' = time + 1, SigTypeOK'
    PROVE  SigIInv'
<1> USE SizeAssumption, TtlType DEF SigIInv
<1>1. Past' /\ Stood'
  BY DEF SigTypeOK, Past, Stood
<1>2. Held'
  <2> SUFFICES ASSUME NEW s \in Sigs, Recent(s)', others[s] < CacheSize
               PROVE  \E i \in 1..Len(cache) : Place(s, i)'
    BY DEF Held
  <2>1. Recent(s)
    BY DEF Recent, SigTypeOK
  <2>2. PICK i \in 1..Len(cache) : Place(s, i)
    BY <2>1 DEF Held
  <2> QED BY <2>2 DEF Place
<1> QED BY <1>1, <1>2

LEMMA AcceptedStep ==
    ASSUME SigIInv, NEW s \in Sigs, NEW ts \in Stamps, Accepted(s, ts)
    PROVE  SigIInv'
<1> USE SizeAssumption, UnsetAssumption, TtlType DEF SigIInv
<1>1. /\ Store(s) /\ time' = time
      /\ acceptedAt' = [acceptedAt EXCEPT ![s] = time]
      /\ others' = [r \in Sigs |->
                      IF r = s THEN 0
                      ELSE IF others[r] < CacheSize THEN others[r] + 1 ELSE CacheSize]
      /\ call' = Call(s, ts, "accepted")
  BY DEF Accepted, Remember
<1>2. PICK d \in 0..Len(cache) :
        /\ cache' \in Seq(Entry)
        /\ Len(cache') = Len(cache) - d + 1
        /\ \A j \in 1..(Len(cache) - d) : cache'[j] = cache[j + d]
        /\ cache'[Len(cache')] = [sig |-> s, expires |-> time + Ttl]
        /\ \A i \in 1..d : ~Live(cache[i]) \/ Len(cache) - i >= CacheSize - 1
  BY <1>1, StoreFacts
<1>3. /\ time \in Nat /\ Len(cache) \in Nat /\ d \in Nat /\ d <= Len(cache)
      /\ acceptedAt \in [Sigs -> Nat \cup {Unset}]
      /\ acceptedAt' \in [Sigs -> Nat \cup {Unset}]
      /\ others \in [Sigs -> 0..CacheSize] /\ others' \in [Sigs -> 0..CacheSize]
      /\ acceptedAt'[s] = time /\ others'[s] = 0
      /\ \A i \in 1..Len(cache) : cache[i] \in Entry
  <2>1. /\ time \in Nat /\ cache \in Seq(Entry)
        /\ acceptedAt \in [Sigs -> Nat \cup {Unset}] /\ others \in [Sigs -> 0..CacheSize]
    BY DEF SigTypeOK
  <2>2. acceptedAt' \in [Sigs -> Nat \cup {Unset}] /\ acceptedAt'[s] = time
    BY <1>1, <2>1
  <2>3. others' \in [Sigs -> 0..CacheSize] /\ others'[s] = 0
    <3>1. \A r \in Sigs : others[r] < CacheSize => others[r] + 1 \in 0..CacheSize
      BY <2>1
    <3> QED BY <1>1, <2>1, <3>1
  <2>4. /\ Len(cache) \in Nat /\ d \in Nat /\ d <= Len(cache)
        /\ \A i \in 1..Len(cache) : cache[i] \in Entry
    BY <1>2, <2>1
  <2> QED BY <2>1, <2>2, <2>3, <2>4
<1>4. SigTypeOK'
  BY <1>1, <1>2, <1>3 DEF SigTypeOK, Call, Answers
<1>5. Past'
  BY <1>1, <1>3 DEF Past
<1>6. ASSUME NEW j \in 1..Len(cache')
      PROVE  /\ acceptedAt'[cache'[j].sig] # Unset
             /\ cache'[j].expires <= acceptedAt'[cache'[j].sig] + Ttl
  <2>1. CASE j = Len(cache')
    BY <1>2, <1>3, <2>1
  <2>2. CASE j # Len(cache')
    <3>1. j \in 1..(Len(cache) - d) /\ j + d \in 1..Len(cache) /\ cache'[j] = cache[j + d]
      <4>1. Len(cache') = Len(cache) - d + 1
        BY <1>2
      <4>2. j \in 1..(Len(cache) - d) /\ j + d \in 1..Len(cache)
        BY <1>3, <2>2, <4>1, Shifted
      <4> QED BY <1>2, <4>2
    <3>2. /\ cache[j + d] \in Entry
          /\ acceptedAt[cache[j + d].sig] # Unset
          /\ cache[j + d].expires <= acceptedAt[cache[j + d].sig] + Ttl
      BY <1>3, <3>1 DEF Stood
    <3>3. cache[j + d].sig \in Sigs /\ cache[j + d].expires \in Nat
      BY <3>2 DEF Entry
    <3>4. acceptedAt[cache[j + d].sig] <= time
      BY <3>2, <3>3 DEF Past
    <3> DEFINE q == cache[j + d].sig
    <3>5. acceptedAt[q] \in Nat
      BY <1>3, <3>2, <3>3
    <3>6. acceptedAt'[q] = acceptedAt[q] \/ acceptedAt'[q] = time
      BY <1>1, <1>3, <3>3
    <3>7. /\ acceptedAt[q] <= time /\ cache[j + d].expires \in Nat
          /\ cache[j + d].expires <= acceptedAt[q] + Ttl
      BY <3>2, <3>3, <3>4
    <3> HIDE DEF q
    <3> DEFINE e == cache[j + d].expires
               a == acceptedAt[q]
    <3>8. e \in Nat /\ a \in Nat /\ time \in Nat /\ a <= time /\ e <= a + Ttl
      BY <1>3, <3>5, <3>7
    <3> HIDE DEF e, a
    <3>9. e <= a + Ttl /\ e <= time + Ttl
      BY <3>8, TtlType
    <3>10. acceptedAt'[q] = a \/ acceptedAt'[q] = time
      BY <3>6 DEF a
    <3>11. e <= acceptedAt'[q] + Ttl /\ acceptedAt'[q] # Unset
      BY <3>8, <3>9, <3>10, UnsetAssumption
    <3> QED BY <3>1, <3>11 DEF q, e
  <2> QED BY <2>1, <2>2
<1>7. Stood'
  BY <1>6, TtlType DEF Stood, Ttl
<1>8. ASSUME NEW r \in Sigs, Recent(r)', others'[r] < CacheSize
      PROVE  \E i \in 1..Len(cache') : Place(r, i)'
  <2>1. CASE r = s
    <3>1. PICK i \in 1..Len(cache') : i = Len(cache')
      <4>1. Len(cache') = Len(cache) - d + 1
        BY <1>2
      <4> QED BY <1>3, <4>1, Shifted
    <3>2. cache'[i].sig = s /\ cache'[i].expires = time + Ttl
      BY <1>2, <3>1
    <3>3. Len(cache') - i <= others'[s]
      BY <1>3, <3>1
    <3>4. Place(r, i)'
      BY <1>3, <2>1, <3>2, <3>3 DEF Place, Ttl
    <3> QED BY <3>4
  <2>2. CASE r # s
    <3>1. /\ acceptedAt'[r] = acceptedAt[r] /\ acceptedAt[r] # Unset
          /\ time < acceptedAt[r] + Ttl
          /\ others[r] < CacheSize - 1 /\ others'[r] = others[r] + 1
      BY <1>1, <1>3, <1>8, <2>2 DEF Recent, Ttl
    <3>2. PICK i \in 1..Len(cache) : Place(r, i)
      BY <1>3, <3>1 DEF Held, Recent
    <3>3. Live(cache[i]) /\ Len(cache) - i < CacheSize - 1
      BY <1>3, <3>1, <3>2 DEF Place, Live
    <3>4. i - d \in 1..(Len(cache) - d) /\ (i - d) + d = i
      BY <1>2, <1>3, <3>3
    <3>5. cache'[i - d] = cache[i] /\ i - d \in 1..Len(cache')
      BY <1>2, <1>3, <3>4
    <3>6. Len(cache') - (i - d) <= others'[r]
      <4>1. Len(cache') = Len(cache) - d + 1 /\ Len(cache) - i <= others[r]
        BY <1>2, <3>2 DEF Place
      <4>2. others[r] \in Nat /\ i \in Nat
        BY <1>3
      <4> QED BY <1>3, <3>1, <4>1, <4>2
    <3>7. Place(r, i - d)'
      BY <3>1, <3>2, <3>5, <3>6 DEF Place, Ttl
    <3> QED BY <3>5, <3>7
  <2> QED BY <2>1, <2>2
<1>9. Held'
  BY <1>8 DEF Held
<1> QED BY <1>4, <1>5, <1>7, <1>9

LEMMA SigNextIInv == SigIInv /\ [SigNext]_sigVars => SigIInv'
<1> SUFFICES ASSUME SigIInv, [SigNext]_sigVars PROVE SigIInv'
  OBVIOUS
<1> USE SizeAssumption
<1>1. CASE SigTick
  <2>1. SigTypeOK' /\ time' = time + 1
    BY <1>1 DEF SigTick, SigIInv, SigTypeOK, NoCall, Call, Answers
  <2> QED BY <1>1, <2>1, SigQuietStep DEF SigTick
<1>2. ASSUME NEW s \in Sigs \cup {Unset}, NEW ts \in Stamps, NEW a \in Answers, Refuse(s, ts, a)
      PROVE  SigIInv'
  <2>1. SigTypeOK'
    BY <1>2 DEF Refuse, SigIInv, SigTypeOK, Call
  <2> QED BY <1>2, <2>1, SigQuietStep DEF Refuse
<1>3. ASSUME NEW s \in Sigs, NEW ts \in Stamps, Stale(s, ts) \/ Seen(s, ts) PROVE SigIInv'
  BY <1>2, <1>3 DEF Stale, Seen, Answers
<1>4. ASSUME NEW ts \in Stamps, Mismatch(ts) PROVE SigIInv'
  BY <1>2, <1>4 DEF Mismatch, Answers
<1>5. CASE Restart
  BY <1>5 DEF Restart, SigIInv, SigTypeOK, NoCall, Call, Answers, Past, Stood, Held, Recent
<1>6. CASE UNCHANGED sigVars
  <2>1. SigTypeOK'
    BY <1>6 DEF sigVars, SigIInv, SigTypeOK
  <2> QED BY <1>6, <2>1, SigQuietStep DEF sigVars
<1> QED BY <1>1, <1>3, <1>4, <1>5, <1>6, AcceptedStep DEF SigNext

\* Every entry of the cache stands for an acceptance, and the recent ones are
\* behind an entry.
THEOREM SigInvariance == SigSpec => []SigIInv
  BY SigInitIInv, SigNextIInv, PTL DEF SigSpec

\* The cache and the history keep their types.
THEOREM SignaturesAreTyped == SigSpec => []SigTypeOK
  BY SigInvariance, PTL DEF SigIInv

LEMMA NotCached ==
    ASSUME SigIInv, NEW s \in Sigs, ~Cached(s), Recent(s)
    PROVE  others[s] >= CacheSize
<1> SUFFICES ASSUME others[s] < CacheSize PROVE FALSE
  BY SizeAssumption DEF SigIInv, SigTypeOK
<1>1. PICK i \in 1..Len(cache) : Place(s, i)
  BY DEF SigIInv, Held
<1>2. i \in DOMAIN cache /\ Live(cache[i])
  BY <1>1 DEF SigIInv, SigTypeOK, Place, Live, Recent
<1> QED BY <1>1, <1>2 DEF Cached, Place

\* The cache forgets a signature before its time only for CacheSize others, and
\* the oldest first, for any size and TTL.
THEOREM ForgetsUnderPressure == SigSpec => ForgottenUnderPressure
<1>1. SigIInv /\ [SigNext]_sigVars =>
         [\A s \in Sigs, ts \in Stamps :
             Accepted(s, ts) /\ Recent(s) => others[s] >= CacheSize]_sigVars
  BY NotCached DEF Accepted
<1> QED BY <1>1, SigInvariance, PTL DEF SigSpec, ForgottenUnderPressure

\* A request refused as a duplicate is one: its signature was accepted less
\* than the TTL ago.
THEOREM DuplicatesAreJustified == SigSpec => DuplicateJustified
<1>1. ASSUME SigIInv, NEW s \in Sigs, Cached(s) PROVE Recent(s)
  <2>1. PICK i \in 1..Len(cache) : cache[i].sig = s /\ Live(cache[i])
    BY <1>1 DEF Cached, SigIInv, SigTypeOK
  <2>2. cache[i] \in Entry /\ time \in Nat
    BY <1>1, <2>1 DEF SigIInv, SigTypeOK
  <2> QED BY <1>1, <2>1, <2>2, TtlType DEF SigIInv, SigTypeOK, Stood, Live, Recent, Entry
<1>2. SigIInv /\ [SigNext]_sigVars =>
         [\A s \in Sigs, ts \in Stamps : Seen(s, ts) => Recent(s)]_sigVars
  BY <1>1 DEF Seen
<1> QED BY <1>2, SigInvariance, PTL DEF SigSpec, DuplicateJustified

-----------------------------------------------------------------------------
(* Requests that were accepted.  Their timestamps are no more than MaxAge   *)
(* ahead of the second in which the signature was accepted last.            *)

Dated ==
    \A r \in requests :
        /\ r[1] \in Sigs /\ r[2] \in Stamps
        /\ r[2] <= (time \div Resolution) + MaxAge
        /\ acceptedAt[r[1]] # Unset => r[2] <= (acceptedAt[r[1]] \div Resolution) + MaxAge

LEMMA SigMonotone ==
    ASSUME SigIInv, [SigNext]_sigVars
    PROVE  time' = time \/ time' = time + 1
  BY DEF SigNext, sigVars, SigTick, Stale, Seen, Accepted, Mismatch, Refuse, Restart

LEMMA FreshStamp ==
    ASSUME time \in Nat, NEW ts \in Stamps, Fresh(ts)
    PROVE  /\ ts \in Int
           /\ ts <= (time \div Resolution) + MaxAge
           /\ (time \div Resolution) - ts <= MaxAge
<1> DEFINE sec == time \div Resolution
<1>1. sec \in Nat /\ ts \in Int /\ MaxAge \in Nat
  BY Quotient, SizeAssumption
<1>2. sec - ts <= MaxAge /\ -(sec - ts) <= MaxAge
  BY DEF Fresh, Age
<1> HIDE DEF sec
<1>3. ts <= sec + MaxAge
  BY <1>1, <1>2
<1> QED BY <1>1, <1>2, <1>3 DEF sec

LEMMA DatedStep ==
    ASSUME SigIInv, SigIInv', Dated, [MCNext]_<<sigVars, requests>>
    PROVE  Dated'
<1> USE SizeAssumption, UnsetAssumption
<1>1. /\ [SigNext]_sigVars
      /\ \A r \in requests' : r \in requests \/ (r \in Sigs \X Stamps /\ Accepted(r[1], r[2]))
  BY DEF MCNext
<1>2. time \in Nat /\ time' \in Nat /\ time <= time'
  BY <1>1, SigMonotone DEF SigIInv, SigTypeOK
<1>3. (time \div Resolution) \in Nat /\ (time' \div Resolution) \in Nat
  BY <1>2, Quotient
<1>4. (time \div Resolution) <= (time' \div Resolution)
  <2>1. time + 0 * Resolution <= time'
    BY <1>2
  <2>2. (time \div Resolution) + 0 <= (time' \div Resolution)
    BY <1>2, <2>1, UnitsLater
  <2> QED BY <1>3, <2>2
<1>5. \A s \in Sigs : acceptedAt'[s] \in {acceptedAt[s], time, Unset}
  <2>1. CASE Restart
    BY <2>1 DEF Restart
  <2>2. ASSUME NEW s \in Sigs, NEW ts \in Stamps, Accepted(s, ts)
        PROVE  \A q \in Sigs : acceptedAt'[q] \in {acceptedAt[q], time}
    BY <2>2 DEF Accepted, Remember, SigIInv, SigTypeOK
  <2>3. CASE UNCHANGED acceptedAt
    BY <2>3
  <2> QED BY <1>1, <2>1, <2>2, <2>3 DEF SigNext, sigVars, SigTick, Stale, Seen, Mismatch, Refuse
<1>6. ASSUME NEW r \in requests'
      PROVE  /\ r[1] \in Sigs /\ r[2] \in Stamps
             /\ r[2] <= (time' \div Resolution) + MaxAge
             /\ acceptedAt'[r[1]] # Unset => r[2] <= (acceptedAt'[r[1]] \div Resolution) + MaxAge
  <2>1. /\ r[1] \in Sigs /\ r[2] \in Stamps /\ r[2] \in Int
        /\ r[2] <= (time \div Resolution) + MaxAge
    <3>1. CASE r \in requests
      BY <3>1 DEF Dated
    <3>2. CASE r \in Sigs \X Stamps /\ Accepted(r[1], r[2])
      BY <1>2, <3>2, FreshStamp DEF Accepted
    <3> QED BY <1>1, <3>1, <3>2
  <2>2. CASE r \in requests
    <3>1. CASE acceptedAt'[r[1]] = acceptedAt[r[1]]
      BY <1>3, <1>4, <2>1, <2>2, <3>1 DEF Dated
    <3>2. CASE acceptedAt'[r[1]] # acceptedAt[r[1]]
      BY <1>3, <1>4, <1>5, <2>1, <3>2
    <3> QED BY <3>1, <3>2
  <2>3. CASE r \notin requests
    <3>1. r \in Sigs \X Stamps /\ Accepted(r[1], r[2])
      BY <1>1, <2>3
    <3>2. acceptedAt'[r[1]] = time
      BY <3>1 DEF Accepted, Remember, SigIInv, SigTypeOK
    <3> QED BY <1>3, <1>4, <2>1, <3>2
  <2> QED BY <2>2, <2>3
<1> QED BY <1>6 DEF Dated

\* With a TTL of more than twice the maximal age, in whole seconds, a request
\* is accepted once, whatever the resolution of the cache's clock: when its
\* signature is forgotten its timestamp is too old.
THEOREM LongTtlAcceptsOnce ==
    ASSUME CacheTtl > 2 * MaxAge
    PROVE  MCSpec => AcceptedOnce
<1> USE SizeAssumption, UnsetAssumption, TtlType
<1>1. MCSpec => [](SigIInv /\ Dated)
  <2>1. MCInit => SigIInv /\ Dated
    BY SigInitIInv DEF MCInit, Dated
  <2>2. SigIInv /\ Dated /\ [MCNext]_<<sigVars, requests>> => (SigIInv /\ Dated)'
    BY SigNextIInv, DatedStep DEF MCNext
  <2> QED BY <2>1, <2>2, PTL DEF MCSpec
<1>2. ASSUME SigIInv, Dated, NEW s \in Sigs, NEW ts \in Stamps,
             Accepted(s, ts), acceptedAt[s] # Unset, others[s] < CacheSize
      PROVE  <<s, ts>> \notin requests
  <2>1. time \in Nat /\ acceptedAt[s] \in Nat /\ ts \in Int
    BY <1>2 DEF SigIInv, SigTypeOK
  <2>2. ~Recent(s)
    BY <1>2, NotCached DEF Accepted, SigIInv, SigTypeOK
  <2>3. acceptedAt[s] + CacheTtl * Resolution <= time
    BY <1>2, <2>1, <2>2 DEF Recent, Ttl
  <2>4. (acceptedAt[s] \div Resolution) + CacheTtl <= (time \div Resolution)
    BY <2>1, <2>3, UnitsLater
  <2>5. (acceptedAt[s] \div Resolution) \in Nat /\ (time \div Resolution) \in Nat
    BY <2>1, Quotient
  <2>6. (time \div Resolution) - ts <= MaxAge
    BY <1>2, <2>1, FreshStamp DEF Accepted
  <2>7. ts > (acceptedAt[s] \div Resolution) + MaxAge
    BY <2>1, <2>4, <2>5, <2>6
  <2> QED BY <1>2, <2>1, <2>5, <2>7 DEF Dated
<1>3. SigIInv /\ Dated /\ [MCNext]_<<sigVars, requests>> =>
         [\A s \in Sigs, ts \in Stamps :
             Accepted(s, ts) /\ acceptedAt[s] # Unset /\ others[s] < CacheSize
                 => <<s, ts>> \notin requests]_<<sigVars, requests>>
  BY <1>2
<1> QED BY <1>1, <1>3, PTL DEF MCSpec, AcceptedOnce
=============================================================================
