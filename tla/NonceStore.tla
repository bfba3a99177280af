------------------------------ MODULE NonceStore ------------------------------
(***************************************************************************)
(* The nonces table of app/identity/token_store.py, in a SQLite file that  *)
(* the threads of every process share.  register_nonce reads the clock,    *)
(* then runs three statements, each a transaction of its own, so that      *)
(* other callers come in between; a caller may also die, or give up on a   *)
(* locked database, before any of them.                                    *)
(***************************************************************************)
EXTENDS Integers, Sequences

CONSTANTS
    Callers,    \* threads of the web and command-line processes
    Nonces,
    NonceTtl,   \* settings.NONCE_TTL, in seconds
    MaxStall,   \* seconds from a caller's reading of the clock to its commit
    Horizon,    \* bound on the clock
    None

ASSUME TimeAssumption == NonceTtl \in Nat \ {0} /\ MaxStall \in Nat /\ Horizon \in Nat
ASSUME NoneAssumption == None \notin Int /\ None \notin Nonces

VARIABLES
    clock,      \* int(time.time()), the same for all callers
    nonces,     \* expires_at of each row, None if there is no row
    pc,         \* the statement each caller is about to run
    nonce,      \* its argument
    now,        \* its reading of the clock
    result,     \* how its last call ended
    uses        \* history: the times at which each nonce was registered

vars == <<clock, nonces, pc, nonce, now, result, uses>>

TypeOK ==
    /\ clock \in Nat
    /\ nonces \in [Nonces -> Nat \cup {None}]
    /\ pc \in [Callers -> {"idle", "delete", "select", "insert", "sweep"}]
    /\ nonce \in [Callers -> Nonces \cup {None}]
    /\ now \in [Callers -> Nat]
    /\ result \in [Callers -> {"none", "True", "False", "IntegrityError", "failed"}]
    /\ uses \in [Nonces -> Seq(Nat)]

Init ==
    /\ clock = 0
    /\ nonces = [n \in Nonces |-> None]
    /\ pc = [p \in Callers |-> "idle"]
    /\ nonce = [p \in Callers |-> None]
    /\ now = [p \in Callers |-> 0]
    /\ result = [p \in Callers |-> "none"]
    /\ uses = [n \in Nonces |-> <<>>]

\* Time passes; no caller is held up for more than MaxStall.
Tick ==
    /\ clock < Horizon
    /\ \A p \in Callers : pc[p] # "idle" => clock < now[p] + MaxStall
    /\ clock' = clock + 1
    /\ UNCHANGED <<nonces, pc, nonce, now, result, uses>>

\* The call ends, and its local variables with it.
Return(p, r) ==
    /\ pc' = [pc EXCEPT ![p] = "idle"]
    /\ nonce' = [nonce EXCEPT ![p] = None]
    /\ now' = [now EXCEPT ![p] = 0]
    /\ result' = [result EXCEPT ![p] = r]

-----------------------------------------------------------------------------
\* Mutant: expires_at < now.
LongExpired(n, t) == nonces[n] # None /\ nonces[n] < t

Expired(n, t) == nonces[n] # None /\ nonces[n] <= t

\* DELETE FROM nonces WHERE expires_at <= now, and commit.
CleanupNonces(t) == nonces' = [n \in Nonces |-> IF Expired(n, t) THEN None ELSE nonces[n]]

\* Mutant: the time to live is subtracted at the start, not when comparing.
RegisterFromCutoff(p, n) ==
    /\ pc[p] = "idle"
    /\ pc' = [pc EXCEPT ![p] = "delete"]
    /\ nonce' = [nonce EXCEPT ![p] = n]
    /\ now' = [now EXCEPT ![p] = clock - NonceTtl]
    /\ result' = [result EXCEPT ![p] = "none"]
    /\ UNCHANGED <<clock, nonces, uses>>

RegisterNonce(p, n) ==
    /\ pc[p] = "idle"
    /\ pc' = [pc EXCEPT ![p] = "delete"]
    /\ nonce' = [nonce EXCEPT ![p] = n]
    /\ now' = [now EXCEPT ![p] = clock]
    /\ result' = [result EXCEPT ![p] = "none"]
    /\ UNCHANGED <<clock, nonces, uses>>

Delete(p) ==
    /\ pc[p] = "delete"
    /\ CleanupNonces(now[p])
    /\ pc' = [pc EXCEPT ![p] = "select"]
    /\ UNCHANGED <<clock, nonce, now, result, uses>>

Select(p) ==
    /\ pc[p] = "select"
    /\ \/ /\ nonces[nonce[p]] # None
          /\ Return(p, "False")
       \/ /\ nonces[nonce[p]] = None
          /\ pc' = [pc EXCEPT ![p] = "insert"]
          /\ UNCHANGED <<nonce, now, result>>
    /\ UNCHANGED <<clock, nonces, uses>>

\* Mutant: INSERT OR REPLACE.
Replace(p) ==
    /\ pc[p] = "insert"
    /\ nonces' = [nonces EXCEPT ![nonce[p]] = now[p] + NonceTtl]
    /\ uses' = [uses EXCEPT ![nonce[p]] = Append(@, clock)]
    /\ Return(p, "True")
    /\ UNCHANGED clock

Insert(p) ==
    /\ pc[p] = "insert"
    /\ nonces[nonce[p]] = None
    /\ nonces' = [nonces EXCEPT ![nonce[p]] = now[p] + NonceTtl]
    /\ uses' = [uses EXCEPT ![nonce[p]] = Append(@, clock)]
    /\ Return(p, "True")
    /\ UNCHANGED clock

\* Another caller inserted the nonce since the SELECT: the PRIMARY KEY refuses
\* the row, and nothing catches the exception.
InsertConflicts(p) ==
    /\ pc[p] = "insert"
    /\ nonces[nonce[p]] # None
    /\ Return(p, "IntegrityError")
    /\ UNCHANGED <<clock, nonces, uses>>

CleanupExpiredNonces(p) ==
    /\ pc[p] = "idle"
    /\ pc' = [pc EXCEPT ![p] = "sweep"]
    /\ now' = [now EXCEPT ![p] = clock]
    /\ result' = [result EXCEPT ![p] = "none"]
    /\ UNCHANGED <<clock, nonces, nonce, uses>>

Sweep(p) ==
    /\ pc[p] = "sweep"
    /\ CleanupNonces(now[p])
    /\ Return(p, "none")
    /\ UNCHANGED <<clock, uses>>

\* The process dies, or the database stays locked: the statement has no effect.
Fail(p) ==
    /\ pc[p] # "idle"
    /\ Return(p, "failed")
    /\ UNCHANGED <<clock, nonces, uses>>

-----------------------------------------------------------------------------
Next ==
    \/ Tick
    \/ \E p \in Callers :
          \/ \E n \in Nonces : RegisterNonce(p, n)
          \/ Delete(p) \/ Select(p) \/ Insert(p) \/ InsertConflicts(p)
          \/ CleanupExpiredNonces(p) \/ Sweep(p)
          \/ Fail(p)

Spec == Init /\ [][Next]_vars

-----------------------------------------------------------------------------
(* Properties                                                              *)

LastUse(n) == uses[n][Len(uses[n])]

Guard == INSTANCE ReplayGuard WITH Ids <- Nonces, Window <- NonceTtl - MaxStall

\* A nonce is registered again only NonceTtl seconds later, less the time a
\* caller may have been held up after reading the clock: two deliveries of one
\* alert within that time are never both accepted, whatever the processes that
\* receive them, and whatever dies half-way.
ImplementsReplayGuard == Guard!Spec

\* A nonce is refused only if it was registered within the last NonceTtl
\* seconds (plus the same delay): a row that should be gone refuses nobody.
RefusalJustified ==
    [][\A p \in Callers :
          pc[p] = "select" /\ result'[p] = "False" /\ pc'[p] = "idle" =>
              /\ uses[nonce[p]] # <<>>
              /\ clock < LastUse(nonce[p]) + NonceTtl + MaxStall]_vars
=============================================================================
