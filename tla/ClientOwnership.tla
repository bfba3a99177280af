--------------------------- MODULE ClientOwnership ---------------------------
(***************************************************************************)
(* What the session pool promises, with neither queues nor locks: a client *)
(* is lent to one task at a time, always under the credentials it was      *)
(* created with; a new one is created only when none is idle, and one is   *)
(* closed only when enough of its kind are idle already.                   *)
(***************************************************************************)
EXTENDS Naturals, FiniteSets

CONSTANTS
    Tasks,      \* the borrowers
    Clients,
    Keys,       \* credential sets
    MaxIdle,    \* idle clients kept per credential set
    None        \* no owner, no key

VARIABLES
    kind,       \* the credentials of each client, None before it exists
    owner,      \* the borrower of each client, None if it has none
    idle        \* the clients that may be lent

Init ==
    /\ kind = [c \in Clients |-> None]
    /\ owner = [c \in Clients |-> None]
    /\ idle = {}

IdleOf(k) == {c \in idle : kind[c] = k}

LendIdle(t, c) ==
    /\ c \in idle
    /\ idle' = idle \ {c}
    /\ owner' = [owner EXCEPT ![c] = t]
    /\ UNCHANGED kind

LendNew(t, c, k) ==
    /\ kind[c] = None
    /\ IdleOf(k) = {}
    /\ kind' = [kind EXCEPT ![c] = k]
    /\ owner' = [owner EXCEPT ![c] = t]
    /\ UNCHANGED idle

Return(c) ==
    /\ owner[c] # None
    /\ Cardinality(IdleOf(kind[c])) < MaxIdle
    /\ owner' = [owner EXCEPT ![c] = None]
    /\ idle' = idle \cup {c}
    /\ UNCHANGED kind

\* The client is never lent again.
Retire(c) ==
    /\ owner[c] # None
    /\ Cardinality(IdleOf(kind[c])) >= MaxIdle
    /\ owner' = [owner EXCEPT ![c] = None]
    /\ UNCHANGED <<kind, idle>>

Next ==
    \/ \E c \in Clients, t \in Tasks :
          /\ \A d \in Clients : owner[d] # t
          /\ LendIdle(t, c) \/ \E k \in Keys : LendNew(t, c, k)
    \/ \E c \in Clients : Return(c) \/ Retire(c)

Spec == Init /\ [][Next]_<<kind, owner, idle>>
=============================================================================
