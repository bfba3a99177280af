----------------------------- MODULE ReplayGuard -----------------------------
(***************************************************************************)
(* What every duplicate check of the webhook promises: two accepted uses   *)
(* of the same identifier (a nonce, a signature) are at least Window       *)
(* seconds apart.  How it is remembered, and by whom, is left open.        *)
(***************************************************************************)
EXTENDS Integers, Sequences

CONSTANTS
    Ids,        \* identifiers that may come again
    Window      \* seconds

VARIABLES
    clock,
    uses        \* the times at which each identifier was accepted

Init ==
    /\ clock = 0
    /\ uses = [i \in Ids |-> <<>>]

Tick ==
    /\ clock' = clock + 1
    /\ UNCHANGED uses

Rested(i) == uses[i] = <<>> \/ clock - uses[i][Len(uses[i])] >= Window

Accept(i) ==
    /\ Rested(i)
    /\ uses' = [uses EXCEPT ![i] = Append(@, clock)]
    /\ UNCHANGED clock

Next == Tick \/ \E i \in Ids : Accept(i)

Spec == Init /\ [][Next]_<<clock, uses>>
=============================================================================
