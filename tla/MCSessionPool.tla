---------------------------- MODULE MCSessionPool ----------------------------
(***************************************************************************)
(* SessionPool with a history variable.                                    *)
(***************************************************************************)
EXTENDS SessionPool, FiniteSets

ASSUME TasksAssumption == IsFiniteSet(Tasks)

VARIABLE
    peak        \* the most clients of each key ever lent at the same time

Lent(k) == Cardinality({t \in Tasks : Holding(t) /\ wanted[t] = k})

Largest(m, n) == IF m > n THEN m ELSE n

MCInit == Init /\ peak = [k \in Keys |-> 0]

MCNext == Next /\ peak' = [k \in Keys |-> Largest(peak[k], Lent(k)')]

MCSpec == MCInit /\ [][MCNext]_<<vars, peak>>

\* Clients are created for pressure and for nothing else: of each key, no more
\* were ever created than the most in use at once, until that exceeds maxsize;
\* acquire neither misses an idle client nor does release close one early.
NoChurn ==
    \A k \in Keys :
        peak[k] <= MaxSize => Cardinality({c \in Tasks : poolKey[c] = k}) <= peak[k]
=============================================================================
