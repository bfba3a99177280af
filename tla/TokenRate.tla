------------------------------ MODULE TokenRate ------------------------------
(***************************************************************************)
(* _enforce_token_limit (app/identity/auth.py): how often an API token may *)
(* be used, counted in the token_rate_cache of one web process.  Every     *)
(* write gives the counter a new time to live, and a full cache evicts the *)
(* counter that was read or written longest ago.                           *)
(*                                                                         *)
(* The cache's list in order of use is given by `since': the last counter  *)
(* in that list is the one that all the others were used after.            *)
(***************************************************************************)
EXTENDS Naturals, Sequences, FiniteSets

CONSTANTS
    Tokens,     \* hashes of valid API tokens
    Limit,      \* TOKEN_RATE_LIMIT[0]
    Window,     \* TOKEN_RATE_LIMIT[1], in units of the clock
    CacheSize,  \* settings.TOKEN_RATE_CACHE_SIZE
    Horizon     \* bound on the clock

ASSUME RateAssumption ==
    /\ Limit \in Nat \ {0} /\ Window \in Nat \ {0}
    /\ CacheSize \in Nat \ {0} /\ Horizon \in Nat
ASSUME TokensAssumption == IsFiniteSet(Tokens)

VARIABLES
    clock,
    count,      \* token_rate_cache: the counter of each token, 0 if it has none
    expires,    \* when the counter expires
    since,      \* the tokens checked after each token's last check
    recent      \* history: the last Limit times each token was let through,
                \* since its counter was last evicted

vars == <<clock, count, expires, since, recent>>

TypeOK ==
    /\ clock \in Nat
    /\ count \in [Tokens -> 0..Limit]
    /\ expires \in [Tokens -> Nat]
    /\ since \in [Tokens -> SUBSET Tokens]
    /\ recent \in [Tokens -> Seq(Nat)]

Init ==
    /\ clock = 0
    /\ count = [t \in Tokens |-> 0]
    /\ expires = [t \in Tokens |-> 0]
    /\ since = [t \in Tokens |-> {}]
    /\ recent = [t \in Tokens |-> <<>>]

Tick ==
    /\ clock < Horizon
    /\ clock' = clock + 1
    /\ UNCHANGED <<count, expires, since, recent>>

-----------------------------------------------------------------------------
(* cachetools.TTLCache                                                     *)

Live(t) == count[t] > 0 /\ clock < expires[t]

Counters == {t \in Tokens : Live(t)}

Oldest(v) == Counters \ {v} \subseteq since[v]

\* What must go before the counter of t can be written.
Victims(t) == IF Live(t) \/ Cardinality(Counters) < CacheSize THEN {}
              ELSE {v \in Counters : Oldest(v)}

Used(t) == since' = [u \in Tokens |-> IF u = t THEN {} ELSE since[u] \cup {t}]

-----------------------------------------------------------------------------
(* _enforce_token_limit                                                    *)

Get(t) == IF Live(t) THEN count[t] ELSE 0

\* Mutant: the limit is exceeded by one.
BelowNextLimit(t) == Get(t) <= Limit

BelowLimit(t) == Get(t) < Limit

AddUse(s) == Append(IF Len(s) < Limit THEN s ELSE Tail(s), clock)

Remember(t) ==
    recent' = [u \in Tokens |-> IF u = t THEN AddUse(recent[u])
                                ELSE IF u \in Victims(t) THEN <<>> ELSE recent[u]]

\* Mutant: only the first write sets the time to live.
AllowFixedWindow(t) ==
    /\ BelowLimit(t)
    /\ count' = [u \in Tokens |-> IF u = t THEN Get(t) + 1
                                  ELSE IF u \in Victims(t) THEN 0 ELSE count[u]]
    /\ expires' = [expires EXCEPT ![t] = IF Live(t) THEN @ ELSE clock + Window]
    /\ Used(t)
    /\ Remember(t)
    /\ UNCHANGED clock

Allow(t) ==
    /\ BelowLimit(t)
    /\ count' = [u \in Tokens |-> IF u = t THEN Get(t) + 1
                                  ELSE IF u \in Victims(t) THEN 0 ELSE count[u]]
    /\ expires' = [expires EXCEPT ![t] = clock + Window]
    /\ Used(t)
    /\ Remember(t)
    /\ UNCHANGED clock

\* Mutant: a refused token's counter is dropped.
RefuseAndReset(t) ==
    /\ ~BelowLimit(t)
    /\ Used(t)
    /\ count' = [count EXCEPT ![t] = 0]
    /\ UNCHANGED <<clock, expires, recent>>

\* Mutant: the counter is written on a refusal too.
RefuseAndProlong(t) ==
    /\ ~BelowLimit(t)
    /\ Used(t)
    /\ expires' = [expires EXCEPT ![t] = clock + Window]
    /\ UNCHANGED <<clock, count, recent>>

\* Reading the counter is a use of it, but does not prolong it.
Refuse(t) ==
    /\ ~BelowLimit(t)
    /\ Used(t)
    /\ UNCHANGED <<clock, count, expires, recent>>

\* The process is restarted: the cache is empty, and the history starts anew.
Restart ==
    /\ count' = [t \in Tokens |-> 0]
    /\ expires' = [t \in Tokens |-> 0]
    /\ since' = [t \in Tokens |-> {}]
    /\ recent' = [t \in Tokens |-> <<>>]
    /\ UNCHANGED clock

Next == Tick \/ Restart \/ \E t \in Tokens : Allow(t) \/ Refuse(t)

Spec == Init /\ [][Next]_vars
-----------------------------------------------------------------------------
(* Properties                                                              *)

Within(t, i) == clock < recent[t][i] + Window

\* At most Limit uses of a token are let through in any Window, as long as
\* its counter is not evicted.
RateKept ==
    \A t \in Tokens : BelowLimit(t) /\ Len(recent[t]) = Limit => ~Within(t, 1)

\* A counter that is still needed is lost only if as many other tokens as the
\* cache holds were used since its own was seen last (or with the process).
EvictedUnderPressure ==
    [][\A t \in Tokens :
          Live(t) /\ count'[t] = 0 => Cardinality(since'[t]) >= CacheSize \/ Restart]_vars

\* A token is refused only after Limit uses without a rest: each came less than
\* Window after the one before, and the last less than Window ago.  Asking in
\* vain does not count, and a token that rests for a Window is let through.
RefusalJustified ==
    \A t \in Tokens : ~BelowLimit(t) =>
        /\ Len(recent[t]) = Limit
        /\ Within(t, Limit)
        /\ \A i \in 1..(Limit - 1) : recent[t][i + 1] < recent[t][i] + Window

\* The docstring of _enforce_token_limit: a token that is refused "exceeded its
\* allowed rate", that is, was let through Limit times in the last Window.
RefusedAboveRate ==
    \A t \in Tokens : ~BelowLimit(t) => Len(recent[t]) = Limit /\ Within(t, 1)
=============================================================================
