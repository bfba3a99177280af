--------------------------- MODULE TokenRateProofs ---------------------------
(***************************************************************************)
(* Proofs about TokenRate, for any tokens, Limit, Window and CacheSize.    *)
(*                                                                         *)
(* The argument: a live counter counts the last uses of its token, and all *)
(* uses it does not count are at least Window old (Counted); it expires    *)
(* Window after the last of them (Lasting).  When it expires, the uses it  *)
(* counted are as old.  A use is counted with the ones before only if it   *)
(* finds their counter live, and so less than Window after the last of     *)
(* them (Chained).                                                         *)
(***************************************************************************)
EXTENDS TokenRate, FiniteSetTheorems, TLAPS

Bounded == \A t \in Tokens : Len(recent[t]) <= Limit

\* The uses a live counter counts are on record, and none is later than
\* Window before it expires.
Lasting ==
    \A t \in Tokens :
        Live(t) =>
            /\ count[t] <= Len(recent[t])
            /\ expires[t] = recent[t][Len(recent[t])] + Window
            /\ \A i \in DOMAIN recent[t] : recent[t][i] + Window <= expires[t]

\* Of the uses a live counter counts, each came less than Window after the
\* one before.
Chained ==
    \A t \in Tokens :
        Live(t) =>
            \A i \in 1..(Len(recent[t]) - 1) :
                i > Len(recent[t]) - count[t] => recent[t][i + 1] < recent[t][i] + Window

\* A use that no live counter counts is at least Window old.
Counted ==
    \A t \in Tokens :
        \A i \in DOMAIN recent[t] :
            i <= Len(recent[t]) - Get(t) => recent[t][i] + Window <= clock

\* No use is ahead of the clock.
Past == \A t \in Tokens : \A i \in DOMAIN recent[t] : recent[t][i] <= clock

IInv == TypeOK /\ Bounded /\ Lasting /\ Chained /\ Counted /\ Past

LEMMA InitIInv == Init => IInv
  BY RateAssumption DEF Init, IInv, TypeOK, Bounded, Lasting, Chained, Counted, Past, Live, Get

\* What AddUse makes of a record of at most Limit uses.
LEMMA OneMoreUse ==
    ASSUME NEW s \in Seq(Nat), Len(s) <= Limit, clock \in Nat
    PROVE  /\ AddUse(s) \in Seq(Nat)
           /\ Len(AddUse(s)) = IF Len(s) < Limit THEN Len(s) + 1 ELSE Limit
           /\ AddUse(s)[Len(AddUse(s))] = clock
           /\ \A i \in 1..(Len(AddUse(s)) - 1) :
                 AddUse(s)[i] = IF Len(s) < Limit THEN s[i] ELSE s[i + 1]
<1>1. CASE Len(s) < Limit
  BY <1>1 DEF AddUse
<1>2. CASE Len(s) = Limit
  <2>1. /\ Tail(s) \in Seq(Nat)
        /\ Len(Tail(s)) = Limit - 1
        /\ \A i \in 1..(Limit - 1) : Tail(s)[i] = s[i + 1]
    BY <1>2, RateAssumption
  <2> QED
    BY <1>2, <2>1, RateAssumption DEF AddUse
<1> QED
  BY <1>1, <1>2, RateAssumption

LEMMA UsesStayPast ==
    ASSUME NEW s \in Seq(Nat), Len(s) <= Limit, clock \in Nat,
           \A i \in DOMAIN s : s[i] <= clock
    PROVE  \A i \in DOMAIN AddUse(s) : AddUse(s)[i] \in Nat /\ AddUse(s)[i] <= clock
<1> DEFINE n == Len(AddUse(s))
<1>1. /\ AddUse(s) \in Seq(Nat)
      /\ n = IF Len(s) < Limit THEN Len(s) + 1 ELSE Limit
      /\ AddUse(s)[n] = clock
      /\ \A i \in 1..(n - 1) : AddUse(s)[i] = IF Len(s) < Limit THEN s[i] ELSE s[i + 1]
  BY OneMoreUse
<1>2. ASSUME NEW i \in 1..(n - 1) PROVE AddUse(s)[i] <= clock
  <2>1. CASE Len(s) < Limit
    <3>1. AddUse(s)[i] = s[i] /\ i \in DOMAIN s
      BY <1>1, <1>2, <2>1
    <3> QED
      BY <3>1
  <2>2. CASE Len(s) = Limit
    <3>1. n = Limit /\ AddUse(s)[i] = s[i + 1]
      BY <1>1, <1>2, <2>2, RateAssumption
    <3>2. i + 1 \in DOMAIN s
      BY <1>2, <2>2, <3>1, RateAssumption
    <3> QED
      BY <3>1, <3>2
  <2> QED
    BY <2>1, <2>2, RateAssumption
<1>3. n \in Nat /\ DOMAIN AddUse(s) = 1..n
  BY <1>1
<1> QED
  BY <1>1, <1>2, <1>3

LEMMA TickIInv == IInv /\ Tick => IInv'
<1> SUFFICES ASSUME IInv, Tick PROVE IInv'
  OBVIOUS
<1> USE DEF IInv, Tick
<1>1. TypeOK' /\ Bounded' /\ Past'
  BY DEF TypeOK, Bounded, Past
<1>2. Lasting' /\ Chained'
  <2>1. \A t \in Tokens : Live(t)' => Live(t)
    BY DEF TypeOK, Live
  <2>2. UNCHANGED <<count, expires, recent>>
    OBVIOUS
  <2> QED
    BY <2>1, <2>2 DEF Lasting, Chained
<1>3. Counted'
  <2> SUFFICES ASSUME NEW t \in Tokens, NEW i \in DOMAIN recent[t],
                      i <= Len(recent[t]) - Get(t)'
               PROVE  recent[t][i] + Window <= clock + 1
    BY DEF Counted
  <2>1. recent[t] \in Seq(Nat) /\ count[t] \in Nat /\ expires[t] \in Nat /\ clock \in Nat
    BY DEF TypeOK
  <2>2. CASE Live(t)'
    <3>1. Live(t) /\ Get(t)' = Get(t)
      BY <2>1, <2>2 DEF Live, Get
    <3>2. recent[t][i] + Window <= clock
      BY <3>1 DEF Counted
    <3> QED
      BY <2>1, <3>2, RateAssumption
  <2>3. CASE ~Live(t)' /\ Live(t)
    <3>1. expires[t] <= clock + 1
      BY <2>1, <2>3 DEF Live
    <3>2. recent[t][i] + Window <= expires[t]
      BY <2>3 DEF Lasting
    <3> QED
      BY <2>1, <3>1, <3>2, RateAssumption
  <2>4. CASE ~Live(t)' /\ ~Live(t)
    <3>1. recent[t][i] + Window <= clock
      BY <2>1, <2>4 DEF Counted, Get
    <3> QED
      BY <2>1, <3>1, RateAssumption
  <2> QED
    BY <2>2, <2>3, <2>4
<1> QED
  BY <1>1, <1>2, <1>3

LEMMA AllowIInv == ASSUME IInv, NEW t \in Tokens, Allow(t) PROVE IInv'
<1> USE DEF IInv
<1>0. /\ clock \in Nat /\ clock' = clock
      /\ \A u \in Tokens : /\ recent[u] \in Seq(Nat)
                           /\ count[u] \in 0..Limit
                           /\ expires[u] \in Nat
                           /\ Len(recent[u]) <= Limit
  BY DEF TypeOK, Bounded, Allow
<1>1. Get(t) \in 0..(Limit - 1)
  BY <1>0, RateAssumption DEF Get, Allow, BelowLimit
<1>2. /\ count'[t] = Get(t) + 1
      /\ expires'[t] = clock + Window
      /\ recent'[t] = AddUse(recent[t])
  BY DEF TypeOK, Allow, Remember
<1>3. Live(t)' /\ Get(t)' = Get(t) + 1
  BY <1>0, <1>1, <1>2, RateAssumption DEF Live, Get
\* The others lose their counter and their record, or neither.
<1>4. ASSUME NEW u \in Tokens, u # t
      PROVE  \/ recent'[u] = <<>> /\ count'[u] = 0 /\ expires'[u] = expires[u]
             \/ recent'[u] = recent[u] /\ count'[u] = count[u] /\ expires'[u] = expires[u]
  BY <1>4 DEF TypeOK, Allow, Remember
<1> DEFINE n == Len(recent[t])
           m == Len(AddUse(recent[t]))
<1>5. /\ n \in Nat /\ n <= Limit
      /\ AddUse(recent[t]) \in Seq(Nat)
      /\ m = IF n < Limit THEN n + 1 ELSE Limit
      /\ AddUse(recent[t])[m] = clock
      /\ \A i \in 1..(m - 1) :
            AddUse(recent[t])[i] = IF n < Limit THEN recent[t][i] ELSE recent[t][i + 1]
  <2>1. recent[t] \in Seq(Nat) /\ Len(recent[t]) <= Limit /\ clock \in Nat
    BY <1>0
  <2> HIDE DEF IInv
  <2>2. /\ AddUse(recent[t]) \in Seq(Nat)
        /\ Len(AddUse(recent[t])) = IF Len(recent[t]) < Limit THEN Len(recent[t]) + 1 ELSE Limit
        /\ AddUse(recent[t])[Len(AddUse(recent[t]))] = clock
        /\ \A i \in 1..(Len(AddUse(recent[t])) - 1) :
              AddUse(recent[t])[i] =
                 IF Len(recent[t]) < Limit THEN recent[t][i] ELSE recent[t][i + 1]
    BY <2>1, OneMoreUse
  <2> QED
    BY <2>1, <2>2
<1>11. \A i \in DOMAIN AddUse(recent[t]) :
          AddUse(recent[t])[i] \in Nat /\ AddUse(recent[t])[i] <= clock
  <2>1. /\ recent[t] \in Seq(Nat) /\ Len(recent[t]) <= Limit /\ clock \in Nat
        /\ \A i \in DOMAIN recent[t] : recent[t][i] <= clock
    BY <1>0 DEF Past
  <2> QED
    BY <2>1, UsesStayPast
<1>6. TypeOK'
  <2>1. \A u \in Tokens : recent'[u] \in Seq(Nat)
    <3>1. AddUse(recent[t]) \in Seq(Nat) /\ <<>> \in Seq(Nat)
      BY <1>5
    <3> QED
      BY <3>1, <1>0, <1>2, <1>4
  <2>2. recent' \in [Tokens -> Seq(Nat)]
    BY <2>1 DEF Allow, Remember
  <2>3. count' \in [Tokens -> 0..Limit]
    BY <1>0, <1>1, RateAssumption DEF Allow
  <2>4. expires' \in [Tokens -> Nat] /\ since' \in [Tokens -> SUBSET Tokens]
    BY <1>0, RateAssumption DEF Allow, Used, TypeOK
  <2> QED
    BY <1>0, <2>2, <2>3, <2>4 DEF TypeOK
<1>7. Bounded'
  <2> SUFFICES ASSUME NEW u \in Tokens PROVE Len(recent'[u]) <= Limit
    BY DEF Bounded
  <2>1. CASE u = t
    BY <2>1, <1>2, <1>5, RateAssumption
  <2>2. CASE u # t
    BY <2>2, <1>0, <1>4, RateAssumption
  <2> QED
    BY <2>1, <2>2
<1>8. Past'
  <2> SUFFICES ASSUME NEW u \in Tokens, NEW i \in DOMAIN recent'[u]
               PROVE  recent'[u][i] <= clock
    BY <1>0 DEF Past
  <2>1. CASE u = t
    BY <2>1, <1>2, <1>11
  <2>2. CASE u # t
    BY <2>2, <1>0, <1>4 DEF Past
  <2> QED
    BY <2>1, <2>2
<1>9. Lasting'
  <2> SUFFICES ASSUME NEW u \in Tokens, Live(u)'
               PROVE  /\ count'[u] <= Len(recent'[u])
                      /\ expires'[u] = recent'[u][Len(recent'[u])] + Window
                      /\ \A i \in DOMAIN recent'[u] : recent'[u][i] + Window <= expires'[u]
    BY DEF Lasting
  <2>1. CASE u = t
    <3>1. Get(t) <= Len(recent[t])
      BY <1>0 DEF Get, Lasting
    <3>2. Get(t) + 1 <= m
      BY <1>1, <1>5, <3>1, RateAssumption
    <3>3. \A i \in DOMAIN AddUse(recent[t]) : AddUse(recent[t])[i] + Window <= clock + Window
      BY <1>0, <1>11, RateAssumption
    <3> QED
      BY <2>1, <1>2, <1>5, <3>2, <3>3
  <2>2. CASE u # t
    <3>1. /\ recent'[u] = recent[u]
          /\ count'[u] = count[u]
          /\ expires'[u] = expires[u]
      BY <2>2, <1>0, <1>4 DEF Live
    <3>2. Live(u)
      BY <1>0, <3>1 DEF Live
    <3> QED
      BY <3>1, <3>2 DEF Lasting
  <2> QED
    BY <2>1, <2>2
<1>10. Counted'
  <2> SUFFICES ASSUME NEW u \in Tokens, NEW i \in DOMAIN recent'[u],
                      i <= Len(recent'[u]) - Get(u)'
               PROVE  recent'[u][i] + Window <= clock
    BY <1>0 DEF Counted
  <2>1. CASE u = t
    <3> DEFINE j == IF n < Limit THEN i ELSE i + 1
    <3>1. i \in 1..m /\ i <= m - (Get(t) + 1)
      BY <2>1, <1>2, <1>3, <1>5
    <3> HIDE DEF n, m
    <3>2. i \in 1..(m - 1) /\ m \in Nat
      BY <1>1, <1>5, <3>1, RateAssumption
    <3>3. recent'[t][i] = recent[t][j]
      BY <1>2, <1>5, <3>2
    <3>4. j \in 1..n /\ j <= n - Get(t)
      BY <1>1, <1>5, <3>1, <3>2, RateAssumption
    <3>5. DOMAIN recent[t] = 1..n
      BY <1>0 DEF n
    <3>6. recent[t][j] + Window <= clock
      BY <3>4, <3>5 DEF Counted, n
    <3> QED
      BY <2>1, <3>3, <3>6
  <2>2. CASE u # t
    <3>1. CASE recent'[u] = <<>>
      BY <3>1
    <3>2. CASE recent'[u] = recent[u] /\ count'[u] = count[u] /\ expires'[u] = expires[u]
      <4>1. Get(u)' = Get(u)
        BY <1>0, <3>2 DEF Get, Live
      <4> QED
        BY <3>2, <4>1 DEF Counted
    <3> QED
      BY <2>2, <1>4, <3>1, <3>2
  <2> QED
    BY <2>1, <2>2
\* The last use before this one, if the counter was live, is less than Window old.
<1>12. Chained'
  <2> SUFFICES ASSUME NEW u \in Tokens, Live(u)',
                      NEW i \in 1..(Len(recent'[u]) - 1), i > Len(recent'[u]) - count'[u]
               PROVE  recent'[u][i + 1] < recent'[u][i] + Window
    BY DEF Chained
  <2>1. CASE u = t
    <3> DEFINE j == IF n < Limit THEN i ELSE i + 1
    <3>1. i \in 1..(m - 1) /\ i > m - (Get(t) + 1)
      BY <2>1, <1>2
    <3>2. recent'[t][i] = recent[t][j]
      BY <3>1, <1>2, <1>5
    <3> HIDE DEF n, m
    <3>a. /\ m \in Nat /\ n \in Nat
          /\ n < Limit => m = n + 1 /\ j = i
          /\ ~(n < Limit) => m = n /\ n = Limit /\ j = i + 1
      BY <1>5, <3>1, RateAssumption
    <3> HIDE DEF j
    <3>3. j \in 1..n /\ j > n - Get(t) /\ Get(t) > 0
      BY <1>1, <3>a, <3>1
    <3>4. Live(t) /\ Get(t) = count[t]
      BY <3>3, <1>0 DEF Get
    <3>5. CASE i = m - 1
      <4>1. j = n /\ recent'[t][i + 1] = clock
        <5>1. i + 1 = m /\ j = n
          BY <3>5, <3>a, <3>1
        <5> QED
          BY <5>1, <1>2, <1>5
      <4>2. clock < recent[t][n] + Window
        BY <3>4 DEF Lasting, Live, n
      <4> QED BY <4>1, <4>2, <3>2, <2>1
    <3>6. CASE i # m - 1
      <4>1. i + 1 \in 1..(m - 1)
        BY <3>6, <3>1, <1>5
      <4>2. recent'[t][i + 1] = recent[t][j + 1] /\ j \in 1..(n - 1)
        <5>1. recent'[t][i + 1] = IF n < Limit THEN recent[t][i + 1] ELSE recent[t][(i + 1) + 1]
          BY <4>1, <1>2, <1>5
        <5>2. j \in 1..(n - 1) /\ j + 1 = IF n < Limit THEN i + 1 ELSE (i + 1) + 1
          BY <3>6, <3>a, <3>1
        <5> QED
          BY <5>1, <5>2
      <4>3. recent[t][j + 1] < recent[t][j] + Window
        BY <4>2, <3>3, <3>4 DEF Chained, n
      <4> QED BY <4>2, <4>3, <3>2, <2>1
    <3> QED BY <3>5, <3>6
  <2>2. CASE u # t
    <3>1. /\ recent'[u] = recent[u]
          /\ count'[u] = count[u]
          /\ expires'[u] = expires[u]
      BY <2>2, <1>0, <1>4 DEF Live
    <3>2. Live(u)
      BY <1>0, <3>1 DEF Live
    <3> QED
      BY <3>1, <3>2 DEF Chained
  <2> QED
    BY <2>1, <2>2
<1> QED
  BY <1>6, <1>7, <1>8, <1>9, <1>10, <1>12

LEMMA RefuseIInv == ASSUME IInv, NEW t \in Tokens, Refuse(t) PROVE IInv'
<1> USE DEF IInv
<1>1. TypeOK'
  BY DEF TypeOK, Refuse, Used
<1>2. Bounded' /\ Past'
  BY DEF Bounded, Past, Refuse
<1>3. Lasting' /\ Chained'
  BY DEF Lasting, Chained, Live, Refuse
<1>4. Counted'
  BY DEF Counted, Get, Live, Refuse
<1> QED
  BY <1>1, <1>2, <1>3, <1>4

LEMMA RestartIInv == IInv /\ Restart => IInv'
  BY RateAssumption DEF IInv, Restart, TypeOK, Bounded, Lasting, Chained, Counted, Past, Live, Get

\* The invariant that ties the counters to the uses on record.
THEOREM Invariance == Spec => []IInv
<1>1. IInv /\ [Next]_vars => IInv'
  <2> SUFFICES ASSUME IInv, [Next]_vars PROVE IInv'
    OBVIOUS
  <2>1. CASE Tick
    BY <2>1, TickIInv
  <2>2. CASE Restart
    BY <2>2, RestartIInv
  <2>3. ASSUME NEW t \in Tokens, Allow(t) PROVE IInv'
    BY <2>3, AllowIInv
  <2>4. ASSUME NEW t \in Tokens, Refuse(t) PROVE IInv'
    BY <2>4, RefuseIInv
  <2>5. CASE UNCHANGED vars
    BY <2>5 DEF vars, IInv, TypeOK, Bounded, Lasting, Chained, Counted, Past, Live, Get
  <2> QED
    BY <2>1, <2>2, <2>3, <2>4, <2>5 DEF Next
<1> QED
  BY InitIInv, <1>1, PTL DEF Spec

\* The counters, the times and the records keep their types: in particular no
\* counter passes the limit.
THEOREM TypeCorrect == Spec => []TypeOK
<1>1. IInv => TypeOK
  BY DEF IInv
<1> QED
  BY <1>1, Invariance, PTL

\* _enforce_token_limit lets at most Limit uses of a token through in any
\* Window, as long as its counter is not evicted.
THEOREM RateIsKept == Spec => []RateKept
<1>1. IInv => RateKept
  <2> SUFFICES ASSUME IInv, NEW t \in Tokens, BelowLimit(t), Len(recent[t]) = Limit
               PROVE  ~Within(t, 1)
    BY DEF RateKept
  <2>1. recent[t] \in Seq(Nat) /\ clock \in Nat /\ count[t] \in Nat
    BY DEF IInv, TypeOK
  <2>2. 1 \in DOMAIN recent[t] /\ 1 <= Len(recent[t]) - Get(t)
    BY <2>1, RateAssumption DEF BelowLimit, Get
  <2>3. recent[t][1] + Window <= clock
    BY <2>2 DEF IInv, Counted
  <2> QED
    BY <2>1, <2>2, <2>3, RateAssumption DEF Within
<1> QED
  BY <1>1, Invariance, PTL

\* _enforce_token_limit refuses only a token that was let through Limit times
\* without resting for a Window, and has not rested since.
THEOREM RefusalsJustified == Spec => []RefusalJustified
<1>1. IInv => RefusalJustified
  <2> SUFFICES ASSUME IInv, NEW t \in Tokens, ~BelowLimit(t)
               PROVE  /\ Len(recent[t]) = Limit
                      /\ Within(t, Limit)
                      /\ \A i \in 1..(Limit - 1) : recent[t][i + 1] < recent[t][i] + Window
    BY DEF RefusalJustified
  <2>1. /\ recent[t] \in Seq(Nat) /\ clock \in Nat
        /\ count[t] \in 0..Limit /\ Len(recent[t]) <= Limit
    BY DEF IInv, TypeOK, Bounded
  <2>2. Live(t) /\ count[t] = Limit
    BY <2>1, RateAssumption DEF BelowLimit, Get
  <2>3. Len(recent[t]) = Limit
    BY <2>1, <2>2, RateAssumption DEF IInv, Lasting
  <2>4. clock < recent[t][Limit] + Window
    BY <2>2, <2>3 DEF IInv, Lasting, Live
  <2>5. \A i \in 1..(Limit - 1) : recent[t][i + 1] < recent[t][i] + Window
    BY <2>2, <2>3, RateAssumption DEF IInv, Chained
  <2> QED
    BY <2>3, <2>4, <2>5 DEF Within
<1> QED
  BY <1>1, Invariance, PTL

\* The cache evicts a live counter only after CacheSize other tokens were used.
THEOREM EvictionNeedsPressure == Spec => EvictedUnderPressure
<1> DEFINE Kept == \A t \in Tokens :
              Live(t) /\ count'[t] = 0 => Cardinality(since'[t]) >= CacheSize \/ Restart
<1>1. IInv /\ IInv' /\ [Next]_vars => [Kept]_vars
  <2> SUFFICES ASSUME IInv, IInv', Next, NEW v \in Tokens, Live(v), count'[v] = 0, ~Restart
               PROVE  Cardinality(since'[v]) >= CacheSize
    BY DEF Kept
  <2>1. ~Tick /\ \A t \in Tokens : ~Refuse(t)
    BY DEF Tick, Refuse, Live
  <2>2. PICK t \in Tokens : Allow(t)
    BY <2>1 DEF Next
  <2>3. v # t
    <3>1. count'[t] = Get(t) + 1 /\ Get(t) \in Nat
      BY <2>2 DEF Allow, IInv, TypeOK, Get
    <3> QED
      BY <3>1
  <2>4. v \in Victims(t)
    BY <2>2, <2>3 DEF Allow, Live, IInv, TypeOK
  <2>5. /\ ~Live(t)
        /\ ~(Cardinality(Counters) < CacheSize)
        /\ v \in Counters
        /\ Counters \ {v} \subseteq since[v]
    BY <2>4 DEF Victims, Oldest
  <2>6. t \notin Counters /\ IsFiniteSet(Counters)
    BY <2>5, FS_Subset, TokensAssumption DEF Counters
  <2> DEFINE Later == (Counters \ {v}) \cup {t}
  <2>7. IsFiniteSet(Later) /\ Cardinality(Later) = Cardinality(Counters)
    <3>1. /\ IsFiniteSet(Counters \ {v})
          /\ Cardinality(Counters \ {v}) = Cardinality(Counters) - 1
      BY <2>5, <2>6, FS_RemoveElement
    <3>2. /\ IsFiniteSet(Later)
          /\ Cardinality(Later) = Cardinality(Counters \ {v}) + 1
      BY <2>6, <3>1, FS_AddElement
    <3>3. Cardinality(Counters) \in Nat
      BY <2>6, FS_CardinalityType
    <3> QED
      BY <3>1, <3>2, <3>3
  <2>8. since'[v] = since[v] \cup {t} /\ since'[v] \subseteq Tokens
    BY <2>2, <2>3 DEF Allow, Used, IInv, TypeOK
  <2>9. IsFiniteSet(since'[v]) /\ Cardinality(Later) <= Cardinality(since'[v])
    <3>1. IsFiniteSet(since'[v])
      BY <2>8, FS_Subset, TokensAssumption
    <3>2. Later \subseteq since'[v]
      BY <2>5, <2>8
    <3> QED
      BY <3>1, <3>2, FS_Subset
  <2> QED
    <3>1. Cardinality(Counters) \in Nat /\ Cardinality(since'[v]) \in Nat
      BY <2>6, <2>9, FS_CardinalityType
    <3> QED
      BY <3>1, <2>5, <2>7, <2>9, RateAssumption
<1> QED
  BY <1>1, Invariance, PTL DEF Spec, EvictedUnderPressure
=============================================================================
