---------------------------- MODULE ExecutionProofs ----------------------------
(***************************************************************************)
(* Proofs about SessionPool and about OrderExecution, which runs on it,    *)
(* for every set of tasks and keys and every maxsize.                      *)
(***************************************************************************)
EXTENDS OrderExecution, MCSessionPool, FiniteSetTheorems, TLAPS

-----------------------------------------------------------------------------
(* The pool.  Its properties are not inductive: that a client just created *)
(* is nobody else's, and that a task which holds a client asked for        *)
(* credentials, needs Life.                                                *)

Life ==
    /\ \A t \in Tasks : pc[t] = "using" <=> Holding(t)
    /\ \A t \in Tasks : Holding(t) => wanted[t] \in Keys
    /\ \A t \in Tasks : pc[t] = "start" => poolKey[t] = None
    /\ \A c \in open : poolKey[c] # None

IInv == TypeOK /\ OneOwner /\ NoLeak /\ KeyMatch /\ Bounded /\ Life

-----------------------------------------------------------------------------
(* Queues without repetition                                               *)

LEMMA RangeType ==
    ASSUME NEW S, NEW s \in Seq(S)
    PROVE  Range(s) \in SUBSET S
  BY DEF Range

LEMMA HeadTail ==
    ASSUME NEW S, NEW s \in Seq(S), s # <<>>, IsInjective(s)
    PROVE  /\ Len(s) \in Nat \ {0}
           /\ Head(s) \in Range(s)
           /\ Tail(s) \in Seq(S)
           /\ Len(Tail(s)) = Len(s) - 1
           /\ IsInjective(Tail(s))
           /\ Range(Tail(s)) = Range(s) \ {Head(s)}
<1>1. /\ Len(s) \in Nat \ {0}
      /\ DOMAIN s = 1..Len(s)
      /\ Head(s) = s[1]
      /\ Tail(s) \in Seq(S)
      /\ Len(Tail(s)) = Len(s) - 1
      /\ DOMAIN Tail(s) = 1..(Len(s) - 1)
      /\ \A i \in 1..(Len(s) - 1) : Tail(s)[i] = s[i + 1]
  OBVIOUS
<1>2. \A i, j \in 1..Len(s) : s[i] = s[j] => i = j
  BY <1>1 DEF IsInjective
<1>3. \A i, j \in 1..(Len(s) - 1) : Tail(s)[i] = Tail(s)[j] => i = j
  BY <1>1, <1>2
<1>4. Range(Tail(s)) \subseteq Range(s) \ {Head(s)}
  <2> SUFFICES ASSUME NEW i \in 1..(Len(s) - 1)
               PROVE  Tail(s)[i] \in Range(s) \ {Head(s)}
    BY <1>1 DEF Range
  <2>1. i + 1 \in 1..Len(s) /\ 1 \in 1..Len(s) /\ i + 1 # 1
    BY <1>1
  <2> QED BY <2>1, <1>1, <1>2 DEF Range
<1>5. Range(s) \ {Head(s)} \subseteq Range(Tail(s))
  <2> SUFFICES ASSUME NEW i \in 1..Len(s), s[i] # Head(s)
               PROVE  s[i] \in Range(Tail(s))
    BY <1>1 DEF Range
  <2>1. i - 1 \in 1..(Len(s) - 1) /\ (i - 1) + 1 = i
    BY <1>1
  <2> QED BY <2>1, <1>1 DEF Range
<1> QED BY <1>1, <1>3, <1>4, <1>5 DEF IsInjective, Range

LEMMA AppendNew ==
    ASSUME NEW S, NEW s \in Seq(S), NEW e \in S, IsInjective(s), e \notin Range(s)
    PROVE  /\ Len(s) \in Nat
           /\ Append(s, e) \in Seq(S)
           /\ Len(Append(s, e)) = Len(s) + 1
           /\ IsInjective(Append(s, e))
           /\ Range(Append(s, e)) = Range(s) \cup {e}
<1> DEFINE a == Append(s, e)
<1>1. /\ Len(s) \in Nat
      /\ DOMAIN s = 1..Len(s)
      /\ a \in Seq(S)
      /\ Len(a) = Len(s) + 1
      /\ DOMAIN a = 1..(Len(s) + 1)
      /\ \A i \in 1..Len(s) : a[i] = s[i]
      /\ a[Len(s) + 1] = e
  OBVIOUS
<1>2. \A i \in 1..Len(s) : s[i] # e
  BY <1>1 DEF Range
<1>3. \A i, j \in 1..(Len(s) + 1) : a[i] = a[j] => i = j
  BY <1>1, <1>2 DEF IsInjective
<1>4. Range(a) = Range(s) \cup {e}
  <2> HIDE DEF a
  <2>1. \A x : x \in Range(a) <=> \E i \in 1..(Len(s) + 1) : x = a[i]
    BY <1>1 DEF Range
  <2>2. \A x : x \in Range(s) <=> \E i \in 1..Len(s) : x = s[i]
    BY <1>1 DEF Range
  <2>3. \A i \in 1..(Len(s) + 1) : i \in 1..Len(s) \/ i = Len(s) + 1
    BY <1>1
  <2>4. \A i \in 1..Len(s) : i \in 1..(Len(s) + 1)
    BY <1>1
  <2>5. Len(s) + 1 \in 1..(Len(s) + 1)
    BY <1>1
  <2> QED BY <1>1, <2>1, <2>2, <2>3, <2>4, <2>5
<1> QED BY <1>1, <1>3, <1>4 DEF IsInjective

-----------------------------------------------------------------------------
LEMMA InitIInv == Init => IInv
  BY MaxSizeAssumption, NoneAssumption
     DEF Init, IInv, TypeOK, OneOwner, NoLeak, KeyMatch, Bounded, Life,
         Queued, Holding, Range, IsInjective

\* A queued client leaves the head of its queue for one task's hands.
LEMMA AcquirePooledStep ==
    ASSUME IInv, NEW t \in Tasks, NEW k \in Keys, AcquirePooled(t, k)
    PROVE  IInv'
<1> DEFINE c == Head(pools[k])
<1> USE NoneAssumption
<1>1. /\ held' = [held EXCEPT ![t] = c]
      /\ pools' = [pools EXCEPT ![k] = Tail(pools[k])]
      /\ wanted' = [wanted EXCEPT ![t] = k]
      /\ pc' = [pc EXCEPT ![t] = "using"]
      /\ poolKey' = poolKey
      /\ open' = open
      /\ pools[k] # <<>>
  BY DEF AcquirePooled
<1>2. \A l \in Keys : pools[l] \in Seq(Tasks) /\ IsInjective(pools[l])
  BY DEF IInv, TypeOK, OneOwner
<1>3. /\ Len(pools[k]) \in Nat \ {0}
      /\ c \in Queued(k)
      /\ Tail(pools[k]) \in Seq(Tasks)
      /\ Len(Tail(pools[k])) = Len(pools[k]) - 1
      /\ IsInjective(Tail(pools[k]))
      /\ Range(Tail(pools[k])) = Queued(k) \ {c}
  BY <1>1, <1>2, HeadTail DEF Queued
<1>4. c \in Tasks /\ c # None
  BY <1>2, <1>3, RangeType DEF Queued
<1> HIDE DEF c
<1>5. \A l \in Keys : Queued(l)' = Queued(l) \ {c}
  BY <1>1, <1>3 DEF Queued, IInv, TypeOK, OneOwner
<1>6. c \in open /\ poolKey[c] = k /\ \A u \in Tasks : held[u] # c
  BY <1>3, <1>4 DEF IInv, OneOwner, NoLeak, KeyMatch
<1>7. held[t] = None
  BY DEF IInv, Life, AcquirePooled, Holding
<1>8. TypeOK'
  BY <1>1, <1>3, <1>4 DEF IInv, TypeOK
<1>9. OneOwner'
  <2>1. \A u, v \in Tasks : held'[u] # None /\ held'[u] = held'[v] => u = v
    BY <1>1, <1>6 DEF IInv, TypeOK, OneOwner, Holding
  <2>2. \A u \in Tasks, l \in Keys : held'[u] \notin Queued(l)'
    BY <1>1, <1>5 DEF IInv, TypeOK, OneOwner
  <2>3. \A l \in Keys : IsInjective(pools'[l])
    BY <1>1, <1>2, <1>3 DEF IInv, TypeOK
  <2>4. \A l, m \in Keys : l # m => Queued(l)' \cap Queued(m)' = {}
    BY <1>5 DEF IInv, OneOwner
  <2> QED BY <2>1, <2>2, <2>3, <2>4 DEF OneOwner, Holding
<1>10. NoLeak'
  BY <1>1, <1>4, <1>5, <1>6, <1>7 DEF IInv, TypeOK, NoLeak
<1>11. KeyMatch'
  BY <1>1, <1>5, <1>6 DEF IInv, TypeOK, KeyMatch, Holding
<1>12. Bounded'
  BY <1>1, <1>3, MaxSizeAssumption DEF IInv, TypeOK, Bounded
<1>13. Life'
  BY <1>1, <1>4 DEF IInv, TypeOK, Life, Holding
<1> QED BY <1>8, <1>9, <1>10, <1>11, <1>12, <1>13 DEF IInv

\* The client is the creating task's own, and nobody has seen it before.
LEMMA AcquireFreshStep ==
    ASSUME IInv, NEW t \in Tasks, NEW k \in Keys, AcquireFresh(t, k)
    PROVE  IInv'
<1> USE NoneAssumption
<1>1. /\ held' = [held EXCEPT ![t] = t]
      /\ poolKey' = [poolKey EXCEPT ![t] = k]
      /\ wanted' = [wanted EXCEPT ![t] = k]
      /\ pc' = [pc EXCEPT ![t] = "using"]
      /\ open' = open \cup {t}
      /\ pools' = pools
  BY DEF AcquireFresh
<1>2. t # None /\ t \notin open /\ held[t] = None
  BY DEF IInv, Life, Holding, AcquireFresh
<1>3. (\A u \in Tasks : held[u] # t) /\ (\A l \in Keys : t \notin Queued(l))
  BY <1>2 DEF IInv, NoLeak
<1>4. \A l \in Keys : Queued(l)' = Queued(l) /\ Queued(l) \in SUBSET Tasks
  BY <1>1, RangeType DEF Queued, IInv, TypeOK
<1>5. TypeOK'
  BY <1>1 DEF IInv, TypeOK
<1>6. OneOwner'
  BY <1>1, <1>3, <1>4 DEF IInv, TypeOK, OneOwner, Holding
<1>7. NoLeak'
  BY <1>1, <1>2, <1>4 DEF IInv, TypeOK, NoLeak
<1>8. KeyMatch'
  <2>1. \A u \in Tasks : held'[u] # None => poolKey'[held'[u]] = wanted'[u]
    BY <1>1, <1>3 DEF IInv, TypeOK, KeyMatch, Holding
  <2>2. \A l \in Keys : \A c \in Queued(l)' : poolKey'[c] = l
    BY <1>1, <1>3, <1>4 DEF IInv, TypeOK, KeyMatch
  <2> QED BY <2>1, <2>2 DEF KeyMatch, Holding
<1>9. Bounded'
  BY <1>1 DEF IInv, Bounded
<1>10. Life'
  BY <1>1, <1>2 DEF IInv, TypeOK, Life, Holding
<1> QED BY <1>5, <1>6, <1>7, <1>8, <1>9, <1>10 DEF IInv

\* A step of a task that holds nothing and moves no client.
LEMMA QuietStep ==
    ASSUME IInv, NEW t \in Tasks, held[t] = None,
           UNCHANGED <<pools, poolKey, open, held>>,
           \A u \in Tasks : u # t => wanted'[u] = wanted[u],
           TypeOK', Life'
    PROVE  IInv'
<1>1. \A l \in Keys : Queued(l)' = Queued(l)
  BY DEF Queued
<1>2. OneOwner'
  BY <1>1 DEF IInv, OneOwner, Holding
<1>3. NoLeak'
  BY <1>1 DEF IInv, NoLeak
<1>4. KeyMatch'
  BY <1>1 DEF IInv, KeyMatch, Holding
<1>5. Bounded'
  BY DEF IInv, Bounded
<1> QED BY <1>2, <1>3, <1>4, <1>5 DEF IInv

LEMMA AcquireFailsStep ==
    ASSUME IInv, NEW t \in Tasks, NEW k \in Keys, AcquireFails(t, k)
    PROVE  IInv'
<1>1. held[t] = None
  BY DEF IInv, Life, Holding, AcquireFails
<1>2. TypeOK' /\ Life'
  BY <1>1 DEF IInv, TypeOK, Life, Holding, AcquireFails
<1>3. \A u \in Tasks : u # t => wanted'[u] = wanted[u]
  BY DEF IInv, TypeOK, AcquireFails
<1> QED BY <1>1, <1>2, <1>3, QuietStep DEF AcquireFails

\* What a task about to release knows of its client.
LEMMA HolderFacts ==
    ASSUME IInv, NEW t \in Tasks, pc[t] = "using"
    PROVE  /\ held[t] \in Tasks
           /\ held[t] # None
           /\ held[t] \in open
           /\ poolKey[held[t]] = wanted[t]
           /\ wanted[t] \in Keys
           /\ \A k \in Keys : held[t] \notin Queued(k)
           /\ \A u \in Tasks : u # t => held[u] # held[t]
  BY NoneAssumption DEF IInv, TypeOK, OneOwner, NoLeak, KeyMatch, Life, Holding

LEMMA ReleaseToPoolStep ==
    ASSUME IInv, NEW t \in Tasks, ReleaseToPool(t)
    PROVE  IInv'
<1> DEFINE c == held[t]
           k == wanted[t]
<1> USE NoneAssumption
<1>1. /\ c \in Tasks /\ c # None /\ c \in open /\ poolKey[c] = k /\ k \in Keys
      /\ \A l \in Keys : c \notin Queued(l)
      /\ \A u \in Tasks : u # t => held[u] # c
  BY HolderFacts DEF ReleaseToPool
<1>2. /\ held' = [held EXCEPT ![t] = None]
      /\ pools' = [pools EXCEPT ![k] = Append(pools[k], c)]
      /\ pc' = [pc EXCEPT ![t] = "done"]
      /\ UNCHANGED <<poolKey, open, wanted>>
      /\ Len(pools[k]) < MaxSize
  BY <1>1 DEF ReleaseToPool, HasRoom
<1> HIDE DEF c, k
<1>3. \A l \in Keys : pools[l] \in Seq(Tasks) /\ IsInjective(pools[l])
  BY DEF IInv, TypeOK, OneOwner
<1>4. /\ Len(pools[k]) \in Nat
      /\ Append(pools[k], c) \in Seq(Tasks)
      /\ Len(Append(pools[k], c)) = Len(pools[k]) + 1
      /\ IsInjective(Append(pools[k], c))
      /\ Range(Append(pools[k], c)) = Queued(k) \cup {c}
  BY <1>1, <1>3, AppendNew DEF Queued
<1>5. \A l \in Keys : Queued(l)' = IF l = k THEN Queued(k) \cup {c} ELSE Queued(l)
  BY <1>1, <1>2, <1>4 DEF Queued, IInv, TypeOK
<1>6. TypeOK'
  BY <1>1, <1>2, <1>4 DEF IInv, TypeOK
<1>7. OneOwner'
  <2>1. \A u, v \in Tasks : held'[u] # None /\ held'[u] = held'[v] => u = v
    BY <1>2 DEF IInv, TypeOK, OneOwner, Holding
  <2>2. \A u \in Tasks, l \in Keys : held'[u] \notin Queued(l)'
    <3>1. \A l \in Keys : None \notin Queued(l)
      BY <1>3, RangeType DEF Queued
    <3> QED BY <3>1, <1>1, <1>2, <1>5 DEF IInv, TypeOK, OneOwner
  <2>3. \A l \in Keys : IsInjective(pools'[l])
    BY <1>1, <1>2, <1>3, <1>4 DEF IInv, TypeOK
  <2>4. \A l, m \in Keys : l # m => Queued(l)' \cap Queued(m)' = {}
    BY <1>1, <1>5 DEF IInv, OneOwner
  <2> QED BY <2>1, <2>2, <2>3, <2>4 DEF OneOwner, Holding
<1>8. NoLeak'
  <2> SUFFICES ASSUME NEW d \in Tasks
               PROVE  d \in open <=> \/ \E u \in Tasks : held'[u] = d
                                     \/ \E l \in Keys : d \in Queued(l)'
    BY <1>2 DEF NoLeak
  <2>1. CASE d = c
    BY <2>1, <1>1, <1>5
  <2>2. CASE d # c
    <3>1. (\E u \in Tasks : held'[u] = d) <=> (\E u \in Tasks : held[u] = d)
      BY <2>2, <1>2 DEF IInv, TypeOK, c
    <3>2. (\E l \in Keys : d \in Queued(l)') <=> (\E l \in Keys : d \in Queued(l))
      BY <2>2, <1>5
    <3> QED BY <3>1, <3>2 DEF IInv, NoLeak
  <2> QED BY <2>1, <2>2
<1>9. KeyMatch'
  <2>1. \A u \in Tasks : held'[u] # None => poolKey'[held'[u]] = wanted'[u]
    BY <1>2 DEF IInv, TypeOK, KeyMatch, Holding
  <2>2. \A l \in Keys : \A d \in Queued(l)' : poolKey'[d] = l
    BY <1>1, <1>2, <1>5 DEF IInv, KeyMatch
  <2> QED BY <2>1, <2>2 DEF KeyMatch, Holding
<1>10. Bounded'
  BY <1>1, <1>2, <1>4, MaxSizeAssumption DEF IInv, TypeOK, Bounded
<1>11. Life'
  BY <1>1, <1>2 DEF IInv, TypeOK, Life, Holding
<1> QED BY <1>6, <1>7, <1>8, <1>9, <1>10, <1>11 DEF IInv

LEMMA ReleaseFullStep ==
    ASSUME IInv, NEW t \in Tasks, ReleaseFull(t)
    PROVE  IInv'
<1> USE NoneAssumption
<1>1. /\ held[t] # None
      /\ \A l \in Keys : held[t] \notin Queued(l)
      /\ \A u \in Tasks : u # t => held[u] # held[t]
  BY HolderFacts DEF ReleaseFull
<1>2. /\ held' = [held EXCEPT ![t] = None]
      /\ open' = open \ {held[t]}
      /\ pc' = [pc EXCEPT ![t] = "closing"]
      /\ UNCHANGED <<pools, poolKey, wanted>>
  BY DEF ReleaseFull
<1>3. \A l \in Keys : Queued(l)' = Queued(l) /\ Queued(l) \in SUBSET Tasks
  BY <1>2, RangeType DEF Queued, IInv, TypeOK
<1>4. TypeOK' /\ Bounded' /\ Life'
  BY <1>2 DEF IInv, TypeOK, Bounded, Life, Holding
<1>5. OneOwner'
  BY <1>2, <1>3 DEF IInv, TypeOK, OneOwner, Holding
<1>6. NoLeak'
  BY <1>1, <1>2, <1>3 DEF IInv, TypeOK, NoLeak
<1>7. KeyMatch'
  BY <1>2, <1>3 DEF IInv, TypeOK, KeyMatch, Holding
<1> QED BY <1>4, <1>5, <1>6, <1>7 DEF IInv

LEMMA CloseStep ==
    ASSUME IInv, NEW t \in Tasks, CloseReturns(t) \/ CloseRaises(t)
    PROVE  IInv'
<1>1. held[t] = None
  BY DEF IInv, Life, Holding, CloseReturns, CloseRaises
<1>2. TypeOK' /\ Life'
  BY <1>1 DEF IInv, TypeOK, Life, Holding, CloseReturns, CloseRaises
<1> QED BY <1>1, <1>2, QuietStep DEF CloseReturns, CloseRaises

LEMMA StutterStep == IInv /\ UNCHANGED vars => IInv'
  BY DEF IInv, vars, TypeOK, OneOwner, NoLeak, KeyMatch, Bounded, Life, Holding, Queued

LEMMA NextIInv == IInv /\ [Next]_vars => IInv'
<1> SUFFICES ASSUME IInv, [Next]_vars PROVE IInv'
  OBVIOUS
<1>1. ASSUME NEW t \in Tasks, NEW k \in Keys, Acquire(t, k) PROVE IInv'
  BY <1>1, AcquirePooledStep, AcquireFreshStep, AcquireFailsStep DEF Acquire
<1>2. ASSUME NEW t \in Tasks, Release(t) PROVE IInv'
  BY <1>2, ReleaseToPoolStep, ReleaseFullStep DEF Release
<1>3. ASSUME NEW t \in Tasks, CloseReturns(t) \/ CloseRaises(t) PROVE IInv'
  BY <1>3, CloseStep
<1>4. CASE Finished \/ UNCHANGED vars
  BY <1>4, StutterStep DEF Finished
<1> QED BY <1>1, <1>2, <1>3, <1>4 DEF Next

\* The properties of the pool and Life support each other.
THEOREM Invariance == Spec => []IInv
  BY InitIInv, NextIInv, PTL DEF Spec

-----------------------------------------------------------------------------
\* The variables of the pool keep their types.
THEOREM TypeCorrect == Spec => []TypeOK
<1>1. IInv => TypeOK
  BY DEF IInv
<1> QED BY <1>1, Invariance, PTL

\* No two tasks ever share a client, and a lent client is not in a queue,
\* however acquire and release interleave.
THEOREM ExclusiveOwnership == Spec => []OneOwner
<1>1. IInv => OneOwner
  BY DEF IInv
<1> QED BY <1>1, Invariance, PTL

\* acquire and release neither forget an open client nor lend a closed one.
THEOREM NothingLeaks == Spec => []NoLeak
<1>1. IInv => NoLeak
  BY DEF IInv
<1> QED BY <1>1, Invariance, PTL

\* The client a task holds was created with the credentials it asked for.
THEOREM RightCredentials == Spec => []KeyMatch
<1>1. IInv => KeyMatch
  BY DEF IInv
<1> QED BY <1>1, Invariance, PTL

\* No queue outgrows maxsize.
THEOREM QueuesBounded == Spec => []Bounded
<1>1. IInv => Bounded
  BY DEF IInv
<1> QED BY <1>1, Invariance, PTL

-----------------------------------------------------------------------------
(* The refinement                                                          *)

LEMMA QueueCardinality ==
    ASSUME NEW S, NEW s \in Seq(S), IsInjective(s)
    PROVE  Cardinality(Range(s)) = Len(s)
<1>1. Len(s) \in Nat /\ DOMAIN s = 1..Len(s)
  OBVIOUS
<1>2. s \in [1..Len(s) -> Range(s)]
  BY <1>1 DEF Range
<1>3. \A c \in Range(s) : \E i \in 1..Len(s) : s[i] = c
  BY <1>1 DEF Range
<1>4. s \in Bijection(1..Len(s), Range(s))
  BY <1>2, <1>3 DEF Bijection, Injection, Surjection
<1>5. ExistsBijection(1..Len(s), Range(s))
  BY <1>4 DEF ExistsBijection
<1> QED BY <1>1, <1>5, FS_CountingElements

-----------------------------------------------------------------------------
(* The refinement mapping                                                  *)

owner == [c \in Tasks |-> Holder(c)]
idle == UNION {Queued(k) : k \in Keys}

\* The clients idle under k are those in its queue, so the guard on the length
\* of the queue is the guard on the number of idle clients.
LEMMA IdleIsQueued ==
    ASSUME IInv, NEW k \in Keys
    PROVE  /\ Ownership!IdleOf(k) = Queued(k)
           /\ Ownership!Cardinality(Ownership!IdleOf(k)) = Len(pools[k])
<1>1. Ownership!IdleOf(k) = Queued(k)
  BY DEF Ownership!IdleOf, IInv, KeyMatch
<1>2. Cardinality(Queued(k)) = Len(pools[k])
  BY QueueCardinality DEF Queued, IInv, TypeOK, OneOwner
<1>3. Ownership!Cardinality(Queued(k)) = Cardinality(Queued(k))
  BY DEF Ownership!Cardinality, Cardinality
<1> QED BY <1>1, <1>2, <1>3

\* A client has the task that holds it for an owner.
OwnerIsHolder ==
    \A c \in Tasks :
        /\ \A t \in Tasks : Holder(c) = t <=> held[t] = c
        /\ Holder(c) = None <=> \A t \in Tasks : held[t] # c
        /\ Holder(c) \in Tasks \cup {None}

LEMMA HolderCorrect == IInv => OwnerIsHolder
<1> SUFFICES ASSUME IInv, NEW c \in Tasks
             PROVE  /\ \A t \in Tasks : Holder(c) = t <=> held[t] = c
                    /\ Holder(c) = None <=> \A t \in Tasks : held[t] # c
                    /\ Holder(c) \in Tasks \cup {None}
  BY DEF OwnerIsHolder
<1>1. \A t, u \in Tasks : held[t] = c /\ held[u] = c => t = u
  BY NoneAssumption DEF IInv, OneOwner, Holding
<1>2. CASE \E t \in Tasks : held[t] = c
  <2>1. Holder(c) \in Tasks /\ held[Holder(c)] = c
    BY <1>2 DEF Holder
  <2> QED BY <1>1, <2>1, NoneAssumption
<1>3. CASE ~\E t \in Tasks : held[t] = c
  BY <1>3, NoneAssumption DEF Holder
<1> QED BY <1>2, <1>3

\* What a step does to the owners, read off what it does to `held'.
LEMMA OwnerStep ==
    ASSUME IInv, IInv', NEW c \in Tasks, NEW o \in Tasks \cup {None},
           o = None => \A u \in Tasks : held'[u] # c,
           o # None => held'[o] = c,
           \A u \in Tasks, d \in Tasks : d # c => (held'[u] = d <=> held[u] = d)
    PROVE  owner' = [owner EXCEPT ![c] = o]
<1>1. OwnerIsHolder /\ OwnerIsHolder'
  BY HolderCorrect, PTL
<1>2. Holder(c)' = o
  BY <1>1 DEF OwnerIsHolder
<1>3. ASSUME NEW d \in Tasks, d # c PROVE Holder(d)' = Holder(d)
  <2>1. CASE Holder(d) = None
    BY <1>1, <1>3, <2>1 DEF OwnerIsHolder
  <2>2. CASE Holder(d) # None
    BY <1>1, <1>3, <2>2 DEF OwnerIsHolder
  <2> QED BY <2>1, <2>2
<1> QED BY <1>2, <1>3 DEF owner

LEMMA InitRefines == Init => Ownership!Init
  BY NoneAssumption DEF Init, Ownership!Init, Holder, Queued, Range

LEMMA AcquirePooledRefines ==
    ASSUME IInv, IInv', NEW t \in Tasks, NEW k \in Keys, AcquirePooled(t, k)
    PROVE  Ownership!Next
<1> DEFINE c == Head(pools[k])
<1> USE NoneAssumption
<1>1. /\ held' = [held EXCEPT ![t] = c]
      /\ pools' = [pools EXCEPT ![k] = Tail(pools[k])]
      /\ poolKey' = poolKey
      /\ pools[k] # <<>>
  BY DEF AcquirePooled
<1>2. /\ c \in Queued(k)
      /\ Range(Tail(pools[k])) = Queued(k) \ {c}
  BY <1>1, HeadTail DEF Queued, IInv, TypeOK, OneOwner
<1>3. c \in Tasks
  BY <1>2, RangeType DEF Queued, IInv, TypeOK
<1> HIDE DEF c
<1>4. held[t] = None
  BY DEF AcquirePooled, IInv, Life, Holding
<1>5. \A l \in Keys : Queued(l)' = Queued(l) \ {c}
  BY <1>1, <1>2 DEF Queued, IInv, TypeOK, OneOwner
<1>6. c \in idle /\ idle' = idle \ {c}
  BY <1>2, <1>5 DEF idle
<1>7. owner' = [owner EXCEPT ![c] = t]
  <2>1. \A u \in Tasks, d \in Tasks : d # c => (held'[u] = d <=> held[u] = d)
    BY <1>1, <1>4 DEF IInv, TypeOK
  <2>2. held'[t] = c
    BY <1>1 DEF IInv, TypeOK
  <2> QED BY <1>3, <2>1, <2>2, OwnerStep
<1>8. \A d \in Tasks : owner[d] # t
  BY <1>4, HolderCorrect DEF owner, OwnerIsHolder
<1>9. Ownership!LendIdle(t, c)
  BY <1>1, <1>6, <1>7 DEF Ownership!LendIdle, owner, idle
<1> QED BY <1>3, <1>8, <1>9 DEF Ownership!Next, owner

LEMMA AcquireFreshRefines ==
    ASSUME IInv, IInv', NEW t \in Tasks, NEW k \in Keys, AcquireFresh(t, k)
    PROVE  Ownership!Next
<1> USE NoneAssumption
<1>1. /\ held' = [held EXCEPT ![t] = t]
      /\ poolKey' = [poolKey EXCEPT ![t] = k]
      /\ pools' = pools
      /\ pools[k] = <<>>
  BY DEF AcquireFresh
<1>2. held[t] = None /\ poolKey[t] = None
  BY DEF AcquireFresh, IInv, Life, Holding
<1>3. idle' = idle
  BY <1>1 DEF idle, Queued
<1>4. owner' = [owner EXCEPT ![t] = t]
  <2>1. held \in [Tasks -> Tasks \cup {None}] /\ t \in Tasks /\ t # None
    BY DEF IInv, TypeOK
  <2>2. held'[t] = t
    BY <1>1, <2>1
  <2>3. \A u \in Tasks, d \in Tasks : d # t => (held'[u] = d <=> held[u] = d)
    BY <1>1, <1>2, <2>1
  <2> QED BY <2>1, <2>2, <2>3, OwnerStep
<1>5. \A d \in Tasks : owner[d] # t
  BY <1>2, HolderCorrect DEF owner, OwnerIsHolder
<1>6. Ownership!IdleOf(k) = {}
  BY <1>1, IdleIsQueued DEF Queued, Range
<1>7. Ownership!LendNew(t, t, k)
  BY <1>1, <1>2, <1>3, <1>4, <1>6 DEF Ownership!LendNew, owner, idle
<1> QED BY <1>5, <1>7 DEF Ownership!Next, owner

\* What a release does to the client's owner.
LEMMA ReleaseOwner ==
    ASSUME IInv, IInv', NEW t \in Tasks, pc[t] = "using",
           held' = [held EXCEPT ![t] = None]
    PROVE  /\ owner' = [owner EXCEPT ![held[t]] = None]
           /\ owner[held[t]] # None
<1>1. /\ held[t] \in Tasks
      /\ \A u \in Tasks : u # t => held[u] # held[t]
  BY HolderFacts
<1>2. owner[held[t]] # None
  BY <1>1, HolderCorrect, NoneAssumption DEF owner, OwnerIsHolder
<1>3. \A u \in Tasks, d \in Tasks : d # held[t] => (held'[u] = d <=> held[u] = d)
  BY NoneAssumption DEF IInv, TypeOK
<1>4. \A u \in Tasks : held'[u] # held[t]
  BY <1>1, NoneAssumption DEF IInv, TypeOK
<1> QED BY <1>1, <1>2, <1>3, <1>4, OwnerStep, NoneAssumption

LEMMA ReleaseToPoolRefines ==
    ASSUME IInv, IInv', NEW t \in Tasks, ReleaseToPool(t)
    PROVE  Ownership!Next
<1> DEFINE c == held[t]
           k == poolKey[c]
<1>1. /\ c \in Tasks /\ k \in Keys
      /\ \A l \in Keys : c \notin Queued(l)
  BY HolderFacts DEF ReleaseToPool
<1>2. /\ held' = [held EXCEPT ![t] = None]
      /\ pools' = [pools EXCEPT ![k] = Append(pools[k], c)]
      /\ poolKey' = poolKey
      /\ Len(pools[k]) < MaxSize
      /\ pc[t] = "using"
  BY DEF ReleaseToPool, HasRoom
<1> HIDE DEF k
<1>3. Range(Append(pools[k], c)) = Queued(k) \cup {c}
  BY <1>1, AppendNew DEF Queued, IInv, TypeOK, OneOwner
<1>4. \A l \in Keys : Queued(l)' = IF l = k THEN Queued(k) \cup {c} ELSE Queued(l)
  BY <1>1, <1>2, <1>3 DEF Queued, IInv, TypeOK
<1>5. idle' = idle \cup {c}
  BY <1>1, <1>4 DEF idle
<1>6. owner' = [owner EXCEPT ![c] = None] /\ owner[c] # None
  BY <1>2, ReleaseOwner
<1>7. Ownership!Cardinality(Ownership!IdleOf(k)) < MaxSize
  BY <1>1, <1>2, IdleIsQueued
<1>8. Ownership!Return(c)
  BY <1>2, <1>5, <1>6, <1>7 DEF Ownership!Return, owner, idle, k
<1> QED BY <1>1, <1>8 DEF Ownership!Next

LEMMA ReleaseFullRefines ==
    ASSUME IInv, IInv', NEW t \in Tasks, ReleaseFull(t)
    PROVE  Ownership!Next
<1> DEFINE c == held[t]
           k == poolKey[c]
<1>1. c \in Tasks /\ k \in Keys
  BY HolderFacts DEF ReleaseFull
<1>2. /\ held' = [held EXCEPT ![t] = None]
      /\ UNCHANGED <<pools, poolKey>>
      /\ ~(Len(pools[k]) < MaxSize)
      /\ pc[t] = "using"
  BY DEF ReleaseFull, HasRoom
<1> HIDE DEF k
<1>3. idle' = idle
  BY <1>2 DEF idle, Queued
<1>4. owner' = [owner EXCEPT ![c] = None] /\ owner[c] # None
  BY <1>2, ReleaseOwner
<1>5. Len(pools[k]) \in Nat
  BY <1>1 DEF IInv, TypeOK
<1>6. Ownership!Cardinality(Ownership!IdleOf(k)) >= MaxSize
  BY <1>1, <1>2, <1>5, IdleIsQueued, MaxSizeAssumption
<1>7. Ownership!Retire(c)
  BY <1>2, <1>3, <1>4, <1>6 DEF Ownership!Retire, owner, idle, k
<1> QED BY <1>1, <1>7 DEF Ownership!Next

-----------------------------------------------------------------------------
LEMMA NextRefines ==
    ASSUME IInv, IInv', [Next]_vars
    PROVE  [Ownership!Next]_<<poolKey, owner, idle>>
<1>1. ASSUME NEW t \in Tasks, NEW k \in Keys, Acquire(t, k)
      PROVE  [Ownership!Next]_<<poolKey, owner, idle>>
  <2>1. CASE AcquireFails(t, k)
    BY <2>1 DEF AcquireFails, owner, idle, Holder, Queued
  <2> QED BY <1>1, <2>1, AcquirePooledRefines, AcquireFreshRefines DEF Acquire
<1>2. ASSUME NEW t \in Tasks, Release(t)
      PROVE  [Ownership!Next]_<<poolKey, owner, idle>>
  BY <1>2, ReleaseToPoolRefines, ReleaseFullRefines DEF Release
<1>3. ASSUME NEW t \in Tasks, CloseReturns(t) \/ CloseRaises(t)
      PROVE  [Ownership!Next]_<<poolKey, owner, idle>>
  BY <1>3 DEF CloseReturns, CloseRaises, owner, idle, Holder, Queued
<1>4. CASE Finished \/ UNCHANGED vars
  BY <1>4 DEF Finished, vars, owner, idle, Holder, Queued
<1> QED BY <1>1, <1>2, <1>3, <1>4 DEF Next

\* Every behaviour of the pool is a behaviour of the ownership protocol.
THEOREM PoolImplementsOwnership == Spec => ImplementsOwnership
<1>1. [Next]_vars /\ IInv /\ IInv' => [Ownership!Next]_<<poolKey, owner, idle>>
  BY NextRefines
<1> QED BY <1>1, InitRefines, Invariance, PTL
        DEF Spec, ImplementsOwnership, Ownership!Spec, owner, idle

-----------------------------------------------------------------------------
(* The history of the pool.  As long as no more clients of a key were in   *)
(* use than its queue can keep, none of them has been closed (Kept): what  *)
(* was created is in use or in the queue.                                  *)

Created(k) == {c \in Tasks : poolKey[c] = k}
Lenders(k) == {t \in Tasks : Holding(t) /\ wanted[t] = k}

Peaks == \A k \in Keys : peak[k] \in Nat /\ Lent(k) <= peak[k]

Kept ==
    \A k \in Keys :
        peak[k] <= MaxSize =>
            Created(k) \subseteq open /\ Cardinality(Created(k)) <= peak[k]

MCIInv == IInv /\ peak \in [Keys -> Nat] /\ Peaks /\ Kept

LEMMA Finite ==
    ASSUME NEW S \in SUBSET Tasks
    PROVE  IsFiniteSet(S) /\ Cardinality(S) \in Nat
  BY TasksAssumption, FS_Subset, FS_CardinalityType

LEMMA MCInitIInv == MCInit => MCIInv
<1> SUFFICES ASSUME MCInit PROVE MCIInv
  OBVIOUS
<1>1. IInv /\ peak \in [Keys -> Nat]
  BY InitIInv DEF MCInit
<1>2. \A k \in Keys : Lenders(k) = {} /\ Created(k) = {}
  BY NoneAssumption DEF MCInit, Init, Lenders, Created, Holding
<1>3. Peaks
  BY <1>2, FS_EmptySet DEF MCInit, Peaks, Lent, Lenders
<1>4. Kept
  BY <1>2, FS_EmptySet DEF MCInit, Kept
<1> QED BY <1>1, <1>3, <1>4 DEF MCIInv

\* The peaks only grow, and bound the clients in use.
LEMMA PeaksStep ==
    ASSUME MCIInv, MCNext
    PROVE  /\ peak' \in [Keys -> Nat]
           /\ Peaks'
           /\ \A k \in Keys : peak[k] \in Nat /\ peak'[k] \in Nat /\ peak[k] <= peak'[k]
<1>1. peak' = [k \in Keys |-> Largest(peak[k], Lent(k)')]
  BY DEF MCNext
<1>2. ASSUME NEW k \in Keys
      PROVE  /\ peak[k] \in Nat /\ peak'[k] \in Nat
             /\ peak[k] <= peak'[k] /\ Lent(k)' <= peak'[k]
  <2>1. Lent(k)' \in Nat
    <3> DEFINE S == {t \in Tasks : Holding(t)' /\ wanted'[t] = k}
    <3>1. Cardinality(S) \in Nat
      BY Finite
    <3> QED BY <3>1 DEF Lent
  <2>2. peak[k] \in Nat /\ peak'[k] = Largest(peak[k], Lent(k)')
    BY <1>1, <1>2 DEF MCIInv
  <2> QED BY <2>1, <2>2 DEF Largest
<1> QED BY <1>1, <1>2 DEF Peaks

\* The clients of a key whose queue is empty are in use, and none has been
\* closed: there are no more of them than tasks that use one.
NoneIdle ==
    \A k \in Keys :
        pools[k] = <<>> /\ Created(k) \subseteq open => Cardinality(Created(k)) <= Lent(k)

LEMMA AllInUse == IInv => NoneIdle
<1> SUFFICES ASSUME IInv, NEW k \in Keys, pools[k] = <<>>, Created(k) \subseteq open
             PROVE  Cardinality(Created(k)) <= Lent(k)
  BY DEF NoneIdle
<1> DEFINE f == [t \in Lenders(k) |-> held[t]]
<1>1. f \in [Lenders(k) -> Created(k)]
  BY NoneAssumption DEF IInv, TypeOK, KeyMatch, Holding, Lenders, Created
<1>2. ASSUME NEW c \in Created(k) PROVE \E t \in Lenders(k) : f[t] = c
  <2>1. c \in Tasks /\ poolKey[c] = k /\ c \in open
    BY <1>2 DEF Created
  <2>2. \A l \in Keys : c \notin Queued(l)
    BY <2>1 DEF IInv, KeyMatch, Queued, Range
  <2>3. PICK t \in Tasks : held[t] = c
    BY <2>1, <2>2 DEF IInv, NoLeak
  <2>4. t \in Lenders(k)
    BY <2>1, <2>3, NoneAssumption DEF IInv, KeyMatch, Holding, Lenders
  <2> QED BY <2>3, <2>4
<1>3. f \in Surjection(Lenders(k), Created(k))
  BY <1>1, <1>2 DEF Surjection
<1>4. IsFiniteSet(Lenders(k))
  BY Finite DEF Lenders
<1> HIDE DEF f
<1>5. Cardinality(Created(k)) <= Cardinality(Lenders(k))
  BY <1>3, <1>4, FS_Surjection
<1> QED BY <1>5 DEF Lent, Lenders

LEMMA KeptStep ==
    ASSUME MCIInv, MCNext, IInv', Peaks',
           \A k \in Keys : peak[k] \in Nat /\ peak'[k] \in Nat /\ peak[k] <= peak'[k]
    PROVE  Kept'
<1> SUFFICES ASSUME NEW k \in Keys, peak'[k] <= MaxSize
             PROVE  Created(k)' \subseteq open' /\ Cardinality(Created(k)') <= peak'[k]
  BY DEF Kept
<1>0. /\ peak[k] \in Nat /\ peak'[k] \in Nat /\ peak[k] <= peak'[k]
      /\ peak[k] <= MaxSize /\ MaxSize \in Nat
  BY MaxSizeAssumption
<1>1. Created(k) \subseteq open /\ Cardinality(Created(k)) <= peak[k]
  BY <1>0 DEF MCIInv, Kept
<1>2. Cardinality(Created(k)) \in Nat
  BY Finite DEF Created
<1>3. ASSUME poolKey' = poolKey, open' = open
      PROVE  Created(k)' \subseteq open' /\ Cardinality(Created(k)') <= peak'[k]
  BY <1>0, <1>1, <1>2, <1>3 DEF Created
<1>4. ASSUME NEW t \in Tasks, NEW l \in Keys, AcquireFresh(t, l)
      PROVE  Created(k)' \subseteq open' /\ Cardinality(Created(k)') <= peak'[k]
  <2>1. poolKey' = [poolKey EXCEPT ![t] = l] /\ open' = open \cup {t} /\ pools' = pools
    BY <1>4 DEF AcquireFresh
  <2>2. poolKey[t] = None
    BY <1>4 DEF MCIInv, IInv, Life, AcquireFresh
  <2>3. CASE k = l
    <3>1. Created(k)' \subseteq open'
      BY <1>1, <2>1, <2>3 DEF Created
    <3>2. pools'[k] = <<>>
      BY <1>4, <2>1, <2>3 DEF AcquireFresh
    <3>3. Cardinality(Created(k)') <= Lent(k)'
      <4>1. NoneIdle'
        BY AllInUse, PTL
      <4> QED BY <3>1, <3>2, <4>1 DEF NoneIdle
    <3>4. Lent(k)' <= peak'[k]
      BY DEF Peaks
    <3>5. Cardinality(Created(k)') \in Nat /\ Lent(k)' \in Nat
      <4> DEFINE S == {c \in Tasks : poolKey'[c] = k}
                 T == {u \in Tasks : Holding(u)' /\ wanted'[u] = k}
      <4>1. Cardinality(S) \in Nat /\ Cardinality(T) \in Nat
        BY Finite
      <4> QED BY <4>1 DEF Created, Lent
    <3> QED BY <1>0, <3>1, <3>3, <3>4, <3>5
  <2>4. CASE k # l
    <3>1. Created(k)' = Created(k)
      BY <2>1, <2>2, <2>4, NoneAssumption DEF Created, MCIInv, IInv, TypeOK
    <3> QED BY <1>0, <1>1, <1>2, <2>1, <3>1
  <2> QED BY <2>3, <2>4
<1>5. ASSUME NEW t \in Tasks, ReleaseFull(t)
      PROVE  Created(k)' \subseteq open' /\ Cardinality(Created(k)') <= peak'[k]
  <2> DEFINE c == held[t]
  <2>1. IInv /\ c \in Tasks /\ c \in open /\ poolKey[c] \in Keys /\ c \notin Queued(k)
    BY <1>5, HolderFacts DEF MCIInv, ReleaseFull
  <2>2. poolKey' = poolKey /\ open' = open \ {c} /\ ~(Len(pools[poolKey[c]]) < MaxSize)
    BY <1>5 DEF ReleaseFull, HasRoom
  <2>3. poolKey[c] # k
    <3> SUFFICES ASSUME poolKey[c] = k PROVE FALSE
      OBVIOUS
    <3> HIDE DEF c
    <3>1. Cardinality(Queued(k)) = Len(pools[k]) /\ Len(pools[k]) \in Nat
      BY <2>1, QueueCardinality DEF Queued, IInv, TypeOK, OneOwner
    <3>2. Queued(k) \cup {c} \subseteq Created(k)
      BY <2>1, RangeType DEF Created, Queued, IInv, TypeOK, KeyMatch
    <3>3. IsFiniteSet(Created(k)) /\ IsFiniteSet(Queued(k))
      BY <3>2, Finite DEF Created
    <3>4. Cardinality(Queued(k) \cup {c}) = Len(pools[k]) + 1
      BY <2>1, <3>1, <3>3, FS_AddElement
    <3>5. Len(pools[k]) + 1 <= Cardinality(Created(k))
      BY <3>2, <3>3, <3>4, FS_Subset
    <3> QED BY <1>0, <1>1, <1>2, <2>2, <3>1, <3>5
  <2>4. Created(k)' = Created(k) /\ c \notin Created(k)
    BY <2>2, <2>3 DEF Created
  <2> QED BY <1>0, <1>1, <1>2, <2>2, <2>4
<1>6. \A t \in Tasks, l \in Keys : Acquire(t, l) =>
         AcquireFresh(t, l) \/ (poolKey' = poolKey /\ open' = open)
  BY DEF Acquire, AcquirePooled, AcquireFails
<1>7. \A t \in Tasks : Release(t) \/ CloseReturns(t) \/ CloseRaises(t) =>
         ReleaseFull(t) \/ (poolKey' = poolKey /\ open' = open)
  BY DEF Release, ReleaseToPool, CloseReturns, CloseRaises
<1>8. Finished => poolKey' = poolKey /\ open' = open
  BY DEF Finished, vars
<1> QED BY <1>3, <1>4, <1>5, <1>6, <1>7, <1>8 DEF MCNext, Next

LEMMA MCNextIInv == MCIInv /\ [MCNext]_<<vars, peak>> => MCIInv'
<1>1. ASSUME MCIInv, MCNext PROVE MCIInv'
  <2>1. IInv'
    BY <1>1, NextIInv DEF MCIInv, MCNext
  <2> QED BY <1>1, <2>1, PeaksStep, KeptStep DEF MCIInv
<1>2. ASSUME MCIInv, UNCHANGED <<vars, peak>> PROVE MCIInv'
  <2>1. IInv'
    BY <1>2, StutterStep DEF MCIInv
  <2>2. Peaks' /\ Kept' /\ peak' \in [Keys -> Nat]
    BY <1>2 DEF MCIInv, Peaks, Kept, Lent, Created, Holding, vars
  <2> QED BY <2>1, <2>2 DEF MCIInv
<1> QED BY <1>1, <1>2

\* The pool creates a client only when all it has of that key are in use, and
\* closes one only if more were in use than a queue keeps, for any maxsize.
THEOREM NoChurnEver == MCSpec => []NoChurn
<1>1. MCSpec => []MCIInv
  BY MCInitIInv, MCNextIInv, PTL DEF MCSpec
<1>2. MCIInv => NoChurn
  BY DEF MCIInv, Kept, NoChurn, Created
<1> QED BY <1>1, <1>2, PTL

-----------------------------------------------------------------------------
(* The block.  The invariant of the pool is a conjunct of its own, and the *)
(* lemmas of the pool give the steps that reach it.  Block relates the     *)
(* line a task is at to what it holds, to its order and to its answer.     *)

\* What left the try block tells the truth about the order.
Truthful(t) ==
    /\ outcome[t] = "order" => order[t] = "filled"
    /\ outcome[t] \in {"ExchangeError", "unsupported", "no credentials"} =>
          order[t] \in {"none", "refused"}

Block(t) ==
    /\ step[t] = "get" => pc[t] = "start" /\ order[t] = "none"
    /\ step[t] \in {"markets", "create"} => pc[t] = "using" /\ order[t] = "none"
    /\ step[t] = "wait" => pc[t] = "using" /\ order[t] # "none"
    /\ step[t] = "release" => pc[t] = "using" /\ outcome[t] # None /\ Truthful(t)
    /\ step[t] = "close" => pc[t] = "closing" /\ outcome[t] # None /\ Truthful(t)
    /\ step[t] = "end" => pc[t] \notin {"using", "closing"}
    /\ step[t] = "end" <=> reply[t] # None
    /\ reply[t] = "success" => order[t] = "filled"
    /\ reply[t] \in {"400", "401"} => order[t] \in {"none", "refused"}

Local ==
    /\ step \in [Tasks -> {"get", "markets", "create", "wait", "release", "close", "end"}]
    /\ outcome \in [Tasks -> Outcomes \cup {None}]
    /\ reply \in [Tasks -> Replies \cup {None}]
    /\ order \in [Tasks -> {"none", "sent", "filled", "refused", "lost"}]

ExecIInv == IInv /\ Local /\ \A t \in Tasks : Block(t)

\* The except clauses: which outcome gives which answer.
LEMMA Clauses ==
    ASSUME NEW o \in Outcomes
    PROVE  /\ Status(o) \in Replies
           /\ Status(o) = "success" => o = "order"
           /\ Status(o) \in {"400", "401"} =>
                 o \in {"ExchangeError", "unsupported", "no credentials"}
  BY DEF Outcomes, Errors, Refusals, Replies, Status

-----------------------------------------------------------------------------
LEMMA ExecInitIInv == ExecInit => ExecIInv
<1> SUFFICES ASSUME ExecInit PROVE ExecIInv
  OBVIOUS
<1>1. IInv
  BY InitIInv DEF ExecInit
<1>2. Local
  BY DEF ExecInit, Local
<1>3. \A t \in Tasks : Block(t)
  BY NoneAssumption, OutcomeAssumption DEF ExecInit, Init, Block, Replies
<1> QED BY <1>1, <1>2, <1>3 DEF ExecIInv

LEMMA ExecStutterStep == ExecIInv /\ UNCHANGED execVars => ExecIInv'
<1> SUFFICES ASSUME ExecIInv, UNCHANGED execVars PROVE ExecIInv'
  OBVIOUS
<1>1. IInv' /\ pc' = pc
  BY StutterStep DEF ExecIInv, execVars, vars
<1>2. Local' /\ \A t \in Tasks : Block(t)'
  BY <1>1 DEF ExecIInv, execVars, Local, Block, Truthful
<1> QED BY <1>1, <1>2 DEF ExecIInv

\* A step of t leaves the other tasks where they are.
Untouched(t) ==
    \A u \in Tasks \ {t} :
        /\ pc'[u] = pc[u] /\ step'[u] = step[u]
        /\ outcome'[u] = outcome[u] /\ reply'[u] = reply[u] /\ order'[u] = order[u]

LEMMA OthersKept ==
    ASSUME NEW t \in Tasks, \A u \in Tasks : Block(u), Untouched(t), Block(t)'
    PROVE  \A u \in Tasks : Block(u)'
<1> SUFFICES ASSUME NEW u \in Tasks, u # t PROVE Block(u)'
  OBVIOUS
<1>1. u \in Tasks \ {t} /\ Block(u)
  OBVIOUS
<1> QED BY <1>1 DEF Untouched, Block, Truthful

\* One step for each action of a task: first what it does to the pool, then to
\* the variables of the block.
LEMMA TaskStepIInv ==
    ASSUME ExecIInv, NEW t \in Tasks, TaskStep(t) \/ ExchangeStep(t)
    PROVE  ExecIInv'
<1> USE NoneAssumption, OutcomeAssumption DEF Local
<1>0. Local /\ (\A u \in Tasks : Block(u)) /\ IInv
  BY DEF ExecIInv
<1>a. pc \in [Tasks -> {"start", "using", "closing", "done", "raised"}]
  BY <1>0 DEF IInv, TypeOK
<1>b. Block(t)
  BY <1>0
<1>c. step[t] \in {"release", "close"} => outcome[t] \in Outcomes
  BY <1>0, <1>b DEF Block
<1>1. CASE GetRefused(t)
  <2> PICK o \in {"unsupported", "no credentials"} :
        outcome' = [outcome EXCEPT ![t] = o] /\ Answer(t, Status(o))
    BY <1>1 DEF GetRefused
  <2> o \in Outcomes
    BY DEF Outcomes, Refusals
  <2>1. IInv'
    BY <1>0, <1>1, StutterStep DEF GetRefused, vars
  <2>2. Local'
    BY <1>0, <1>1, Clauses DEF GetRefused, Answer
  <2>3. Block(t)'
    BY <1>0, <1>a, <1>b, <1>1, Clauses DEF GetRefused, Answer, vars, Truthful, Block
  <2>4. Untouched(t)
    BY <1>0, <1>a, <1>1 DEF GetRefused, Answer, vars, Untouched
  <2> QED BY <1>0, <2>1, <2>2, <2>3, <2>4, OthersKept DEF ExecIInv
<1>2. CASE \E k \in Keys : GetExchange(t, k)
  <2> PICK k \in Keys : GetExchange(t, k)
    BY <1>2
  <2>1. IInv'
    BY <1>0, <1>2, AcquirePooledStep, AcquireFreshStep DEF GetExchange
  <2>2. Local'
    BY <1>0, <1>2 DEF GetExchange, Goto
  <2>3. Block(t)'
    BY <1>0, <1>a, <1>b, <1>2 DEF GetExchange, Goto, AcquirePooled, AcquireFresh, Truthful, Block
  <2>4. Untouched(t)
    BY <1>0, <1>a, <1>2 DEF GetExchange, Goto, AcquirePooled, AcquireFresh, Untouched
  <2> QED BY <1>0, <2>1, <2>2, <2>3, <2>4, OthersKept DEF ExecIInv
<1>3. CASE \E k \in Keys : GetFails(t, k)
  <2> PICK k \in Keys : GetFails(t, k)
    BY <1>3
  <2> "not initialized" \in Outcomes
    BY DEF Outcomes, Refusals
  <2>1. IInv'
    BY <1>0, <1>3, AcquireFailsStep DEF GetFails
  <2>2. Local'
    BY <1>0, <1>3, Clauses DEF GetFails, Answer
  <2>3. Block(t)'
    BY <1>0, <1>a, <1>b, <1>3, Clauses DEF GetFails, Answer, AcquireFails, Truthful, Block
  <2>4. Untouched(t)
    BY <1>0, <1>a, <1>3 DEF GetFails, Answer, AcquireFails, Untouched
  <2> QED BY <1>0, <2>1, <2>2, <2>3, <2>4, OthersKept DEF ExecIInv
<1>4. CASE LoadMarkets(t)
  <2>1. IInv'
    BY <1>0, <1>4, StutterStep DEF LoadMarkets, vars
  <2>2. Local'
    BY <1>0, <1>4 DEF LoadMarkets, Goto
  <2>3. Block(t)'
    BY <1>0, <1>a, <1>b, <1>4 DEF LoadMarkets, Goto, vars, Truthful, Block
  <2>4. Untouched(t)
    BY <1>0, <1>a, <1>4 DEF LoadMarkets, Goto, vars, Untouched
  <2> QED BY <1>0, <2>1, <2>2, <2>3, <2>4, OthersKept DEF ExecIInv
<1>5. CASE FailsEarly(t)
  <2>1. IInv'
    BY <1>0, <1>5, StutterStep DEF FailsEarly, vars
  <2>2. Local'
    BY <1>0, <1>5 DEF FailsEarly, Leave, Outcomes, Errors
  <2>3. Block(t)'
    BY <1>0, <1>a, <1>b, <1>5 DEF FailsEarly, Leave, Outcomes, Errors, Truthful, vars, Block
  <2>4. Untouched(t)
    BY <1>0, <1>a, <1>5 DEF FailsEarly, Leave, vars, Untouched
  <2> QED BY <1>0, <2>1, <2>2, <2>3, <2>4, OthersKept DEF ExecIInv
<1>6. CASE SendOrder(t)
  <2>1. IInv'
    BY <1>0, <1>6, StutterStep DEF SendOrder, vars
  <2>2. Local'
    BY <1>0, <1>6 DEF SendOrder, Goto
  <2>3. Block(t)'
    <3>1. step'[t] = "wait" /\ order'[t] = "sent" /\ pc'[t] = "using" /\ reply'[t] = None
      BY <1>0, <1>a, <1>b, <1>6 DEF SendOrder, Goto, vars, Block
    <3>2. None \notin Replies
      OBVIOUS
    <3> QED BY <3>1, <3>2 DEF Block, Replies
  <2>4. Untouched(t)
    BY <1>0, <1>a, <1>6 DEF SendOrder, Goto, vars, Untouched
  <2> QED BY <1>0, <2>1, <2>2, <2>3, <2>4, OthersKept DEF ExecIInv
<1>7. CASE ExchangeDecides(t)
  <2>1. IInv'
    BY <1>0, <1>7, StutterStep DEF ExchangeDecides, vars
  <2>2. Local'
    BY <1>0, <1>7 DEF ExchangeDecides
  <2>3. Block(t)'
    BY <1>0, <1>a, <1>b, <1>7 DEF ExchangeDecides, Truthful, vars, Block
  <2>4. Untouched(t)
    BY <1>0, <1>a, <1>7 DEF ExchangeDecides, vars, Untouched
  <2> QED BY <1>0, <2>1, <2>2, <2>3, <2>4, OthersKept DEF ExecIInv
<1>8. CASE OrderReturns(t)
  <2>1. IInv'
    BY <1>0, <1>8, StutterStep DEF OrderReturns, vars
  <2>2. Local'
    BY <1>0, <1>8 DEF OrderReturns, Leave, Outcomes
  <2>3. Block(t)'
    BY <1>0, <1>a, <1>b, <1>8 DEF OrderReturns, Leave, Outcomes, Truthful, vars, Block
  <2>4. Untouched(t)
    BY <1>0, <1>a, <1>8 DEF OrderReturns, Leave, vars, Untouched
  <2> QED BY <1>0, <2>1, <2>2, <2>3, <2>4, OthersKept DEF ExecIInv
<1>9. CASE OrderRefused(t)
  <2>1. IInv'
    BY <1>0, <1>9, StutterStep DEF OrderRefused, vars
  <2>2. Local'
    BY <1>0, <1>9 DEF OrderRefused, Leave, Outcomes, Errors
  <2>3. Block(t)'
    BY <1>0, <1>a, <1>b, <1>9 DEF OrderRefused, Leave, Outcomes, Errors, Truthful, vars, Block
  <2>4. Untouched(t)
    BY <1>0, <1>a, <1>9 DEF OrderRefused, Leave, vars, Untouched
  <2> QED BY <1>0, <2>1, <2>2, <2>3, <2>4, OthersKept DEF ExecIInv
<1>10. CASE OrderTimesOut(t)
  <2>1. IInv'
    BY <1>0, <1>10, StutterStep DEF OrderTimesOut, vars
  <2>2. Local'
    BY <1>0, <1>10 DEF OrderTimesOut, Leave, Outcomes, Errors
  <2>3. Block(t)'
    BY <1>0, <1>a, <1>b, <1>10 DEF OrderTimesOut, Leave, Outcomes, Errors, Truthful, vars, Block
  <2>4. Untouched(t)
    BY <1>0, <1>a, <1>10 DEF OrderTimesOut, Leave, vars, Untouched
  <2> QED BY <1>0, <2>1, <2>2, <2>3, <2>4, OthersKept DEF ExecIInv
<1>11. CASE OrderUnreadable(t)
  <2>1. IInv'
    BY <1>0, <1>11, StutterStep DEF OrderUnreadable, vars
  <2>2. Local'
    BY <1>0, <1>11 DEF OrderUnreadable, Leave, Outcomes, Errors
  <2>3. Block(t)'
    BY <1>0, <1>a, <1>b, <1>11 DEF OrderUnreadable, Leave, Outcomes, Errors, Truthful, vars, Block
  <2>4. Untouched(t)
    BY <1>0, <1>a, <1>11 DEF OrderUnreadable, Leave, vars, Untouched
  <2> QED BY <1>0, <2>1, <2>2, <2>3, <2>4, OthersKept DEF ExecIInv
<1>12. CASE FinallyPooled(t)
  <2>1. IInv'
    BY <1>0, <1>12, ReleaseToPoolStep DEF FinallyPooled
  <2>2. Local'
    BY <1>0, <1>c, <1>12, Clauses DEF FinallyPooled, Answer
  <2>3. Block(t)'
    BY <1>0, <1>a, <1>b, <1>c, <1>12, Clauses DEF FinallyPooled, Answer, Truthful, ReleaseToPool, Block
  <2>4. Untouched(t)
    BY <1>0, <1>a, <1>12 DEF FinallyPooled, Answer, ReleaseToPool, Untouched
  <2> QED BY <1>0, <2>1, <2>2, <2>3, <2>4, OthersKept DEF ExecIInv
<1>13. CASE FinallyFull(t)
  <2>1. IInv'
    BY <1>0, <1>13, ReleaseFullStep DEF FinallyFull
  <2>2. Local'
    BY <1>0, <1>c, <1>13 DEF FinallyFull, Goto
  <2>3. Block(t)'
    BY <1>0, <1>a, <1>b, <1>c, <1>13 DEF FinallyFull, Goto, Truthful, ReleaseFull, Block
  <2>4. Untouched(t)
    BY <1>0, <1>a, <1>13 DEF FinallyFull, Goto, ReleaseFull, Untouched
  <2> QED BY <1>0, <2>1, <2>2, <2>3, <2>4, OthersKept DEF ExecIInv
<1>14. CASE FinallyReturns(t)
  <2>1. IInv'
    BY <1>0, <1>14, CloseStep DEF FinallyReturns
  <2>2. Local'
    BY <1>0, <1>c, <1>14, Clauses DEF FinallyReturns, Answer
  <2>3. Block(t)'
    BY <1>0, <1>a, <1>b, <1>c, <1>14, Clauses DEF FinallyReturns, Answer, Truthful, CloseReturns, Block
  <2>4. Untouched(t)
    BY <1>0, <1>a, <1>14 DEF FinallyReturns, Answer, CloseReturns, Untouched
  <2> QED BY <1>0, <2>1, <2>2, <2>3, <2>4, OthersKept DEF ExecIInv
<1>15. CASE FinallyRaises(t)
  <2>1. IInv'
    BY <1>0, <1>15, CloseStep DEF FinallyRaises
  <2>2. Local'
    BY <1>0, <1>15, Clauses DEF FinallyRaises, Answer, Replies
  <2>3. Block(t)'
    <3>1. step'[t] = "end" /\ reply'[t] = "500" /\ pc'[t] = "raised"
      BY <1>0, <1>a, <1>15 DEF FinallyRaises, Answer, CloseRaises
    <3>2. "500" # None
      BY DEF Replies
    <3> QED BY <3>1, <3>2 DEF Block
  <2>4. Untouched(t)
    BY <1>0, <1>a, <1>15 DEF FinallyRaises, Answer, CloseRaises, Untouched
  <2> QED BY <1>0, <2>1, <2>2, <2>3, <2>4, OthersKept DEF ExecIInv
<1> QED BY <1>1, <1>2, <1>3, <1>4, <1>5, <1>6, <1>7, <1>8, <1>9, <1>10, <1>11, <1>12, <1>13, <1>14, <1>15 DEF TaskStep, ExchangeStep

LEMMA ExecNextIInv == ExecIInv /\ [ExecNext]_execVars => ExecIInv'
  BY TaskStepIInv, ExecStutterStep DEF ExecNext, AllAnswered

\* The invariants of the pool and of the block hold together.
THEOREM ExecInvariance == ExecSpec => []ExecIInv
  BY ExecInitIInv, ExecNextIInv, PTL DEF ExecSpec

-----------------------------------------------------------------------------
\* The variables of the pool and of the block keep their types.
THEOREM ExecTypeCorrect == ExecSpec => []ExecTypeOK
<1>1. ExecIInv => ExecTypeOK
  BY DEF ExecIInv, Local, ExecTypeOK, IInv, TypeOK, TypeOK
<1> QED BY <1>1, ExecInvariance, PTL

\* Between get_exchange and `finally' no two tasks trade through one client,
\* and none under other credentials than its payload's.
THEOREM ClientsAreOwn == ExecSpec => []OwnClient
<1>1. ExecIInv => OwnClient
  <2> SUFFICES ASSUME ExecIInv, NEW t \in Tasks,
                      step[t] \in {"markets", "create", "wait", "release"}
               PROVE  /\ held[t] \in open
                      /\ poolKey[held[t]] = wanted[t]
                      /\ \A u \in Tasks : held[u] = held[t] => u = t
    BY DEF OwnClient
  <2>1. IInv /\ pc[t] = "using"
    BY DEF ExecIInv, Block
  <2> QED BY <2>1, HolderFacts, MaxSizeAssumption, NoneAssumption, OutcomeAssumption
<1> QED BY <1>1, ExecInvariance, PTL

\* A task that has answered has given its client back or to close().
THEOREM NothingIsKept == ExecSpec => []NothingKept
<1>1. ExecIInv => NothingKept
  BY DEF ExecIInv, NothingKept, Block, IInv, Life, Holding
<1> QED BY <1>1, ExecInvariance, PTL

\* "success" is answered for filled orders only, and 400 or 401 when there is
\* no order, whatever the exchange does, however late, and whatever comes back.
THEOREM RepliesAreTruthful == ExecSpec => []TruthfulReply
<1>1. ExecIInv => TruthfulReply
  BY DEF ExecIInv, TruthfulReply, Block
<1> QED BY <1>1, ExecInvariance, PTL

\* No task sends a second order.
THEOREM OneOrderEach == ExecSpec => NoSecondOrder
<1>1. ExecIInv => \A t \in Tasks : step[t] = "create" => order[t] = "none"
  BY DEF ExecIInv, Block
<1>2. ExecIInv => [\A t \in Tasks : step[t] = "create" /\ step'[t] = "wait" => order[t] = "none"]_execVars
  BY <1>1
<1> QED BY <1>2, ExecInvariance, PTL DEF NoSecondOrder

-----------------------------------------------------------------------------
(* The composition                                                         *)

\* A step of the block is a step of the pool, or leaves the pool alone.
LEMMA BlockStepsPool == [ExecNext]_execVars => [Next]_vars
<1> SUFFICES ASSUME [ExecNext]_execVars PROVE [Next]_vars
  OBVIOUS
<1>1. ASSUME NEW t \in Tasks, NEW k \in Keys, GetExchange(t, k) \/ GetFails(t, k)
      PROVE  Next
  BY <1>1 DEF GetExchange, GetFails, Next, Acquire
<1>2. ASSUME NEW t \in Tasks,
             FinallyPooled(t) \/ FinallyFull(t) \/ FinallyReturns(t) \/ FinallyRaises(t)
      PROVE  Next
  BY <1>2 DEF FinallyPooled, FinallyFull, FinallyReturns, FinallyRaises, Next, Release
<1>3. ASSUME NEW t \in Tasks,
             \/ GetRefused(t) \/ LoadMarkets(t) \/ FailsEarly(t) \/ SendOrder(t)
             \/ OrderReturns(t) \/ OrderRefused(t) \/ OrderTimesOut(t)
             \/ OrderUnreadable(t) \/ ExchangeDecides(t)
      PROVE  UNCHANGED vars
  BY <1>3 DEF GetRefused, LoadMarkets, FailsEarly, SendOrder, OrderReturns,
              OrderRefused, OrderTimesOut, OrderUnreadable, ExchangeDecides
<1>4. CASE AllAnswered \/ UNCHANGED execVars
  BY <1>4 DEF AllAnswered, execVars
<1> QED BY <1>1, <1>2, <1>3, <1>4 DEF ExecNext, TaskStep, ExchangeStep

\* The requests use the pool only as it allows: what is proved of acquire and
\* release, the ownership protocol included, holds while orders are executed.
THEOREM BlockUsesPool == ExecSpec => Spec /\ ImplementsOwnership
<1>1. ExecInit => Init
  BY DEF ExecInit
<1>2. ExecSpec => Spec
  BY <1>1, BlockStepsPool, PTL DEF ExecSpec, Spec
<1> QED BY <1>2, PoolImplementsOwnership, PTL
=============================================================================
