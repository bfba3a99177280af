----------------------------- MODULE SessionPool -----------------------------
(***************************************************************************)
(* ExchangeSessionPool (app/execution/session_pool.py): a pool of CCXT     *)
(* clients shared by the asyncio tasks of one process, with one FIFO queue *)
(* per credential set (exchange, apiKey, secret).                          *)
(*                                                                         *)
(* The lock is never held across a suspension (get() on a non-empty queue, *)
(* put() on a non-full one and an uncontended lock do not yield), so       *)
(* acquire and release are atomic up to the only real await,               *)
(* exchange.close(), which is a step of its own and may raise.             *)
(*                                                                         *)
(* A task acquires at most one client, so the client a task creates is     *)
(* named after that task.                                                  *)
(***************************************************************************)
EXTENDS Naturals, Sequences, Functions

CONSTANTS
    Tasks,      \* asyncio tasks that need a client; also the clients' names
    Keys,       \* credential sets: the values of _pool_key
    MaxSize,    \* maxsize: clients kept per credential set
    None        \* no client, no key

ASSUME MaxSizeAssumption == MaxSize \in Nat
ASSUME NoneAssumption == None \notin Tasks /\ None \notin Keys

VARIABLES
    pools,      \* _pools: the queue of each key (a missing one is empty)
    poolKey,    \* _pool_key of each client, None before it is created
    open,       \* clients created and not yet handed to close()
    held,       \* the client in each task's local variable `exchange'
    wanted,     \* the credentials each task asked for
    pc          \* where each task is

vars == <<pools, poolKey, open, held, wanted, pc>>

TypeOK ==
    /\ pools \in [Keys -> Seq(Tasks)]
    /\ poolKey \in [Tasks -> Keys \cup {None}]
    /\ open \in SUBSET Tasks
    /\ held \in [Tasks -> Tasks \cup {None}]
    /\ wanted \in [Tasks -> Keys \cup {None}]
    /\ pc \in [Tasks -> {"start", "using", "closing", "done", "raised"}]

Init ==
    /\ pools = [k \in Keys |-> <<>>]
    /\ poolKey = [t \in Tasks |-> None]
    /\ open = {}
    /\ held = [t \in Tasks |-> None]
    /\ wanted = [t \in Tasks |-> None]
    /\ pc = [t \in Tasks |-> "start"]

-----------------------------------------------------------------------------
(* acquire                                                                 *)

\* Mutant: the client is lent without leaving its queue.
AcquirePeek(t, k) ==
    /\ pc[t] = "start"
    /\ pools[k] # <<>>
    /\ held' = [held EXCEPT ![t] = Head(pools[k])]
    /\ wanted' = [wanted EXCEPT ![t] = k]
    /\ pc' = [pc EXCEPT ![t] = "using"]
    /\ UNCHANGED <<pools, poolKey, open>>

\* A queued client is lent, oldest first.
AcquirePooled(t, k) ==
    /\ pc[t] = "start"
    /\ pools[k] # <<>>
    /\ held' = [held EXCEPT ![t] = Head(pools[k])]
    /\ pools' = [pools EXCEPT ![k] = Tail(@)]
    /\ wanted' = [wanted EXCEPT ![t] = k]
    /\ pc' = [pc EXCEPT ![t] = "using"]
    /\ UNCHANGED <<poolKey, open>>

\* No client is idle: one is created and tagged with its key.
AcquireFresh(t, k) ==
    /\ pc[t] = "start"
    /\ pools[k] = <<>>
    /\ poolKey' = [poolKey EXCEPT ![t] = k]
    /\ open' = open \cup {t}
    /\ held' = [held EXCEPT ![t] = t]
    /\ wanted' = [wanted EXCEPT ![t] = k]
    /\ pc' = [pc EXCEPT ![t] = "using"]
    /\ UNCHANGED pools

\* The constructor of the exchange class raises: there is nothing to release.
AcquireFails(t, k) ==
    /\ pc[t] = "start"
    /\ pools[k] = <<>>
    /\ wanted' = [wanted EXCEPT ![t] = k]
    /\ pc' = [pc EXCEPT ![t] = "raised"]
    /\ UNCHANGED <<pools, poolKey, open, held>>

Acquire(t, k) == AcquirePooled(t, k) \/ AcquireFresh(t, k) \/ AcquireFails(t, k)

-----------------------------------------------------------------------------
(* release                                                                 *)

\* Mutants: one client too many, and one too few, are kept.
RoomPastFull(k) == Len(pools[k]) <= MaxSize
RoomShort(k) == Len(pools[k]) + 1 < MaxSize

HasRoom(k) == Len(pools[k]) < MaxSize

\* Mutant: the task's variable is cleared before it is put back.
ReleaseCleared(t) ==
    /\ pc[t] = "using"
    /\ HasRoom(poolKey[held[t]])
    /\ held' = [held EXCEPT ![t] = None]
    /\ pools' = [pools EXCEPT ![poolKey[held[t]]] = Append(@, held'[t])]
    /\ pc' = [pc EXCEPT ![t] = "done"]
    /\ UNCHANGED <<poolKey, open, wanted>>

\* The client goes back to the queue of the key it was created with.
ReleaseToPool(t) ==
    /\ pc[t] = "using"
    /\ HasRoom(poolKey[held[t]])
    /\ pools' = [pools EXCEPT ![poolKey[held[t]]] = Append(@, held[t])]
    /\ held' = [held EXCEPT ![t] = None]
    /\ pc' = [pc EXCEPT ![t] = "done"]
    /\ UNCHANGED <<poolKey, open, wanted>>

\* Mutant: the client that does not fit is dropped with its connection open.
DropFull(t) ==
    /\ pc[t] = "using"
    /\ ~HasRoom(poolKey[held[t]])
    /\ held' = [held EXCEPT ![t] = None]
    /\ pc' = [pc EXCEPT ![t] = "done"]
    /\ UNCHANGED <<pools, poolKey, open, wanted>>

\* The queue is full: the client is handed to close(), and the task waits.
ReleaseFull(t) ==
    /\ pc[t] = "using"
    /\ ~HasRoom(poolKey[held[t]])
    /\ open' = open \ {held[t]}
    /\ held' = [held EXCEPT ![t] = None]
    /\ pc' = [pc EXCEPT ![t] = "closing"]
    /\ UNCHANGED <<pools, poolKey, wanted>>

CloseReturns(t) ==
    /\ pc[t] = "closing"
    /\ pc' = [pc EXCEPT ![t] = "done"]
    /\ UNCHANGED <<pools, poolKey, open, held, wanted>>

\* close() raises: the exception leaves release.
CloseRaises(t) ==
    /\ pc[t] = "closing"
    /\ pc' = [pc EXCEPT ![t] = "raised"]
    /\ UNCHANGED <<pools, poolKey, open, held, wanted>>

Release(t) == ReleaseToPool(t) \/ ReleaseFull(t)

\* Every task has left the pool: nothing remains to be done.
Finished ==
    /\ \A t \in Tasks : pc[t] \in {"done", "raised"}
    /\ UNCHANGED vars

Next ==
    \/ \E t \in Tasks, k \in Keys : Acquire(t, k)
    \/ \E t \in Tasks : Release(t) \/ CloseReturns(t) \/ CloseRaises(t)
    \/ Finished

Spec == Init /\ [][Next]_vars
-----------------------------------------------------------------------------
(* Properties                                                              *)

Queued(k) == Range(pools[k])

Holding(t) == held[t] # None

\* A client is in one place at a time: in one task's hands, or in one slot of
\* one queue.  Two tasks that trade through the same client at once, or a
\* client lent while it is still queued, break it.
OneOwner ==
    /\ \A t, u \in Tasks : Holding(t) /\ held[t] = held[u] => t = u
    /\ \A t \in Tasks, k \in Keys : held[t] \notin Queued(k)
    /\ \A k \in Keys : IsInjective(pools[k])
    /\ \A k, l \in Keys : k # l => Queued(k) \cap Queued(l) = {}

\* A client the program can still reach is open, and an open one is reachable:
\* acquire never lends a client handed to close(), and no path through
\* acquire and release forgets a client with its connection open.
NoLeak ==
    \A c \in Tasks :
        c \in open <=> \/ \E t \in Tasks : held[t] = c
                      \/ \E k \in Keys : c \in Queued(k)

\* An order goes out under the credentials of the request: what a task holds
\* was created for the key it asked for, however many hands it went through.
KeyMatch ==
    /\ \A t \in Tasks : Holding(t) => poolKey[held[t]] = wanted[t]
    /\ \A k \in Keys : \A c \in Queued(k) : poolKey[c] = k

\* However many tasks give clients back, no queue grows beyond maxsize.
Bounded == \A k \in Keys : Len(pools[k]) <= MaxSize

-----------------------------------------------------------------------------
(* Refinement                                                              *)

Holder(c) == IF \E t \in Tasks : held[t] = c
             THEN CHOOSE t \in Tasks : held[t] = c
             ELSE None

Ownership == INSTANCE ClientOwnership WITH
    Clients <- Tasks,
    MaxIdle <- MaxSize,
    kind <- poolKey,
    owner <- [c \in Tasks |-> Holder(c)],
    idle <- UNION {Queued(k) : k \in Keys}

\* The pool with its queues implements the ownership protocol: every step of
\* acquire and release is a loan, a return, a retirement, or invisible.
ImplementsOwnership == Ownership!Spec
=============================================================================
