---------------------------- MODULE WebhookService ----------------------------
(***************************************************************************)
(* The way of an alert from webhook() to the exchange: the checks, the     *)
(* choice between ordering at once and queueing (settings.QUEUE_ORDERS),   *)
(* and the Celery workers behind the queue.  The checks, whose inside is   *)
(* in NonceStore, SignatureCheck and TokenAuth, are one step here, and so  *)
(* is the sending of an order (OrderExecution).                            *)
(*                                                                         *)
(* Celery and Redis are external and run with their defaults: a message is *)
(* acknowledged just before its task runs and is gone then; what a dead    *)
(* worker had fetched and not acknowledged comes back; a publication whose *)
(* connection breaks is repeated, which may leave a second copy.           *)
(***************************************************************************)
EXTENDS Naturals, FiniteSets

CONSTANTS
    Alerts, Deliveries, Copies,     \* as in AlertDesk
    Workers,
    Prefetch,       \* messages a worker fetches ahead
    MaxCrashes,     \* bound on the deaths of workers
    None

ASSUME CopiesAssumption == Copies \in Nat \ {0}
ASSUME CrashAssumption == MaxCrashes \in Nat

Requests == Alerts \X (1..Deliveries)
Messages == Requests \X (1..Copies)

ASSUME NoneAssumption ==
    None \notin Messages /\ None \notin {"refused", "queued", "success", "error"}

VARIABLES
    queueing,   \* settings.QUEUE_ORDERS
    known,      \* the nonces and signatures that are remembered
    step,       \* where each request is
    reply,      \* its answer
    orders,     \* orders sent to the exchange for each message
    queue,      \* the broker's messages
    reserved,   \* those each worker has fetched ahead
    unacked,    \* those that dead workers had fetched
    running,    \* the message whose task a worker runs, acknowledged
    sent,       \* the workers whose task has sent its order
    up,         \* the workers that are alive
    crashes,
    tried       \* history: the messages whose task was started

web == <<known, step, reply>>
broker == <<queue, reserved, unacked>>
workers == <<running, sent, up, crashes, tried>>
vars == <<queueing, web, orders, broker, workers>>

TypeOK ==
    /\ queueing \in BOOLEAN
    /\ known \subseteq Alerts
    /\ step \in [Requests -> {"checks", "publish", "execute", "wait", "end"}]
    /\ reply \in [Requests -> {None, "refused", "queued", "success", "error"}]
    /\ orders \in [Messages -> {0, 1}]
    /\ queue \subseteq Messages /\ unacked \subseteq Messages /\ tried \subseteq Messages
    /\ reserved \in [Workers -> SUBSET Messages]
    /\ running \in [Workers -> Messages \cup {None}]
    /\ sent \subseteq up /\ up \subseteq Workers
    /\ crashes \in 0..MaxCrashes

Init ==
    /\ queueing \in BOOLEAN
    /\ known = {}
    /\ step = [q \in Requests |-> "checks"]
    /\ reply = [q \in Requests |-> None]
    /\ orders = [m \in Messages |-> 0]
    /\ queue = {} /\ unacked = {} /\ tried = {}
    /\ reserved = [w \in Workers |-> {}]
    /\ running = [w \in Workers |-> None]
    /\ sent = {}
    /\ up = Workers
    /\ crashes = 0

-----------------------------------------------------------------------------
(* The web process                                                         *)

Go(q, s) == step' = [step EXCEPT ![q] = s]

Answer(q, r) ==
    /\ reply' = [reply EXCEPT ![q] = r]
    /\ Go(q, "end")

\* Plain HTTP, a wrong API key, an invalid payload, too many requests, or a
\* signature or token that does not pass: the identifier is not registered.
Refuse(q) ==
    /\ step[q] = "checks"
    /\ Answer(q, "refused")
    /\ UNCHANGED <<queueing, known, orders, broker, workers>>

\* verify_token registers the nonce before it looks at the owner's roles.
RefuseLate(q) ==
    /\ step[q] = "checks"
    /\ q[1] \notin known
    /\ known' = known \cup {q[1]}
    /\ Answer(q, "refused")
    /\ UNCHANGED <<queueing, orders, broker, workers>>

Accept(q) ==
    /\ step[q] = "checks"
    /\ q[1] \notin known
    /\ known' = known \cup {q[1]}
    /\ Go(q, IF queueing THEN "publish" ELSE "execute")
    /\ UNCHANGED <<queueing, reply, orders, broker, workers>>

CopiesOf(q, n) == {<<q, i>> : i \in 1..n}

\* Mutant: a failure of delay() is logged only.
DelayIgnored(q) ==
    /\ step[q] = "publish"
    /\ \E n \in 0..Copies : queue' = queue \cup CopiesOf(q, n)
    /\ Answer(q, "queued")
    /\ UNCHANGED <<queueing, known, orders, reserved, unacked, workers>>

Delay(q) ==
    /\ step[q] = "publish"
    /\ \E n \in 1..Copies : queue' = queue \cup CopiesOf(q, n)
    /\ Answer(q, "queued")
    /\ UNCHANGED <<queueing, known, orders, reserved, unacked, workers>>

\* delay() raises, although the broker may have the message.
DelayFails(q) ==
    /\ step[q] = "publish"
    /\ \E n \in 0..Copies : queue' = queue \cup CopiesOf(q, n)
    /\ Answer(q, "error")
    /\ UNCHANGED <<queueing, known, orders, reserved, unacked, workers>>

Send(m) == orders' = [orders EXCEPT ![m] = @ + 1]

\* The order of a request that is not queued; OrderExecution has the block.
CreateOrder(q) ==
    /\ step[q] = "execute"
    /\ Send(<<q, 1>>)
    /\ Go(q, "wait")
    /\ UNCHANGED <<queueing, known, reply, broker, workers>>

OrderSucceeds(q) ==
    /\ step[q] = "wait"
    /\ Answer(q, "success")
    /\ UNCHANGED <<queueing, known, orders, broker, workers>>

OrderFails(q) ==
    /\ step[q] \in {"execute", "wait"}
    /\ Answer(q, "error")
    /\ UNCHANGED <<queueing, known, orders, broker, workers>>

\* Identifiers expire, or the process is restarted and its requests with it
\* (the nonces survive, the signatures do not).
Forget ==
    /\ known' \in SUBSET known \ {known}
    /\ UNCHANGED <<queueing, step, reply, orders, broker, workers>>

WebRestarts ==
    /\ \E q \in Requests : step[q] \in {"publish", "execute", "wait"}
    /\ known' \in SUBSET known
    /\ step' = [q \in Requests |-> IF step[q] = "checks" THEN "checks" ELSE "end"]
    /\ UNCHANGED <<queueing, reply, orders, broker, workers>>

-----------------------------------------------------------------------------
(* The workers                                                             *)

\* The queue promises no order: workers fetch from it at the same time, and
\* messages come back.
Reserve(w, m) ==
    /\ w \in up
    /\ m \in queue
    /\ Cardinality(reserved[w]) < Prefetch
    /\ queue' = queue \ {m}
    /\ reserved' = [reserved EXCEPT ![w] = @ \cup {m}]
    /\ UNCHANGED <<queueing, web, orders, unacked, workers>>

\* place_order_task is called; its message has just been acknowledged.
PlaceOrderTask(w, m) ==
    /\ w \in up
    /\ running[w] = None
    /\ m \in reserved[w]
    /\ reserved' = [reserved EXCEPT ![w] = @ \ {m}]
    /\ running' = [running EXCEPT ![w] = m]
    /\ tried' = tried \cup {m}
    /\ UNCHANGED <<queueing, web, orders, queue, unacked, sent, up, crashes>>

ExecuteOrder(w) ==
    /\ running[w] # None
    /\ w \notin sent
    /\ Send(running[w])
    /\ sent' = sent \cup {w}
    /\ UNCHANGED <<queueing, web, broker, running, up, crashes, tried>>

\* Mutant: a task that raises is retried (autoretry_for).
TaskRetries(w) ==
    /\ running[w] # None
    /\ queue' = queue \cup {running[w]}
    /\ running' = [running EXCEPT ![w] = None]
    /\ sent' = sent \ {w}
    /\ UNCHANGED <<queueing, web, orders, reserved, unacked, up, crashes, tried>>

\* The task returns or raises, before or after it has sent its order; either
\* way it is over.
TaskEnds(w) ==
    /\ running[w] # None
    /\ running' = [running EXCEPT ![w] = None]
    /\ sent' = sent \ {w}
    /\ UNCHANGED <<queueing, web, orders, broker, up, crashes, tried>>

\* The task it was running is lost.
WorkerDies(w) ==
    /\ w \in up
    /\ crashes < MaxCrashes
    /\ crashes' = crashes + 1
    /\ up' = up \ {w}
    /\ unacked' = unacked \cup reserved[w]
    /\ reserved' = [reserved EXCEPT ![w] = {}]
    /\ running' = [running EXCEPT ![w] = None]
    /\ sent' = sent \ {w}
    /\ UNCHANGED <<queueing, web, orders, queue, tried>>

WorkerStarts(w) ==
    /\ w \in Workers \ up
    /\ up' = up \cup {w}
    /\ UNCHANGED <<queueing, web, orders, broker, running, sent, crashes, tried>>

\* The visibility timeout has passed.
Restore(m) ==
    /\ up # {}
    /\ m \in unacked
    /\ unacked' = unacked \ {m}
    /\ queue' = queue \cup {m}
    /\ UNCHANGED <<queueing, web, orders, reserved, workers>>

-----------------------------------------------------------------------------
WebStep(q) ==
    \/ Refuse(q) \/ RefuseLate(q) \/ Accept(q)
    \/ Delay(q) \/ DelayFails(q)
    \/ CreateOrder(q) \/ OrderSucceeds(q) \/ OrderFails(q)

WorkerStep(w) ==
    \/ \E m \in Messages : Reserve(w, m) \/ PlaceOrderTask(w, m)
    \/ ExecuteOrder(w) \/ TaskEnds(w)

Finished ==
    /\ \A q \in Requests : step[q] = "end"
    /\ UNCHANGED vars

Next ==
    \/ \E q \in Requests : WebStep(q)
    \/ \E w \in Workers : WorkerStep(w) \/ WorkerDies(w) \/ WorkerStarts(w)
    \/ \E m \in Messages : Restore(m)
    \/ Forget \/ WebRestarts \/ Finished

\* A worker that is alive goes on, and the broker gives back what a dead one
\* had fetched.  Nobody has to start a dead worker.
Fairness ==
    /\ \A w \in Workers : WF_vars(WorkerStep(w))
    /\ WF_vars(\E m \in Messages : Restore(m))

Spec == Init /\ [][Next]_vars /\ Fairness
-----------------------------------------------------------------------------
(* Properties                                                              *)

Decision ==
    [q \in Requests |-> IF step[q] = "checks" THEN "open"
                        ELSE IF reply[q] = "refused" THEN "refused" ELSE "accepted"]

Desk == INSTANCE AlertDesk WITH decision <- Decision

\* The service implements AlertDesk: an order is sent only for a request that
\* was accepted, once for every copy the broker took, and between two lapses
\* of an identifier one request with it is accepted -- through crashes of
\* workers, messages that come back, failures of delay() and restarts.
ImplementsAlertDesk == Desk!Spec

Waiting == queue \cup unacked \cup UNION {reserved[w] : w \in Workers}

\* What the sender was told is queued is in exactly one place until its task
\* is started, and never again after: no crash loses it or doubles it.
NothingVanishes ==
    /\ \A q \in Requests : reply[q] = "queued" => <<q, 1>> \in Waiting \cup tried
    /\ \A m \in Waiting :
        /\ m \notin tried
        /\ Cardinality({w \in Workers : m \in reserved[w]})
             + Cardinality({m} \cap queue) + Cardinality({m} \cap unacked) = 1

\* An alert that was answered "queued" is tried in the end, unless all workers
\* are dead.
QueuedIsTried ==
    \A q \in Requests : reply[q] = "queued" ~> (<<q, 1>> \in tried \/ up = {})
=============================================================================
