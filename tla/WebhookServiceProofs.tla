------------------------ MODULE WebhookServiceProofs ------------------------
(***************************************************************************)
(* Proofs about WebhookService, for any alerts, deliveries, workers and    *)
(* crashes.  That a message is ordered once needs more than counting its   *)
(* orders: it is in one place until its task is started (OnePlace), its    *)
(* order has not been sent as long as it is anywhere (Untried) or its task *)
(* is running (Runs), and its request is over and was accepted (Published).*)
(***************************************************************************)
EXTENDS WebhookService, FiniteSetTheorems, TLAPS

Waits(m) == m \in queue \/ m \in unacked \/ \E w \in Workers : m \in reserved[w]

OnePlace ==
    /\ queue \cap unacked = {}
    /\ \A w \in Workers : reserved[w] \cap queue = {} /\ reserved[w] \cap unacked = {}
    /\ \A v, w \in Workers : v # w => reserved[v] \cap reserved[w] = {}

Untried == \A m \in Messages : Waits(m) => m \notin tried /\ orders[m] = 0

Published ==
    \A m \in Messages : Waits(m) \/ m \in tried =>
        step[m[1]] = "end" /\ reply[m[1]] # "refused"

Runs ==
    \A w \in Workers : running[w] # None =>
        /\ w \in up
        /\ running[w] \in tried
        /\ w \notin sent => orders[running[w]] = 0
        /\ \A v \in Workers : running[v] = running[w] => v = w

Unsent ==
    \A m \in Messages : step[m[1]] \in {"checks", "publish", "execute"} => orders[m] = 0

Replied ==
    \A q \in Requests :
        /\ step[q] # "end" => reply[q] = None
        /\ reply[q] = "queued" => Waits(<<q, 1>>) \/ <<q, 1>> \in tried

IInv == TypeOK /\ OnePlace /\ Untried /\ Published /\ Runs /\ Unsent /\ Replied

-----------------------------------------------------------------------------
LEMMA MessageFacts ==
    /\ \A m \in Messages : m[1] \in Requests
    /\ \A q \in Requests : <<q, 1>> \in Messages /\ <<q, 1>>[1] = q
  BY CopiesAssumption DEF Messages

LEMMA CopiesFacts ==
    ASSUME NEW q \in Requests, NEW n \in 0..Copies
    PROVE  /\ CopiesOf(q, n) \subseteq Messages
           /\ \A m \in CopiesOf(q, n) : m[1] = q
           /\ n # 0 => <<q, 1>> \in CopiesOf(q, n)
  BY CopiesAssumption DEF Messages, CopiesOf

LEMMA InitIInv == Init => IInv
  BY NoneAssumption, CrashAssumption, MessageFacts
     DEF Init, IInv, TypeOK, OnePlace, Untried, Published, Runs, Unsent, Replied, Waits

\* A step of the web process that publishes nothing and sends no order.
LEMMA WebOnly ==
    ASSUME IInv, UNCHANGED <<queueing, orders, broker, workers>>, TypeOK',
           \A q \in Requests :
               \/ step'[q] = step[q] /\ reply'[q] = reply[q]
               \/ /\ step[q] # "end"
                  /\ step'[q] # "end" => reply'[q] = None
                  /\ step'[q] \in {"publish", "execute"} => step[q] = "checks"
                  /\ step'[q] # "checks"
                  /\ reply'[q] # "queued"
    PROVE  IInv'
<1>1. \A m \in Messages : Waits(m)' <=> Waits(m)
  BY DEF Waits, broker
<1>2. OnePlace' /\ Runs'
  BY DEF IInv, OnePlace, Runs, broker, workers
<1>3. Untried'
  BY <1>1 DEF IInv, Untried, workers
<1>4. Published'
  BY <1>1, MessageFacts DEF IInv, Published, workers
<1>5. Unsent'
  BY MessageFacts DEF IInv, Unsent
<1>6. Replied'
  BY <1>1, MessageFacts DEF IInv, Replied, workers
<1> QED BY <1>2, <1>3, <1>4, <1>5, <1>6 DEF IInv

\* A step that moves messages from one place to another.
LEMMA Moves ==
    ASSUME IInv, UNCHANGED <<web, orders, tried>>, TypeOK', OnePlace', Runs',
           \A m \in Messages : Waits(m)' <=> Waits(m)
    PROVE  IInv'
<1>1. Untried' /\ Published' /\ Unsent'
  BY DEF IInv, Untried, Published, Unsent, web
<1>2. Replied'
  BY MessageFacts DEF IInv, Replied, web
<1> QED BY <1>1, <1>2 DEF IInv

LEMMA WebChecks ==
    ASSUME IInv, NEW q \in Requests,
           \/ Refuse(q) \/ RefuseLate(q) \/ Accept(q)
           \/ OrderSucceeds(q) \/ OrderFails(q)
    PROVE  IInv'
<1> USE NoneAssumption DEF IInv, TypeOK, Replied
<1>1. CASE Refuse(q) \/ RefuseLate(q)
  BY <1>1, WebOnly DEF Refuse, RefuseLate, Answer, Go, Requests, broker, workers
<1>2. CASE Accept(q)
  BY <1>2, WebOnly DEF Accept, Go, Requests, broker, workers
<1>3. CASE OrderSucceeds(q) \/ OrderFails(q)
  BY <1>3, WebOnly DEF OrderSucceeds, OrderFails, Answer, Go, broker, workers
<1> QED BY <1>1, <1>2, <1>3

LEMMA Forgets ==
    ASSUME IInv, Forget \/ WebRestarts
    PROVE  IInv'
<1> USE NoneAssumption DEF IInv, TypeOK, Replied
<1>1. CASE Forget
  BY <1>1, WebOnly DEF Forget, broker, workers
<1>2. CASE WebRestarts
  BY <1>2, WebOnly DEF WebRestarts, broker, workers
<1> QED BY <1>1, <1>2

\* delay(): what it leaves in the queue has not been ordered, and its request
\* is over.
LEMMA Publishes ==
    ASSUME IInv, NEW q \in Requests, Delay(q) \/ DelayFails(q)
    PROVE  IInv'
<1>1. PICK n \in 0..Copies :
        /\ queue' = queue \cup CopiesOf(q, n)
        /\ n # 0 \/ reply'[q] = "error"
        /\ reply'[q] \in {"queued", "error"}
  BY CopiesAssumption DEF Delay, DelayFails, Answer, IInv, TypeOK
<1>2. /\ step[q] = "publish"
      /\ step' = [step EXCEPT ![q] = "end"]
      /\ reply' = [reply EXCEPT ![q] = reply'[q]]
      /\ UNCHANGED <<queueing, known, orders, reserved, unacked, workers>>
  BY DEF Delay, DelayFails, Answer, Go, IInv, TypeOK
<1> DEFINE new == CopiesOf(q, n)
<1>3. /\ new \subseteq Messages
      /\ \A m \in new : m[1] = q
      /\ n # 0 => <<q, 1>> \in new
  BY CopiesFacts
<1> HIDE DEF new
<1>4. \A m \in new : ~Waits(m) /\ m \notin tried /\ orders[m] = 0
  BY <1>2, <1>3 DEF IInv, Published, Unsent
<1>5. \A m \in Messages : Waits(m)' <=> Waits(m) \/ m \in new
  BY <1>1, <1>2 DEF Waits, new
<1>6. TypeOK'
  BY <1>1, <1>2, <1>3 DEF IInv, TypeOK, workers, new
<1>7. OnePlace'
  BY <1>1, <1>2, <1>3, <1>4 DEF IInv, TypeOK, OnePlace, Waits, new
<1>8. Untried'
  BY <1>2, <1>4, <1>5 DEF IInv, Untried, workers
<1>9. Published'
  <2> SUFFICES ASSUME NEW m \in Messages, Waits(m) \/ m \in new \/ m \in tried
               PROVE  step'[m[1]] = "end" /\ reply'[m[1]] # "refused"
    BY <1>2, <1>5 DEF Published, workers
  <2>1. CASE m \in new
    BY <2>1, <1>1, <1>2, <1>3 DEF IInv, TypeOK
  <2>2. CASE m \notin new
    <3>1. step[m[1]] = "end" /\ reply[m[1]] # "refused" /\ m[1] # q
      BY <2>2, <1>2 DEF IInv, Published
    <3> QED BY <3>1, <1>2, MessageFacts DEF IInv, TypeOK
  <2> QED BY <2>1, <2>2
<1>10. Runs'
  BY <1>2 DEF IInv, Runs, workers
<1>11. Unsent'
  BY <1>2, MessageFacts DEF IInv, TypeOK, Unsent
<1>12. Replied'
  <2> SUFFICES ASSUME NEW r \in Requests
               PROVE  /\ step'[r] # "end" => reply'[r] = None
                      /\ reply'[r] = "queued" => Waits(<<r, 1>>)' \/ <<r, 1>> \in tried
    BY <1>2 DEF Replied, workers
  <2>1. CASE r = q
    BY <2>1, <1>1, <1>2, <1>3, <1>5, MessageFacts DEF IInv, TypeOK
  <2>2. CASE r # q
    BY <2>2, <1>2, <1>5, MessageFacts DEF IInv, TypeOK, Replied
  <2> QED BY <2>1, <2>2
<1> QED BY <1>6, <1>7, <1>8, <1>9, <1>10, <1>11, <1>12 DEF IInv

LEMMA CreatesOrder ==
    ASSUME IInv, NEW q \in Requests, CreateOrder(q)
    PROVE  IInv'
<1> DEFINE o == <<q, 1>>
<1>1. o \in Messages /\ o[1] = q
  BY MessageFacts
<1> HIDE DEF o
<1>2. /\ step[q] = "execute" /\ orders[o] = 0 /\ reply[q] = None
      /\ ~Waits(o) /\ o \notin tried
      /\ step' = [step EXCEPT ![q] = "wait"]
      /\ UNCHANGED <<queueing, known, reply, broker, workers>>
  BY <1>1 DEF CreateOrder, Go, IInv, Unsent, Published, Replied
<1>3. orders' = [orders EXCEPT ![o] = 1]
  BY <1>1, <1>2 DEF CreateOrder, Send, IInv, TypeOK, o
<1>4. \A m \in Messages : Waits(m)' <=> Waits(m)
  BY <1>2 DEF Waits, broker
<1>5. TypeOK'
  BY <1>1, <1>2, <1>3 DEF IInv, TypeOK, broker, workers
<1>6. OnePlace'
  BY <1>2 DEF IInv, OnePlace, broker
<1>7. Untried'
  BY <1>1, <1>2, <1>3, <1>4 DEF IInv, TypeOK, Untried, workers
<1>8. Published'
  BY <1>2, <1>4, MessageFacts DEF IInv, TypeOK, Published, workers
<1>9. Runs'
  BY <1>1, <1>2, <1>3, NoneAssumption DEF IInv, TypeOK, Runs, workers
<1>10. Unsent'
  BY <1>1, <1>2, <1>3, MessageFacts DEF IInv, TypeOK, Unsent
<1>11. Replied'
  BY <1>2, <1>4, MessageFacts DEF IInv, TypeOK, Replied, workers
<1> QED BY <1>5, <1>6, <1>7, <1>8, <1>9, <1>10, <1>11 DEF IInv

-----------------------------------------------------------------------------
(* The workers                                                             *)

LEMMA Fetches ==
    ASSUME IInv, NEW w \in Workers, NEW m \in Messages, Reserve(w, m)
    PROVE  IInv'
<1>1. \A x \in Messages : Waits(x)' <=> Waits(x)
  BY DEF Reserve, IInv, TypeOK, Waits
<1>2. TypeOK' /\ Runs'
  BY DEF Reserve, IInv, TypeOK, Runs, web, workers
<1>3. OnePlace'
  BY DEF Reserve, IInv, TypeOK, OnePlace
<1> QED BY <1>1, <1>2, <1>3, Moves DEF Reserve, workers

LEMMA Restores ==
    ASSUME IInv, NEW m \in Messages, Restore(m)
    PROVE  IInv'
<1>1. \A x \in Messages : Waits(x)' <=> Waits(x)
  BY DEF Restore, IInv, TypeOK, Waits
<1>2. TypeOK' /\ Runs'
  BY DEF Restore, IInv, TypeOK, Runs, web, workers
<1>3. OnePlace'
  BY DEF Restore, IInv, TypeOK, OnePlace
<1> QED BY <1>1, <1>2, <1>3, Moves DEF Restore, workers

LEMMA Dies ==
    ASSUME IInv, NEW w \in Workers, WorkerDies(w)
    PROVE  IInv'
<1>1. \A x \in Messages : Waits(x)' <=> Waits(x)
  BY DEF WorkerDies, IInv, TypeOK, Waits
<1>2. TypeOK'
  BY CrashAssumption DEF WorkerDies, IInv, TypeOK, web
<1>3. Runs'
  BY NoneAssumption DEF WorkerDies, IInv, TypeOK, Runs
<1>4. OnePlace'
  BY DEF WorkerDies, IInv, TypeOK, OnePlace
<1> QED BY <1>1, <1>2, <1>3, <1>4, Moves DEF WorkerDies

LEMMA Starts ==
    ASSUME IInv, NEW w \in Workers, WorkerStarts(w)
    PROVE  IInv'
<1>1. \A x \in Messages : Waits(x)' <=> Waits(x)
  BY DEF WorkerStarts, broker, Waits
<1>2. TypeOK' /\ Runs' /\ OnePlace'
  BY DEF WorkerStarts, broker, IInv, TypeOK, Runs, OnePlace, web
<1> QED BY <1>1, <1>2, Moves DEF WorkerStarts

LEMMA StartsTask ==
    ASSUME IInv, NEW w \in Workers, NEW m \in Messages, PlaceOrderTask(w, m)
    PROVE  IInv'
<1>1. /\ w \in up /\ m \in reserved[w] /\ running[w] = None
      /\ reserved' = [reserved EXCEPT ![w] = @ \ {m}]
      /\ running' = [running EXCEPT ![w] = m]
      /\ tried' = tried \cup {m}
      /\ UNCHANGED <<queueing, web, orders, queue, unacked, sent, up, crashes>>
  BY DEF PlaceOrderTask
<1>2. m \notin queue /\ m \notin unacked /\ \A v \in Workers : v # w => m \notin reserved[v]
  BY <1>1 DEF IInv, OnePlace
<1>3. Waits(m) /\ m \notin tried /\ orders[m] = 0
  BY <1>1 DEF IInv, Untried, Waits
<1>4. \A x \in Messages : Waits(x)' <=> Waits(x) /\ x # m
  BY <1>1, <1>2 DEF IInv, TypeOK, Waits
<1>5. TypeOK'
  BY <1>1 DEF IInv, TypeOK, web
<1>6. OnePlace'
  BY <1>1 DEF IInv, TypeOK, OnePlace
<1>7. Untried'
  BY <1>1, <1>4 DEF IInv, Untried
<1>8. Published'
  BY <1>1, <1>3, <1>4 DEF IInv, Published, web
<1>9. Runs'
  <2> SUFFICES ASSUME NEW v \in Workers, running'[v] # None
               PROVE  /\ v \in up
                      /\ running'[v] \in tried'
                      /\ v \notin sent => orders[running'[v]] = 0
                      /\ \A x \in Workers : running'[x] = running'[v] => x = v
    BY <1>1 DEF Runs
  <2>1. CASE v = w
    BY <2>1, <1>1, <1>3 DEF IInv, TypeOK, Runs
  <2>2. CASE v # w
    BY <2>2, <1>1, <1>3 DEF IInv, TypeOK, Runs
  <2> QED BY <2>1, <2>2
<1>10. Unsent' /\ Replied'
  BY <1>1, <1>4, MessageFacts DEF IInv, Unsent, Replied, web
<1> QED BY <1>5, <1>6, <1>7, <1>8, <1>9, <1>10 DEF IInv

LEMMA TaskOrders ==
    ASSUME IInv, NEW w \in Workers, ExecuteOrder(w)
    PROVE  IInv'
<1> DEFINE o == running[w]
<1>1. /\ o \in Messages /\ o \in tried /\ orders[o] = 0 /\ w \in up
      /\ \A v \in Workers : running[v] = o => v = w
      /\ step[o[1]] = "end"
      /\ orders' = [orders EXCEPT ![o] = @ + 1]
      /\ sent' = sent \cup {w}
      /\ UNCHANGED <<queueing, web, broker, running, up, crashes, tried>>
  BY NoneAssumption DEF ExecuteOrder, Send, IInv, TypeOK, Runs, Published
<1> HIDE DEF o
<1>2. orders' = [orders EXCEPT ![o] = 1]
  BY <1>1 DEF IInv, TypeOK
<1>3. \A x \in Messages : Waits(x)' <=> Waits(x)
  BY <1>1 DEF Waits, broker
<1>4. TypeOK'
  BY <1>1, <1>2 DEF IInv, TypeOK, web, broker
<1>5. OnePlace' /\ Published' /\ Replied'
  BY <1>1, <1>3, MessageFacts DEF IInv, OnePlace, Published, Replied, web, broker
<1>6. Untried'
  BY <1>1, <1>2, <1>3 DEF IInv, TypeOK, Untried
<1>7. Runs'
  <2> SUFFICES ASSUME NEW v \in Workers, running[v] # None
               PROVE  /\ v \in up
                      /\ running[v] \in tried
                      /\ v \notin sent' => orders'[running[v]] = 0
                      /\ \A x \in Workers : running[x] = running[v] => x = v
    BY <1>1 DEF Runs
  <2>1. v \notin sent' => running[v] # o
    BY <1>1
  <2> QED BY <2>1, <1>1, <1>2 DEF IInv, TypeOK, Runs
<1>8. Unsent'
  BY <1>1, <1>2 DEF IInv, TypeOK, Unsent, web
<1> QED BY <1>4, <1>5, <1>6, <1>7, <1>8 DEF IInv

LEMMA TaskIsOver ==
    ASSUME IInv, NEW w \in Workers, TaskEnds(w)
    PROVE  IInv'
<1>1. TypeOK'
  BY DEF IInv, TypeOK, TaskEnds, web, broker
<1>2. OnePlace' /\ \A x \in Messages : Waits(x)' <=> Waits(x)
  BY DEF IInv, OnePlace, TaskEnds, Waits, broker
<1>3. Runs'
  BY NoneAssumption DEF IInv, TypeOK, Runs, TaskEnds
<1> QED BY <1>1, <1>2, <1>3, Moves DEF TaskEnds

-----------------------------------------------------------------------------
LEMMA StutterStep == IInv /\ UNCHANGED vars => IInv'
  BY DEF IInv, TypeOK, OnePlace, Untried, Published, Runs, Unsent, Replied, Waits,
         vars, web, broker, workers

LEMMA NextIInv == IInv /\ [Next]_vars => IInv'
<1> SUFFICES ASSUME IInv, [Next]_vars PROVE IInv'
  OBVIOUS
<1>1. ASSUME NEW q \in Requests, WebStep(q) PROVE IInv'
  BY <1>1, WebChecks, Publishes, CreatesOrder DEF WebStep
<1>5. CASE Forget \/ WebRestarts
  BY <1>5, Forgets
<1>2. ASSUME NEW w \in Workers, WorkerStep(w) \/ WorkerDies(w) \/ WorkerStarts(w) PROVE IInv'
  <2>1. CASE \E m \in Messages : Reserve(w, m) \/ PlaceOrderTask(w, m)
    BY <2>1, Fetches, StartsTask
  <2>2. CASE ExecuteOrder(w) \/ TaskEnds(w)
    BY <2>2, TaskOrders, TaskIsOver
  <2>3. CASE WorkerDies(w) \/ WorkerStarts(w)
    BY <2>3, Dies, Starts
  <2> QED BY <1>2, <2>1, <2>2, <2>3 DEF WorkerStep
<1>3. ASSUME NEW m \in Messages, Restore(m) PROVE IInv'
  BY <1>3, Restores
<1>4. CASE Finished \/ UNCHANGED vars
  BY <1>4, StutterStep DEF Finished
<1> QED BY <1>1, <1>2, <1>3, <1>4, <1>5 DEF Next

THEOREM Invariance == Spec => []IInv
  BY InitIInv, NextIInv, PTL DEF Spec

-----------------------------------------------------------------------------
(* The refinement: what each step means at the desk.                       *)

\* A request is decided in the step that leaves the checks, and for good.
LEMMA DecisionKept ==
    ASSUME UNCHANGED <<known, orders>>,
           \A r \in Requests : step[r] = "checks" <=> step'[r] = "checks",
           \A r \in Requests : step[r] # "checks" => (reply[r] = "refused" <=> reply'[r] = "refused")
    PROVE  UNCHANGED <<known, Decision, orders>>
  BY DEF Decision

LEMMA DecisionMade ==
    ASSUME IInv, NEW q \in Requests, step[q] = "checks", NEW S, S # "checks", NEW R,
           step' = [step EXCEPT ![q] = S], reply' = [reply EXCEPT ![q] = R]
    PROVE  /\ Decision[q] = "open"
           /\ Decision' = [Decision EXCEPT ![q] = IF R = "refused" THEN "refused" ELSE "accepted"]
  BY DEF IInv, TypeOK, Decision

LEMMA RefusesAtDesk ==
    ASSUME IInv, NEW q \in Requests, Refuse(q) \/ RefuseLate(q)
    PROVE  Desk!Refuse(q)
<1>1. /\ Decision[q] = "open"
      /\ Decision' = [Decision EXCEPT ![q] = "refused"]
  BY DecisionMade DEF Refuse, RefuseLate, Answer, Go
<1>2. orders' = orders /\ known' \in {known, known \cup {q[1]}}
  BY DEF Refuse, RefuseLate
<1> QED BY <1>1, <1>2 DEF Desk!Refuse, Desk!Decide

LEMMA AcceptsAtDesk ==
    ASSUME IInv, NEW q \in Requests, Accept(q)
    PROVE  Desk!Accept(q)
<1>1. reply[q] # "refused" /\ reply' = [reply EXCEPT ![q] = reply[q]]
  BY NoneAssumption DEF IInv, TypeOK, Replied, Accept
<1>2. /\ step[q] = "checks"
      /\ \E s \in {"publish", "execute"} : step' = [step EXCEPT ![q] = s]
  BY DEF Accept, Go
<1>3. /\ Decision[q] = "open"
      /\ Decision' = [Decision EXCEPT ![q] = "accepted"]
  BY <1>1, <1>2, DecisionMade
<1> QED BY <1>3 DEF Accept, Desk!Accept, Desk!Decide

LEMMA OrdersAtDesk ==
    ASSUME IInv, NEW m \in Messages, step[m[1]] # "checks", reply[m[1]] # "refused",
           orders[m] = 0, Send(m), known' = known, Decision' = Decision
    PROVE  Desk!Order(m)
<1>1. Decision[m[1]] = "accepted"
  BY MessageFacts DEF Decision
<1>2. orders' = [orders EXCEPT ![m] = 1]
  BY DEF Send, IInv, TypeOK
<1> QED BY <1>1, <1>2 DEF Desk!Order

\* The steps that the sender of alerts does not see.
LEMMA AnswersUnseen ==
    ASSUME IInv, NEW q \in Requests,
           Delay(q) \/ DelayFails(q) \/ OrderSucceeds(q) \/ OrderFails(q)
    PROVE  UNCHANGED <<known, Decision, orders>>
<1>1. UNCHANGED <<known, orders>>
  BY DEF Delay, DelayFails, OrderSucceeds, OrderFails
<1>2. /\ step[q] # "checks" /\ step[q] # "end"
      /\ step' = [step EXCEPT ![q] = "end"]
      /\ \E r \in {"queued", "success", "error"} : reply' = [reply EXCEPT ![q] = r]
  BY DEF Delay, DelayFails, OrderSucceeds, OrderFails, Answer, Go
<1>3. reply[q] # "refused"
  BY <1>2, NoneAssumption DEF IInv, Replied
<1>4. \A r \in Requests : step[r] = "checks" <=> step'[r] = "checks"
  BY <1>2 DEF IInv, TypeOK
<1>5. \A r \in Requests : reply[r] = "refused" <=> reply'[r] = "refused"
  BY <1>2, <1>3 DEF IInv, TypeOK
<1> QED BY <1>1, <1>4, <1>5, DecisionKept

LEMMA WorkersUnseen ==
    ASSUME UNCHANGED <<web, orders>>
    PROVE  UNCHANGED <<known, Decision, orders>>
  BY DEF web, Decision

LEMMA WebStepAtDesk ==
    ASSUME IInv, NEW q \in Requests, WebStep(q)
    PROVE  [Desk!Next]_<<known, Decision, orders>>
<1>1. CASE Refuse(q) \/ RefuseLate(q) \/ Accept(q)
  BY <1>1, RefusesAtDesk, AcceptsAtDesk DEF Desk!Next, Desk!Requests, Requests
<1>2. CASE Delay(q) \/ DelayFails(q) \/ OrderSucceeds(q) \/ OrderFails(q)
  BY <1>2, AnswersUnseen
<1>3. CASE CreateOrder(q)
  <2> DEFINE o == <<q, 1>>
  <2>1. o \in Messages /\ o[1] = q
    BY MessageFacts
  <2> HIDE DEF o
  <2>2. /\ Send(o) /\ known' = known /\ reply' = reply
        /\ step[q] = "execute" /\ step' = [step EXCEPT ![q] = "wait"]
    BY <1>3 DEF CreateOrder, Go, o
  <2>3. orders[o] = 0 /\ reply[q] # "refused"
    BY <2>1, <2>2, NoneAssumption DEF IInv, Unsent, Replied
  <2>4. Decision' = Decision
    BY <2>2 DEF IInv, TypeOK, Decision
  <2>5. Desk!Order(o)
    BY <2>1, <2>2, <2>3, <2>4, OrdersAtDesk
  <2> QED BY <2>1, <2>5 DEF Desk!Next, Desk!Messages, Desk!Requests, Messages, Requests
<1> QED BY <1>1, <1>2, <1>3 DEF WebStep

LEMMA WorkerStepAtDesk ==
    ASSUME IInv, NEW w \in Workers, WorkerStep(w)
    PROVE  [Desk!Next]_<<known, Decision, orders>>
<1>1. CASE ExecuteOrder(w)
  <2> DEFINE o == running[w]
  <2>1. /\ o \in Messages /\ orders[o] = 0 /\ step[o[1]] = "end" /\ reply[o[1]] # "refused"
        /\ Send(o)
    BY <1>1, NoneAssumption DEF ExecuteOrder, IInv, TypeOK, Runs, Published
  <2> HIDE DEF o
  <2>2. known' = known /\ Decision' = Decision
    BY <1>1 DEF ExecuteOrder, web, Decision
  <2>3. Desk!Order(o)
    BY <2>1, <2>2, OrdersAtDesk
  <2> QED BY <2>1, <2>3 DEF Desk!Next, Desk!Messages, Desk!Requests, Messages, Requests
<1>2. CASE ~ExecuteOrder(w)
  BY <1>2, WorkersUnseen DEF WorkerStep, Reserve, PlaceOrderTask, TaskEnds
<1> QED BY <1>1, <1>2

LEMMA NextAtDesk ==
    ASSUME IInv, [Next]_vars
    PROVE  [Desk!Next]_<<known, Decision, orders>>
<1>1. ASSUME NEW q \in Requests, WebStep(q) PROVE [Desk!Next]_<<known, Decision, orders>>
  BY <1>1, WebStepAtDesk
<1>2. ASSUME NEW w \in Workers, WorkerStep(w) PROVE [Desk!Next]_<<known, Decision, orders>>
  BY <1>2, WorkerStepAtDesk
<1>3. ASSUME NEW w \in Workers, WorkerDies(w) \/ WorkerStarts(w)
      PROVE  UNCHANGED <<known, Decision, orders>>
  BY <1>3, WorkersUnseen DEF WorkerDies, WorkerStarts
<1>4. ASSUME NEW m \in Messages, Restore(m) PROVE UNCHANGED <<known, Decision, orders>>
  BY <1>4, WorkersUnseen DEF Restore
<1>5. CASE Forget \/ WebRestarts
  <2>1. known' \in SUBSET known /\ orders' = orders
    BY <1>5 DEF Forget, WebRestarts
  <2>2. /\ \A q \in Requests : step[q] = "checks" <=> step'[q] = "checks"
        /\ reply' = reply
    BY <1>5 DEF Forget, WebRestarts
  <2>3. Decision' = Decision
    BY <2>2 DEF Decision
  <2> QED BY <2>1, <2>3 DEF Desk!Next, Desk!Forget
<1>6. CASE Finished \/ UNCHANGED vars
  BY <1>6, WorkersUnseen DEF Finished, vars
<1> QED BY <1>1, <1>2, <1>3, <1>4, <1>5, <1>6 DEF Next

LEMMA InitAtDesk == Init => Desk!Init
  BY DEF Init, Decision, Desk!Init, Desk!Requests, Desk!Messages, Requests, Messages

-----------------------------------------------------------------------------
\* The service keeps its variables' types.
THEOREM TypeCorrect == Spec => []TypeOK
<1>1. IInv => TypeOK
  BY DEF IInv
<1> QED BY <1>1, Invariance, PTL

\* What is queued is in exactly one place until its task is started, through
\* any number of crashes.
THEOREM QueuedStays == Spec => []NothingVanishes
<1>1. IInv => NothingVanishes
  <2> SUFFICES ASSUME IInv PROVE NothingVanishes
    OBVIOUS
  <2>1. \A m \in Messages : m \in Waiting <=> Waits(m)
    BY DEF Waiting, Waits
  <2>2. \A q \in Requests : reply[q] = "queued" => <<q, 1>> \in Waiting \cup tried
    BY <2>1, MessageFacts DEF IInv, Replied
  <2>3. ASSUME NEW m \in Waiting
        PROVE  /\ m \notin tried
               /\ Cardinality({w \in Workers : m \in reserved[w]})
                    + Cardinality({m} \cap queue) + Cardinality({m} \cap unacked) = 1
    <3>1. m \in Messages
      BY DEF Waiting, IInv, TypeOK
    <3>2. Waits(m) /\ m \notin tried
      BY <2>1, <3>1 DEF IInv, Untried
    <3> DEFINE holders == {w \in Workers : m \in reserved[w]}
               queued == {m} \cap queue
               lost == {m} \cap unacked
    <3> HIDE DEF holders, queued, lost
    <3>3. Cardinality({m}) = 1 /\ Cardinality({}) = 0
      BY FS_Singleton, FS_EmptySet
    <3> SUFFICES Cardinality(holders) + Cardinality(queued) + Cardinality(lost) = 1
      BY <3>2 DEF holders, queued, lost
    <3>4. CASE m \in queue
      <4>1. queued = {m} /\ lost = {} /\ holders = {}
        BY <3>4 DEF IInv, OnePlace, holders, queued, lost
      <4> QED BY <3>3, <4>1
    <3>5. CASE m \in unacked
      <4>1. lost = {m} /\ queued = {} /\ holders = {}
        BY <3>5 DEF IInv, OnePlace, holders, queued, lost
      <4> QED BY <3>3, <4>1
    <3>6. CASE \E w \in Workers : m \in reserved[w]
      <4>1. PICK w \in Workers : m \in reserved[w]
        BY <3>6
      <4>2. lost = {} /\ queued = {} /\ holders = {w}
        BY <4>1 DEF IInv, OnePlace, holders, queued, lost
      <4>3. Cardinality({w}) = 1
        BY FS_Singleton
      <4> QED BY <3>3, <4>2, <4>3
    <3> QED BY <3>2, <3>4, <3>5, <3>6 DEF Waits
  <2> QED BY <2>2, <2>3 DEF NothingVanishes
<1> QED BY <1>1, Invariance, PTL

\* What the sender sees is AlertDesk's: one request for an identifier at a
\* time, one order for each message of an accepted request.
THEOREM ServiceImplementsDesk == Spec => ImplementsAlertDesk
<1>1. Init => Desk!Init
  BY InitAtDesk
<1>2. IInv /\ [Next]_vars => [Desk!Next]_<<known, Decision, orders>>
  BY NextAtDesk
<1> QED BY <1>1, <1>2, Invariance, PTL DEF Spec, ImplementsAlertDesk, Desk!Spec
=============================================================================
