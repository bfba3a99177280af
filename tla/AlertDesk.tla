------------------------------ MODULE AlertDesk ------------------------------
(***************************************************************************)
(* What the webhook promises to the sender of alerts, with neither queue   *)
(* nor workers.  An alert may be delivered several times; while its        *)
(* identifier is known no delivery of it is accepted.  Only what was       *)
(* accepted is ordered, and each copy of it that the broker took once.     *)
(***************************************************************************)
EXTENDS Naturals

CONSTANTS
    Alerts,     \* identifiers: signatures and nonces
    Deliveries, \* requests per alert
    Copies      \* copies of a message that one publication may leave

VARIABLES
    known,      \* the identifiers that would be refused
    decision,   \* of each request
    orders      \* orders sent to the exchange for each message

Requests == Alerts \X (1..Deliveries)
Messages == Requests \X (1..Copies)

Init ==
    /\ known = {}
    /\ decision = [q \in Requests |-> "open"]
    /\ orders = [m \in Messages |-> 0]

Decide(q, d) ==
    /\ decision[q] = "open"
    /\ decision' = [decision EXCEPT ![q] = d]
    /\ UNCHANGED orders

Accept(q) ==
    /\ q[1] \notin known
    /\ known' = known \cup {q[1]}
    /\ Decide(q, "accepted")

\* A refusal may have used the identifier up.
Refuse(q) ==
    /\ known' \in {known, known \cup {q[1]}}
    /\ Decide(q, "refused")

Order(m) ==
    /\ decision[m[1]] = "accepted"
    /\ orders[m] = 0
    /\ orders' = [orders EXCEPT ![m] = 1]
    /\ UNCHANGED <<known, decision>>

Forget ==
    /\ known' \in SUBSET known
    /\ UNCHANGED <<decision, orders>>

Next ==
    \/ \E q \in Requests : Accept(q) \/ Refuse(q)
    \/ \E m \in Messages : Order(m)
    \/ Forget

Spec == Init /\ [][Next]_<<known, decision, orders>>
=============================================================================
