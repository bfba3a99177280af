---------------------------- MODULE OrderExecution ----------------------------
(***************************************************************************)
(* The block of webhook() (app/api/routes.py) that turns an authenticated  *)
(* payload into an order: get_exchange, load_markets, create_market_order, *)
(* and release in `finally'.                                               *)
(*                                                                         *)
(* It extends SessionPool, whose actions are conjoined with the steps of   *)
(* the block.  The exchange is external: it fills or refuses the order it  *)
(* was sent, or never sees it, and its answer can come after the client    *)
(* has given up waiting.                                                   *)
(***************************************************************************)
EXTENDS SessionPool

VARIABLES
    step,       \* the await (or the line) each task is at
    outcome,    \* what leaves the try block: an order or an exception
    reply,      \* what the caller gets, None before it is sent
    order       \* the order of each task, as the exchange knows it

execVars == <<vars, step, outcome, reply, order>>

Errors == {"ExchangeError", "NetworkError", "ValueError", "Exception"}
Refusals == {"unsupported", "no credentials", "not initialized"}
Outcomes == {"order"} \cup Errors \cup Refusals
Replies == {"success", "400", "401", "422", "500", "502"}

ASSUME OutcomeAssumption == None \notin Outcomes /\ None \notin Replies

\* Mutant: one except clause for both families of CCXT errors, as in tasks.py.
OneClause(o) ==
    CASE o = "order" -> "success"
      [] o \in {"ExchangeError", "NetworkError", "unsupported"} -> "400"
      [] o = "ValueError" -> "422"
      [] o = "no credentials" -> "401"
      [] OTHER -> "500"

\* The except clauses of webhook(), in their order.
Status(o) ==
    CASE o = "order" -> "success"
      [] o = "ExchangeError" -> "400"
      [] o = "NetworkError" -> "502"
      [] o = "ValueError" -> "422"
      [] o = "unsupported" -> "400"
      [] o = "no credentials" -> "401"
      [] OTHER -> "500"

ExecTypeOK ==
    /\ TypeOK
    /\ step \in [Tasks -> {"get", "markets", "create", "wait", "release", "close", "end"}]
    /\ outcome \in [Tasks -> Outcomes \cup {None}]
    /\ reply \in [Tasks -> Replies \cup {None}]
    /\ order \in [Tasks -> {"none", "sent", "filled", "refused", "lost"}]

ExecInit ==
    /\ Init
    /\ step = [t \in Tasks |-> "get"]
    /\ outcome = [t \in Tasks |-> None]
    /\ reply = [t \in Tasks |-> None]
    /\ order = [t \in Tasks |-> "none"]

\* The try block is left with o; `finally' comes next.
Leave(t, o) ==
    /\ outcome' = [outcome EXCEPT ![t] = o]
    /\ step' = [step EXCEPT ![t] = "release"]

Answer(t, r) ==
    /\ reply' = [reply EXCEPT ![t] = r]
    /\ step' = [step EXCEPT ![t] = "end"]

Goto(t, s) == step' = [step EXCEPT ![t] = s]

-----------------------------------------------------------------------------
(* get_exchange                                                            *)

\* Unknown exchange, or no credentials: the pool is not reached, and `finally'
\* finds no client.
GetRefused(t) ==
    /\ step[t] = "get"
    /\ \E o \in {"unsupported", "no credentials"} :
          /\ outcome' = [outcome EXCEPT ![t] = o]
          /\ Answer(t, Status(o))
    /\ UNCHANGED <<vars, order>>

GetExchange(t, k) ==
    /\ step[t] = "get"
    /\ AcquirePooled(t, k) \/ AcquireFresh(t, k)
    /\ Goto(t, "markets")
    /\ UNCHANGED <<outcome, reply, order>>

GetFails(t, k) ==
    /\ step[t] = "get"
    /\ AcquireFails(t, k)
    /\ outcome' = [outcome EXCEPT ![t] = "not initialized"]
    /\ Answer(t, Status("not initialized"))
    /\ UNCHANGED order

-----------------------------------------------------------------------------
(* load_markets and create_market_order                                    *)

LoadMarkets(t) ==
    /\ step[t] = "markets"
    /\ Goto(t, "create")
    /\ UNCHANGED <<vars, outcome, reply, order>>

\* Mutant: an early return, without `finally'.
AnswersEarly(t) ==
    /\ step[t] \in {"markets", "create"}
    /\ \E e \in Errors : /\ outcome' = [outcome EXCEPT ![t] = e]
                         /\ Answer(t, Status(e))
    /\ UNCHANGED <<vars, order>>

\* load_markets raises, or create_market_order does before anything is sent.
FailsEarly(t) ==
    /\ step[t] \in {"markets", "create"}
    /\ \E e \in Errors : Leave(t, e)
    /\ UNCHANGED <<vars, reply, order>>

SendOrder(t) ==
    /\ step[t] = "create"
    /\ order' = [order EXCEPT ![t] = "sent"]
    /\ Goto(t, "wait")
    /\ UNCHANGED <<vars, outcome, reply>>

\* The exchange, which may be late, refuse, or never get the message.
ExchangeDecides(t) ==
    /\ order[t] = "sent"
    /\ \E s \in {"filled", "refused", "lost"} : order' = [order EXCEPT ![t] = s]
    /\ UNCHANGED <<vars, step, outcome, reply>>

OrderReturns(t) ==
    /\ step[t] = "wait"
    /\ order[t] = "filled"
    /\ Leave(t, "order")
    /\ UNCHANGED <<vars, reply, order>>

OrderRefused(t) ==
    /\ step[t] = "wait"
    /\ order[t] = "refused"
    /\ Leave(t, "ExchangeError")
    /\ UNCHANGED <<vars, reply, order>>

\* Mutants: a failed attempt is retried (place_market_order); the except
\* clause releases the client and so does `finally'; no timeout is set.
RetriesOrder(t) ==
    /\ step[t] = "wait"
    /\ Goto(t, "create")
    /\ UNCHANGED <<vars, outcome, reply, order>>
ReleasesTwice(t) ==
    /\ step[t] = "wait"
    /\ ReleaseToPool(t)
    /\ Leave(t, "NetworkError")
    /\ UNCHANGED <<reply, order>>
NeverTimesOut(t) == FALSE /\ UNCHANGED execVars

\* The request times out or the connection breaks, whatever became of the order.
OrderTimesOut(t) ==
    /\ step[t] = "wait"
    /\ Leave(t, "NetworkError")
    /\ UNCHANGED <<vars, reply, order>>

\* What comes back, from the exchange or from a gateway before it, cannot be
\* read, whatever became of the order.  Errors of JSON, of numbers and of
\* character sets are ValueErrors; others are of no family.
OrderUnreadable(t) ==
    /\ step[t] = "wait"
    /\ \E e \in {"ValueError", "Exception"} : Leave(t, e)
    /\ UNCHANGED <<vars, reply, order>>

-----------------------------------------------------------------------------
(* finally: release_exchange                                               *)

FinallyPooled(t) ==
    /\ step[t] = "release"
    /\ ReleaseToPool(t)
    /\ Answer(t, Status(outcome[t]))
    /\ UNCHANGED <<outcome, order>>

FinallyFull(t) ==
    /\ step[t] = "release"
    /\ ReleaseFull(t)
    /\ Goto(t, "close")
    /\ UNCHANGED <<outcome, reply, order>>

FinallyReturns(t) ==
    /\ step[t] = "close"
    /\ CloseReturns(t)
    /\ Answer(t, Status(outcome[t]))
    /\ UNCHANGED <<outcome, order>>

\* An exception raised in `finally' replaces the result of the try block.
FinallyRaises(t) ==
    /\ step[t] = "close"
    /\ CloseRaises(t)
    /\ Answer(t, "500")
    /\ UNCHANGED <<outcome, order>>

-----------------------------------------------------------------------------
TaskStep(t) ==
    \/ GetRefused(t)
    \/ \E k \in Keys : GetExchange(t, k) \/ GetFails(t, k)
    \/ LoadMarkets(t) \/ FailsEarly(t) \/ SendOrder(t)
    \/ OrderReturns(t) \/ OrderRefused(t) \/ OrderTimesOut(t)
    \/ FinallyPooled(t) \/ FinallyFull(t) \/ FinallyReturns(t) \/ FinallyRaises(t)

\* Steps that wait for something from outside, which may never come.
ExchangeStep(t) == ExchangeDecides(t) \/ OrderUnreadable(t)

AllAnswered ==
    /\ \A t \in Tasks : step[t] = "end" /\ order[t] # "sent"
    /\ UNCHANGED execVars

ExecNext == (\E t \in Tasks : TaskStep(t) \/ ExchangeStep(t)) \/ AllAnswered

\* The event loop runs every task that can run, and every await ends: ccxt
\* gives each HTTP request a timeout.  Nothing is assumed of the exchange:
\* neither a decision nor an answer, readable or not, has to come.
ExecSpec == ExecInit /\ [][ExecNext]_execVars /\ \A t \in Tasks : WF_execVars(TaskStep(t))
-----------------------------------------------------------------------------
(* Properties                                                              *)

\* From get_exchange to `finally' a task has an open client of its own,
\* created with the credentials of its payload: no other task can be speaking
\* to the exchange through it, although every await lets other tasks run.
OwnClient ==
    \A t \in Tasks :
        step[t] \in {"markets", "create", "wait", "release"} =>
            /\ held[t] \in open
            /\ poolKey[held[t]] = wanted[t]
            /\ \A u \in Tasks : held[u] = held[t] => u = t

\* Whichever line raised, no answer leaves while its task has a client.
NothingKept == \A t \in Tasks : reply[t] # None => held[t] = None

\* What the caller may conclude: "success" means that the order was filled,
\* and a 400 or 401 that no order exists nor will exist, even if the exchange
\* is slow.  Nothing else tells: the clauses that answer 422, 500 and 502 are
\* also reached from create_market_order with an order that may be filled.
TruthfulReply ==
    \A t \in Tasks :
        /\ reply[t] = "success" => order[t] = "filled"
        /\ reply[t] \in {"400", "401"} => order[t] \in {"none", "refused"}

\* A payload is sent to the exchange once: neither a timeout nor a late answer
\* leads to a second order.
NoSecondOrder ==
    [][\A t \in Tasks : step[t] = "create" /\ step'[t] = "wait" => order[t] = "none"]_execVars

\* The reply is the "JSON response describing the execution status" of the
\* docstring of webhook(): an order the exchange confirmed is reported.
ConfirmedIsReported ==
    \A t \in Tasks : outcome[t] = "order" /\ reply[t] # None => reply[t] = "success"
=============================================================================
