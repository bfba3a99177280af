--------------------------- MODULE MCOrderExecution ---------------------------
(***************************************************************************)
(* OrderExecution on a small instance, with the history variable of        *)
(* MCSessionPool.  Some tasks execute orders; the others stand for any     *)
(* further user of the pool, and only acquire a client and release it.     *)
(***************************************************************************)
EXTENDS OrderExecution, MCSessionPool

CONSTANT Orders     \* the tasks that execute orders

ASSUME OrdersAssumption == Orders \subseteq Tasks

blockVars == <<step, outcome, reply, order>>

MCExecInit == ExecInit /\ peak = [k \in Keys |-> 0]

Borrow(t) ==
    /\ (\E k \in Keys : Acquire(t, k)) \/ Release(t) \/ CloseReturns(t) \/ CloseRaises(t)
    /\ UNCHANGED blockVars

AllEnded ==
    /\ \A t \in Orders : step[t] = "end" /\ order[t] # "sent"
    /\ \A t \in Tasks \ Orders : pc[t] \in {"done", "raised"}
    /\ UNCHANGED execVars

MCExecNext ==
    /\ \/ \E t \in Orders : TaskStep(t) \/ ExchangeStep(t)
       \/ \E t \in Tasks \ Orders : Borrow(t)
       \/ AllEnded
    /\ peak' = [k \in Keys |-> Largest(peak[k], Lent(k)')]

\* The fairness of ExecSpec.  Nothing is assumed of the exchange, nor of the
\* other users of the pool.
MCExecSpec ==
    /\ MCExecInit /\ [][MCExecNext]_<<execVars, peak>>
    /\ \A t \in Orders : WF_execVars(TaskStep(t))

\* Every request is answered, even if the exchange never answers the task.
Answered == \A t \in Orders : <>(reply[t] # None)
=============================================================================
