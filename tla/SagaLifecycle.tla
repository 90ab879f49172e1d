---------------------------- MODULE SagaLifecycle ---------------------------
(***************************************************************************)
(* What SagaOrchestrator promises to whoever watches saga_instances and    *)
(* the outbox, as the transition helpers of entities/saga.ts put it: a     *)
(* saga is PENDING, then RUNNING, then COMPLETED, or COMPENSATING and then *)
(* FAILED; an order is announced paid by a running saga and failed by a    *)
(* compensating one; a saga is COMPLETED only after the announcement.      *)
(***************************************************************************)
EXTENDS Sequences

CONSTANTS Orders, SagaIds   \* a saga id is a pair <<order, run>>
VARIABLES sagas, outbox
vars == <<sagas, outbox>>

Init == /\ sagas  = [s \in SagaIds |-> "NONE"]
        /\ outbox = [o \in Orders |-> << >>]

move(s, from, to) == /\ sagas[s] = from
                     /\ sagas' = [sagas EXCEPT ![s] = to]
                     /\ UNCHANGED outbox

announce(o, event) == /\ outbox' = [outbox EXCEPT ![o] = Append(@, event)]
                      /\ UNCHANGED sagas

announced(o, event) == \E i \in DOMAIN outbox[o] : outbox[o][i] = event

Place(o)     == outbox[o] = << >> /\ announce(o, "order.created")
Create(s)    == outbox[s[1]] # << >> /\ move(s, "NONE", "PENDING")
Start(s)     == move(s, "PENDING", "RUNNING")
Pay(s)       == sagas[s] = "RUNNING" /\ announce(s[1], "order.paid")
Complete(s)  == announced(s[1], "order.paid") /\ move(s, "RUNNING", "COMPLETED")
GiveUp(s)    == move(s, "RUNNING", "COMPENSATING")
Cancel(s)    == sagas[s] = "COMPENSATING" /\ announce(s[1], "order.failed")
Fail(s)      == move(s, "COMPENSATING", "FAILED")

Next == \/ \E o \in Orders : Place(o)
        \/ \E s \in SagaIds : \/ Create(s) \/ Start(s) \/ Pay(s) \/ Complete(s)
                              \/ GiveUp(s) \/ Cancel(s) \/ Fail(s)

Spec == Init /\ [][Next]_vars
=============================================================================
