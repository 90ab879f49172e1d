-------------------------- MODULE SagaOrchestrator --------------------------
(***************************************************************************)
(* The life of an order: OrderService.createOrder writes it, a BullMQ job  *)
(* of the queue saga-execution carries it, and every run of that job calls *)
(* SagaOrchestrator.startSaga, which reserves the items, charges the       *)
(* customer, marks the order PAID, or compensates.  POST                   *)
(* /admin/v1/sagas/:id/compensate calls compensate from outside the job.   *)
(*                                                                         *)
(* Covered: every await of startSaga and compensate is a step, so that     *)
(* runs of several orders, two runs of one order and admin calls           *)
(* interleave; a process dies between any two steps; a statement fails and *)
(* the job is retried; a job is declared stalled with its run dead or      *)
(* still alive; a charge is captured and its answer lost; the queue        *)
(* refuses the job.                                                        *)
(* Not covered here: the advisory locks themselves (a lock may be refused, *)
(* nothing relies on one being held: the UPDATE of reserve is atomic),     *)
(* the circuit breaker's counters (an open breaker is a declined charge),  *)
(* delivery of the outbox, order amounts (a charge is full, a refund is    *)
(* full or zero), and POST and DELETE of /admin/v1/dlq with                *)
(* ?queue=saga-execution, by which an administrator retries or removes a   *)
(* failed job.                                                             *)
(***************************************************************************)
EXTENDS Sequences, FiniteSets, SagaEntities

CONSTANTS
  Orders,        \* the orders customers may place
  Skus,          \* stock keeping units, numbers in the order localeCompare sorts them
  Listed,        \* the SKUs that have a row in inventory
  Qty,           \* Qty[o][k]: units of k in order o, 0 when k is not one of its items
  InitStock,     \* units available when the system starts
  JobAttempts,   \* attempts of a saga-execution job (3)
  MaxStalled,    \* maxStalledCount of the workers (2)
  ChargeRetries, \* maxAttempts of the retry policy around a charge (3)
  Admins,        \* callers of the compensate route; one call of each per saga
  Contention,    \* whether an advisory lock may be refused
  LiveStalls,    \* whether a job may stall while its run is still executing
  MaxFaults,     \* bound on failed statements, lost answers, refused jobs
  MaxCrashes     \* bound on runs and requests that die with their process

Items(o) == {k \in Skus : Qty[o][k] > 0}

ASSUME SkusAssumption  == Skus \subseteq Nat /\ Listed \subseteq Skus
ASSUME QtyAssumption   == Qty \in [Orders -> [Skus -> Nat]]
ASSUME ItemsAssumption == \A o \in Orders : Items(o) # {}
ASSUME StockAssumption == InitStock \in [Skus -> Nat]
ASSUME JobAssumption   == /\ JobAttempts \in Nat \ {0}
                          /\ MaxStalled \in Nat
                          /\ ChargeRetries \in Nat
ASSUME AdminAssumption == "worker" \notin Admins
ASSUME FlagAssumption  == Contention \in BOOLEAN /\ LiveStalls \in BOOLEAN
ASSUME BudgetAssumption == MaxFaults \in Nat /\ MaxCrashes \in Nat

(* Each run of a job calls startSaga, which creates a saga of its own: the *)
(* saga <<o, n>> is the one made by run n of the job of order o.  A run    *)
(* that ends without completing the job costs an attempt or a stall, which *)
(* bounds their number.                                                    *)
Runs    == 1 .. JobAttempts + MaxStalled
SagaIds == Orders \X Runs

(* A flow <<s, a>> executes on saga s: the worker's run, or an admin call. *)
Actors == {"worker"} \cup Admins
Flows  == SagaIds \X Actors
Worker(o, n) == <<<<o, n>>, "worker">>

-----------------------------------------------------------------------------
VARIABLES
  orders,   \* orders.status
  outbox,   \* event types of an order's outbox rows, in the order of their commits
  sagas,    \* saga_instances.status
  steps,    \* saga_steps, one row per saga and step_order
  stock,    \* inventory
  held,     \* history: the items of a saga reserved and not released by its worker
  charges,  \* gateway: how often a saga's order has been charged
  refunds,  \* gateway: the kinds of refund it has accepted for a saga
  pc,       \* where a flow is
  left,     \* items its loop has still to reserve or release
  snap,     \* what getSteps returned to it
  tries,    \* retries its charge has used
  api,      \* where createOrder is
  job,      \* the saga-execution job of an order
  faults, crashes  \* how much of the two bounds is used

rows   == <<orders, outbox, sagas, steps>>
goods  == <<stock, held>>
money  == <<charges, refunds>>
locals == <<left, snap, tries>>
queue  == <<api, job>>
budget == <<faults, crashes>>
vars   == <<rows, goods, money, pc, locals, queue, budget>>

EventTypes == {"order.created", "order.paid", "order.failed"}
JobRecord  == [state    : {"none", "waiting", "active", "completed", "failed"},
               attempts : Nat, stalls : 0 .. MaxStalled, run : {0} \cup Runs]

(* The statement each flow is about to execute.                            *)
Startup == {"create", "start"}
Forward == {"begin0", "reserve", "end0", "fail0", "begin1", "charge", "end1",
            "fail1", "begin2", "begin3", "confirm", "end2", "end3", "complete"}
Backward == {"compensate", "getSteps", "refund", "markRefunded",
             "markUnrefunded", "release", "markReleased", "markUnreleased",
             "cancel", "finish"}
Ended == {"idle", "done", "dead"}
Live  == Startup \cup Forward \cup Backward \cup {"return"}

NoSteps == [i \in StepIds |-> NoStep]
NoJob   == [state |-> "none", attempts |-> 0, stalls |-> 0, run |-> 0]

TypeOK ==
  /\ orders  \in [Orders -> OrderStatus \cup {NoRow}]
  /\ outbox  \in [Orders -> Seq(EventTypes)]
  /\ sagas   \in [SagaIds -> SagaStatus \cup {NoRow}]
  /\ steps   \in [SagaIds -> [StepIds -> StepRow]]
  /\ stock   \in [Skus -> StockRow]
  /\ held    \in [SagaIds -> SUBSET Skus]
  /\ charges \in [SagaIds -> Nat]
  /\ refunds \in [SagaIds -> SUBSET {"full", "zero"}]
  /\ pc      \in [Flows -> Live \cup Ended]
  /\ left    \in [Flows -> SUBSET Skus]
  /\ snap    \in [Flows -> [StepIds -> StepRow]]
  /\ tries   \in [Flows -> 0 .. ChargeRetries]
  /\ api     \in [Orders -> {"idle", "enqueue", "done"}]
  /\ job     \in [Orders -> JobRecord]
  /\ faults  \in 0 .. MaxFaults
  /\ crashes \in 0 .. MaxCrashes

Init ==
  /\ orders  = [o \in Orders |-> NoRow]
  /\ outbox  = [o \in Orders |-> << >>]
  /\ sagas   = [s \in SagaIds |-> NoRow]
  /\ steps   = [s \in SagaIds |-> NoSteps]
  /\ stock   = [k \in Skus |-> [available |-> InitStock[k], reserved |-> 0]]
  /\ held    = [s \in SagaIds |-> {}]
  /\ charges = [s \in SagaIds |-> 0]
  /\ refunds = [s \in SagaIds |-> {}]
  /\ pc      = [p \in Flows |-> "idle"]
  /\ left    = [p \in Flows |-> {}]
  /\ snap    = [p \in Flows |-> NoSteps]
  /\ tries   = [p \in Flows |-> 0]
  /\ api     = [o \in Orders |-> "idle"]
  /\ job     = [o \in Orders |-> NoJob]
  /\ faults = 0 /\ crashes = 0

-----------------------------------------------------------------------------
(* Moving a flow.                                                          *)
Goto(p, to) == pc' = [pc EXCEPT ![p] = to]

EndFlow(p, to) ==
  /\ Goto(p, to)
  /\ left'  = [left EXCEPT ![p] = {}]
  /\ snap'  = [snap EXCEPT ![p] = NoSteps]
  /\ tries' = [tries EXCEPT ![p] = 0]

-----------------------------------------------------------------------------
(* OrderService.createOrder: one transaction for the order and its         *)
(* order.created event, then queue.add.  A failed or lost add leaves no    *)
(* job; the handler answers 201 all the same.                              *)
CreateOrder(o) ==
  /\ api[o] = "idle"
  /\ orders' = [orders EXCEPT ![o] = "PENDING"]
  /\ outbox' = [outbox EXCEPT ![o] = Append(@, "order.created")]
  /\ api' = [api EXCEPT ![o] = "enqueue"]
  /\ UNCHANGED <<sagas, steps, goods, money, pc, locals, job, budget>>

Enqueue(o) ==
  /\ api[o] = "enqueue"
  /\ api' = [api EXCEPT ![o] = "done"]
  /\ job' = [job EXCEPT ![o].state = "waiting"]
  /\ UNCHANGED <<rows, goods, money, pc, locals, budget>>

EnqueueFails(o) ==
  /\ api[o] = "enqueue"
  /\ api' = [api EXCEPT ![o] = "done"]
  /\ \/ faults < MaxFaults /\ faults' = faults + 1 /\ UNCHANGED crashes
     \/ crashes < MaxCrashes /\ crashes' = crashes + 1 /\ UNCHANGED faults
  /\ UNCHANGED <<rows, goods, money, pc, locals, job>>

-----------------------------------------------------------------------------
(* The job, as BullMQ keeps it.  A run owns the job from pick-up until the *)
(* job stalls; what an earlier run reports afterwards is refused.          *)
owns(p) == /\ p[2] = "worker"
           /\ job[p[1][1]].state = "active"
           /\ job[p[1][1]].run = p[1][2]

afterFailure(j) ==
  [state |-> IF j.attempts + 1 < JobAttempts THEN "waiting" ELSE "failed",
   attempts |-> j.attempts + 1, stalls |-> j.stalls, run |-> j.run]

afterStall(j) ==
  IF j.stalls < MaxStalled
  THEN [state |-> "waiting", attempts |-> j.attempts, stalls |-> j.stalls + 1, run |-> j.run]
  ELSE [j EXCEPT !.state = "failed"]

resolved(j) == [j EXCEPT !.state = "completed"]

pickedUp(j) ==
  [state |-> "active", attempts |-> j.attempts, stalls |-> j.stalls, run |-> j.run + 1]

(* A worker takes the job and calls processSagaJob, that is startSaga.     *)
Pickup(o) ==
  /\ job[o].state = "waiting"
  /\ \E n \in Runs :
       /\ n = job[o].run + 1
       /\ job' = [job EXCEPT ![o] = pickedUp(@)]
       /\ Goto(Worker(o, n), "create")
  /\ UNCHANGED <<rows, goods, money, locals, api, budget>>

(* startSaga has returned and the processor's promise resolves.            *)
CompleteJob(p) ==
  /\ pc[p] = "return"
  /\ EndFlow(p, "done")
  /\ job' = IF owns(p) THEN [job EXCEPT ![p[1][1]] = resolved(@)] ELSE job
  /\ UNCHANGED <<rows, goods, money, api, budget>>

(* A statement throws.  Of a run the worker rethrows and the job is        *)
(* retried; of an admin call the handler logs it.  Committed with its      *)
(* answer lost is the same failure one step later.  charge and refund      *)
(* catch what they throw, cancel swallows it: they have their own steps.   *)
Throwing == (Live \ {"charge", "refund", "cancel"})

Throw(p) ==
  /\ pc[p] \in Throwing
  /\ faults < MaxFaults /\ faults' = faults + 1
  /\ EndFlow(p, "dead")
  /\ job' = IF owns(p) THEN [job EXCEPT ![p[1][1]] = afterFailure(@)] ELSE job
  /\ UNCHANGED <<rows, goods, money, api, crashes>>

(* The process executing the flow dies.                                    *)
Crash(p) ==
  /\ pc[p] \in Live
  /\ crashes < MaxCrashes /\ crashes' = crashes + 1
  /\ EndFlow(p, "dead")
  /\ UNCHANGED <<rows, goods, money, queue, faults>>

(* The stalled-job check finds the lock of an active job expired: its run  *)
(* is dead, or it lives and could not renew the lock in time.              *)
(* Slip: any active job counts as stalled.                                 *)
StallUnchecked(o, alive) ==
  /\ job[o].state = "active"
  /\ job' = [job EXCEPT ![o] = afterStall(@)]
  /\ UNCHANGED <<rows, goods, money, pc, locals, api, budget>>

Stall(o, alive) ==
  /\ job[o].state = "active"
  /\ (pc[Worker(o, job[o].run)] # "dead") = alive
  /\ job' = [job EXCEPT ![o] = afterStall(@)]
  /\ UNCHANGED <<rows, goods, money, pc, locals, api, budget>>

JobStalled(o)     == Stall(o, FALSE)
JobStalledLive(o) == LiveStalls /\ Stall(o, TRUE)

-----------------------------------------------------------------------------
(* Persisting the saga and its steps.  update and updateStep write whole   *)
(* rows from the caller's copy, whatever the row holds by then.            *)
setSaga(p, status) == sagas' = [sagas EXCEPT ![p[1]] = status]
setStep(p, i, row) == steps' = [steps EXCEPT ![p[1]][i] = row]

writeSaga(p, at, status, next) ==
  /\ pc[p] = at
  /\ setSaga(p, status)
  /\ Goto(p, next)
  /\ UNCHANGED <<orders, outbox, steps, goods, money, locals, queue, budget>>

writeStep(p, at, i, row, next) ==
  /\ pc[p] = at
  /\ setStep(p, i, row)
  /\ Goto(p, next)
  /\ UNCHANGED <<orders, outbox, sagas, goods, money, locals, queue, budget>>

(* A status and its event in one transaction, as both callers write them:  *)
(* the step is its COMMIT, before which nobody sees either.  Transactions  *)
(* of one order that overlap wait for its row and are here in the order of *)
(* their COMMITs.  created_at, the time of BEGIN, may be in another order; *)
(* no step reads it, and no property is about it.                          *)
writeOrder(p, at, status, event, next) ==
  LET o == p[1][1] IN
  /\ pc[p] = at
  /\ orders' = [orders EXCEPT ![o] = status]
  /\ outbox' = [outbox EXCEPT ![o] = Append(@, event)]
  /\ Goto(p, next)
  /\ UNCHANGED <<sagas, steps, goods, money, locals, queue, budget>>

beginStep(p, at, i, next) == writeStep(p, at, i, createStep, next)
endStep(p, at, i, next)   == writeStep(p, at, i, completeStep(createStep, i), next)
endFailed(p, at, i)       == writeStep(p, at, i, failStep(createStep), "compensate")

-----------------------------------------------------------------------------
(* SagaOrchestrator.startSaga, await by await.                             *)
CreateSaga(p) == writeSaga(p, "create", "PENDING", "start")
StartSaga(p)  == writeSaga(p, "start", "RUNNING", "begin0")

(* Slip: reserveInventory is called without the items.                     *)
BeginReserveNothing(p) ==
  /\ pc[p] = "begin0"
  /\ setStep(p, RESERVE_INVENTORY, createStep)
  /\ Goto(p, "reserve")
  /\ UNCHANGED <<orders, outbox, sagas, goods, money, locals, queue, budget>>

BeginReserve(p) ==
  /\ pc[p] = "begin0"
  /\ setStep(p, RESERVE_INVENTORY, createStep)
  /\ left' = [left EXCEPT ![p] = Items(p[1][1])]
  /\ Goto(p, "reserve")
  /\ UNCHANGED <<orders, outbox, sagas, goods, money, snap, tries, queue, budget>>

(* InventoryService.reserveInventory: the loop over the sorted items.  The *)
(* check of findBySku and the WHERE of the UPDATE have one outcome.        *)
isNext(p, k) == k \in left[p] /\ \A j \in left[p] : k <= j

ReserveItem(p) ==
  /\ pc[p] = "reserve"
  /\ \E k \in Listed :
       /\ isNext(p, k)
       /\ canReserve(stock[k], Qty[p[1][1]][k])
       /\ stock' = [stock EXCEPT ![k] = reserve(@, Qty[p[1][1]][k])]
       /\ held' = [held EXCEPT ![p[1]] = @ \cup {k}]
       /\ left' = [left EXCEPT ![p] = @ \ {k}]
  /\ UNCHANGED <<rows, money, pc, snap, tries, queue, budget>>

(* Slip: a run waits for stock to come back.                               *)
ReserveWaits(p) ==
  /\ pc[p] = "reserve"
  /\ \E k \in Skus : isNext(p, k) /\ k \notin Listed
  /\ left' = [left EXCEPT ![p] = {}]
  /\ Goto(p, "fail0")
  /\ UNCHANGED <<rows, goods, money, snap, tries, queue, budget>>

(* return false: the units of earlier items stay reserved.                 *)
ReserveFails(p) ==
  /\ pc[p] = "reserve"
  /\ \E k \in Skus :
       /\ isNext(p, k)
       /\ Contention \/ k \notin Listed \/ ~canReserve(stock[k], Qty[p[1][1]][k])
  /\ left' = [left EXCEPT ![p] = {}]
  /\ Goto(p, "fail0")
  /\ UNCHANGED <<rows, goods, money, snap, tries, queue, budget>>

(* Slip: success is reported before the last item.                         *)
ReserveDoneEarly(p) ==
  /\ pc[p] = "reserve"
  /\ Goto(p, "end0")
  /\ UNCHANGED <<rows, goods, money, locals, queue, budget>>

ReserveDone(p) ==
  /\ pc[p] = "reserve" /\ left[p] = {}
  /\ Goto(p, "end0")
  /\ UNCHANGED <<rows, goods, money, locals, queue, budget>>

(* PaymentService.charge: the gateway captures and answers, declines (or   *)
(* the breaker is open), or the call throws with the charge captured or    *)
(* not, and the retry policy calls again without an idempotency key.       *)
ChargeSucceeds(p) ==
  /\ pc[p] = "charge"
  /\ charges' = [charges EXCEPT ![p[1]] = @ + 1]
  /\ tries' = [tries EXCEPT ![p] = 0]
  /\ Goto(p, "end1")
  /\ UNCHANGED <<rows, goods, refunds, left, snap, queue, budget>>

(* Slip: the success flag of the result is not looked at.                  *)
DeclineIgnored(p) ==
  /\ pc[p] = "charge"
  /\ Goto(p, "end1")
  /\ UNCHANGED <<rows, goods, money, locals, queue, budget>>

ChargeDeclined(p) ==
  /\ pc[p] = "charge"
  /\ tries' = [tries EXCEPT ![p] = 0]
  /\ Goto(p, "fail1")
  /\ UNCHANGED <<rows, goods, money, left, snap, queue, budget>>

ChargeThrows(p) ==
  /\ pc[p] = "charge"
  /\ faults < MaxFaults /\ faults' = faults + 1
  /\ \E captured \in {0, 1} : charges' = [charges EXCEPT ![p[1]] = @ + captured]
  /\ \/ /\ tries[p] < ChargeRetries
        /\ tries' = [tries EXCEPT ![p] = @ + 1]
        /\ UNCHANGED pc
     \/ /\ tries[p] = ChargeRetries
        /\ tries' = [tries EXCEPT ![p] = 0]
        /\ Goto(p, "fail1")
  /\ UNCHANGED <<rows, goods, refunds, left, snap, queue, crashes>>

ConfirmOrder(p)  == writeOrder(p, "confirm", "PAID", "order.paid", "end2")
(* Slip: the saga is completed before its order is confirmed.              *)
CompleteEarly(p) == writeSaga(p, "confirm", "COMPLETED", "return")
CompleteSaga(p)  == writeSaga(p, "complete", "COMPLETED", "return")

Advance(p) ==
  \/ CreateSaga(p) \/ StartSaga(p)
  \/ BeginReserve(p) \/ ReserveItem(p) \/ ReserveFails(p) \/ ReserveDone(p)
  \/ endStep(p, "end0", RESERVE_INVENTORY, "begin1")
  \/ endFailed(p, "fail0", RESERVE_INVENTORY)
  \/ beginStep(p, "begin1", PROCESS_PAYMENT, "charge")
  \/ ChargeSucceeds(p) \/ ChargeDeclined(p)
  \/ endStep(p, "end1", PROCESS_PAYMENT, "begin2")
  \/ endFailed(p, "fail1", PROCESS_PAYMENT)
  \/ beginStep(p, "begin2", CONFIRM_ORDER, "begin3")
  \/ beginStep(p, "begin3", EMIT_EVENTS, "confirm")
  \/ ConfirmOrder(p)
  \/ endStep(p, "end2", CONFIRM_ORDER, "end3")
  \/ endStep(p, "end3", EMIT_EVENTS, "complete")
  \/ CompleteSaga(p)
  \/ CompleteJob(p)

-----------------------------------------------------------------------------
(* The compensate route reads the saga, answers 409 unless it is RUNNING,  *)
(* and starts compensate without awaiting it.                              *)
AdminCompensate(p) ==
  /\ p[2] \in Admins /\ pc[p] = "idle"
  /\ sagas[p[1]] = "RUNNING"
  /\ Goto(p, "compensate")
  /\ UNCHANGED <<rows, goods, money, locals, queue, budget>>

(* What compensate is given: the job's context, or the one the route       *)
(* rebuilds from a metadata column that is always {}.                      *)
contextItems(p)  == IF p[2] = "worker" THEN Items(p[1][1]) ELSE {}
contextAmount(p) == IF p[2] = "worker" THEN "full" ELSE "zero"

(* SagaOrchestrator.compensate.                                            *)
StartCompensation(p) == writeSaga(p, "compensate", "COMPENSATING", "getSteps")

charged(row) == row.status = "COMPLETED" /\ row.txn

GetSteps(p) ==
  /\ pc[p] = "getSteps"
  /\ snap' = [snap EXCEPT ![p] = steps[p[1]]]
  /\ left' = [left EXCEPT ![p] = contextItems(p)]
  /\ Goto(p, IF charged(steps[p[1]][PROCESS_PAYMENT]) THEN "refund" ELSE "release")
  /\ UNCHANGED <<rows, goods, money, tries, queue, budget>>

(* PaymentService.refund: anything but an answer that accepts it is        *)
(* success: false, also when the gateway has accepted it.                  *)
Refund(p) ==
  LET accepted == refunds' = [refunds EXCEPT ![p[1]] = @ \cup {contextAmount(p)}] IN
  /\ pc[p] = "refund"
  /\ \/ accepted /\ Goto(p, "markRefunded")
     \/ (accepted \/ UNCHANGED refunds) /\ Goto(p, "markUnrefunded")
  /\ UNCHANGED <<rows, goods, charges, locals, queue, budget>>

(* InventoryService.releaseInventory, called whether or not anything was   *)
(* reserved.                                                               *)
ReleaseItem(p) ==
  /\ pc[p] = "release"
  /\ \E k \in Listed :
       /\ isNext(p, k)
       /\ stock' = [stock EXCEPT ![k] = release(@, Qty[p[1][1]][k])]
       /\ held' = [held EXCEPT ![p[1]] = @ \ {k}]
       /\ left' = [left EXCEPT ![p] = @ \ {k}]
  /\ UNCHANGED <<rows, money, pc, snap, tries, queue, budget>>

afterRelease(p, mark) ==
  IF snap[p][RESERVE_INVENTORY].status = NoRow THEN "cancel" ELSE mark

(* Slip: a refused lock counts as a release.                               *)
ReleaseFailsSilently(p) ==
  /\ pc[p] = "release"
  /\ \E k \in Skus : isNext(p, k) /\ (Contention \/ k \notin Listed)
  /\ left' = [left EXCEPT ![p] = {}]
  /\ Goto(p, afterRelease(p, "markReleased"))
  /\ UNCHANGED <<rows, goods, money, snap, tries, queue, budget>>

ReleaseFails(p) ==
  /\ pc[p] = "release"
  /\ \E k \in Skus : isNext(p, k) /\ (Contention \/ k \notin Listed)
  /\ left' = [left EXCEPT ![p] = {}]
  /\ Goto(p, afterRelease(p, "markUnreleased"))
  /\ UNCHANGED <<rows, goods, money, snap, tries, queue, budget>>

ReleaseDone(p) ==
  /\ pc[p] = "release" /\ left[p] = {}
  /\ Goto(p, afterRelease(p, "markReleased"))
  /\ UNCHANGED <<rows, goods, money, locals, queue, budget>>

(* Slip: the failure is announced and the order left PENDING.              *)
CancelUnsaved(p) == writeOrder(p, "cancel", "PENDING", "order.failed", "finish")
CancelOrder(p) == writeOrder(p, "cancel", "CANCELLED", "order.failed", "finish")

(* The transaction fails and .catch only logs it.                          *)
CancelFails(p) ==
  /\ pc[p] = "cancel"
  /\ faults < MaxFaults /\ faults' = faults + 1
  /\ Goto(p, "finish")
  /\ UNCHANGED <<rows, goods, money, locals, queue, crashes>>

(* completeCompensation; a run then returns, an admin's call is over.      *)
FinishCompensation(p) ==
  /\ pc[p] = "finish"
  /\ setSaga(p, "FAILED")
  /\ EndFlow(p, IF p[2] = "worker" THEN "return" ELSE "done")
  /\ UNCHANGED <<orders, outbox, steps, goods, money, queue, budget>>

Compensate(p) ==
  \/ StartCompensation(p) \/ GetSteps(p) \/ Refund(p)
  \/ writeStep(p, "markRefunded", PROCESS_PAYMENT,
               markStepCompensated(snap[p][PROCESS_PAYMENT]), "release")
  \/ writeStep(p, "markUnrefunded", PROCESS_PAYMENT,
               markStepCompensationFailed(snap[p][PROCESS_PAYMENT]), "release")
  \/ ReleaseItem(p) \/ ReleaseFails(p) \/ ReleaseDone(p)
  \/ writeStep(p, "markReleased", RESERVE_INVENTORY,
               markStepCompensated(snap[p][RESERVE_INVENTORY]), "cancel")
  \/ writeStep(p, "markUnreleased", RESERVE_INVENTORY,
               markStepCompensationFailed(snap[p][RESERVE_INVENTORY]), "cancel")
  \/ CancelOrder(p) \/ FinishCompensation(p)

-----------------------------------------------------------------------------
Faulty(p) == ChargeThrows(p) \/ CancelFails(p) \/ Throw(p) \/ Crash(p)

Next ==
  \/ \E o \in Orders : \/ CreateOrder(o) \/ Enqueue(o) \/ EnqueueFails(o)
                       \/ Pickup(o) \/ JobStalled(o) \/ JobStalledLive(o)
  \/ \E p \in Flows  : Advance(p) \/ AdminCompensate(p) \/ Compensate(p) \/ Faulty(p)

(* Every await of a live flow settles, a waiting job is picked up, and the *)
(* stalled-job check runs.  Nobody has to place an order or call a route.  *)
Fairness ==
  /\ \A o \in Orders : WF_vars(Enqueue(o)) /\ WF_vars(Pickup(o)) /\ WF_vars(JobStalled(o))
  /\ \A p \in Flows  : WF_vars(Advance(p) \/ Compensate(p))

Spec     == Init /\ [][Next]_vars
FairSpec == Spec /\ Fairness

-----------------------------------------------------------------------------
(* Safety, for every choice of the constants.                              *)

(* order.paid is announced only for an order some run of whose job has     *)
(* captured a charge and recorded it: the record carries the transaction   *)
(* id, whatever an admin's compensation wrote over the steps meanwhile.    *)
PaidIsBacked ==
  \A o \in Orders :
    (\E i \in DOMAIN outbox[o] : outbox[o][i] = "order.paid") =>
      \E n \in Runs : /\ charges[<<o, n>>] > 0
                      /\ charged(steps[<<o, n>>][PROCESS_PAYMENT])
                      /\ steps[<<o, n>>][EMIT_EVENTS].status # NoRow

(* The customer is charged only while the run holds every item: no order   *)
(* of lost, repeated or overlapping runs charges for an unreserved item.   *)
ChargeOnlyWhenReserved ==
  [][\A s \in SagaIds : charges'[s] # charges[s] => held[s] = Items(s[1])]_vars

(* The record of a captured payment survives: updateStep writes whole rows *)
(* from copies that may be stale, and none of them ever takes a            *)
(* transactionId or the status COMPLETED away from PROCESS_PAYMENT.        *)
PaymentRecordSurvives ==
  [][\A s \in SagaIds : charged(steps[s][PROCESS_PAYMENT])
                        => charged(steps'[s][PROCESS_PAYMENT])]_vars

(* Units may be counted twice after a release of what was not reserved,    *)
(* but they never vanish from inventory, and what a SKU has available is   *)
(* never negative: the CHECK constraint is never what stops a run.         *)
StockNeverVanishes ==
  \A k \in Skus : /\ stock[k].available >= 0
                  /\ stock[k].available + stock[k].reserved >= InitStock[k]

(* An order is not abandoned: when nothing is left that would carry it     *)
(* on, it is PENDING only because something failed, and if its job is      *)
(* completed all the same, a saga of it says so: the run compensated and   *)
(* the cancelling transaction failed, which cancel only logs.              *)
atRest(o) == /\ api[o] = "done" /\ job[o].state \notin {"waiting", "active"}
             /\ \A n \in Runs : pc[Worker(o, n)] \notin Live

PendingIsExplained ==
  \A o \in Orders : orders[o] = "PENDING" /\ atRest(o) =>
    /\ faults > 0 \/ crashes > 0
    /\ job[o].state = "completed" =>
         \E n \in Runs : sagas[<<o, n>>] \in {"COMPENSATING", "FAILED"}

-----------------------------------------------------------------------------
(* Safety when the compensate route is not used (Admins = {}).             *)

(* A saga is all or nothing.  COMPLETED: everything reserved and kept,     *)
(* money captured, the four steps COMPLETED, the event written.  FAILED:   *)
(* one of the first two steps failed, no payment on record, and neither    *)
(* CONFIRM_ORDER nor EMIT_EVENTS was begun.                                *)
SagaIsWhole ==
  \A s \in SagaIds :
    /\ sagas[s] = "COMPLETED" =>
         /\ held[s] = Items(s[1])
         /\ charges[s] > 0
         /\ \A i \in StepIds : steps[s][i].status = "COMPLETED"
         /\ \E i \in DOMAIN outbox[s[1]] : outbox[s[1]][i] = "order.paid"
    /\ sagas[s] = "FAILED" =>
         /\ \E i \in {RESERVE_INVENTORY, PROCESS_PAYMENT} : steps[s][i].status = "FAILED"
         /\ ~charged(steps[s][PROCESS_PAYMENT])
         /\ \A i \in {CONFIRM_ORDER, EMIT_EVENTS} : steps[s][i] = NoStep

(* A RESERVE_INVENTORY step marked compensated means that the saga holds   *)
(* no unit any more.  (ADR-001, line 63: "If RESERVE_INVENTORY completed,  *)
(* inventory is always released"; with the route in use the code breaks    *)
(* it, because the route compensates an empty list of items.)              *)
CompensatedMeansReleased ==
  \A s \in SagaIds :
    steps[s][RESERVE_INVENTORY].comp = "COMPLETED" => held[s] = {}

(* Unless a job may stall while its run executes, at most one run of an    *)
(* order executes, whatever crashes and retries there are: the job id and  *)
(* the ownership of the job serialise them.                                *)
OneRunAtATime ==
  ~LiveStalls =>
    \A o \in Orders : \A m, n \in Runs :
      pc[Worker(o, m)] \in Live /\ pc[Worker(o, n)] \in Live => m = n

-----------------------------------------------------------------------------
(* Liveness, under FairSpec.                                               *)

(* A queued job reaches its end, completed or failed, through every retry  *)
(* and stall: nothing waits for a lock, so nothing waits for ever.         *)
JobSettles ==
  \A o \in Orders : job[o].state = "waiting" ~> job[o].state \in {"completed", "failed"}

(* Unless something fails, a queued order becomes PAID or CANCELLED: what  *)
(* is refused for good (stock, a lock, the charge) cancels it.             *)
OrderSettles ==
  \A o \in Orders :
    job[o].state = "waiting" ~> \/ orders[o] \in {"PAID", "CANCELLED"}
                               \/ faults > 0 \/ crashes > 0

-----------------------------------------------------------------------------
(* What the documentation and the comments say, and the code does not do.  *)

(* saga-worker.ts, line 13: "The saga orchestrator is idempotent": a       *)
(* re-attempted job does not charge the customer again.                    *)
ChargedOnce ==
  \A o \in Orders : \A m, n \in Runs :
    /\ charges[<<o, n>>] <= 1
    /\ charges[<<o, m>>] > 0 /\ charges[<<o, n>>] > 0 => m = n
=============================================================================
