-------------------------- MODULE SagaSafetyProofs --------------------------
(***************************************************************************)
(* The safety properties of SagaOrchestrator for every value of its        *)
(* constants.  IInv of SagaInvariants is proved part by part: each part is *)
(* preserved by a step of a flow and by a step of an order's job, given    *)
(* the parts proved before it.                                             *)
(***************************************************************************)
EXTENDS SagaInvariants, TLAPS

(* A flow is a saga and an actor, a saga an order and a run.               *)
LEMMA FlowParts ==
  ASSUME NEW p \in Flows
  PROVE  /\ p[1] \in SagaIds /\ p[2] \in Actors
         /\ p[1][1] \in Orders /\ p[1][2] \in Runs
         /\ p = <<p[1], p[2]>> /\ p[1] = <<p[1][1], p[1][2]>>
BY DEF Flows, SagaIds

(* The run of an order is a flow.                                          *)
LEMMA WorkerIsFlow ==
  ASSUME NEW o \in Orders, NEW n \in Runs
  PROVE  /\ Worker(o, n) \in Flows /\ <<o, n>> \in SagaIds
         /\ Worker(o, n)[1] = <<o, n>> /\ Worker(o, n)[2] = "worker"
         /\ Worker(o, n)[1][1] = o /\ Worker(o, n)[1][2] = n
BY DEF Flows, SagaIds, Worker, Actors

(* The rows the helpers of saga.ts make are rows.                          *)
LEMMA StepRows ==
  /\ NoStep \in StepRow /\ createStep \in StepRow
  /\ \A i \in StepIds : completeStep(createStep, i) \in StepRow
  /\ failStep(createStep) \in StepRow
  /\ \A row \in StepRow : /\ markStepCompensated(row) \in StepRow
                          /\ markStepCompensationFailed(row) \in StepRow
BY DEF NoStep, createStep, completeStep, failStep, markStepCompensated,
       markStepCompensationFailed, StepRow, StepStatus, CompensationStatus, NoRow

LEMMA NoStepsType == NoSteps \in [StepIds -> StepRow]
BY StepRows DEF NoSteps

(* The UPDATEs keep a row of inventory a row, reserve because of its WHERE *)
(* and release because of its GREATEST.                                    *)
LEMMA StockRows ==
  ASSUME NEW row \in StockRow, NEW q \in Nat
  PROVE  /\ canReserve(row, q) => reserve(row, q) \in StockRow
         /\ release(row, q) \in StockRow
BY DEF StockRow, canReserve, reserve, release, greatest0

LEMMA TypeInit == Init => TypeOK
BY StepRows, NoStepsType, StockAssumption, JobAssumption, BudgetAssumption
   DEF Init, TypeOK, NoRow, StockRow, Ended, NoJob, JobRecord

LEMMA TypeWriteSaga ==
  ASSUME TypeOK, NEW p \in Flows, NEW at, NEW status \in SagaStatus,
         NEW to \in Live \cup Ended, writeSaga(p, at, status, to)
  PROVE  TypeOK'
BY FlowParts DEF TypeOK, writeSaga, setSaga, Goto, goods, money, locals, queue, budget

LEMMA TypeWriteStep ==
  ASSUME TypeOK, NEW p \in Flows, NEW at, NEW i \in StepIds, NEW row \in StepRow,
         NEW to \in Live \cup Ended, writeStep(p, at, i, row, to)
  PROVE  TypeOK'
BY FlowParts DEF TypeOK, writeStep, setStep, Goto, goods, money, locals, queue, budget

LEMMA TypeWriteOrder ==
  ASSUME TypeOK, NEW p \in Flows, NEW at, NEW status \in OrderStatus,
         NEW event \in EventTypes, NEW to \in Live \cup Ended,
         writeOrder(p, at, status, event, to)
  PROVE  TypeOK'
BY FlowParts DEF TypeOK, writeOrder, Goto, goods, money, locals, queue, budget

(* The statements of startSaga and compensate that only write one row.     *)
LEMMA TypeAdvanceWrites ==
  ASSUME TypeOK, NEW p \in Flows,
         \/ CreateSaga(p) \/ StartSaga(p) \/ ConfirmOrder(p) \/ CompleteSaga(p)
         \/ endStep(p, "end0", RESERVE_INVENTORY, "begin1")
         \/ endFailed(p, "fail0", RESERVE_INVENTORY)
         \/ beginStep(p, "begin1", PROCESS_PAYMENT, "charge")
         \/ endStep(p, "end1", PROCESS_PAYMENT, "begin2")
         \/ endFailed(p, "fail1", PROCESS_PAYMENT)
         \/ beginStep(p, "begin2", CONFIRM_ORDER, "begin3")
         \/ beginStep(p, "begin3", EMIT_EVENTS, "confirm")
         \/ endStep(p, "end2", CONFIRM_ORDER, "end3")
         \/ endStep(p, "end3", EMIT_EVENTS, "complete")
  PROVE  TypeOK'
<1>1. \A to \in {"start", "begin0", "begin1", "charge", "compensate", "begin2", "begin3",
                 "confirm", "end2", "end3", "complete", "return"} : to \in Live \cup Ended
  BY DEF Live, Startup, Forward, Backward
<1>2. \A i \in {RESERVE_INVENTORY, PROCESS_PAYMENT, CONFIRM_ORDER, EMIT_EVENTS} : i \in StepIds
  BY DEF RESERVE_INVENTORY, PROCESS_PAYMENT, CONFIRM_ORDER, EMIT_EVENTS, StepIds
<1>3. CASE CreateSaga(p) \/ StartSaga(p) \/ CompleteSaga(p)
  BY <1>1, <1>3, TypeWriteSaga DEF CreateSaga, StartSaga, CompleteSaga, SagaStatus
<1>4. CASE ConfirmOrder(p)
  BY <1>1, <1>4, TypeWriteOrder DEF ConfirmOrder, OrderStatus, EventTypes
<1>5. CASE \/ endStep(p, "end0", RESERVE_INVENTORY, "begin1")
           \/ endStep(p, "end1", PROCESS_PAYMENT, "begin2")
           \/ endStep(p, "end2", CONFIRM_ORDER, "end3")
           \/ endStep(p, "end3", EMIT_EVENTS, "complete")
  BY <1>1, <1>2, <1>5, StepRows, TypeWriteStep DEF endStep
<1>6. CASE \/ endFailed(p, "fail0", RESERVE_INVENTORY)
           \/ endFailed(p, "fail1", PROCESS_PAYMENT)
  BY <1>1, <1>2, <1>6, StepRows, TypeWriteStep DEF endFailed
<1>7. CASE \/ beginStep(p, "begin1", PROCESS_PAYMENT, "charge")
           \/ beginStep(p, "begin2", CONFIRM_ORDER, "begin3")
           \/ beginStep(p, "begin3", EMIT_EVENTS, "confirm")
  BY <1>1, <1>2, <1>7, StepRows, TypeWriteStep DEF beginStep
<1> QED BY <1>3, <1>4, <1>5, <1>6, <1>7

LEMMA TypeCompensateWrites ==
  ASSUME TypeOK, NEW p \in Flows,
         \/ StartCompensation(p) \/ CancelOrder(p)
         \/ writeStep(p, "markRefunded", PROCESS_PAYMENT,
                      markStepCompensated(snap[p][PROCESS_PAYMENT]), "release")
         \/ writeStep(p, "markUnrefunded", PROCESS_PAYMENT,
                      markStepCompensationFailed(snap[p][PROCESS_PAYMENT]), "release")
         \/ writeStep(p, "markReleased", RESERVE_INVENTORY,
                      markStepCompensated(snap[p][RESERVE_INVENTORY]), "cancel")
         \/ writeStep(p, "markUnreleased", RESERVE_INVENTORY,
                      markStepCompensationFailed(snap[p][RESERVE_INVENTORY]), "cancel")
  PROVE  TypeOK'
<1>1. \A to \in {"getSteps", "release", "cancel", "finish"} : to \in Live \cup Ended
  BY DEF Live, Backward
<1>2. \A i \in {RESERVE_INVENTORY, PROCESS_PAYMENT} : i \in StepIds /\ snap[p][i] \in StepRow
  BY DEF RESERVE_INVENTORY, PROCESS_PAYMENT, StepIds, TypeOK
<1>3. CASE StartCompensation(p)
  BY <1>1, <1>3, TypeWriteSaga DEF StartCompensation, SagaStatus
<1>4. CASE CancelOrder(p)
  BY <1>1, <1>4, TypeWriteOrder DEF CancelOrder, OrderStatus, EventTypes
<1>5. ASSUME ~StartCompensation(p), ~CancelOrder(p) PROVE TypeOK'
  BY <1>1, <1>2, <1>5, StepRows, TypeWriteStep
<1> QED BY <1>3, <1>4, <1>5

(* What the job's record may become.                                       *)
LEMMA JobRecords ==
  ASSUME NEW j \in JobRecord
  PROVE  /\ afterFailure(j) \in JobRecord /\ afterStall(j) \in JobRecord
         /\ resolved(j) \in JobRecord
         /\ j.run + 1 \in Runs => pickedUp(j) \in JobRecord
BY JobAssumption DEF JobRecord, afterFailure, afterStall, resolved, pickedUp

LEMMA TypeAdvance ==
  ASSUME TypeOK, NEW p \in Flows, Advance(p)
  PROVE  TypeOK'
<1> USE FlowParts
<1>1. CASE BeginReserve(p)
  BY <1>1, StepRows DEF TypeOK, BeginReserve, setStep, Goto, Items, Live, Forward,
     StepIds, RESERVE_INVENTORY, goods, money, queue, budget
<1>2. CASE ReserveItem(p)
  <2>1. PICK k \in Skus :
          /\ canReserve(stock[k], Qty[p[1][1]][k])
          /\ stock' = [stock EXCEPT ![k] = reserve(@, Qty[p[1][1]][k])]
          /\ held' = [held EXCEPT ![p[1]] = @ \cup {k}]
          /\ left' = [left EXCEPT ![p] = @ \ {k}]
    BY <1>2, SkusAssumption DEF ReserveItem
  <2>2. Qty[p[1][1]][k] \in Nat /\ stock[k] \in StockRow
    BY QtyAssumption DEF TypeOK
  <2>3. stock' \in [Skus -> StockRow]
    BY <2>1, <2>2, StockRows DEF TypeOK
  <2>4. held' \in [SagaIds -> SUBSET Skus] /\ left' \in [Flows -> SUBSET Skus]
    BY <2>1 DEF TypeOK
  <2> QED BY <1>2, <2>3, <2>4 DEF TypeOK, ReserveItem, rows, money, queue, budget
<1>3. CASE ReserveFails(p) \/ ReserveDone(p)
  BY <1>3 DEF TypeOK, ReserveFails, ReserveDone, Goto, Live, Forward,
     rows, goods, money, locals, queue, budget
<1>4. CASE ChargeSucceeds(p) \/ ChargeDeclined(p)
  <2>1. charges' \in [SagaIds -> Nat]
    <3>1. charges \in [SagaIds -> Nat]
      BY DEF TypeOK
    <3>2. charges' = charges \/ charges' = [charges EXCEPT ![p[1]] = @ + 1]
      BY <1>4 DEF ChargeSucceeds, ChargeDeclined, money
    <3> QED BY ONLY <3>1, <3>2, FlowParts
  <2>2. tries' \in [Flows -> 0 .. ChargeRetries]
    BY <1>4, JobAssumption DEF TypeOK, ChargeSucceeds, ChargeDeclined
  <2> QED BY <1>4, <2>1, <2>2 DEF TypeOK, ChargeSucceeds, ChargeDeclined, Goto, Live,
          Forward, rows, goods, money, queue, budget
<1>5. CASE CompleteJob(p)
  <2>1. job' \in [Orders -> JobRecord]
    BY <1>5, JobRecords DEF TypeOK, CompleteJob
  <2>2. tries' \in [Flows -> 0 .. ChargeRetries]
    BY <1>5, JobAssumption DEF TypeOK, CompleteJob, EndFlow
  <2> QED BY <1>5, <2>1, <2>2, NoStepsType DEF TypeOK, CompleteJob, EndFlow, Goto, Ended,
          rows, goods, money, budget
<1> QED BY <1>1, <1>2, <1>3, <1>4, <1>5, TypeAdvanceWrites DEF Advance

LEMMA TypeCompensate ==
  ASSUME TypeOK, NEW p \in Flows, AdminCompensate(p) \/ Compensate(p)
  PROVE  TypeOK'
<1> USE FlowParts
<1>1. CASE AdminCompensate(p)
  BY <1>1 DEF TypeOK, AdminCompensate, Goto, Live, Backward,
     rows, goods, money, locals, queue, budget
<1>2. CASE GetSteps(p)
  BY <1>2 DEF TypeOK, GetSteps, contextItems, Items, Goto, Live, Backward,
     rows, goods, money, queue, budget
<1>3. CASE Refund(p)
  <2>1. refunds' \in [SagaIds -> SUBSET {"full", "zero"}]
    <3>1. contextAmount(p) \in {"full", "zero"}
      BY DEF contextAmount
    <3> DEFINE Kinds == {"full", "zero"}
    <3>2. refunds \in [SagaIds -> SUBSET Kinds] /\ contextAmount(p) \in Kinds
      BY <3>1 DEF TypeOK
    <3>3. \/ refunds' = refunds
          \/ refunds' = [refunds EXCEPT ![p[1]] = @ \cup {contextAmount(p)}]
      BY <1>3 DEF Refund
    <3> HIDE DEF Kinds
    <3>4. refunds' \in [SagaIds -> SUBSET Kinds]
      BY ONLY <3>2, <3>3
    <3> QED BY <3>4 DEF Kinds
  <2> QED BY <1>3, <2>1 DEF TypeOK, Refund, Goto, Live, Backward,
          rows, goods, locals, queue, budget
<1>4. CASE ReleaseItem(p)
  <2>1. PICK k \in Skus :
          /\ TRUE
          /\ stock' = [stock EXCEPT ![k] = release(@, Qty[p[1][1]][k])]
          /\ held' = [held EXCEPT ![p[1]] = @ \ {k}]
          /\ left' = [left EXCEPT ![p] = @ \ {k}]
    BY <1>4, SkusAssumption DEF ReleaseItem
  <2>2. Qty[p[1][1]][k] \in Nat /\ stock[k] \in StockRow
    BY QtyAssumption DEF TypeOK
  <2>3. stock' \in [Skus -> StockRow]
    BY <2>1, <2>2, StockRows DEF TypeOK
  <2>4. held' \in [SagaIds -> SUBSET Skus] /\ left' \in [Flows -> SUBSET Skus]
    BY <2>1 DEF TypeOK
  <2> QED BY <1>4, <2>3, <2>4 DEF TypeOK, ReleaseItem, rows, money, queue, budget
<1>5. CASE ReleaseFails(p) \/ ReleaseDone(p)
  <2>1. \A mark \in {"markReleased", "markUnreleased"} : afterRelease(p, mark) \in Live
    BY DEF afterRelease, Live, Backward
  <2>2. pc' \in [Flows -> Live \cup Ended]
    BY <1>5, <2>1 DEF TypeOK, ReleaseFails, ReleaseDone, Goto
  <2>3. left' \in [Flows -> SUBSET Skus]
    BY <1>5 DEF TypeOK, ReleaseFails, ReleaseDone, locals
  <2>4. CASE ReleaseFails(p)
    BY <2>2, <2>3, <2>4 DEF TypeOK, ReleaseFails, rows, goods, money, queue, budget
  <2>5. CASE ReleaseDone(p)
    BY <2>2, <2>3, <2>5 DEF TypeOK, ReleaseDone, rows, goods, money, locals, queue, budget
  <2> QED BY <1>5, <2>4, <2>5
<1>6. CASE FinishCompensation(p)
  BY <1>6, NoStepsType, JobAssumption DEF TypeOK, FinishCompensation, setSaga, EndFlow,
     Goto, Live, Ended, SagaStatus, goods, money, queue, budget
<1> QED BY <1>1, <1>2, <1>3, <1>4, <1>5, <1>6, TypeCompensateWrites DEF Compensate

LEMMA TypeFaulty ==
  ASSUME TypeOK, NEW p \in Flows, Faulty(p)
  PROVE  TypeOK'
<1> USE FlowParts, BudgetAssumption, JobAssumption
<1>1. CASE ChargeThrows(p)
  <2>1. charges' \in [SagaIds -> Nat]
    BY <1>1 DEF TypeOK, ChargeThrows
  <2>2. tries' \in [Flows -> 0 .. ChargeRetries]
    <3>1. \/ tries[p] < ChargeRetries /\ tries' = [tries EXCEPT ![p] = @ + 1]
          \/ tries' = [tries EXCEPT ![p] = 0]
      BY <1>1 DEF ChargeThrows
    <3>2. tries[p] \in 0 .. ChargeRetries /\ tries \in [Flows -> 0 .. ChargeRetries]
      BY DEF TypeOK
    <3>3. 0 \in 0 .. ChargeRetries
          /\ (tries[p] < ChargeRetries => tries[p] + 1 \in 0 .. ChargeRetries)
      BY <3>2, JobAssumption
    <3> QED BY <3>1, <3>2, <3>3
  <2>3. pc' \in [Flows -> Live \cup Ended]
    <3>1. pc' = pc \/ pc' = [pc EXCEPT ![p] = "fail1"]
      BY <1>1 DEF ChargeThrows, Goto
    <3> QED BY <3>1 DEF TypeOK, Live, Forward
  <2>4. faults' \in 0 .. MaxFaults
    BY <1>1 DEF TypeOK, ChargeThrows
  <2> QED BY <1>1, <2>1, <2>2, <2>3, <2>4 DEF TypeOK, ChargeThrows, rows, goods, queue
<1>2. CASE CancelFails(p)
  BY <1>2 DEF TypeOK, CancelFails, Goto, Live, Backward, rows, goods, money, locals, queue
<1>3. CASE Throw(p)
  BY <1>3, NoStepsType, JobRecords DEF TypeOK, Throw, EndFlow, Goto, Ended,
     rows, goods, money
<1>4. CASE Crash(p)
  BY <1>4, NoStepsType DEF TypeOK, Crash, EndFlow, Goto, Ended, rows, goods, money, queue
<1> QED BY <1>1, <1>2, <1>3, <1>4 DEF Faulty

LEMMA TypeOrder ==
  ASSUME TypeOK, NEW o \in Orders,
         \/ CreateOrder(o) \/ Enqueue(o) \/ EnqueueFails(o)
         \/ Pickup(o) \/ JobStalled(o) \/ JobStalledLive(o)
  PROVE  TypeOK'
<1>1. CASE CreateOrder(o)
  BY <1>1 DEF TypeOK, CreateOrder, OrderStatus, EventTypes, goods, money, locals, budget
<1>2. CASE Enqueue(o)
  BY <1>2 DEF TypeOK, Enqueue, JobRecord, rows, goods, money, locals, budget
<1>3. CASE EnqueueFails(o)
  BY <1>3, BudgetAssumption DEF TypeOK, EnqueueFails, rows, goods, money, locals
<1>4. CASE Pickup(o)
  <2>1. PICK n \in Runs : /\ n = job[o].run + 1
                          /\ job' = [job EXCEPT ![o] = pickedUp(@)]
                          /\ Goto(Worker(o, n), "create")
    BY <1>4 DEF Pickup
  <2>2. pickedUp(job[o]) \in JobRecord
    BY <2>1, JobRecords DEF TypeOK
  <2>3. job' \in [Orders -> JobRecord]
    BY <2>1, <2>2 DEF TypeOK
  <2>4. pc' \in [Flows -> Live \cup Ended]
    BY <2>1, WorkerIsFlow DEF TypeOK, Goto, Live, Startup
  <2> QED BY <1>4, <2>3, <2>4 DEF TypeOK, Pickup, rows, goods, money, locals, budget
<1>5. CASE JobStalled(o) \/ JobStalledLive(o)
  <2>1. job' \in [Orders -> JobRecord]
    <3>1. job' = [job EXCEPT ![o] = afterStall(@)]
      BY <1>5 DEF JobStalled, JobStalledLive, Stall
    <3> QED BY <3>1, JobRecords DEF TypeOK
  <2> QED BY <1>5, <2>1 DEF TypeOK, JobStalled, JobStalledLive, Stall,
          rows, goods, money, locals, budget
<1> QED BY <1>1, <1>2, <1>3, <1>4, <1>5

LEMMA TypeStep == TypeOK /\ [Next]_vars => TypeOK'
<1> SUFFICES ASSUME TypeOK, [Next]_vars PROVE TypeOK'
  OBVIOUS
<1>1. CASE UNCHANGED vars
  BY <1>1 DEF TypeOK, vars, rows, goods, money, locals, queue, budget
<1>2. CASE Next
  BY <1>2, TypeAdvance, TypeCompensate, TypeFaulty, TypeOrder DEF Next
<1> QED BY <1>1, <1>2

(* Every row, local and counter keeps its type: in particular no release,  *)
(* doubled, late or of units never reserved, makes quantity_reserved       *)
(* negative, so the table's CHECKs never refuse an UPDATE of the saga.     *)
THEOREM TypeCorrect == Spec => []TypeOK
BY TypeInit, TypeStep, PTL DEF Spec

-----------------------------------------------------------------------------
(* The steps of a flow and of an order.                                    *)
FlowStep(p)  == Advance(p) \/ AdminCompensate(p) \/ Compensate(p) \/ Faulty(p)
OrderStep(o) == \/ CreateOrder(o) \/ Enqueue(o) \/ EnqueueFails(o)
                \/ Pickup(o) \/ JobStalled(o) \/ JobStalledLive(o)

LEMMA NextSteps ==
  Next <=> (\E o \in Orders : OrderStep(o)) \/ (\E p \in Flows : FlowStep(p))
BY DEF Next, OrderStep, FlowStep

(* A flow touches its own locals, its own saga and its own order.          *)
Frame(p) ==
  /\ \A q \in Flows : q # p => pc'[q] = pc[q] /\ left'[q] = left[q] /\ snap'[q] = snap[q]
  /\ \A s \in SagaIds : s # p[1] => /\ sagas'[s] = sagas[s] /\ steps'[s] = steps[s]
                                    /\ held'[s] = held[s] /\ charges'[s] = charges[s]
  /\ \A o \in Orders : o # p[1][1] => /\ orders'[o] = orders[o] /\ outbox'[o] = outbox[o]
                                      /\ job'[o] = job[o]
  /\ api' = api

LEMMA FrameWrites ==
  ASSUME TypeOK, NEW p \in Flows, NEW at, NEW i, NEW row, NEW status, NEW event, NEW to,
         \/ writeSaga(p, at, status, to)
         \/ writeStep(p, at, i, row, to)
         \/ writeOrder(p, at, status, event, to)
  PROVE  Frame(p)
BY FlowParts DEF TypeOK, Frame, writeSaga, writeStep, writeOrder, setSaga, setStep, Goto,
   goods, money, locals, queue, budget

LEMMA FrameFlow ==
  ASSUME TypeOK, NEW p \in Flows, FlowStep(p)
  PROVE  Frame(p)
<1> USE FlowParts DEF TypeOK, Frame, Goto, EndFlow, setSaga, setStep,
        rows, goods, money, locals, queue, budget
<1>1. CASE BeginReserve(p) \/ ReserveItem(p) \/ ReserveFails(p) \/ ReserveDone(p)
  BY <1>1 DEF BeginReserve, ReserveItem, ReserveFails, ReserveDone
<1>2. CASE ChargeSucceeds(p) \/ ChargeDeclined(p) \/ CompleteJob(p)
  BY <1>2 DEF ChargeSucceeds, ChargeDeclined, CompleteJob
<1>3. CASE AdminCompensate(p) \/ GetSteps(p) \/ Refund(p)
  BY <1>3 DEF AdminCompensate, GetSteps, Refund
<1>4. CASE ReleaseItem(p) \/ ReleaseFails(p) \/ ReleaseDone(p) \/ FinishCompensation(p)
  BY <1>4 DEF ReleaseItem, ReleaseFails, ReleaseDone, FinishCompensation
<1>5. CASE Faulty(p)
  BY <1>5 DEF Faulty, ChargeThrows, CancelFails, Throw, Crash
<1>6. CASE \/ CreateSaga(p) \/ StartSaga(p) \/ ConfirmOrder(p) \/ CompleteSaga(p)
           \/ StartCompensation(p) \/ CancelOrder(p)
  BY <1>6, FrameWrites DEF CreateSaga, StartSaga, ConfirmOrder, CompleteSaga,
     StartCompensation, CancelOrder
<1> QED BY <1>1, <1>2, <1>3, <1>4, <1>5, <1>6, FrameWrites
        DEF FlowStep, Advance, Compensate, beginStep, endStep, endFailed

(* What every step of a flow does to its place, its order and its job.     *)
Effect(p) == LET o == p[1][1] IN
  /\ pc[p] \in Live \/ (pc[p] = "idle" /\ p[2] # "worker" /\ sagas[p[1]] # NoRow)
  /\ pc'[p] \in (Live \cup Ended) \ {"idle"}
  /\ orders'[o] = orders[o] \/ orders'[o] \in OrderStatus
  /\ \/ job' = job
     \/ /\ owns(p) /\ pc'[p] \notin Live
        /\ job' = [job EXCEPT ![o] = afterFailure(@)] \/ job' = [job EXCEPT ![o] = resolved(@)]

LEMMA EffectWrites ==
  ASSUME TypeOK, NEW p \in Flows, NEW at \in Live,
         NEW s \in SagaStatus, NEW status \in OrderStatus, NEW event, NEW to \in Live,
         writeSaga(p, at, s, to) \/ writeOrder(p, at, status, event, to)
  PROVE  Effect(p)
<1>1. to # "idle"
  BY DEF Live, Startup, Forward, Backward
<1> QED BY <1>1, FlowParts DEF TypeOK, Effect, writeSaga, writeOrder, setSaga,
        Goto, goods, money, locals, queue, budget

LEMMA EffectWriteStep ==
  ASSUME TypeOK, NEW p \in Flows, NEW at \in Live, NEW i, NEW row, NEW to \in Live,
         writeStep(p, at, i, row, to)
  PROVE  Effect(p)
<1>1. to # "idle"
  BY DEF Live, Startup, Forward, Backward
<1> QED BY <1>1, FlowParts DEF TypeOK, Effect, writeStep, setStep,
        Goto, goods, money, locals, queue, budget

LEMMA EffectFlow ==
  ASSUME TypeOK, NEW p \in Flows, FlowStep(p)
  PROVE  Effect(p)
<1>1. \A at \in Live : at # "idle"
  BY DEF Live, Startup, Forward, Backward
<1>2. \A at \in Forward \cup Backward \cup {"create", "start", "return"} : at \in Live
  BY DEF Live, Startup
<1>3. "dead" \notin Live /\ "done" \notin Live
  BY DEF Live, Startup, Forward, Backward
<1>4. CASE \/ endStep(p, "end0", RESERVE_INVENTORY, "begin1")
           \/ endFailed(p, "fail0", RESERVE_INVENTORY)
           \/ beginStep(p, "begin1", PROCESS_PAYMENT, "charge")
           \/ endStep(p, "end1", PROCESS_PAYMENT, "begin2")
           \/ endFailed(p, "fail1", PROCESS_PAYMENT)
           \/ beginStep(p, "begin2", CONFIRM_ORDER, "begin3")
           \/ beginStep(p, "begin3", EMIT_EVENTS, "confirm")
           \/ endStep(p, "end2", CONFIRM_ORDER, "end3")
           \/ endStep(p, "end3", EMIT_EVENTS, "complete")
  <2>1. \A at \in {"end0", "fail0", "begin1", "end1", "fail1", "begin2", "begin3", "end2", "end3",
                  "charge", "compensate", "confirm", "complete"} : at \in Live
    BY DEF Live, Forward, Backward
  <2>2. \E at, to \in Live : \E i, row : writeStep(p, at, i, row, to)
    BY <1>4, <2>1 DEF beginStep, endStep, endFailed
  <2> QED BY <2>2, EffectWriteStep
<1>5. CASE \/ writeStep(p, "markRefunded", PROCESS_PAYMENT,
                         markStepCompensated(snap[p][PROCESS_PAYMENT]), "release")
           \/ writeStep(p, "markUnrefunded", PROCESS_PAYMENT,
                         markStepCompensationFailed(snap[p][PROCESS_PAYMENT]), "release")
           \/ writeStep(p, "markReleased", RESERVE_INVENTORY,
                         markStepCompensated(snap[p][RESERVE_INVENTORY]), "cancel")
           \/ writeStep(p, "markUnreleased", RESERVE_INVENTORY,
                         markStepCompensationFailed(snap[p][RESERVE_INVENTORY]), "cancel")
  <2>1. \A at \in {"markRefunded", "markUnrefunded", "markReleased", "markUnreleased",
                  "release", "cancel"} : at \in Live
    BY DEF Live, Backward
  <2>2. \E at, to \in Live : \E i, row : writeStep(p, at, i, row, to)
    BY <1>5, <2>1
  <2> QED BY <2>2, EffectWriteStep
<1> USE FlowParts DEF TypeOK, Effect, Goto, EndFlow, setSaga, setStep,
        rows, goods, money, locals, queue, budget
<1>6. CASE BeginReserve(p) \/ ReserveItem(p) \/ ReserveFails(p) \/ ReserveDone(p)
  BY <1>1, <1>2, <1>6 DEF BeginReserve, ReserveItem, ReserveFails, ReserveDone, Forward
<1>7. CASE ChargeSucceeds(p) \/ ChargeDeclined(p)
  BY <1>1, <1>2, <1>7 DEF ChargeSucceeds, ChargeDeclined, Forward
<1>8. CASE CompleteJob(p)
  BY <1>1, <1>2, <1>8, <1>3 DEF CompleteJob, Ended
<1>9. CASE AdminCompensate(p) \/ GetSteps(p) \/ Refund(p)
  BY <1>1, <1>2, <1>9, AdminAssumption DEF AdminCompensate, GetSteps, Refund, Backward, NoRow
<1>10. CASE ReleaseItem(p) \/ ReleaseFails(p) \/ ReleaseDone(p) \/ FinishCompensation(p)
  BY <1>1, <1>2, <1>10 DEF ReleaseItem, ReleaseFails, ReleaseDone, afterRelease, FinishCompensation,
     Backward, Ended
<1>11. CASE ChargeThrows(p) \/ CancelFails(p) \/ Crash(p)
  BY <1>1, <1>2, <1>11 DEF ChargeThrows, CancelFails, Crash, Forward, Backward, Ended
<1>12. CASE Throw(p)
  BY <1>1, <1>2, <1>12, <1>3 DEF Throw, Throwing, Ended
<1>13. CASE \/ CreateSaga(p) \/ StartSaga(p) \/ ConfirmOrder(p) \/ CompleteSaga(p)
           \/ StartCompensation(p) \/ CancelOrder(p)
  BY <1>2, <1>13, EffectWrites DEF CreateSaga, StartSaga, ConfirmOrder, CompleteSaga,
     StartCompensation, CancelOrder, SagaStatus, OrderStatus, Forward, Backward
<1> QED BY <1>2, <1>6, <1>7, <1>8, <1>9, <1>10, <1>11, <1>12, <1>13, <1>4, <1>5
        DEF FlowStep, Advance, Compensate, Faulty
-----------------------------------------------------------------------------
(* Jobs: at most one run at a time.                                        *)

(* The worker's flows by order and run.                                    *)
LEMMA WorkerFlows ==
  ASSUME NEW p \in Flows, p[2] = "worker"
  PROVE  /\ p[1][1] \in Orders /\ p[1][2] \in Runs
         /\ p = Worker(p[1][1], p[1][2])
BY FlowParts DEF Worker

LEMMA WorkerInjective ==
  ASSUME NEW o, NEW x, NEW m, NEW n, Worker(x, m) = Worker(o, n)
  PROVE  x = o /\ m = n
BY DEF Worker

LEMMA SagaParts ==
  ASSUME NEW s \in SagaIds
  PROVE  /\ s[1] \in Orders /\ s[2] \in Runs /\ s = <<s[1], s[2]>>
         /\ <<s, "worker">> \in Flows /\ <<s, "worker">> = Worker(s[1], s[2])
BY DEF SagaIds, Flows, Actors, Worker

(* The fields of the job after each outcome of a run.                      *)
LEMMA JobFields ==
  ASSUME NEW j \in JobRecord
  PROVE  /\ afterFailure(j).run = j.run /\ afterFailure(j).stalls = j.stalls
         /\ afterFailure(j).attempts = j.attempts + 1
         /\ \/ afterFailure(j).state = "waiting" /\ j.attempts + 1 < JobAttempts
            \/ afterFailure(j).state = "failed"
         /\ resolved(j).run = j.run /\ resolved(j).state = "completed"
         /\ afterStall(j).run = j.run
         /\ \/ /\ afterStall(j).state = "waiting" /\ afterStall(j).attempts = j.attempts
               /\ afterStall(j).stalls = j.stalls + 1
            \/ afterStall(j).state = "failed"
         /\ pickedUp(j).run = j.run + 1 /\ pickedUp(j).state = "active"
         /\ pickedUp(j).attempts = j.attempts /\ pickedUp(j).stalls = j.stalls
         /\ j.run \in Nat /\ j.attempts \in Nat /\ j.stalls \in Nat
BY JobAssumption DEF JobRecord, Runs, afterFailure, resolved, afterStall, pickedUp

(* Of another order the job is left alone; of this one it is left alone or *)
(* told the outcome of the run that owns it.                               *)
LEMMA JobChange ==
  ASSUME TypeOK, NEW p \in Flows, Effect(p), NEW x \in Orders
  PROVE  \/ job'[x] = job[x]
         \/ /\ x = p[1][1] /\ owns(p) /\ pc'[p] \notin Live
            /\ job'[x] = afterFailure(job[x]) \/ job'[x] = resolved(job[x])
BY FlowParts DEF TypeOK, Effect

QueueInv == JobInv /\ PlacedInv /\ OwnerInv

LEMMA JobFlow ==
  ASSUME TypeOK, QueueInv, NEW p \in Flows, FlowStep(p)
  PROVE  QueueInv'
<1>1. Frame(p) /\ Effect(p)
  BY FrameFlow, EffectFlow
<1>2. TypeOK'
  BY TypeAdvance, TypeCompensate, TypeFaulty DEF FlowStep
<1> DEFINE o == p[1][1]
<1>3. o \in Orders /\ job \in [Orders -> JobRecord] /\ job' \in [Orders -> JobRecord]
  BY <1>2, FlowParts DEF TypeOK
<1>4. orders[o] # NoRow /\ orders'[o] # NoRow
  BY <1>1, FlowParts DEF Effect, QueueInv, PlacedInv, Live, OrderStatus, NoRow,
     Startup, Forward, Backward
<1>5. PlacedInv'
  <2>1. \A x \in Orders : orders[x] # NoRow => orders'[x] # NoRow
    BY <1>1, <1>4 DEF Frame
  <2>2. ASSUME NEW q \in Flows, pc'[q] # "idle" PROVE orders'[q[1][1]] # NoRow
    <3>1. CASE q = p
      BY <1>4, <3>1
    <3>2. CASE q # p
      BY <1>1, <2>1, <2>2, <3>2, FlowParts DEF Frame, QueueInv, PlacedInv
    <3> QED BY <3>1, <3>2
  <2>3. ASSUME NEW s \in SagaIds, sagas'[s] # NoRow PROVE orders'[s[1]] # NoRow
    <3>1. CASE s = p[1]
      BY <1>4, <3>1
    <3>2. CASE s # p[1]
      BY <1>1, <2>1, <2>3, <3>2, SagaParts DEF Frame, QueueInv, PlacedInv
    <3> QED BY <3>1, <3>2
  <2> QED BY <2>2, <2>3 DEF PlacedInv
<1>6. ASSUME NEW x \in Orders, NEW n \in Runs, n > job'[x].run, ~ pc'[Worker(x, n)] = "idle"
      PROVE  FALSE
  <2>1. job'[x].run = job[x].run
    BY <1>1, <1>3, JobChange, JobFields
  <2>2. pc[Worker(x, n)] = "idle"
    BY <1>6, <2>1 DEF QueueInv, JobInv
  <2>3. Worker(x, n) = p
    BY <1>1, <1>6, <2>2, WorkerIsFlow DEF Frame
  <2>4. pc[p] = "idle" /\ p[2] = "worker"
    <3>1. Worker(x, n)[2] = "worker"
      BY <1>6, WorkerIsFlow
    <3> QED BY ONLY <2>2, <2>3, <3>1
  <2>5. pc[p] \in Live \/ p[2] # "worker"
    BY ONLY <1>1, <2>4 DEF Effect
  <2> QED BY ONLY <2>4, <2>5 DEF Live, Startup, Forward, Backward
<1>7. ASSUME NEW x \in Orders
      PROVE  /\ api'[x] = "idle" <=> orders'[x] = NoRow
             /\ api'[x] # "done" => job'[x] = NoJob
             /\ job'[x].state # "none" => orders'[x] # NoRow
  <2>1. CASE x = o
    <3>1. api'[x] = api[x] /\ api[x] # "idle"
      BY <1>1, <1>4, <2>1 DEF Frame, QueueInv, JobInv
    <3>2. job[x].state # "active" => job'[x] = job[x]
      BY <1>1, <2>1, JobChange DEF owns
    <3>3. api'[x] # "done" => job'[x] = NoJob
      BY <3>1, <3>2 DEF QueueInv, JobInv, NoJob
    <3> QED BY <1>4, <2>1, <3>1, <3>3
  <2>2. CASE x # o
    BY <1>1, <2>2 DEF Frame, QueueInv, JobInv
  <2> QED BY <2>1, <2>2
<1>8. ASSUME NEW x \in Orders
      PROVE  /\ job'[x].state \in {"waiting", "active"} => job'[x].attempts < JobAttempts
             /\ job'[x].state = "waiting" => job'[x].run = job'[x].attempts + job'[x].stalls
             /\ job'[x].state = "active" => job'[x].run = job'[x].attempts + job'[x].stalls + 1
  <2>1. CASE job'[x] = job[x]
    BY <2>1 DEF QueueInv, JobInv
  <2>2. CASE job[x].state = "active" /\ job'[x] = afterFailure(job[x])
    <3>1. job[x].run = job[x].attempts + job[x].stalls + 1
      BY <2>2 DEF QueueInv, JobInv
    <3>2. job[x] \in JobRecord
      BY <1>3
    <3>3. /\ job'[x].run = job[x].run /\ job'[x].stalls = job[x].stalls
          /\ job'[x].attempts = job[x].attempts + 1
          /\ \/ job'[x].state = "waiting" /\ job[x].attempts + 1 < JobAttempts
             \/ job'[x].state = "failed"
      BY <2>2, <3>2, JobFields
    <3>4. job[x].attempts \in Nat /\ job[x].stalls \in Nat
      BY <3>2, JobFields
    <3> QED BY <3>1, <3>3, <3>4
  <2>3. CASE job'[x] = resolved(job[x])
    BY <1>3, <2>3, JobFields
  <2> QED BY <1>1, <2>1, <2>2, <2>3, JobChange DEF owns
<1>9. JobInv'
  BY <1>6, <1>7, <1>8 DEF JobInv
<1>10. OwnerInv'
  <2> SUFFICES ASSUME ~LiveStalls, NEW x \in Orders, NEW n \in Runs, pc'[Worker(x, n)] \in Live
               PROVE  job'[x].state = "active" /\ job'[x].run = n
    BY DEF OwnerInv
  <2>1. pc[Worker(x, n)] \in Live
    <3>1. CASE Worker(x, n) = p
      BY <1>1, <3>1, WorkerIsFlow DEF Effect
    <3>2. CASE Worker(x, n) # p
      BY <1>1, <3>2, WorkerIsFlow DEF Frame
    <3> QED BY <3>1, <3>2
  <2>2. job[x].state = "active" /\ job[x].run = n
    BY <2>1 DEF QueueInv, OwnerInv
  <2>3. CASE job'[x] = job[x]
    BY <2>2, <2>3
  <2>4. CASE x = p[1][1] /\ owns(p) /\ pc'[p] \notin Live
    <3>1. p = Worker(x, n)
      BY <2>2, <2>4, WorkerFlows DEF owns
    <3> QED BY <2>4, <3>1
  <2> QED BY <1>1, <2>3, <2>4, JobChange
<1> QED BY <1>5, <1>9, <1>10 DEF QueueInv
LEMMA JobOrder ==
  ASSUME TypeOK, QueueInv, NEW o \in Orders, OrderStep(o)
  PROVE  QueueInv'
<1>1. CASE CreateOrder(o)
  <2>1. JobInv'
    BY <1>1 DEF CreateOrder, QueueInv, JobInv, TypeOK, NoRow, NoJob
  <2>2. PlacedInv'
    BY <1>1, FlowParts, SagaParts DEF CreateOrder, QueueInv, PlacedInv, TypeOK, NoRow
  <2>3. OwnerInv'
    BY <1>1 DEF CreateOrder, QueueInv, OwnerInv
  <2> QED BY <2>1, <2>2, <2>3 DEF QueueInv
<1>2. CASE Enqueue(o)
  <2>1. /\ job[o] = NoJob /\ orders[o] # NoRow
        /\ \A x \in Orders : x # o => job'[x] = job[x] /\ api'[x] = api[x]
        /\ job'[o] = [state |-> "waiting", attempts |-> 0, stalls |-> 0, run |-> 0]
        /\ api'[o] = "done" /\ orders' = orders /\ sagas' = sagas /\ pc' = pc
    <3>1. api[o] = "enqueue" /\ job[o] = NoJob
      BY <1>2 DEF Enqueue, QueueInv, JobInv
    <3>2. job'[o] = [job[o] EXCEPT !.state = "waiting"]
      BY <1>2 DEF Enqueue, TypeOK
    <3>3. job'[o] = [state |-> "waiting", attempts |-> 0, stalls |-> 0, run |-> 0]
      BY <3>1, <3>2 DEF NoJob
    <3>4. \A x \in Orders : x # o => job'[x] = job[x] /\ api'[x] = api[x]
      BY <1>2 DEF Enqueue, TypeOK
    <3>5. api'[o] = "done" /\ orders' = orders /\ sagas' = sagas /\ pc' = pc
      BY <1>2 DEF Enqueue, TypeOK, rows
    <3>6. orders[o] # NoRow
      BY <3>1 DEF QueueInv, JobInv
    <3> QED BY <3>1, <3>3, <3>4, <3>5, <3>6
  <2>2. JobInv'
    BY <2>1, JobAssumption DEF QueueInv, JobInv, NoJob
  <2>3. PlacedInv' /\ OwnerInv'
    BY <2>1, WorkerIsFlow DEF QueueInv, PlacedInv, OwnerInv, NoJob
  <2> QED BY <2>2, <2>3 DEF QueueInv
<1>3. CASE EnqueueFails(o)
  BY <1>3 DEF EnqueueFails, QueueInv, JobInv, PlacedInv, OwnerInv, TypeOK, rows
<1>4. CASE Pickup(o)
  <2>1. PICK n \in Runs : /\ n = job[o].run + 1
                          /\ job' = [job EXCEPT ![o] = pickedUp(@)]
                          /\ Goto(Worker(o, n), "create")
    BY <1>4 DEF Pickup
  <2>2. /\ job[o] \in JobRecord /\ job[o].state = "waiting"
        /\ orders' = orders /\ sagas' = sagas /\ api' = api
        /\ \A x \in Orders : x # o => job'[x] = job[x]
        /\ job'[o] = pickedUp(job[o])
        /\ pc'[Worker(o, n)] = "create"
        /\ \A q \in Flows : q # Worker(o, n) => pc'[q] = pc[q]
    <3>1. Worker(o, n) \in Flows
      BY WorkerIsFlow
    <3> QED BY <1>4, <2>1, <3>1 DEF Pickup, TypeOK, Goto, rows
  <2>3. /\ job'[o].run = n /\ job'[o].state = "active"
        /\ job'[o].attempts = job[o].attempts /\ job'[o].stalls = job[o].stalls
        /\ job[o].run \in Nat /\ job[o].attempts \in Nat /\ job[o].stalls \in Nat
    BY <2>1, <2>2, JobFields
  <2>4. JobInv'
    <3>1. ASSUME NEW x \in Orders, NEW m \in Runs, m > job'[x].run
          PROVE  pc'[Worker(x, m)] = "idle"
      <4>1. Worker(x, m) # Worker(o, n)
        BY <2>3, <3>1, WorkerInjective DEF Runs
      <4>2. m > job[x].run
        BY <2>1, <2>2, <2>3, <3>1 DEF Runs
      <4>3. Worker(x, m) \in Flows
        BY WorkerIsFlow
      <4>4. pc'[Worker(x, m)] = pc[Worker(x, m)]
        BY <2>2, <4>1, <4>3
      <4> QED BY <4>2, <4>4 DEF QueueInv, JobInv
    <3>2. ASSUME NEW x \in Orders
          PROVE  /\ api'[x] = "idle" <=> orders'[x] = NoRow
                 /\ api'[x] # "done" => job'[x] = NoJob
                 /\ job'[x].state # "none" => orders'[x] # NoRow
                 /\ job'[x].state \in {"waiting", "active"} => job'[x].attempts < JobAttempts
                 /\ job'[x].state = "waiting" => job'[x].run = job'[x].attempts + job'[x].stalls
                 /\ job'[x].state = "active" => job'[x].run = job'[x].attempts + job'[x].stalls + 1
      <4>1. CASE x = o
        BY <2>1, <2>2, <2>3, <4>1 DEF QueueInv, JobInv, NoJob
      <4>2. CASE x # o
        BY <2>2, <4>2 DEF QueueInv, JobInv
      <4> QED BY <4>1, <4>2
    <3> QED BY <3>1, <3>2 DEF JobInv
  <2>5. PlacedInv'
    <3>1. orders[o] # NoRow /\ Worker(o, n)[1][1] = o
      BY <2>2, WorkerIsFlow DEF QueueInv, JobInv
    <3>2. ASSUME NEW q \in Flows, pc'[q] # "idle" PROVE orders'[q[1][1]] # NoRow
      BY <2>2, <3>1, <3>2 DEF QueueInv, PlacedInv
    <3> QED BY <2>2, <3>2 DEF QueueInv, PlacedInv
  <2>6. OwnerInv'
    <3> SUFFICES ASSUME ~LiveStalls, NEW x \in Orders, NEW m \in Runs, pc'[Worker(x, m)] \in Live
                 PROVE  job'[x].state = "active" /\ job'[x].run = m
      BY DEF OwnerInv
    <3>1. CASE Worker(x, m) = Worker(o, n)
      BY <2>3, <3>1, WorkerInjective
    <3>2. CASE Worker(x, m) # Worker(o, n)
      <4>1. pc[Worker(x, m)] \in Live
        BY <2>2, <3>2, WorkerIsFlow
      <4>2. job[x].state = "active" /\ job[x].run = m
        BY <4>1 DEF QueueInv, OwnerInv
      <4> QED BY <2>2, <4>2
    <3> QED BY <3>1, <3>2
  <2> QED BY <2>4, <2>5, <2>6 DEF QueueInv
<1>5. CASE JobStalled(o) \/ JobStalledLive(o)
  <2>1. /\ job[o] \in JobRecord /\ job[o].state = "active"
        /\ orders' = orders /\ sagas' = sagas /\ api' = api /\ pc' = pc
        /\ \A x \in Orders : x # o => job'[x] = job[x]
        /\ job'[o] = afterStall(job[o])
    BY <1>5 DEF JobStalled, JobStalledLive, Stall, TypeOK, rows
  <2>2. /\ job'[o].run = job[o].run
        /\ \/ /\ job'[o].state = "waiting" /\ job'[o].attempts = job[o].attempts
              /\ job'[o].stalls = job[o].stalls + 1
           \/ job'[o].state = "failed"
        /\ job[o].run \in Nat /\ job[o].attempts \in Nat /\ job[o].stalls \in Nat
    BY <2>1, JobFields
  <2>3. JobInv'
    <3>1. ASSUME NEW x \in Orders
          PROVE  /\ api'[x] = "idle" <=> orders'[x] = NoRow
                 /\ api'[x] # "done" => job'[x] = NoJob
                 /\ job'[x].state # "none" => orders'[x] # NoRow
                 /\ job'[x].state \in {"waiting", "active"} => job'[x].attempts < JobAttempts
                 /\ job'[x].state = "waiting" => job'[x].run = job'[x].attempts + job'[x].stalls
                 /\ job'[x].state = "active" => job'[x].run = job'[x].attempts + job'[x].stalls + 1
                 /\ \A n \in Runs : n > job'[x].run => pc'[Worker(x, n)] = "idle"
      <4>1. CASE x = o
        BY <2>1, <2>2, <4>1 DEF QueueInv, JobInv, NoJob
      <4>2. CASE x # o
        BY <2>1, <4>2 DEF QueueInv, JobInv
      <4> QED BY <4>1, <4>2
    <3> QED BY <3>1 DEF JobInv
  <2>4. PlacedInv'
    BY <2>1 DEF QueueInv, PlacedInv
  <2>5. OwnerInv'
    <3> SUFFICES ASSUME ~LiveStalls, NEW x \in Orders, NEW n \in Runs, pc'[Worker(x, n)] \in Live
                 PROVE  job'[x].state = "active" /\ job'[x].run = n
      BY DEF OwnerInv
    <3>1. job[x].state = "active" /\ job[x].run = n /\ pc[Worker(x, n)] \in Live
      BY <2>1 DEF QueueInv, OwnerInv
    <3>2. x # o
      BY <1>5, <3>1 DEF JobStalled, JobStalledLive, Stall, Live, Startup, Forward, Backward
    <3> QED BY <2>1, <3>1, <3>2
  <2> QED BY <2>3, <2>4, <2>5 DEF QueueInv
<1> QED BY <1>1, <1>2, <1>3, <1>4, <1>5 DEF OrderStep
LEMMA QueueInit == Init => QueueInv
BY DEF Init, QueueInv, JobInv, PlacedInv, OwnerInv, NoJob, NoRow, Runs, Worker, Flows, SagaIds,
   Actors, Live, Startup, Forward, Backward

LEMMA QueueStep == TypeOK /\ QueueInv /\ [Next]_vars => QueueInv'
<1> SUFFICES ASSUME TypeOK, QueueInv, [Next]_vars PROVE QueueInv'
  OBVIOUS
<1>1. CASE UNCHANGED vars
  BY <1>1 DEF vars, rows, queue, QueueInv, JobInv, PlacedInv, OwnerInv
<1>2. CASE Next
  BY <1>2, NextSteps, JobFlow, JobOrder
<1> QED BY <1>1, <1>2

(* Unless a job may stall while its run executes, the job's ownership      *)
(* serialises the runs of an order through every crash and retry.          *)
THEOREM RunsAreSerial == Spec => []OneRunAtATime
<1>1. QueueInv => OneRunAtATime
  BY DEF QueueInv, OwnerInv, OneRunAtATime
<1> QED BY <1>1, TypeCorrect, QueueInit, QueueStep, PTL DEF Spec

-----------------------------------------------------------------------------
(* What a run holds.                                                       *)

(* startSaga and compensate do not share a statement.                      *)
LEMMA Guards ==
  ASSUME NEW p \in Flows
  PROVE  /\ Advance(p) => pc[p] \in Startup \cup Forward \cup {"return"}
         /\ Compensate(p) => pc[p] \in Backward
<1>1. Advance(p) => pc[p] \in Startup \cup Forward \cup {"return"}
  BY DEF Advance, CreateSaga, StartSaga, BeginReserve, ReserveItem, ReserveFails, ReserveDone,
     ChargeSucceeds, ChargeDeclined, ConfirmOrder, CompleteSaga, CompleteJob,
     beginStep, endStep, endFailed, writeSaga, writeStep, writeOrder, Startup, Forward
<1>2. Compensate(p) => pc[p] \in Backward
  BY DEF Compensate, StartCompensation, GetSteps, Refund, ReleaseItem, ReleaseFails, ReleaseDone,
     CancelOrder, FinishCompensation, writeSaga, writeStep, writeOrder, Backward
<1> QED BY <1>1, <1>2

LEMMA RouteFlow ==
  ASSUME TypeOK, RouteInv, NEW p \in Flows, FlowStep(p)
  PROVE  RouteInv'
<1>1. Frame(p)
  BY FrameFlow
<1>2. ASSUME p[2] # "worker"
      PROVE  pc'[p] \in Backward \cup Ended /\ left'[p] = {}
  <2>1. pc[p] \in Backward \cup Ended /\ left[p] = {}
    BY <1>2 DEF RouteInv
  <2>2. ~Advance(p)
    BY <2>1, Guards DEF Startup, Forward, Backward, Ended
  <2> USE <1>2, <2>1 DEF TypeOK, Goto, EndFlow, setSaga, setStep, writeSaga, writeStep, writeOrder,
          locals, Ended, Backward
  <2>3. CASE AdminCompensate(p) \/ StartCompensation(p) \/ GetSteps(p) \/ Refund(p)
    BY <2>3 DEF AdminCompensate, StartCompensation, GetSteps, Refund, contextItems
  <2>4. CASE ReleaseItem(p) \/ ReleaseFails(p) \/ ReleaseDone(p)
    BY <2>4 DEF ReleaseItem, ReleaseFails, ReleaseDone, afterRelease
  <2>5. CASE CancelOrder(p) \/ FinishCompensation(p)
    BY <2>5 DEF CancelOrder, FinishCompensation
  <2>6. CASE Faulty(p)
    BY <2>6 DEF Faulty, ChargeThrows, CancelFails, Throw, Crash
  <2> QED BY <2>2, <2>3, <2>4, <2>5, <2>6 DEF FlowStep, Compensate
<1> QED BY <1>1, <1>2 DEF Frame, RouteInv
LEMMA RouteOrder ==
  ASSUME TypeOK, RouteInv, NEW o \in Orders, OrderStep(o)
  PROVE  RouteInv'
<1>1. left' = left
  BY DEF OrderStep, CreateOrder, Enqueue, EnqueueFails, Pickup, JobStalled, JobStalledLive, Stall,
     locals
<1>2. \A q \in Flows : q[2] # "worker" => pc'[q] = pc[q]
  <2>1. CASE Pickup(o)
    <3>1. PICK n \in Runs : Goto(Worker(o, n), "create")
      BY <2>1 DEF Pickup
    <3>2. Worker(o, n)[2] = "worker"
      BY WorkerIsFlow
    <3>3. ASSUME NEW q \in Flows, q[2] # "worker" PROVE pc'[q] = pc[q]
      <4>1. q # Worker(o, n)
        BY <3>2, <3>3
      <4> QED BY <3>1, <4>1 DEF Goto, TypeOK
    <3> QED BY <3>3
  <2>2. CASE ~Pickup(o)
    BY <2>2 DEF OrderStep, CreateOrder, Enqueue, EnqueueFails, JobStalled, JobStalledLive, Stall
  <2> QED BY <2>1, <2>2
<1> QED BY <1>1, <1>2 DEF RouteInv

LEMMA HeldFlow ==
  ASSUME TypeOK, RouteInv, HeldInv, NEW p \in Flows, FlowStep(p)
  PROVE  HeldInv'
<1>1. Frame(p)
  BY FrameFlow
<1>2. ASSUME p[2] # "worker" PROVE HeldInv'
  <2>1. pc[p] \in Backward \cup Ended /\ left[p] = {}
    BY <1>2 DEF RouteInv
  <2>2. held' = held
    <3>1. ~Advance(p)
      BY <2>1, Guards DEF Startup, Forward, Backward, Ended
    <3>2. ~ReleaseItem(p)
      BY <2>1 DEF ReleaseItem, isNext
    <3>3. AdminCompensate(p) \/ Faulty(p) => held' = held
      BY DEF AdminCompensate, Faulty, ChargeThrows, CancelFails, Throw, Crash, goods
    <3>4. Compensate(p) => held' = held
      BY <3>2 DEF Compensate, StartCompensation, GetSteps, Refund, ReleaseFails, ReleaseDone,
         CancelOrder, FinishCompensation, writeSaga, writeStep, writeOrder, goods
    <3> QED BY <3>1, <3>3, <3>4 DEF FlowStep
  <2>3. ASSUME NEW s \in SagaIds
        PROVE  pc'[<<s, "worker">>] = pc[<<s, "worker">>] /\ left'[<<s, "worker">>] = left[<<s, "worker">>]
    <3>1. <<s, "worker">> # p
      BY <1>2
    <3> QED BY <1>1, <3>1, SagaParts DEF Frame
  <2> QED BY <2>2, <2>3 DEF HeldInv
<1>3. ASSUME p[2] = "worker"
      PROVE  LET s == p[1] IN
             /\ pc'[p] \in Unreserved => held'[s] = {}
             /\ pc'[p] = "reserve" => held'[s] \cup left'[p] = Items(s[1])
             /\ pc'[p] \in Reserved => held'[s] = Items(s[1])
  <2>1. /\ pc[p] \in Unreserved => held[p[1]] = {}
        /\ pc[p] = "reserve" => held[p[1]] \cup left[p] = Items(p[1][1])
        /\ pc[p] \in Reserved => held[p[1]] = Items(p[1][1])
    BY <1>3, FlowParts DEF HeldInv
  <2> USE <2>1, FlowParts DEF TypeOK, Goto, EndFlow, goods, Unreserved, Reserved
  <2>2. CASE BeginReserve(p) \/ ReserveItem(p) \/ ReserveFails(p) \/ ReserveDone(p)
    <3>1. CASE BeginReserve(p)
      BY <3>1 DEF BeginReserve
    <3>2. CASE ReserveItem(p)
      <4>1. PICK k \in left[p] : /\ held' = [held EXCEPT ![p[1]] = @ \cup {k}]
                                 /\ left' = [left EXCEPT ![p] = @ \ {k}]
        BY <3>2 DEF ReserveItem, isNext
      <4>2. held'[p[1]] \cup left'[p] = held[p[1]] \cup left[p]
        BY <4>1
      <4>3. pc' = pc /\ pc[p] = "reserve"
        BY <3>2 DEF ReserveItem
      <4> QED BY <4>2, <4>3
    <3>3. CASE ReserveFails(p)
      BY <3>3 DEF ReserveFails
    <3>4. CASE ReserveDone(p)
      BY <3>4 DEF ReserveDone
    <3> QED BY <2>2, <3>1, <3>2, <3>3, <3>4
  <2>3. CASE ChargeSucceeds(p) \/ ChargeDeclined(p) \/ CompleteJob(p)
    BY <2>3 DEF ChargeSucceeds, ChargeDeclined, CompleteJob
  <2>4. CASE Faulty(p)
    BY <2>4 DEF Faulty, ChargeThrows, CancelFails, Throw, Crash
  <2>5. CASE Advance(p)
    BY <2>2, <2>3, <2>5 DEF Advance, CreateSaga, StartSaga, ConfirmOrder, CompleteSaga,
       beginStep, endStep, endFailed, writeSaga, writeStep, writeOrder
  <2>6. CASE AdminCompensate(p)
    BY <1>3, <2>6, AdminAssumption DEF AdminCompensate
  <2>7. CASE Compensate(p)
    BY <2>7 DEF Compensate, StartCompensation, GetSteps, Refund, ReleaseItem, ReleaseFails,
       ReleaseDone, afterRelease, CancelOrder, FinishCompensation, writeSaga, writeStep, writeOrder
  <2> QED BY <2>4, <2>5, <2>6, <2>7 DEF FlowStep
<1>4. ASSUME p[2] = "worker", NEW s \in SagaIds, s # p[1]
      PROVE  LET w == <<s, "worker">> IN
             pc'[w] = pc[w] /\ left'[w] = left[w] /\ held'[s] = held[s]
  BY <1>1, <1>4, SagaParts DEF Frame
<1>5. ASSUME p[2] = "worker" PROVE HeldInv'
  <2>1. p = <<p[1], "worker">>
    BY <1>5, FlowParts
  <2> QED BY <1>3, <1>4, <1>5, <2>1 DEF HeldInv
<1> QED BY <1>2, <1>5
(* A step of an order leaves the sagas' rows alone; at most it starts a    *)
(* run, at "create", that was idle.                                        *)
LEMMA OrderStarts ==
  ASSUME TypeOK, QueueInv, NEW o \in Orders, OrderStep(o)
  PROVE  /\ UNCHANGED <<steps, sagas, held, charges, left, snap, stock>>
         /\ \A q \in Flows : pc'[q] # pc[q] => pc[q] = "idle" /\ pc'[q] = "create"
<1>1. CASE Pickup(o)
  <2>1. PICK n \in Runs : n = job[o].run + 1 /\ Goto(Worker(o, n), "create")
    BY <1>1 DEF Pickup
  <2>2. pc[Worker(o, n)] = "idle"
    <3>1. job[o].run \in Nat
      BY JobFields DEF TypeOK
    <3>2. n > job[o].run
      BY <2>1, <3>1
    <3> QED BY <3>2 DEF QueueInv, JobInv
  <2>3. Worker(o, n) \in Flows
    BY WorkerIsFlow
  <2>4. \A q \in Flows : pc'[q] # pc[q] => q = Worker(o, n) /\ pc'[q] = "create"
    BY <2>1, <2>3 DEF Goto, TypeOK
  <2> QED BY <1>1, <2>2, <2>4 DEF Pickup, rows, goods, money, locals
<1>2. CASE ~Pickup(o)
  BY <1>2 DEF OrderStep, CreateOrder, Enqueue, EnqueueFails, JobStalled, JobStalledLive, Stall,
     rows, goods, money, locals
<1> QED BY <1>1, <1>2

LEMMA HeldOrder ==
  ASSUME TypeOK, QueueInv, HeldInv, NEW o \in Orders, OrderStep(o)
  PROVE  HeldInv'
<1>1. \A s \in SagaIds : LET w == <<s, "worker">> IN
        pc'[w] # pc[w] => pc[w] = "idle" /\ pc'[w] = "create"
  BY OrderStarts, SagaParts
<1>2. held' = held /\ left' = left
  BY OrderStarts
<1> QED BY <1>1, <1>2 DEF HeldInv, Unreserved, Reserved

-----------------------------------------------------------------------------
(* What is on record of a payment.                                         *)
MoneyInv == PaymentInv /\ SnapshotInv

PP == PROCESS_PAYMENT

(* What a step of a flow may write to saga_steps.                          *)
put(p, i, row) == steps' = [steps EXCEPT ![p[1]][i] = row]

LEMMA StepWrites ==
  ASSUME NEW p \in Flows, FlowStep(p)
  PROVE  \/ steps' = steps
         \/ \E row : /\ put(p, RESERVE_INVENTORY, row)
                     /\ \/ pc[p] \in {"begin0", "end0"} \/ row = failStep(createStep)
                        \/ /\ pc[p] \in {"markReleased", "markUnreleased"}
                           /\ row \in {markStepCompensated(snap[p][RESERVE_INVENTORY]),
                                      markStepCompensationFailed(snap[p][RESERVE_INVENTORY])}
         \/ \E i \in {CONFIRM_ORDER, EMIT_EVENTS} :
              put(p, i, createStep) \/ put(p, i, completeStep(createStep, i))
         \/ pc[p] \in {"begin1", "fail1"} /\ (put(p, PP, createStep) \/ put(p, PP, failStep(createStep)))
         \/ pc[p] = "end1" /\ put(p, PP, completeStep(createStep, PP))
         \/ /\ pc[p] \in {"markRefunded", "markUnrefunded"}
            /\ \/ put(p, PP, markStepCompensated(snap[p][PP]))
               \/ put(p, PP, markStepCompensationFailed(snap[p][PP]))
<1> USE DEF put, PP, setStep, writeSaga, writeStep, writeOrder, rows
<1>1. CASE BeginReserve(p) \/ ReserveItem(p) \/ ReserveFails(p) \/ ReserveDone(p)
  BY <1>1 DEF BeginReserve, ReserveItem, ReserveFails, ReserveDone
<1>2. CASE ChargeSucceeds(p) \/ ChargeDeclined(p) \/ CompleteJob(p)
  BY <1>2 DEF ChargeSucceeds, ChargeDeclined, CompleteJob
<1>3. CASE Faulty(p)
  BY <1>3 DEF Faulty, ChargeThrows, CancelFails, Throw, Crash
<1>4. CASE Advance(p)
  BY <1>1, <1>2, <1>4 DEF Advance, CreateSaga, StartSaga, ConfirmOrder, CompleteSaga,
     beginStep, endStep, endFailed
<1>5. CASE AdminCompensate(p) \/ GetSteps(p) \/ Refund(p) \/ ReleaseItem(p) \/ ReleaseFails(p)
           \/ ReleaseDone(p) \/ FinishCompensation(p)
  BY <1>5 DEF AdminCompensate, GetSteps, Refund, ReleaseItem, ReleaseFails, ReleaseDone,
     FinishCompensation
<1>6. CASE Compensate(p)
  BY <1>5, <1>6 DEF Compensate, StartCompensation, CancelOrder
<1> QED BY <1>3, <1>4, <1>5, <1>6 DEF FlowStep

LEMMA Put ==
  ASSUME TypeOK, NEW p \in Flows, NEW i \in StepIds, NEW row, put(p, i, row)
  PROVE  /\ steps'[p[1]][i] = row
         /\ \A j \in StepIds : j # i => steps'[p[1]][j] = steps[p[1]][j]
BY FlowParts DEF put, TypeOK

(* Charges are only added, by a run that is charging.                      *)
LEMMA ChargeWrites ==
  ASSUME TypeOK, NEW p \in Flows, FlowStep(p)
  PROVE  /\ charges'[p[1]] >= charges[p[1]]
         /\ charges' # charges => pc[p] = "charge"
         /\ pc[p] = "charge" /\ pc'[p] = "end1" => charges'[p[1]] > 0
<1> USE FlowParts
<1>1. CASE ChargeSucceeds(p)
  BY <1>1 DEF ChargeSucceeds, TypeOK
<1>2. CASE ChargeThrows(p)
  BY <1>2 DEF ChargeThrows, TypeOK, Goto
<1>3. CASE ~ChargeSucceeds(p) /\ ~ChargeThrows(p)
  <2>1. charges' = charges
    BY <1>3 DEF FlowStep, Faulty, CancelFails, Throw, Crash, AdminCompensate, Advance, CreateSaga,
       StartSaga, BeginReserve, ReserveItem, ReserveFails, ReserveDone, ChargeDeclined,
       ConfirmOrder, CompleteSaga, CompleteJob, beginStep, endStep, endFailed, writeSaga,
       writeStep, writeOrder, Compensate, StartCompensation, GetSteps, Refund, ReleaseItem,
       ReleaseFails, ReleaseDone, CancelOrder, FinishCompensation, money
  <2>2. ~ (pc[p] = "charge" /\ pc'[p] = "end1")
    <3>1. CASE Advance(p)
      BY <1>3, <3>1 DEF Advance, CreateSaga,
       StartSaga, BeginReserve, ReserveItem, ReserveFails, ReserveDone, ChargeDeclined,
       ConfirmOrder, CompleteSaga, CompleteJob, beginStep, endStep, endFailed, writeSaga,
       writeStep, writeOrder, Goto, TypeOK
    <3>2. CASE ~Advance(p)
      BY <1>3, <3>2, Guards DEF FlowStep, Faulty, CancelFails, Throw, Crash, EndFlow, Goto,
         AdminCompensate, Backward, TypeOK
    <3> QED BY <3>1, <3>2
  <2> QED BY <2>1, <2>2 DEF TypeOK
<1> QED BY <1>1, <1>2, <1>3

(* The record of a captured payment is made by one statement, endStep at   *)
(* "end1", and unmade by none.                                             *)
LEMMA RecordFlow ==
  ASSUME TypeOK, RouteInv, MoneyInv, NEW p \in Flows, FlowStep(p)
  PROVE  LET s == p[1] IN
         /\ charged(steps[s][PP]) => charged(steps'[s][PP])
         /\ charged(steps'[s][PP]) => charged(steps[s][PP]) \/ pc[p] = "end1"
         /\ steps[s][EMIT_EVENTS].status # NoRow => steps'[s][EMIT_EVENTS].status # NoRow
<1> DEFINE s == p[1]
<1>1. s \in SagaIds /\ steps[s] \in [StepIds -> StepRow] /\ snap[p][PP] \in StepRow
  BY FlowParts DEF TypeOK, PP, PROCESS_PAYMENT, StepIds
<1>2. CASE steps' = steps
  BY <1>2
<1>3. /\ {RESERVE_INVENTORY, PP, CONFIRM_ORDER, EMIT_EVENTS} \subseteq StepIds
      /\ RESERVE_INVENTORY # PP /\ CONFIRM_ORDER # PP /\ EMIT_EVENTS # PP
      /\ RESERVE_INVENTORY # EMIT_EVENTS /\ CONFIRM_ORDER # EMIT_EVENTS
  BY DEF StepIds, PP, PROCESS_PAYMENT, EMIT_EVENTS, RESERVE_INVENTORY, CONFIRM_ORDER
<1>4. CASE \E row : put(p, RESERVE_INVENTORY, row)
  BY <1>3, <1>4, Put
<1>5. CASE \E i \in {CONFIRM_ORDER, EMIT_EVENTS} :
             put(p, i, createStep) \/ put(p, i, completeStep(createStep, i))
  <2>1. PICK i \in {CONFIRM_ORDER, EMIT_EVENTS}, row \in StepRow :
          put(p, i, row) /\ row.status # NoRow
    <3>1. \A i \in StepIds : /\ createStep \in StepRow /\ createStep.status # NoRow
                            /\ completeStep(createStep, i) \in StepRow
                            /\ completeStep(createStep, i).status # NoRow
      BY StepRows DEF createStep, completeStep, NoRow
    <3> QED BY <1>3, <1>5, <3>1
  <2> QED BY <1>3, <2>1, Put
<1>6. CASE /\ pc[p] \in {"begin1", "fail1"}
           /\ put(p, PP, createStep) \/ put(p, PP, failStep(createStep))
  <2>1. p[2] = "worker" /\ pc[p] \in Unpaid
    BY <1>6 DEF RouteInv, Unpaid, Unreserved, Backward, Ended
  <2>2. ~charged(steps[s][PP])
    <3>1. p = <<s, "worker">>
      BY <2>1, FlowParts
    <3> QED BY <1>1, <2>1, <3>1 DEF MoneyInv, PaymentInv, PP
  <2>3. ~charged(createStep) /\ ~charged(failStep(createStep))
    BY DEF charged, createStep, failStep
  <2> QED BY <1>3, <1>6, <2>2, <2>3, Put
<1>7. CASE pc[p] = "end1" /\ put(p, PP, completeStep(createStep, PP))
  <2>1. charged(completeStep(createStep, PP))
    BY DEF charged, completeStep, createStep, PP
  <2> QED BY <1>3, <1>7, <2>1, Put
<1>8. CASE /\ pc[p] \in {"markRefunded", "markUnrefunded"}
           /\ \/ put(p, PP, markStepCompensated(snap[p][PP]))
              \/ put(p, PP, markStepCompensationFailed(snap[p][PP]))
  <2>1. charged(snap[p][PP]) /\ charged(steps[s][PP])
    BY <1>8 DEF MoneyInv, SnapshotInv, Refunding, PP
  <2>2. \A row \in StepRow : charged(row) => /\ charged(markStepCompensated(row))
                                           /\ charged(markStepCompensationFailed(row))
    BY DEF charged, markStepCompensated, markStepCompensationFailed, StepRow
  <2> QED BY <1>1, <1>3, <1>8, <2>1, <2>2, Put
<1> QED BY <1>2, <1>4, <1>5, <1>6, <1>7, <1>8, StepWrites
(* The order in which a flow passes the places that concern the payment.   *)
LEMMA MoneyMoves ==
  ASSUME TypeOK, NEW p \in Flows, FlowStep(p)
  PROVE  /\ pc'[p] \in Unpaid \cup Backward => pc[p] \in (Unpaid \cup Backward) \ {"end1"}
         /\ pc'[p] = "end1" => pc[p] = "charge"
         /\ pc'[p] \in Paid =>
              \/ pc[p] \in Paid
              \/ pc[p] = "end1" /\ put(p, PP, completeStep(createStep, PP))
         /\ pc'[p] = "confirm" => put(p, EMIT_EVENTS, createStep)
         /\ pc'[p] \in Refunding =>
              \/ pc[p] \in Refunding /\ snap'[p] = snap[p]
              \/ snap'[p] = steps[p[1]] /\ steps' = steps /\ charged(steps[p[1]][PP])
<1>t. pc \in [Flows -> Live \cup Ended] /\ snap \in [Flows -> [StepIds -> StepRow]]
  BY DEF TypeOK
<1> USE <1>t DEF Goto, EndFlow, Unpaid, Unreserved, Backward, Paid, Refunding
<1>1. CASE BeginReserve(p) \/ ReserveItem(p) \/ ReserveFails(p) \/ ReserveDone(p)
  BY <1>1 DEF BeginReserve, ReserveItem, ReserveFails, ReserveDone
<1>2. CASE ChargeSucceeds(p) \/ ChargeDeclined(p) \/ CompleteJob(p)
  BY <1>2 DEF ChargeSucceeds, ChargeDeclined, CompleteJob
<1>3. CASE ChargeThrows(p)
  BY <1>3 DEF ChargeThrows
<1>4. CASE CancelFails(p) \/ Throw(p) \/ Crash(p)
  BY <1>4 DEF CancelFails, Throw, Crash
<1>5. CASE CreateSaga(p) \/ StartSaga(p) \/ ConfirmOrder(p) \/ CompleteSaga(p)
  <2>1. \/ pc[p] = "create" /\ pc'[p] = "start"
        \/ pc[p] = "start" /\ pc'[p] = "begin0"
        \/ pc[p] = "confirm" /\ pc'[p] = "end2"
        \/ pc[p] = "complete" /\ pc'[p] = "return"
    BY <1>5 DEF CreateSaga, StartSaga, ConfirmOrder, CompleteSaga, writeSaga, writeOrder
  <2> QED BY <2>1
<1>6. CASE \/ endStep(p, "end0", RESERVE_INVENTORY, "begin1")
           \/ endFailed(p, "fail0", RESERVE_INVENTORY)
           \/ beginStep(p, "begin1", PROCESS_PAYMENT, "charge")
           \/ endFailed(p, "fail1", PROCESS_PAYMENT)
           \/ beginStep(p, "begin2", CONFIRM_ORDER, "begin3")
           \/ endStep(p, "end2", CONFIRM_ORDER, "end3")
           \/ endStep(p, "end3", EMIT_EVENTS, "complete")
  <2>1. \/ pc[p] = "end0" /\ pc'[p] = "begin1"
        \/ pc[p] = "fail0" /\ pc'[p] = "compensate"
        \/ pc[p] = "begin1" /\ pc'[p] = "charge"
        \/ pc[p] = "fail1" /\ pc'[p] = "compensate"
        \/ pc[p] = "begin2" /\ pc'[p] = "begin3"
        \/ pc[p] = "end2" /\ pc'[p] = "end3"
        \/ pc[p] = "end3" /\ pc'[p] = "complete"
    BY <1>6 DEF beginStep, endStep, endFailed, writeStep
  <2> QED BY <2>1
<1>7. CASE endStep(p, "end1", PROCESS_PAYMENT, "begin2")
  <2>1. pc[p] = "end1" /\ pc'[p] = "begin2" /\ put(p, PP, completeStep(createStep, PP))
    BY <1>7 DEF endStep, writeStep, setStep, put, PP
  <2> QED BY <2>1
<1>8. CASE beginStep(p, "begin3", EMIT_EVENTS, "confirm")
  <2>1. pc[p] = "begin3" /\ pc'[p] = "confirm" /\ put(p, EMIT_EVENTS, createStep)
    BY <1>8 DEF beginStep, writeStep, setStep, put
  <2> QED BY <2>1
<1>9. CASE AdminCompensate(p) \/ StartCompensation(p)
  BY <1>9 DEF AdminCompensate, StartCompensation, writeSaga
<1>10. CASE GetSteps(p)
  BY <1>10 DEF GetSteps, rows, PP
<1>11. CASE Refund(p)
  BY <1>11 DEF Refund, locals
<1>12. CASE ReleaseItem(p) \/ ReleaseFails(p) \/ ReleaseDone(p)
  BY <1>12 DEF ReleaseItem, ReleaseFails, ReleaseDone, afterRelease
<1>13. CASE CancelOrder(p) \/ FinishCompensation(p)
  <2>1. pc[p] \in Backward /\ pc'[p] \in {"finish", "return", "done"}
    BY <1>13 DEF CancelOrder, FinishCompensation, writeOrder
  <2> QED BY <2>1
<1>14. CASE Compensate(p)
  BY <1>9, <1>10, <1>11, <1>12, <1>13, <1>14 DEF Compensate, writeStep
<1> QED BY <1>1, <1>2, <1>3, <1>4, <1>5, <1>6, <1>7, <1>8, <1>9, <1>14
        DEF FlowStep, Advance, Faulty

LEMMA MoneyFlow ==
  ASSUME TypeOK, RouteInv, MoneyInv, NEW p \in Flows, FlowStep(p)
  PROVE  MoneyInv'
<1>1. Frame(p)
  BY FrameFlow
<1>2. ASSUME NEW s \in SagaIds
      PROVE  /\ charged(steps[s][PP]) => charged(steps'[s][PP])
             /\ charged(steps'[s][PP]) => charged(steps[s][PP]) \/ (s = p[1] /\ pc[p] = "end1")
             /\ steps[s][EMIT_EVENTS].status # NoRow => steps'[s][EMIT_EVENTS].status # NoRow
             /\ charges'[s] >= charges[s] /\ charges[s] \in Nat /\ charges'[s] \in Nat
  <2>1. charges[s] \in Nat /\ charges'[s] \in Nat
    BY TypeAdvance, TypeCompensate, TypeFaulty DEF TypeOK, FlowStep
  <2>2. CASE s = p[1]
    BY <2>1, <2>2, RecordFlow, ChargeWrites
  <2>3. CASE s # p[1]
    BY <1>1, <2>1, <2>3 DEF Frame
  <2> QED BY <2>1, <2>2, <2>3
<1>3. /\ PP \in StepIds /\ EMIT_EVENTS \in StepIds /\ createStep.status # NoRow
      /\ charged(completeStep(createStep, PP))
  <2>1. charged(completeStep(createStep, PP))
    BY DEF charged, completeStep, createStep, PP
  <2> QED BY <2>1 DEF PP, PROCESS_PAYMENT, EMIT_EVENTS, StepIds, createStep, NoRow
<1>4. ASSUME NEW s \in SagaIds
      PROVE  LET w == <<s, "worker">> IN
             /\ pc'[w] \in Unpaid \cup Backward => ~charged(steps'[s][PP])
             /\ pc'[w] \in {"end1"} \cup Paid => charges'[s] > 0
             /\ pc'[w] \in Paid => charged(steps'[s][PP])
             /\ pc'[w] = "confirm" => steps'[s][EMIT_EVENTS].status # NoRow
  <2> DEFINE w == <<s, "worker">>
  <2>0. /\ w \in Flows
        /\ pc[w] \in Unpaid \cup Backward => ~charged(steps[s][PP])
        /\ pc[w] \in {"end1"} \cup Paid => charges[s] > 0
        /\ pc[w] \in Paid => charged(steps[s][PP])
        /\ pc[w] = "confirm" => steps[s][EMIT_EVENTS].status # NoRow
    BY SagaParts DEF MoneyInv, PaymentInv, PP
  <2>1. CASE w = p
    <3>1. s = p[1]
      BY <2>1
    <3>2. pc'[w] \in Unpaid \cup Backward => ~charged(steps'[s][PP])
      BY <1>2, <2>0, <2>1, MoneyMoves
    <3>3. pc'[w] \in Paid => charged(steps'[s][PP])
      BY <1>2, <1>3, <2>0, <2>1, <3>1, MoneyMoves, Put
    <3>4. pc'[w] = "confirm" => steps'[s][EMIT_EVENTS].status # NoRow
      BY <1>3, <2>1, <3>1, MoneyMoves, Put
    <3>5. pc'[w] \in {"end1"} \cup Paid => charges'[s] > 0
      BY <1>2, <2>0, <2>1, <3>1, MoneyMoves, ChargeWrites
    <3> QED BY <3>2, <3>3, <3>4, <3>5
  <2>2. CASE w # p
    <3>1. pc'[w] = pc[w]
      BY <1>1, <2>0, <2>2 DEF Frame
    <3>2. charged(steps'[s][PP]) => charged(steps[s][PP])
      <4>1. CASE s = p[1] /\ pc[p] = "end1"
        <5>1. p[2] = "worker"
          BY <4>1 DEF RouteInv, Backward, Ended
        <5> QED BY <2>2, <4>1, <5>1, FlowParts
      <4> QED BY <1>2, <4>1
    <3> QED BY <1>2, <2>0, <3>1, <3>2
  <2> QED BY <2>1, <2>2
<1>5. ASSUME NEW q \in Flows, pc'[q] \in Refunding
      PROVE  charged(snap'[q][PP]) /\ charged(steps'[q[1]][PP])
  <2>1. CASE q = p
    BY <1>2, <1>5, <2>1, MoneyMoves, FlowParts DEF MoneyInv, SnapshotInv, PP
  <2>2. CASE q # p
    BY <1>1, <1>2, <1>5, <2>2, FlowParts DEF Frame, MoneyInv, SnapshotInv, PP
  <2> QED BY <2>1, <2>2
<1> QED BY <1>4, <1>5 DEF MoneyInv, PaymentInv, SnapshotInv, PP
LEMMA MoneyOrder ==
  ASSUME TypeOK, QueueInv, MoneyInv, NEW o \in Orders, OrderStep(o)
  PROVE  MoneyInv'
<1>1. \A s \in SagaIds : LET w == <<s, "worker">> IN
        pc'[w] # pc[w] => pc[w] = "idle" /\ pc'[w] = "create"
  BY OrderStarts, SagaParts
<1>2. steps' = steps /\ charges' = charges /\ snap' = snap
  BY OrderStarts
<1>3. PaymentInv'
  BY <1>1, <1>2 DEF MoneyInv, PaymentInv, Unpaid, Unreserved, Paid, Backward
<1>4. SnapshotInv'
  BY <1>2, OrderStarts DEF MoneyInv, SnapshotInv, Refunding
<1> QED BY <1>3, <1>4 DEF MoneyInv

-----------------------------------------------------------------------------
(* What is announced.                                                      *)

(* The two transactions that write an order after createOrder.             *)
announces(o, status, event) ==
  /\ orders' = [orders EXCEPT ![o] = status]
  /\ outbox' = [outbox EXCEPT ![o] = Append(@, event)]

LEMMA FlowAnnounces ==
  ASSUME NEW p \in Flows, FlowStep(p)
  PROVE  \/ UNCHANGED <<orders, outbox>>
         \/ pc[p] = "confirm" /\ announces(p[1][1], "PAID", "order.paid")
         \/ pc[p] = "cancel" /\ announces(p[1][1], "CANCELLED", "order.failed")
<1> USE DEF announces, writeSaga, writeStep, writeOrder, rows
<1>1. CASE Faulty(p)
  BY <1>1 DEF Faulty, ChargeThrows, CancelFails, Throw, Crash
<1>2. CASE Advance(p)
  BY <1>2 DEF Advance, CreateSaga, StartSaga, BeginReserve, ReserveItem, ReserveFails, ReserveDone,
     ChargeSucceeds, ChargeDeclined, ConfirmOrder, CompleteSaga, CompleteJob,
     beginStep, endStep, endFailed
<1>3. CASE AdminCompensate(p) \/ Compensate(p)
  BY <1>3 DEF AdminCompensate, Compensate, StartCompensation, GetSteps, Refund, ReleaseItem,
     ReleaseFails, ReleaseDone, CancelOrder, FinishCompensation
<1> QED BY <1>1, <1>2, <1>3 DEF FlowStep

LEMMA OrderAnnounces ==
  ASSUME NEW o \in Orders, OrderStep(o)
  PROVE  \/ UNCHANGED <<orders, outbox>>
         \/ announces(o, "PENDING", "order.created")
BY DEF OrderStep, CreateOrder, Enqueue, EnqueueFails, Pickup, JobStalled, JobStalledLive, Stall,
   announces, rows

(* Announcing keeps status and last event together.                        *)
LEMMA StatusAnnounced ==
  ASSUME TypeOK, StatusIsLastCommitted, NEW o \in Orders,
         NEW status \in DOMAIN EventOf, announces(o, status, EventOf[status])
  PROVE  StatusIsLastCommitted'
<1>1. EventOf[status] \in EventTypes
  BY DEF EventOf, EventTypes
<1>2. outbox[o] \in Seq(EventTypes)
  BY DEF TypeOK
<1>3. /\ outbox'[o] = Append(outbox[o], EventOf[status]) /\ orders'[o] = status
      /\ \A x \in Orders : x # o => outbox'[x] = outbox[x] /\ orders'[x] = orders[x]
  BY DEF announces, TypeOK
<1>4. /\ Append(outbox[o], EventOf[status]) # << >>
      /\ LET s == Append(outbox[o], EventOf[status]) IN s[Len(s)] = EventOf[status]
  BY <1>1, <1>2
<1> QED BY <1>3, <1>4 DEF StatusIsLastCommitted

LEMMA StatusInit == Init => StatusIsLastCommitted
BY DEF Init, StatusIsLastCommitted, NoRow

LEMMA StatusStep == TypeOK /\ StatusIsLastCommitted /\ [Next]_vars => StatusIsLastCommitted'
<1> SUFFICES ASSUME TypeOK, StatusIsLastCommitted, [Next]_vars PROVE StatusIsLastCommitted'
  OBVIOUS
<1>1. CASE UNCHANGED <<orders, outbox>>
  BY <1>1 DEF StatusIsLastCommitted
<1>2. CASE \E o \in Orders : \/ announces(o, "PENDING", "order.created")
                            \/ announces(o, "PAID", "order.paid")
                            \/ announces(o, "CANCELLED", "order.failed")
  <2>1. \E o \in Orders, status \in DOMAIN EventOf : announces(o, status, EventOf[status])
    BY <1>2 DEF EventOf
  <2> QED BY <2>1, StatusAnnounced
<1> QED BY <1>1, <1>2, NextSteps, FlowAnnounces, OrderAnnounces, FlowParts DEF vars, rows

LEMMA StatusCommitted == Spec => []StatusIsLastCommitted
BY TypeCorrect, StatusInit, StatusStep, PTL DEF Spec
-----------------------------------------------------------------------------
(* The inductive invariant without the parts that stand alone.             *)
CoreInv == TypeOK /\ QueueInv /\ RouteInv /\ HeldInv /\ MoneyInv

LEMMA CoreInit == Init => CoreInv
<1> SUFFICES ASSUME Init PROVE CoreInv
  OBVIOUS
<1>1. /\ \A p \in Flows : pc[p] = "idle" /\ left[p] = {}
      /\ \A s \in SagaIds : held[s] = {} /\ steps[s] = NoSteps /\ charges[s] = 0
  BY DEF Init
<1>2. RouteInv
  BY <1>1 DEF RouteInv, Ended
<1>3. HeldInv
  BY <1>1, SagaParts DEF HeldInv, Unreserved, Reserved
<1>4. ~charged(NoSteps[PP])
  BY DEF charged, NoSteps, NoStep, StepIds, PP, PROCESS_PAYMENT, NoRow
<1>5. MoneyInv
  BY <1>1, <1>4, SagaParts DEF MoneyInv, PaymentInv, SnapshotInv, PP, Paid, Refunding
<1> QED BY <1>2, <1>3, <1>5, TypeInit, QueueInit DEF CoreInv

LEMMA CoreStep == CoreInv /\ [Next]_vars => CoreInv'
<1> SUFFICES ASSUME CoreInv, [Next]_vars PROVE CoreInv'
  OBVIOUS
<1>1. TypeOK' /\ QueueInv'
  BY TypeStep, QueueStep DEF CoreInv
<1>2. CASE UNCHANGED vars
  BY <1>1, <1>2 DEF CoreInv, RouteInv, HeldInv, MoneyInv, PaymentInv, SnapshotInv,
     vars, rows, goods, money, locals
<1>3. CASE \E p \in Flows : FlowStep(p)
  BY <1>1, <1>3, RouteFlow, HeldFlow, MoneyFlow DEF CoreInv
<1>4. CASE \E o \in Orders : OrderStep(o)
  BY <1>1, <1>4, RouteOrder, HeldOrder, MoneyOrder DEF CoreInv
<1> QED BY <1>2, <1>3, <1>4, NextSteps

LEMMA Core == Spec => []CoreInv
BY CoreInit, CoreStep, PTL DEF Spec

(* A run that charges holds every item of its order, whatever failed,      *)
(* stalled or was retried before.                                          *)
THEOREM ChargesAreReserved == Spec => ChargeOnlyWhenReserved
<1>1. CoreInv /\ [Next]_vars
        => [\A s \in SagaIds : charges'[s] # charges[s] => held[s] = Items(s[1])]_vars
  <2> SUFFICES ASSUME CoreInv, [Next]_vars, NEW s \in SagaIds, charges'[s] # charges[s]
               PROVE  held[s] = Items(s[1])
    BY DEF vars
  <2>1. CASE \E p \in Flows : FlowStep(p)
    <3>1. PICK p \in Flows : FlowStep(p)
      BY <2>1
    <3>2. s = p[1] /\ pc[p] = "charge"
      BY <3>1, FrameFlow, ChargeWrites DEF CoreInv, Frame
    <3>3. p[2] = "worker"
      BY <3>2 DEF CoreInv, RouteInv, Backward, Ended
    <3>4. p = <<s, "worker">>
      BY <3>2, <3>3, FlowParts
    <3> QED BY <3>2, <3>4 DEF CoreInv, HeldInv, Reserved
  <2>2. CASE ~ \E p \in Flows : FlowStep(p)
    <3>1. charges' = charges
      BY <2>2, NextSteps, OrderStarts DEF CoreInv, vars, money
    <3> QED BY <3>1
  <2> QED BY <2>1, <2>2
<1> QED BY <1>1, Core, PTL DEF Spec, ChargeOnlyWhenReserved

(* The record of a captured payment survives every write of a whole step   *)
(* row from a stale copy.                                                  *)
THEOREM PaymentStaysOnRecord == Spec => PaymentRecordSurvives
<1>1. CoreInv /\ [Next]_vars
        => [\A s \in SagaIds : charged(steps[s][PROCESS_PAYMENT])
                              => charged(steps'[s][PROCESS_PAYMENT])]_vars
  <2> SUFFICES ASSUME CoreInv, [Next]_vars, NEW s \in SagaIds, charged(steps[s][PP])
               PROVE  charged(steps'[s][PP])
    BY DEF vars, PP
  <2>1. CASE \E p \in Flows : FlowStep(p)
    <3>1. PICK p \in Flows : FlowStep(p)
      BY <2>1
    <3>2. CASE s = p[1]
      BY <3>1, <3>2, RecordFlow DEF CoreInv
    <3>3. CASE s # p[1]
      BY <3>1, <3>3, FrameFlow DEF CoreInv, Frame
    <3> QED BY <3>2, <3>3
  <2>2. CASE ~ \E p \in Flows : FlowStep(p)
    <3>1. steps' = steps
      BY <2>2, NextSteps, OrderStarts DEF CoreInv, vars, rows
    <3> QED BY <3>1
  <2> QED BY <2>1, <2>2
<1> QED BY <1>1, Core, PTL DEF Spec, PaymentRecordSurvives
paidIn(log) == \E i \in DOMAIN log : log[i] = "order.paid"
backedBy(s) == /\ charges[s] > 0 /\ charged(steps[s][PROCESS_PAYMENT])
               /\ steps[s][EMIT_EVENTS].status # NoRow

(* What backs an announcement is never taken back.                         *)
LEMMA BackingStays ==
  ASSUME CoreInv, [Next]_vars, NEW s \in SagaIds, backedBy(s)
  PROVE  backedBy(s)'
<1>1. charges[s] \in Nat /\ charges'[s] \in Nat
  BY CoreStep DEF CoreInv, TypeOK
<1>2. CASE \E p \in Flows : FlowStep(p)
  <2>1. PICK p \in Flows : FlowStep(p)
    BY <1>2
  <2>2. CASE s = p[1]
    BY <1>1, <2>1, <2>2, RecordFlow, ChargeWrites DEF CoreInv, backedBy, PP
  <2>3. CASE s # p[1]
    BY <2>1, <2>3, FrameFlow DEF CoreInv, Frame, backedBy
  <2> QED BY <2>2, <2>3
<1>3. CASE ~ \E p \in Flows : FlowStep(p)
  <2>1. steps' = steps /\ charges' = charges
    BY <1>3, NextSteps, OrderStarts DEF CoreInv, vars, rows, money
  <2> QED BY <2>1 DEF backedBy
<1> QED BY <1>2, <1>3

(* An announcement is new only after the statement at "confirm".           *)
LEMMA NewlyPaid ==
  ASSUME CoreInv, [Next]_vars, NEW o \in Orders, paidIn(outbox'[o]), ~paidIn(outbox[o])
  PROVE  \E p \in Flows : p[1][1] = o /\ pc[p] = "confirm"
<1>1. outbox[o] \in Seq(EventTypes)
  BY DEF CoreInv, TypeOK
<1>2. \A e \in EventTypes : paidIn(Append(outbox[o], e)) => e = "order.paid"
  BY <1>1 DEF paidIn
<1>3. ASSUME NEW x \in Orders, NEW status, NEW event \in EventTypes, announces(x, status, event)
      PROVE  x = o /\ event = "order.paid"
  BY <1>2, <1>3 DEF announces, CoreInv, TypeOK
<1>4. outbox' # outbox
  OBVIOUS
<1>5. CASE \E p \in Flows : FlowStep(p)
  <2>1. PICK p \in Flows : FlowStep(p)
    BY <1>5
  <2> QED BY <1>3, <1>4, <2>1, FlowAnnounces, FlowParts DEF EventTypes
<1>6. CASE ~ \E p \in Flows : FlowStep(p)
  BY <1>3, <1>4, <1>6, NextSteps, OrderAnnounces DEF vars, rows, EventTypes
<1> QED BY <1>5, <1>6

(* An order is announced paid only when a run of its job has captured a    *)
(* charge and recorded it, and the record stays.                           *)
THEOREM PaidOrdersAreBacked == Spec => []PaidIsBacked
<1> DEFINE Backed == \A o \in Orders : paidIn(outbox[o]) => \E n \in Runs : backedBy(<<o, n>>)
<1>1. Backed <=> PaidIsBacked
  BY DEF PaidIsBacked, paidIn, backedBy
<1>2. Init => Backed
  BY DEF Init, paidIn
<1>3. CoreInv /\ Backed /\ [Next]_vars => Backed'
  <2> SUFFICES ASSUME CoreInv, Backed, [Next]_vars, NEW o \in Orders, paidIn(outbox'[o])
               PROVE  \E n \in Runs : backedBy(<<o, n>>)'
    BY DEF paidIn
  <2>1. CASE paidIn(outbox[o])
    <3>1. PICK n \in Runs : backedBy(<<o, n>>)
      BY <2>1
    <3> QED BY <3>1, BackingStays, WorkerIsFlow
  <2>2. CASE ~paidIn(outbox[o])
    <3>1. PICK p \in Flows : p[1][1] = o /\ pc[p] = "confirm"
      BY <2>2, NewlyPaid
    <3>2. p[2] = "worker"
      BY <3>1 DEF CoreInv, RouteInv, Backward, Ended
    <3>3. p = <<p[1], "worker">> /\ p[1] = <<o, p[1][2]>> /\ p[1] \in SagaIds /\ p[1][2] \in Runs
      BY <3>1, <3>2, FlowParts
    <3>4. backedBy(p[1])
      BY <3>1, <3>3 DEF CoreInv, MoneyInv, PaymentInv, Paid, backedBy
    <3> QED BY <3>3, <3>4, BackingStays
  <2> QED BY <2>1, <2>2
<1>4. Spec => []Backed
  BY <1>2, <1>3, Core, PTL DEF Spec
<1> QED BY <1>1, <1>4, PTL

-----------------------------------------------------------------------------
(* Inventory.                                                              *)
LEMMA StockMoves ==
  ASSUME NEW row \in StockRow, NEW q \in Nat, NEW n \in Nat, row.available + row.reserved >= n
  PROVE  /\ canReserve(row, q) =>
              reserve(row, q).available + reserve(row, q).reserved >= n
         /\ release(row, q).available + release(row, q).reserved >= n
BY DEF StockRow, canReserve, reserve, release, greatest0

(* Only the two UPDATEs move units.                                        *)
LEMMA GoodsMoves ==
  ASSUME NEW p \in Flows, FlowStep(p)
  PROVE  ReserveItem(p) \/ ReleaseItem(p) \/ UNCHANGED <<stock, held>>
<1> USE DEF writeSaga, writeStep, writeOrder, goods
<1>1. CASE Faulty(p)
  BY <1>1 DEF Faulty, ChargeThrows, CancelFails, Throw, Crash
<1>2. CASE Advance(p) /\ ~ReserveItem(p)
  BY <1>2 DEF Advance, CreateSaga, StartSaga, BeginReserve, ReserveFails, ReserveDone,
     ChargeSucceeds, ChargeDeclined, ConfirmOrder, CompleteSaga, CompleteJob,
     beginStep, endStep, endFailed
<1>3. CASE (AdminCompensate(p) \/ Compensate(p)) /\ ~ReleaseItem(p)
  BY <1>3 DEF AdminCompensate, Compensate, StartCompensation, GetSteps, Refund,
     ReleaseFails, ReleaseDone, CancelOrder, FinishCompensation
<1> QED BY <1>1, <1>2, <1>3 DEF FlowStep

LEMMA StockWrites ==
  ASSUME NEW p \in Flows, FlowStep(p)
  PROVE  \/ stock' = stock
         \/ \E k \in Listed :
              \/ /\ canReserve(stock[k], Qty[p[1][1]][k])
                 /\ stock' = [stock EXCEPT ![k] = reserve(stock[k], Qty[p[1][1]][k])]
              \/ stock' = [stock EXCEPT ![k] = release(stock[k], Qty[p[1][1]][k])]
BY GoodsMoves DEF ReserveItem, ReleaseItem

LEMMA StockStep == CoreInv /\ StockNeverVanishes /\ [Next]_vars => StockNeverVanishes'
<1> SUFFICES ASSUME CoreInv, StockNeverVanishes, [Next]_vars, NEW x \in Skus
             PROVE  /\ stock'[x].available >= 0
                    /\ stock'[x].available + stock'[x].reserved >= InitStock[x]
  BY DEF StockNeverVanishes
<1>1. stock[x] \in StockRow /\ stock'[x] \in StockRow
  BY CoreStep DEF CoreInv, TypeOK
<1>2. stock[x].available + stock[x].reserved >= InitStock[x] /\ InitStock[x] \in Nat
  BY StockAssumption DEF StockNeverVanishes
<1>3. CASE stock' = stock
  BY <1>1, <1>2, <1>3 DEF StockRow
<1>4. CASE \E p \in Flows : FlowStep(p)
  <2>1. PICK p \in Flows : FlowStep(p)
    BY <1>4
  <2>2. Qty[p[1][1]][x] \in Nat
    BY <2>1, FlowParts, QtyAssumption
  <2>3. \/ stock'[x] = stock[x]
        \/ /\ canReserve(stock[x], Qty[p[1][1]][x])
           /\ stock'[x] = reserve(stock[x], Qty[p[1][1]][x])
        \/ stock'[x] = release(stock[x], Qty[p[1][1]][x])
    <3>1. CASE stock' = stock
      BY <3>1
    <3>2. stock \in [Skus -> StockRow] /\ Listed \subseteq Skus /\ x \in Skus
      BY SkusAssumption DEF CoreInv, TypeOK
    <3>3. ASSUME NEW k \in Listed,
                 stock' = [stock EXCEPT ![k] = reserve(stock[k], Qty[p[1][1]][k])]
          PROVE  stock'[x] = stock[x] \/ (x = k /\ stock'[x] = reserve(stock[k], Qty[p[1][1]][k]))
      BY <3>2, <3>3
    <3>4. ASSUME NEW k \in Listed,
                 stock' = [stock EXCEPT ![k] = release(stock[k], Qty[p[1][1]][k])]
          PROVE  stock'[x] = stock[x] \/ (x = k /\ stock'[x] = release(stock[k], Qty[p[1][1]][k]))
      BY <3>2, <3>4
    <3> QED BY <2>1, <3>1, <3>3, <3>4, StockWrites
  <2> QED BY <1>1, <1>2, <2>2, <2>3, StockMoves DEF StockRow
<1> QED BY <1>3, <1>4, NextSteps, OrderStarts DEF CoreInv, vars, goods

(* Units may be counted twice, but none is ever lost from inventory.       *)
THEOREM StockIsNeverLost == Spec => []StockNeverVanishes
<1>1. Init => StockNeverVanishes
  BY StockAssumption DEF Init, StockNeverVanishes
<1> QED BY <1>1, StockStep, Core, PTL DEF Spec

-----------------------------------------------------------------------------
(* What becomes of an order.                                               *)

(* How a run of a job comes to its end.                                    *)
LEMMA RunEnds ==
  ASSUME TypeOK, NEW p \in Flows, FlowStep(p)
  PROVE  LET o == p[1][1]
             s == p[1] IN
         /\ pc'[p] \in {"end2", "end3", "complete"} =>
              \/ pc[p] \in {"end2", "end3", "complete"}
              \/ orders' = [orders EXCEPT ![o] = "PAID"]
         /\ pc'[p] = "finish" =>
              orders' = [orders EXCEPT ![o] = "CANCELLED"] \/ faults' = faults + 1
         /\ pc'[p] = "return" =>
              \/ pc[p] = "complete"
              \/ pc[p] = "finish" /\ sagas' = [sagas EXCEPT ![s] = "FAILED"]
         /\ pc'[p] = "done" /\ p[2] = "worker" => pc[p] = "return"
         /\ pc'[p] = "dead" => faults' = faults + 1 \/ crashes' = crashes + 1
<1>t. pc \in [Flows -> Live \cup Ended] /\ p[1] \in SagaIds
  BY FlowParts DEF TypeOK
<1> USE <1>t DEF Goto, EndFlow
<1>1. CASE BeginReserve(p) \/ ReserveItem(p) \/ ReserveFails(p) \/ ReserveDone(p)
  BY <1>1 DEF BeginReserve, ReserveItem, ReserveFails, ReserveDone
<1>2. CASE ChargeSucceeds(p) \/ ChargeDeclined(p) \/ CompleteJob(p)
  BY <1>2 DEF ChargeSucceeds, ChargeDeclined, CompleteJob
<1>3. CASE Faulty(p)
  BY <1>3 DEF Faulty, ChargeThrows, CancelFails, Throw, Crash
<1>4. CASE \/ CreateSaga(p) \/ StartSaga(p) \/ CompleteSaga(p) \/ StartCompensation(p)
  BY <1>4 DEF CreateSaga, StartSaga, CompleteSaga, StartCompensation, writeSaga
<1>5. CASE ConfirmOrder(p) \/ CancelOrder(p)
  BY <1>5 DEF ConfirmOrder, CancelOrder, writeOrder
<1>6. CASE FinishCompensation(p)
  BY <1>6 DEF FinishCompensation, setSaga
<1>7. CASE AdminCompensate(p) \/ GetSteps(p) \/ Refund(p) \/ ReleaseItem(p) \/ ReleaseFails(p) \/ ReleaseDone(p)
  BY <1>7 DEF AdminCompensate, GetSteps, Refund, ReleaseItem, ReleaseFails, ReleaseDone, afterRelease
<1>8. ASSUME NEW at, NEW i, NEW row, NEW to, writeStep(p, at, i, row, to)
      PROVE  pc[p] = at /\ pc'[p] = to
  BY <1>8 DEF writeStep
<1>9. CASE \/ endStep(p, "end0", RESERVE_INVENTORY, "begin1")
           \/ endFailed(p, "fail0", RESERVE_INVENTORY)
           \/ beginStep(p, "begin1", PROCESS_PAYMENT, "charge")
           \/ endStep(p, "end1", PROCESS_PAYMENT, "begin2")
           \/ endFailed(p, "fail1", PROCESS_PAYMENT)
           \/ beginStep(p, "begin2", CONFIRM_ORDER, "begin3")
           \/ beginStep(p, "begin3", EMIT_EVENTS, "confirm")
           \/ endStep(p, "end2", CONFIRM_ORDER, "end3")
           \/ endStep(p, "end3", EMIT_EVENTS, "complete")
  BY <1>8, <1>9 DEF beginStep, endStep, endFailed
<1>10. CASE Compensate(p)
  BY <1>4, <1>5, <1>6, <1>7, <1>8, <1>10 DEF Compensate
<1> QED BY <1>1, <1>2, <1>3, <1>4, <1>5, <1>7, <1>9, <1>10 DEF FlowStep, Advance

(* A saga whose run has returned is written by calls of the route only.    *)
LEMMA AfterTheRun ==
  ASSUME TypeOK, RouteInv, NEW p \in Flows, FlowStep(p),
         p[2] # "worker" \/ pc[p] \in {"return", "done"}
  PROVE  \/ sagas' = sagas
         \/ \E status \in {"COMPENSATING", "FAILED"} : sagas' = [sagas EXCEPT ![p[1]] = status]
<1> USE DEF writeSaga, writeStep, writeOrder, setSaga, rows
<1>1. CASE Compensate(p)
  BY <1>1 DEF Compensate, StartCompensation, GetSteps, Refund, ReleaseItem, ReleaseFails,
     ReleaseDone, CancelOrder, FinishCompensation
<1>2. CASE AdminCompensate(p) \/ Faulty(p)
  BY <1>2 DEF AdminCompensate, Faulty, ChargeThrows, CancelFails, Throw, Crash
<1>3. CASE Advance(p)
  <2>1. pc[p] = "return"
    BY <1>3, Guards DEF RouteInv, Startup, Forward, Backward, Ended
  <2>2. CompleteJob(p)
    BY <1>3, <2>1 DEF Advance, CreateSaga, StartSaga, BeginReserve, ReserveItem, ReserveFails,
       ReserveDone, ChargeSucceeds, ChargeDeclined, ConfirmOrder, CompleteSaga,
       beginStep, endStep, endFailed
  <2> QED BY <2>2 DEF CompleteJob
<1> QED BY <1>1, <1>2, <1>3 DEF FlowStep

(* The two bounds only fill up.                                            *)
LEMMA FailuresStay ==
  ASSUME TypeOK, [Next]_vars
  PROVE  /\ faults \in Nat /\ crashes \in Nat
         /\ faults' \in {faults, faults + 1} /\ crashes' \in {crashes, crashes + 1}
<1>0. faults \in Nat /\ crashes \in Nat
  BY BudgetAssumption DEF TypeOK
<1> USE DEF budget
<1>1. CASE UNCHANGED vars
  <2>1. budget' = budget
    BY <1>1 DEF vars
  <2> QED BY <1>0, <2>1
<1>2. ASSUME NEW o \in Orders, OrderStep(o) PROVE faults' \in {faults, faults + 1} /\ crashes' \in {crashes, crashes + 1}
  BY <1>2 DEF OrderStep, CreateOrder, Enqueue, EnqueueFails, Pickup, JobStalled, JobStalledLive, Stall
<1>3. ASSUME NEW p \in Flows, FlowStep(p) PROVE faults' \in {faults, faults + 1} /\ crashes' \in {crashes, crashes + 1}
  <2>1. CASE Faulty(p)
    BY <2>1 DEF Faulty, ChargeThrows, CancelFails, Throw, Crash
  <2>2. CASE Advance(p)
    BY <2>2 DEF Advance, CreateSaga, StartSaga, BeginReserve, ReserveItem, ReserveFails,
       ReserveDone, ChargeSucceeds, ChargeDeclined, ConfirmOrder, CompleteSaga, CompleteJob,
       beginStep, endStep, endFailed, writeSaga, writeStep, writeOrder
  <2>3. CASE AdminCompensate(p) \/ Compensate(p)
    BY <2>3 DEF AdminCompensate, Compensate, StartCompensation, GetSteps, Refund, ReleaseItem,
       ReleaseFails, ReleaseDone, CancelOrder, FinishCompensation, writeSaga, writeStep, writeOrder
  <2> QED BY <1>3, <2>1, <2>2, <2>3 DEF FlowStep
<1> QED BY <1>0, <1>1, <1>2, <1>3, NextSteps

LEMMA JobEnds ==
  ASSUME NEW p \in Flows, FlowStep(p)
  PROVE  job' = job \/ CompleteJob(p) \/ Throw(p)
<1> USE DEF writeSaga, writeStep, writeOrder, queue
<1>1. CASE Faulty(p)
  BY <1>1 DEF Faulty, ChargeThrows, CancelFails, Crash
<1>2. CASE Advance(p)
  BY <1>2 DEF Advance, CreateSaga, StartSaga, BeginReserve, ReserveItem, ReserveFails,
     ReserveDone, ChargeSucceeds, ChargeDeclined, ConfirmOrder, CompleteSaga,
     beginStep, endStep, endFailed
<1>3. CASE AdminCompensate(p) \/ Compensate(p)
  BY <1>3 DEF AdminCompensate, Compensate, StartCompensation, GetSteps, Refund, ReleaseItem,
     ReleaseFails, ReleaseDone, CancelOrder, FinishCompensation
<1> QED BY <1>1, <1>2, <1>3 DEF FlowStep

(* A run has decided its order before it returns, unless its saga records  *)
(* that it compensated; without failures it always has.                    *)
noFailure == faults = 0 /\ crashes = 0

runOutcome(s) == LET w == <<s, "worker">> IN
  /\ pc[w] \in {"end2", "end3", "complete"} => orders[s[1]] \in Decided
  /\ pc[w] \in {"return", "done"} =>
       orders[s[1]] \in Decided \/ sagas[s] \in {"COMPENSATING", "FAILED"}
  /\ noFailure => /\ pc[w] # "dead"
                  /\ pc[w] \in {"finish", "return", "done"} => orders[s[1]] \in Decided

jobOutcome(o) ==
  /\ job[o].state = "completed" => \E n \in Runs : pc[Worker(o, n)] = "done"
  /\ job[o].state \in {"active", "completed", "failed"} =>
       job[o].run \in Runs /\ pc[Worker(o, job[o].run)] # "idle"
  /\ noFailure /\ api[o] = "done" => job[o].state # "none"

LEMMA OutcomeByParts ==
  OutcomeInv <=> (\A s \in SagaIds : runOutcome(s)) /\ (\A o \in Orders : jobOutcome(o))
BY DEF OutcomeInv, runOutcome, jobOutcome, noFailure

LEMMA RunOutcomeFlow ==
  ASSUME CoreInv, OutcomeInv, NEW p \in Flows, FlowStep(p), Next, NEW s \in SagaIds
  PROVE  runOutcome(s)'
<1> DEFINE w == <<s, "worker">>
<1>0. /\ TypeOK /\ RouteInv /\ Frame(p) /\ w \in Flows /\ s[1] \in Orders /\ runOutcome(s)
      /\ orders \in [Orders -> OrderStatus \cup {NoRow}]
      /\ sagas \in [SagaIds -> SagaStatus \cup {NoRow}]
      /\ p[1] \in SagaIds /\ p[1][1] \in Orders
  BY FrameFlow, SagaParts, FlowParts, OutcomeByParts DEF CoreInv, TypeOK
<1>1. orders[s[1]] \in Decided => orders'[s[1]] \in Decided
  BY <1>0, FlowAnnounces DEF announces, Decided
<1>2. noFailure' => noFailure /\ faults' # faults + 1 /\ crashes' # crashes + 1
  BY <1>0, FailuresStay DEF noFailure
<1>3. p # w \/ pc[p] \in {"return", "done"} =>
        sagas'[s] = sagas[s] \/ sagas'[s] \in {"COMPENSATING", "FAILED"}
  <2>1. CASE s # p[1]
    BY <1>0, <2>1 DEF Frame
  <2>2. CASE s = p[1]
    <3>1. p # w => p[2] # "worker"
      BY <2>2, FlowParts
    <3> QED BY <1>0, <2>2, <3>1, AfterTheRun
  <2> QED BY <2>1, <2>2
<1>4. CASE p # w
  <2>1. pc'[w] = pc[w]
    BY <1>0, <1>4 DEF Frame
  <2> QED BY <1>0, <1>1, <1>2, <1>3, <1>4, <2>1 DEF runOutcome
<1>5. CASE p = w
  <2>0. p[1] = s /\ p[2] = "worker"
    BY <1>5
  <2>1. pc'[w] \in {"end2", "end3", "complete"} => orders'[s[1]] \in Decided
    BY <1>0, <1>1, <1>5, <2>0, RunEnds DEF runOutcome, Decided
  <2>2. pc'[w] \in {"return", "done"} =>
          orders'[s[1]] \in Decided \/ sagas'[s] \in {"COMPENSATING", "FAILED"}
    BY <1>0, <1>1, <1>3, <1>5, <2>0, RunEnds DEF runOutcome
  <2>3. noFailure' => pc'[w] # "dead"
    BY <1>0, <1>2, <1>5, <2>0, RunEnds
  <2>4. noFailure' /\ pc'[w] \in {"finish", "return", "done"} => orders'[s[1]] \in Decided
    BY <1>0, <1>1, <1>2, <1>5, <2>0, RunEnds DEF runOutcome, Decided
  <2> QED BY <2>1, <2>2, <2>3, <2>4 DEF runOutcome
<1> QED BY <1>4, <1>5

LEMMA JobOutcomeFlow ==
  ASSUME CoreInv, OutcomeInv, NEW p \in Flows, FlowStep(p), Next, NEW o \in Orders
  PROVE  jobOutcome(o)'
<1>0. /\ TypeOK /\ Frame(p) /\ Effect(p) /\ jobOutcome(o) /\ job[o] \in JobRecord
      /\ job \in [Orders -> JobRecord] /\ pc \in [Flows -> Live \cup Ended]
  BY FrameFlow, EffectFlow, OutcomeByParts DEF CoreInv, TypeOK
<1>1. noFailure' => noFailure
  BY <1>0, FailuresStay DEF noFailure
<1>2. ASSUME NEW n \in Runs
      PROVE  /\ pc[Worker(o, n)] = "done" => pc'[Worker(o, n)] = "done"
             /\ pc[Worker(o, n)] # "idle" => pc'[Worker(o, n)] # "idle"
  <2>1. Worker(o, n) \in Flows
    BY WorkerIsFlow
  <2>2. CASE Worker(o, n) # p
    BY <1>0, <2>1, <2>2 DEF Frame
  <2>3. CASE Worker(o, n) = p
    <3>1. pc[p] \in Live /\ "done" \notin Live
      <4>1. p[2] = "worker"
        BY <2>3, WorkerIsFlow
      <4>2. pc[p] \in Live
        BY <1>0, <4>1 DEF Effect
      <4> QED BY <4>2 DEF Live, Startup, Forward, Backward
    <3>2. pc'[p] # "idle"
      BY <1>0 DEF Effect
    <3> QED BY <2>3, <3>1, <3>2
  <2> QED BY <2>2, <2>3
<1>3. CASE job'[o] = job[o]
  BY <1>0, <1>1, <1>2, <1>3 DEF jobOutcome, Frame
<1>4. CASE job'[o] # job[o]
  <2>1. /\ o = p[1][1] /\ owns(p)
        /\ job'[o] = afterFailure(job[o]) \/ job'[o] = resolved(job[o])
    BY <1>0, <1>4, JobChange
  <2>2. /\ p = Worker(o, job[o].run) /\ job[o].run \in Runs /\ job[o].state = "active"
    BY <2>1, WorkerFlows DEF owns
  <2>3. job'[o].run = job[o].run /\ job'[o].state \in {"waiting", "failed", "completed"}
    BY <1>0, <2>1, JobFields
  <2>4. job'[o].state = "completed" => pc'[p] = "done"
    <3>1. CASE CompleteJob(p)
      BY <1>0, <3>1 DEF CompleteJob, EndFlow, Goto
    <3>2. CASE Throw(p)
      <4>1. job'[o] = afterFailure(job[o])
        BY <1>0, <2>1, <3>2 DEF Throw
      <4> QED BY <1>0, <4>1, JobFields
    <3> QED BY <1>4, <3>1, <3>2, JobEnds
  <2>5. pc'[p] # "idle"
    BY <1>0 DEF Effect
  <2> QED BY <2>2, <2>3, <2>4, <2>5 DEF jobOutcome
<1> QED BY <1>3, <1>4

LEMMA OutcomeOrder ==
  ASSUME CoreInv, OutcomeInv, NEW o \in Orders, OrderStep(o), Next
  PROVE  OutcomeInv'
<1>0. /\ TypeOK /\ QueueInv /\ JobInv /\ sagas' = sagas
      /\ \A q \in Flows : pc'[q] # pc[q] => pc[q] = "idle" /\ pc'[q] = "create"
      /\ orders \in [Orders -> OrderStatus \cup {NoRow}] /\ job \in [Orders -> JobRecord]
      /\ pc \in [Flows -> Live \cup Ended]
  BY OrderStarts DEF CoreInv, QueueInv, TypeOK
<1>1. noFailure' => noFailure /\ faults' # faults + 1 /\ crashes' # crashes + 1
  BY <1>0, FailuresStay DEF noFailure
<1>2. ASSUME NEW x \in Orders, orders[x] \in Decided PROVE orders'[x] \in Decided
  <2>1. CASE CreateOrder(o)
    <3>1. orders[o] = NoRow
      BY <1>0, <2>1 DEF CreateOrder, JobInv
    <3> QED BY <1>0, <1>2, <2>1, <3>1 DEF CreateOrder, Decided, NoRow
  <2>2. CASE ~CreateOrder(o)
    BY <1>2, <2>2 DEF OrderStep, Enqueue, EnqueueFails, Pickup, JobStalled, JobStalledLive, Stall, rows
  <2> QED BY <2>1, <2>2
<1>3. ASSUME NEW s \in SagaIds PROVE runOutcome(s)'
  <2>1. runOutcome(s) /\ s[1] \in Orders /\ <<s, "worker">> \in Flows
    BY SagaParts, OutcomeByParts
  <2>2. \/ pc'[<<s, "worker">>] = pc[<<s, "worker">>]
        \/ pc'[<<s, "worker">>] = "create"
    BY <1>0, <2>1
  <2> QED BY <1>0, <1>1, <1>2, <2>1, <2>2 DEF runOutcome
<1>4. ASSUME NEW x \in Orders PROVE jobOutcome(x)'
  <2>0. jobOutcome(x) /\ job[x] \in JobRecord
    BY <1>0, OutcomeByParts
  <2>1. ASSUME NEW n \in Runs
        PROVE  /\ pc[Worker(x, n)] = "done" => pc'[Worker(x, n)] = "done"
               /\ pc[Worker(x, n)] # "idle" => pc'[Worker(x, n)] # "idle"
    BY <1>0, WorkerIsFlow
  <2>2. CASE job'[x] = job[x] /\ (noFailure' /\ api'[x] = "done" => api[x] = "done")
    BY <1>1, <2>0, <2>1, <2>2 DEF jobOutcome
  <2>3. CASE x = o /\ (CreateOrder(o) \/ EnqueueFails(o))
    <3>1. job' = job /\ (noFailure' => api'[o] # "done")
      BY <1>0, <1>1, <2>3 DEF CreateOrder, EnqueueFails, TypeOK
    <3> QED BY <2>0, <2>1, <2>3, <3>1 DEF jobOutcome
  <2>4. CASE x = o /\ Enqueue(o)
    <3>1. job'[o].state = "waiting"
      BY <1>0, <2>0, <2>4 DEF Enqueue, JobRecord
    <3> QED BY <2>4, <3>1 DEF jobOutcome
  <2>5. CASE x = o /\ Pickup(o)
    <3>1. PICK n \in Runs : n = job[o].run + 1 /\ job' = [job EXCEPT ![o] = pickedUp(@)]
                            /\ Goto(Worker(o, n), "create")
      BY <2>5 DEF Pickup
    <3>2. job'[o].state = "active" /\ job'[o].run = n
      BY <1>0, <2>0, <2>5, <3>1, JobFields
    <3>3. pc'[Worker(o, n)] = "create"
      BY <1>0, <3>1, WorkerIsFlow DEF Goto
    <3> QED BY <2>5, <3>2, <3>3 DEF jobOutcome
  <2>6. CASE x = o /\ (JobStalled(o) \/ JobStalledLive(o))
    <3>1. /\ job[o].state = "active" /\ job'[o] = afterStall(job[o]) /\ pc' = pc
      BY <1>0, <2>6 DEF JobStalled, JobStalledLive, Stall
    <3>2. job'[o].state \in {"waiting", "failed"} /\ job'[o].run = job[o].run
      BY <2>0, <2>6, <3>1, JobFields
    <3> QED BY <2>0, <2>6, <3>1, <3>2 DEF jobOutcome
  <2>7. CASE x # o
    <3>1. job'[x] = job[x] /\ api'[x] = api[x]
      BY <1>0, <2>7 DEF OrderStep, CreateOrder, Enqueue, EnqueueFails, Pickup, JobStalled,
         JobStalledLive, Stall, queue, TypeOK
    <3> QED BY <2>2, <3>1
  <2> QED BY <2>3, <2>4, <2>5, <2>6, <2>7 DEF OrderStep
<1> QED BY <1>3, <1>4, OutcomeByParts DEF OutcomeInv, runOutcome, jobOutcome, noFailure

LEMMA OutcomeStep == CoreInv /\ OutcomeInv /\ [Next]_vars => OutcomeInv'
<1> SUFFICES ASSUME CoreInv, OutcomeInv, [Next]_vars PROVE OutcomeInv'
  OBVIOUS
<1>1. CASE UNCHANGED vars
  BY <1>1 DEF vars, rows, queue, budget, OutcomeInv
<1>2. ASSUME NEW p \in Flows, FlowStep(p) PROVE OutcomeInv'
  <2>1. Next
    BY <1>2, NextSteps
  <2>2. (\A s \in SagaIds : runOutcome(s)') /\ (\A o \in Orders : jobOutcome(o)')
    BY <1>2, <2>1, RunOutcomeFlow, JobOutcomeFlow
  <2> QED BY <2>2 DEF OutcomeInv, runOutcome, jobOutcome, noFailure
<1>3. ASSUME NEW o \in Orders, OrderStep(o) PROVE OutcomeInv'
  BY <1>3, NextSteps, OutcomeOrder
<1> QED BY <1>1, <1>2, <1>3, NextSteps

LEMMA Outcome == Spec => []OutcomeInv
<1>1. Init => OutcomeInv
  <2> SUFFICES ASSUME Init PROVE OutcomeInv
    OBVIOUS
  <2>1. \A s \in SagaIds : pc[<<s, "worker">>] = "idle"
    BY SagaParts DEF Init
  <2>2. \A o \in Orders : job[o].state = "none" /\ api[o] = "idle"
    BY DEF Init, NoJob
  <2> QED BY <2>1, <2>2 DEF OutcomeInv
<1> QED BY <1>1, OutcomeStep, Core, PTL DEF Spec

(* An order that nothing will carry on any more is PENDING only because    *)
(* something failed; and if its job completed all the same, a saga of it   *)
(* is left FAILED or COMPENSATING, as by a cancel that failed.             *)
THEOREM AbandonedOrdersAreExplained == Spec => []PendingIsExplained
<1>1. CoreInv /\ OutcomeInv => PendingIsExplained
  <2> SUFFICES ASSUME CoreInv, OutcomeInv, NEW o \in Orders, orders[o] = "PENDING", atRest(o)
               PROVE  /\ faults > 0 \/ crashes > 0
                      /\ job[o].state = "completed" =>
                           \E n \in Runs : sagas[<<o, n>>] \in {"COMPENSATING", "FAILED"}
    BY DEF PendingIsExplained
  <2>0. /\ faults \in Nat /\ crashes \in Nat /\ job[o] \in JobRecord
        /\ pc \in [Flows -> Live \cup Ended] /\ jobOutcome(o) /\ orders[o] \notin Decided
    BY BudgetAssumption, OutcomeByParts DEF CoreInv, TypeOK, Decided
  <2>1. ASSUME NEW n \in Runs, pc[Worker(o, n)] = "done"
        PROVE  sagas[<<o, n>>] \in {"COMPENSATING", "FAILED"} /\ ~noFailure
    <3>1. runOutcome(<<o, n>>) /\ <<<<o, n>>, "worker">> = Worker(o, n) /\ <<o, n>>[1] = o
      BY OutcomeByParts, WorkerIsFlow DEF Worker
    <3> QED BY <2>0, <2>1, <3>1 DEF runOutcome
  <2>2. job[o].state = "completed" => \E n \in Runs : sagas[<<o, n>>] \in {"COMPENSATING", "FAILED"}
    BY <2>0, <2>1 DEF jobOutcome
  <2>3. ASSUME noFailure PROVE FALSE
    <3> DEFINE n == job[o].run
    <3>1. job[o].state \in {"completed", "failed"}
      BY <2>0, <2>3 DEF jobOutcome, atRest, JobRecord
    <3>2. n \in Runs /\ pc[Worker(o, n)] # "idle"
      BY <2>0, <3>1 DEF jobOutcome
    <3>3. pc[Worker(o, n)] \in {"done", "dead"}
      BY <2>0, <3>2, WorkerIsFlow DEF atRest, Ended
    <3>4. pc[Worker(o, n)] # "dead"
      <4>1. runOutcome(<<o, n>>) /\ <<<<o, n>>, "worker">> = Worker(o, n)
        BY <3>2, OutcomeByParts, WorkerIsFlow DEF Worker
      <4> QED BY <2>3, <4>1 DEF runOutcome
    <3> QED BY <2>1, <2>3, <3>2, <3>3, <3>4
  <2> QED BY <2>0, <2>2, <2>3 DEF noFailure
<1> QED BY <1>1, Core, Outcome, PTL

(* The bound on the runs of a job is not one of the code, and never bites: *)
(* a job that waits can be picked up, whatever it has been through.        *)
THEOREM RunsSuffice ==
  Spec => [](\A o \in Orders : job[o].state = "waiting" => job[o].run + 1 \in Runs)
<1>1. CoreInv => \A o \in Orders : job[o].state = "waiting" => job[o].run + 1 \in Runs
  <2> SUFFICES ASSUME CoreInv, NEW o \in Orders, job[o].state = "waiting"
               PROVE  job[o].run + 1 \in Runs
    OBVIOUS
  <2>1. /\ job[o].attempts \in Nat /\ job[o].stalls \in 0 .. MaxStalled
        /\ job[o].attempts < JobAttempts /\ job[o].run = job[o].attempts + job[o].stalls
    BY DEF CoreInv, QueueInv, JobInv, TypeOK, JobRecord
  <2> QED BY <2>1, JobAssumption DEF Runs
<1> QED BY <1>1, Core, PTL

(* The inductive invariant of the runs, for every value of the constants.  *)
THEOREM InductiveInvariant == Spec => []IInv
<1>1. CoreInv /\ OutcomeInv /\ StatusIsLastCommitted /\ PaidIsBacked /\ StockNeverVanishes => IInv
  BY DEF CoreInv, QueueInv, MoneyInv, IInv
<1> QED BY <1>1, Core, Outcome, StatusCommitted, PaidOrdersAreBacked, StockIsNeverLost, PTL
=============================================================================
