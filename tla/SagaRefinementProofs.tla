------------------------ MODULE SagaRefinementProofs ------------------------
(***************************************************************************)
(* While nobody calls the compensate route, SagaOrchestrator implements    *)
(* SagaLifecycle, for every value of its constants: the initial states map *)
(* to initial states and every step to a step of SagaLifecycle or to none. *)
(* And each saga is all or nothing, its compensation releases what it      *)
(* held, its status is where its run is, and until a reservation fails     *)
(* inventory is exact to the unit.                                         *)
(***************************************************************************)
EXTENDS SagaSafetyProofs, SagaLedger, FiniteSetTheorems

(* What SagaLifecycle sees of a step of a flow.                            *)
sees(p, at, status, to) == /\ pc[p] = at /\ pc'[p] \in to
                           /\ sagas' = [sagas EXCEPT ![p[1]] = status]
                           /\ UNCHANGED <<orders, outbox>>
tells(p, at, status, event, to) == /\ pc[p] = at /\ pc'[p] \in to
                                   /\ announces(p[1][1], status, event)
                                   /\ UNCHANGED sagas

Seen(p) ==
  \/ sees(p, "create", "PENDING", {"start"})
  \/ sees(p, "start", "RUNNING", {"begin0"})
  \/ sees(p, "complete", "COMPLETED", {"return"})
  \/ sees(p, "compensate", "COMPENSATING", {"getSteps"})
  \/ sees(p, "finish", "FAILED", {"return", "done"})
  \/ tells(p, "confirm", "PAID", "order.paid", {"end2"})
  \/ tells(p, "cancel", "CANCELLED", "order.failed", {"finish"})

(* A step it does not see stays in the phase the run is in.                *)
Unseen(p) ==
  /\ UNCHANGED <<sagas, orders, outbox>>
  /\ pc'[p] \notin {"idle", "create", "start"}
  /\ pc'[p] \in Forward \cup {"compensate"} => pc[p] \in Forward \cup {"compensate"}
  /\ pc'[p] \in Backward \ {"compensate"} => pc[p] \in Backward \ {"compensate"}
  /\ pc'[p] \in {"end2", "end3", "complete"} => pc[p] \in {"end2", "end3", "complete"}

LEMMA SeenOrUnseen ==
  ASSUME TypeOK, NEW p \in Flows, p[2] = "worker", FlowStep(p)
  PROVE  Seen(p) \/ Unseen(p)
<1>t. pc \in [Flows -> Live \cup Ended]
  BY DEF TypeOK
<1> USE <1>t DEF Goto, EndFlow, rows
<1>1. CASE BeginReserve(p) \/ ReserveItem(p) \/ ReserveFails(p) \/ ReserveDone(p)
  BY <1>1 DEF BeginReserve, ReserveItem, ReserveFails, ReserveDone, Unseen, Forward, Backward
<1>2. CASE ChargeSucceeds(p) \/ ChargeDeclined(p) \/ CompleteJob(p)
  BY <1>2 DEF ChargeSucceeds, ChargeDeclined, CompleteJob, Unseen, Forward, Backward
<1>3. CASE ChargeThrows(p)
  BY <1>3 DEF ChargeThrows, Unseen, Forward, Backward
<1>4. CASE CancelFails(p) \/ Throw(p) \/ Crash(p)
  BY <1>4 DEF CancelFails, Throw, Crash, Unseen, Forward, Backward
<1>5. CASE CreateSaga(p) \/ StartSaga(p) \/ CompleteSaga(p) \/ StartCompensation(p)
  BY <1>5 DEF CreateSaga, StartSaga, CompleteSaga, StartCompensation, writeSaga, setSaga, Seen, sees
<1>6. CASE ConfirmOrder(p) \/ CancelOrder(p)
  BY <1>6 DEF ConfirmOrder, CancelOrder, writeOrder, Seen, tells, announces
<1>7. CASE FinishCompensation(p)
  BY <1>7 DEF FinishCompensation, setSaga, Seen, sees
<1>8. ASSUME NEW at, NEW i, NEW row, NEW to, writeStep(p, at, i, row, to)
      PROVE  pc[p] = at /\ pc'[p] = to /\ UNCHANGED <<sagas, orders, outbox>>
  BY <1>8 DEF writeStep
<1>9. CASE \/ endStep(p, "end0", RESERVE_INVENTORY, "begin1")
           \/ endFailed(p, "fail0", RESERVE_INVENTORY)
           \/ beginStep(p, "begin1", PROCESS_PAYMENT, "charge")
           \/ endStep(p, "end1", PROCESS_PAYMENT, "begin2")
           \/ endFailed(p, "fail1", PROCESS_PAYMENT)
           \/ beginStep(p, "begin2", CONFIRM_ORDER, "begin3")
           \/ beginStep(p, "begin3", EMIT_EVENTS, "confirm")
           \/ endStep(p, "end2", CONFIRM_ORDER, "end3")
           \/ endStep(p, "end3", EMIT_EVENTS, "complete")
  BY <1>8, <1>9 DEF beginStep, endStep, endFailed, Unseen, Forward, Backward
<1>10. CASE \/ GetSteps(p) \/ Refund(p) \/ ReleaseItem(p) \/ ReleaseFails(p) \/ ReleaseDone(p)
  BY <1>10 DEF GetSteps, Refund, ReleaseItem, ReleaseFails, ReleaseDone, afterRelease,
     Unseen, Forward, Backward
<1>11. CASE Compensate(p)
  BY <1>5, <1>6, <1>7, <1>8, <1>10, <1>11 DEF Compensate, Unseen, Forward, Backward
<1>12. ~AdminCompensate(p)
  BY AdminAssumption DEF AdminCompensate
<1> QED BY <1>1, <1>2, <1>3, <1>4, <1>5, <1>6, <1>9, <1>11, <1>12
        DEF FlowStep, Advance, Faulty
(* An order without a row has announced nothing.                           *)
QuietInv == \A o \in Orders : orders[o] = NoRow => outbox[o] = << >>
LifeInv == CoreInv /\ StatusIsLastCommitted /\ QuietInv /\ StatusInv

LEMMA QuietStep == TypeOK /\ QuietInv /\ [Next]_vars => QuietInv'
<1> SUFFICES ASSUME TypeOK, QuietInv, [Next]_vars PROVE QuietInv'
  OBVIOUS
<1>1. CASE UNCHANGED <<orders, outbox>>
  BY <1>1 DEF QuietInv
<1>2. ASSUME NEW o \in Orders, NEW status \in {"PENDING", "PAID", "CANCELLED"}, NEW event,
             announces(o, status, event)
      PROVE  QuietInv'
  BY <1>2 DEF announces, QuietInv, TypeOK, NoRow
<1> QED BY <1>1, <1>2, NextSteps, FlowAnnounces, OrderAnnounces, FlowParts DEF vars, rows

LEMMA PaidGrows ==
  ASSUME TypeOK, NEW o \in Orders, [Next]_vars, paidIn(outbox[o])
  PROVE  paidIn(outbox'[o])
<1>1. outbox[o] \in Seq(EventTypes)
  BY DEF TypeOK
<1>2. ASSUME NEW x \in Orders, NEW status, NEW event \in EventTypes, announces(x, status, event)
      PROVE  paidIn(outbox'[o])
  <2>1. outbox'[o] = outbox[o] \/ outbox'[o] = Append(outbox[o], event)
    BY <1>2 DEF announces, TypeOK
  <2> QED BY <1>1, <1>2, <2>1 DEF paidIn
<1>3. CASE UNCHANGED <<orders, outbox>>
  BY <1>3
<1> QED BY <1>2, <1>3, NextSteps, FlowAnnounces, OrderAnnounces, FlowParts
        DEF vars, rows, EventTypes

LEMMA StatusFlow ==
  ASSUME LifeInv, NEW p \in Flows, p[2] = "worker", FlowStep(p), Next
  PROVE  StatusInv'
<1>1. Frame(p)
  BY FrameFlow DEF LifeInv, CoreInv
<1>2. TypeOK /\ sagas \in [SagaIds -> SagaStatus \cup {NoRow}]
  BY DEF LifeInv, CoreInv, TypeOK
<1>3. ASSUME NEW s \in SagaIds
      PROVE  LET w == <<s, "worker">> IN
             /\ pc'[w] \in {"idle", "create"} => sagas'[s] = NoRow
             /\ pc'[w] = "start" => sagas'[s] = "PENDING"
             /\ pc'[w] \in Forward \cup {"compensate"} => sagas'[s] = "RUNNING"
             /\ pc'[w] \in Backward \ {"compensate"} => sagas'[s] = "COMPENSATING"
             /\ pc'[w] \in {"end2", "end3", "complete"} => paidIn(outbox'[s[1]])
  <2> DEFINE w == <<s, "worker">>
  <2>0. /\ pc[w] \in {"idle", "create"} => sagas[s] = NoRow
        /\ pc[w] = "start" => sagas[s] = "PENDING"
        /\ pc[w] \in Forward \cup {"compensate"} => sagas[s] = "RUNNING"
        /\ pc[w] \in Backward \ {"compensate"} => sagas[s] = "COMPENSATING"
        /\ pc[w] \in {"end2", "end3", "complete"} => paidIn(outbox[s[1]])
    BY DEF LifeInv, StatusInv, paidIn
  <2>1. paidIn(outbox[s[1]]) => paidIn(outbox'[s[1]])
    BY <1>2, PaidGrows, SagaParts
  <2>2. CASE w # p
    <3>1. s # p[1]
      BY <2>2, FlowParts
    <3>2. pc'[w] = pc[w] /\ sagas'[s] = sagas[s]
      BY <1>1, <2>2, <3>1, SagaParts DEF Frame
    <3> QED BY <2>0, <2>1, <3>2
  <2>3. CASE w = p /\ Unseen(p)
    BY <2>0, <2>1, <2>3 DEF Unseen
  <2>4. CASE w = p /\ tells(p, "confirm", "PAID", "order.paid", {"end2"})
    <3>1. paidIn(outbox'[s[1]])
      <4>1. s[1] \in Orders /\ outbox[s[1]] \in Seq(EventTypes)
        BY <1>2, SagaParts DEF TypeOK
      <4>2. outbox'[s[1]] = Append(outbox[s[1]], "order.paid")
        BY <1>2, <2>4, <4>1 DEF tells, announces, TypeOK
      <4> QED BY <4>1, <4>2 DEF paidIn, EventTypes
    <3> QED BY <2>0, <2>4, <3>1 DEF tells, Forward, Backward
  <2>5. CASE w = p /\ tells(p, "cancel", "CANCELLED", "order.failed", {"finish"})
    BY <2>0, <2>5 DEF tells, Forward, Backward
  <2>6. CASE /\ w = p
             /\ \/ sees(p, "create", "PENDING", {"start"})
                \/ sees(p, "start", "RUNNING", {"begin0"})
                \/ sees(p, "complete", "COMPLETED", {"return"})
                \/ sees(p, "compensate", "COMPENSATING", {"getSteps"})
                \/ sees(p, "finish", "FAILED", {"return", "done"})
    <3>1. s = p[1]
      BY <2>6
    <3> QED BY <1>2, <2>6, <3>1 DEF sees, Forward, Backward
  <2> QED BY <1>2, <2>2, <2>3, <2>4, <2>5, <2>6, SeenOrUnseen DEF Seen
<1> QED BY <1>3 DEF StatusInv, paidIn

LEMMA LifeStep == Admins = {} /\ LifeInv /\ [Next]_vars => LifeInv'
<1> SUFFICES ASSUME Admins = {}, LifeInv, [Next]_vars PROVE LifeInv'
  OBVIOUS
<1>1. CoreInv' /\ StatusIsLastCommitted' /\ QuietInv'
  BY CoreStep, StatusStep, QuietStep DEF LifeInv, CoreInv
<1>2. ASSUME Next, \E p \in Flows : FlowStep(p) PROVE StatusInv'
  <2>1. \A p \in Flows : p[2] = "worker"
    BY FlowParts DEF Actors
  <2> QED BY <1>2, <2>1, StatusFlow
<1>3. ASSUME ~ \E p \in Flows : FlowStep(p) PROVE StatusInv'
  <2>1. /\ sagas' = sagas
        /\ \A q \in Flows : pc'[q] # pc[q] => pc[q] = "idle" /\ pc'[q] = "create"
    BY <1>3, NextSteps, OrderStarts DEF LifeInv, CoreInv, vars, rows
  <2>2. ASSUME NEW s \in SagaIds
        PROVE  LET w == <<s, "worker">> IN
               /\ pc'[w] \in {"idle", "create"} => sagas'[s] = NoRow
               /\ pc'[w] = "start" => sagas'[s] = "PENDING"
               /\ pc'[w] \in Forward \cup {"compensate"} => sagas'[s] = "RUNNING"
               /\ pc'[w] \in Backward \ {"compensate"} => sagas'[s] = "COMPENSATING"
               /\ pc'[w] \in {"end2", "end3", "complete"} => paidIn(outbox'[s[1]])
    <3> DEFINE w == <<s, "worker">>
    <3>1. pc'[w] # pc[w] => pc[w] = "idle" /\ pc'[w] = "create"
      BY <2>1, SagaParts
    <3>2. paidIn(outbox[s[1]]) => paidIn(outbox'[s[1]])
      BY PaidGrows, SagaParts DEF LifeInv, CoreInv
    <3> QED BY <2>1, <3>1, <3>2 DEF LifeInv, StatusInv, paidIn, Forward, Backward
  <2> QED BY <2>2 DEF StatusInv, paidIn
<1>4. StatusInv'
  BY <1>2, <1>3, NextSteps
<1> QED BY <1>1, <1>4 DEF LifeInv

LEMMA LifeInit == Init => LifeInv
<1>1. Init => QuietInv
  BY DEF Init, QuietInv
<1>2. Init => StatusInv
  <2>1. Init => \A s \in SagaIds : pc[<<s, "worker">>] = "idle" /\ sagas[s] = NoRow
    <3>1. Init => pc = [p \in Flows |-> "idle"] /\ sagas = [s \in SagaIds |-> NoRow]
      BY DEF Init
    <3> QED BY <3>1, SagaParts
  <2> QED BY <2>1 DEF StatusInv, Forward, Backward
<1> QED BY <1>1, <1>2, CoreInit, StatusInit DEF LifeInv

-----------------------------------------------------------------------------
(* Init maps to Init, a step to a step or a stutter.                       *)
LEMMA LifecycleInit == Init => Lifecycle!Init
BY DEF Init, Lifecycle!Init, NoRow

LEMMA LifecycleFlow ==
  ASSUME LifeInv, NEW p \in Flows, p[2] = "worker", FlowStep(p)
  PROVE  [Lifecycle!Next]_<<sagas, outbox>>
<1> DEFINE s == p[1]
           o == p[1][1]
<1>1. p = <<s, "worker">> /\ s \in SagaIds /\ o \in Orders
  BY FlowParts
<1>2. /\ pc[p] = "create" => sagas[s] = NoRow
      /\ pc[p] = "start" => sagas[s] = "PENDING"
      /\ pc[p] \in {"confirm", "complete", "compensate"} => sagas[s] = "RUNNING"
      /\ pc[p] \in {"cancel", "finish"} => sagas[s] = "COMPENSATING"
      /\ pc[p] = "complete" => paidIn(outbox[o])
  BY <1>1 DEF LifeInv, StatusInv, Forward, Backward, paidIn
<1>3. pc[p] = "create" => outbox[o] # << >>
  BY <1>1 DEF LifeInv, CoreInv, QueueInv, PlacedInv, StatusIsLastCommitted
<1> USE DEF Lifecycle!Next, Lifecycle!move, Lifecycle!announce
<1>4. CASE sees(p, "create", "PENDING", {"start"})
  <2>1. Lifecycle!Create(s)
    BY <1>2, <1>3, <1>4 DEF sees, Lifecycle!Create, NoRow
  <2> QED BY <1>1, <2>1
<1>5. CASE sees(p, "start", "RUNNING", {"begin0"})
  <2>1. Lifecycle!Start(s)
    BY <1>2, <1>5 DEF sees, Lifecycle!Start
  <2> QED BY <1>1, <2>1
<1>6. CASE sees(p, "complete", "COMPLETED", {"return"})
  <2>1. Lifecycle!Complete(s)
    BY <1>2, <1>6 DEF sees, Lifecycle!Complete, Lifecycle!announced, paidIn
  <2> QED BY <1>1, <2>1
<1>7. CASE sees(p, "compensate", "COMPENSATING", {"getSteps"})
  <2>1. Lifecycle!GiveUp(s)
    BY <1>2, <1>7 DEF sees, Lifecycle!GiveUp
  <2> QED BY <1>1, <2>1
<1>8. CASE sees(p, "finish", "FAILED", {"return", "done"})
  <2>1. Lifecycle!Fail(s)
    BY <1>2, <1>8 DEF sees, Lifecycle!Fail
  <2> QED BY <1>1, <2>1
<1>9. CASE tells(p, "confirm", "PAID", "order.paid", {"end2"})
  <2>1. Lifecycle!Pay(s)
    BY <1>2, <1>9 DEF tells, announces, Lifecycle!Pay
  <2> QED BY <1>1, <2>1
<1>10. CASE tells(p, "cancel", "CANCELLED", "order.failed", {"finish"})
  <2>1. Lifecycle!Cancel(s)
    BY <1>2, <1>10 DEF tells, announces, Lifecycle!Cancel
  <2> QED BY <1>1, <2>1
<1>11. CASE Unseen(p)
  BY <1>11 DEF Unseen
<1> QED BY <1>4, <1>5, <1>6, <1>7, <1>8, <1>9, <1>10, <1>11, SeenOrUnseen
        DEF LifeInv, CoreInv, Seen

LEMMA LifecycleOrder ==
  ASSUME LifeInv, NEW o \in Orders, OrderStep(o)
  PROVE  [Lifecycle!Next]_<<sagas, outbox>>
<1>1. sagas' = sagas
  BY OrderStarts DEF LifeInv, CoreInv
<1>2. CASE CreateOrder(o)
  <2>1. outbox[o] = << >>
    BY <1>2 DEF CreateOrder, LifeInv, CoreInv, QueueInv, JobInv, QuietInv
  <2>2. Lifecycle!Place(o)
    BY <1>1, <1>2, <2>1 DEF CreateOrder, Lifecycle!Place, Lifecycle!announce
  <2> QED BY <2>2 DEF Lifecycle!Next
<1>3. CASE ~CreateOrder(o)
  <2>1. outbox' = outbox
    BY <1>3 DEF OrderStep, Enqueue, EnqueueFails, Pickup, JobStalled, JobStalledLive, Stall, rows
  <2> QED BY <1>1, <2>1
<1> QED BY <1>2, <1>3

(* Without the compensate route, sagas and announcements behave as         *)
(* SagaLifecycle says through every crash, retry and overlap of runs.      *)
THEOREM RefinesLifecycle ==
  ASSUME Admins = {} PROVE Spec => FollowsLifecycle
<1>1. LifeInv /\ [Next]_vars => [Lifecycle!Next]_<<sagas, outbox>>
  <2> SUFFICES ASSUME LifeInv, [Next]_vars PROVE [Lifecycle!Next]_<<sagas, outbox>>
    OBVIOUS
  <2>1. \A p \in Flows : p[2] = "worker"
    BY FlowParts DEF Actors
  <2>2. CASE UNCHANGED vars
    BY <2>2 DEF vars, rows
  <2>3. CASE Next
    BY <2>1, <2>3, NextSteps, LifecycleFlow, LifecycleOrder
  <2> QED BY <2>2, <2>3
<1>2. LifeInv /\ [Next]_vars => LifeInv'
  BY LifeStep
<1> QED BY <1>1, <1>2, LifeInit, LifecycleInit, PTL
        DEF Spec, FollowsLifecycle, Lifecycle!Spec, Lifecycle!vars

-----------------------------------------------------------------------------
(* A saga is all or nothing: what the rows of a saga and the goods it      *)
(* holds show, by the place of its run.                                    *)
unbegun(s, is) == \A i \in is : steps[s][i] = NoStep
did(s, i)      == steps[s][i].status = "COMPLETED"

rowsAt(p) == LET s == p[1] IN
  /\ pc[p] \in Unreserved => unbegun(s, StepIds)
  /\ pc[p] \in {"reserve", "end0", "fail0", "begin1"} =>
       unbegun(s, {PROCESS_PAYMENT, CONFIRM_ORDER, EMIT_EVENTS})
  /\ pc[p] \in {"charge", "end1", "fail1", "begin2"} \cup Backward =>
       unbegun(s, {CONFIRM_ORDER, EMIT_EVENTS})
  /\ pc[p] \in Reserved \ {"end0"} => did(s, RESERVE_INVENTORY)
  /\ pc[p] \in {"end3", "complete"} => did(s, CONFIRM_ORDER)
  /\ pc[p] = "complete" => did(s, EMIT_EVENTS)
  /\ pc[p] \in Backward =>
       \E i \in {RESERVE_INVENTORY, PROCESS_PAYMENT} : steps[s][i].status = "FAILED"
  /\ pc[p] \in {"release", "markReleased", "markUnreleased"} => snap[p] = steps[s]

(* What it holds on its way back, and since when that is on record.        *)
Released == {"cancel", "finish", "return", "done", "dead"}

goodsAt(p) == LET s == p[1] IN
  /\ held[s] \subseteq Items(s[1])
  /\ pc[p] = "release" => held[s] \subseteq left[p]
  /\ pc[p] = "markReleased" => held[s] = {}
  /\ steps[s][RESERVE_INVENTORY].comp = "COMPLETED" => held[s] = {} /\ pc[p] \in Released

PlacesInv == \A p \in Flows : rowsAt(p) /\ goodsAt(p)

(* What writing one row of a saga's steps changes of it.                   *)
LEMMA WriteStepEffect ==
  ASSUME TypeOK, NEW p \in Flows, NEW at, NEW i \in StepIds, NEW row, NEW to,
         writeStep(p, at, i, row, to)
  PROVE  /\ pc[p] = at /\ pc'[p] = to
         /\ steps'[p[1]][i] = row
         /\ \A j \in StepIds : j # i => steps'[p[1]][j] = steps[p[1]][j]
         /\ held' = held /\ left' = left /\ snap' = snap
<1>1. put(p, i, row)
  BY DEF writeStep, setStep, put
<1> QED BY <1>1, Put DEF writeStep, Goto, TypeOK, goods, locals

LEMMA StepNames ==
  /\ StepIds = {RESERVE_INVENTORY, PROCESS_PAYMENT, CONFIRM_ORDER, EMIT_EVENTS}
  /\ RESERVE_INVENTORY \in StepIds /\ PROCESS_PAYMENT \in StepIds
  /\ CONFIRM_ORDER \in StepIds /\ EMIT_EVENTS \in StepIds
  /\ RESERVE_INVENTORY # PROCESS_PAYMENT /\ RESERVE_INVENTORY # CONFIRM_ORDER
  /\ RESERVE_INVENTORY # EMIT_EVENTS /\ PROCESS_PAYMENT # CONFIRM_ORDER
  /\ PROCESS_PAYMENT # EMIT_EVENTS /\ CONFIRM_ORDER # EMIT_EVENTS
BY DEF StepIds, RESERVE_INVENTORY, PROCESS_PAYMENT, CONFIRM_ORDER, EMIT_EVENTS

(* What the helpers of saga.ts put in the two columns that matter here.    *)
LEMMA StepColumns ==
  /\ createStep.status = "RUNNING" /\ createStep.comp = "PENDING"
  /\ NoStep.comp = "PENDING"
  /\ \A i \in StepIds : /\ completeStep(createStep, i).status = "COMPLETED"
                        /\ completeStep(createStep, i).comp = "PENDING"
  /\ failStep(createStep).status = "FAILED" /\ failStep(createStep).comp = "PENDING"
  /\ \A row \in StepRow :
       /\ markStepCompensated(row).status = row.status
       /\ markStepCompensationFailed(row).status = row.status
       /\ markStepCompensationFailed(row).comp = "FAILED"
BY DEF createStep, NoStep, completeStep, failStep, markStepCompensated,
       markStepCompensationFailed, StepRow

(* The statements of startSaga that write a step.                          *)
LEMMA PlacesForward ==
  ASSUME TypeOK, NEW p \in Flows, rowsAt(p), goodsAt(p),
         \/ endStep(p, "end0", RESERVE_INVENTORY, "begin1")
         \/ endFailed(p, "fail0", RESERVE_INVENTORY)
         \/ beginStep(p, "begin1", PROCESS_PAYMENT, "charge")
         \/ endStep(p, "end1", PROCESS_PAYMENT, "begin2")
         \/ endFailed(p, "fail1", PROCESS_PAYMENT)
         \/ beginStep(p, "begin2", CONFIRM_ORDER, "begin3")
         \/ beginStep(p, "begin3", EMIT_EVENTS, "confirm")
         \/ endStep(p, "end2", CONFIRM_ORDER, "end3")
         \/ endStep(p, "end3", EMIT_EVENTS, "complete")
  PROVE  rowsAt(p)' /\ goodsAt(p)'
<1>1. ASSUME NEW at, NEW i \in StepIds, NEW row, NEW to, writeStep(p, at, i, row, to),
             row.comp = "PENDING", to \in Forward \cup {"compensate"},
             at \in Forward
      PROVE  goodsAt(p)'
  <2>1. /\ pc[p] = at /\ pc'[p] = to /\ held' = held
        /\ steps'[p[1]][RESERVE_INVENTORY].comp = "COMPLETED" =>
             steps[p[1]][RESERVE_INVENTORY].comp = "COMPLETED"
    BY <1>1, WriteStepEffect, StepNames
  <2> QED BY <1>1, <2>1 DEF goodsAt, Released, Forward
<1>w. ASSUME NEW at, NEW i \in StepIds, NEW row, NEW to, writeStep(p, at, i, row, to)
      PROVE  /\ pc[p] = at /\ pc'[p] = to
             /\ steps'[p[1]][i] = row
             /\ \A j \in StepIds \ {i} : steps'[p[1]][j] = steps[p[1]][j]
  BY <1>w, WriteStepEffect
<1>2. CASE endStep(p, "end0", RESERVE_INVENTORY, "begin1")
  <2>1. writeStep(p, "end0", RESERVE_INVENTORY, completeStep(createStep, RESERVE_INVENTORY), "begin1")
    BY <1>2 DEF endStep
  <2>2. /\ pc[p] = "end0" /\ pc'[p] = "begin1"
        /\ steps'[p[1]][RESERVE_INVENTORY] = completeStep(createStep, RESERVE_INVENTORY)
        /\ \A j \in StepIds \ {RESERVE_INVENTORY} : steps'[p[1]][j] = steps[p[1]][j]
    BY <1>w, <2>1, StepNames
  <2>3. rowsAt(p)'
    BY <2>2, StepNames, StepColumns DEF rowsAt, unbegun, did, Unreserved, Reserved, Backward
  <2> QED BY <1>1, <2>1, <2>3, StepNames, StepColumns DEF Forward
<1>3. CASE endFailed(p, "fail0", RESERVE_INVENTORY)
  <2>1. writeStep(p, "fail0", RESERVE_INVENTORY, failStep(createStep), "compensate")
    BY <1>3 DEF endFailed
  <2>2. /\ pc[p] = "fail0" /\ pc'[p] = "compensate"
        /\ steps'[p[1]][RESERVE_INVENTORY] = failStep(createStep)
        /\ \A j \in StepIds \ {RESERVE_INVENTORY} : steps'[p[1]][j] = steps[p[1]][j]
    BY <1>w, <2>1, StepNames
  <2>3. rowsAt(p)'
    BY <2>2, StepNames, StepColumns DEF rowsAt, unbegun, did, Unreserved, Reserved, Backward
  <2> QED BY <1>1, <2>1, <2>3, StepNames, StepColumns DEF Forward
<1>4. CASE beginStep(p, "begin1", PROCESS_PAYMENT, "charge")
  <2>1. writeStep(p, "begin1", PROCESS_PAYMENT, createStep, "charge")
    BY <1>4 DEF beginStep
  <2>2. /\ pc[p] = "begin1" /\ pc'[p] = "charge"
        /\ steps'[p[1]][PROCESS_PAYMENT] = createStep
        /\ \A j \in StepIds \ {PROCESS_PAYMENT} : steps'[p[1]][j] = steps[p[1]][j]
    BY <1>w, <2>1, StepNames
  <2>3. rowsAt(p)'
    BY <2>2, StepNames, StepColumns DEF rowsAt, unbegun, did, Unreserved, Reserved, Backward
  <2> QED BY <1>1, <2>1, <2>3, StepNames, StepColumns DEF Forward
<1>5. CASE endStep(p, "end1", PROCESS_PAYMENT, "begin2")
  <2>1. writeStep(p, "end1", PROCESS_PAYMENT, completeStep(createStep, PROCESS_PAYMENT), "begin2")
    BY <1>5 DEF endStep
  <2>2. /\ pc[p] = "end1" /\ pc'[p] = "begin2"
        /\ steps'[p[1]][PROCESS_PAYMENT] = completeStep(createStep, PROCESS_PAYMENT)
        /\ \A j \in StepIds \ {PROCESS_PAYMENT} : steps'[p[1]][j] = steps[p[1]][j]
    BY <1>w, <2>1, StepNames
  <2>3. rowsAt(p)'
    BY <2>2, StepNames, StepColumns DEF rowsAt, unbegun, did, Unreserved, Reserved, Backward
  <2> QED BY <1>1, <2>1, <2>3, StepNames, StepColumns DEF Forward
<1>6. CASE endFailed(p, "fail1", PROCESS_PAYMENT)
  <2>1. writeStep(p, "fail1", PROCESS_PAYMENT, failStep(createStep), "compensate")
    BY <1>6 DEF endFailed
  <2>2. /\ pc[p] = "fail1" /\ pc'[p] = "compensate"
        /\ steps'[p[1]][PROCESS_PAYMENT] = failStep(createStep)
        /\ \A j \in StepIds \ {PROCESS_PAYMENT} : steps'[p[1]][j] = steps[p[1]][j]
    BY <1>w, <2>1, StepNames
  <2>3. rowsAt(p)'
    BY <2>2, StepNames, StepColumns DEF rowsAt, unbegun, did, Unreserved, Reserved, Backward
  <2> QED BY <1>1, <2>1, <2>3, StepNames, StepColumns DEF Forward
<1>7. CASE beginStep(p, "begin2", CONFIRM_ORDER, "begin3")
  <2>1. writeStep(p, "begin2", CONFIRM_ORDER, createStep, "begin3")
    BY <1>7 DEF beginStep
  <2>2. /\ pc[p] = "begin2" /\ pc'[p] = "begin3"
        /\ steps'[p[1]][CONFIRM_ORDER] = createStep
        /\ \A j \in StepIds \ {CONFIRM_ORDER} : steps'[p[1]][j] = steps[p[1]][j]
    BY <1>w, <2>1, StepNames
  <2>3. rowsAt(p)'
    BY <2>2, StepNames, StepColumns DEF rowsAt, unbegun, did, Unreserved, Reserved, Backward
  <2> QED BY <1>1, <2>1, <2>3, StepNames, StepColumns DEF Forward
<1>8. CASE beginStep(p, "begin3", EMIT_EVENTS, "confirm")
  <2>1. writeStep(p, "begin3", EMIT_EVENTS, createStep, "confirm")
    BY <1>8 DEF beginStep
  <2>2. /\ pc[p] = "begin3" /\ pc'[p] = "confirm"
        /\ steps'[p[1]][EMIT_EVENTS] = createStep
        /\ \A j \in StepIds \ {EMIT_EVENTS} : steps'[p[1]][j] = steps[p[1]][j]
    BY <1>w, <2>1, StepNames
  <2>3. rowsAt(p)'
    BY <2>2, StepNames, StepColumns DEF rowsAt, unbegun, did, Unreserved, Reserved, Backward
  <2> QED BY <1>1, <2>1, <2>3, StepNames, StepColumns DEF Forward
<1>9. CASE endStep(p, "end2", CONFIRM_ORDER, "end3")
  <2>1. writeStep(p, "end2", CONFIRM_ORDER, completeStep(createStep, CONFIRM_ORDER), "end3")
    BY <1>9 DEF endStep
  <2>2. /\ pc[p] = "end2" /\ pc'[p] = "end3"
        /\ steps'[p[1]][CONFIRM_ORDER] = completeStep(createStep, CONFIRM_ORDER)
        /\ \A j \in StepIds \ {CONFIRM_ORDER} : steps'[p[1]][j] = steps[p[1]][j]
    BY <1>w, <2>1, StepNames
  <2>3. rowsAt(p)'
    BY <2>2, StepNames, StepColumns DEF rowsAt, unbegun, did, Unreserved, Reserved, Backward
  <2> QED BY <1>1, <2>1, <2>3, StepNames, StepColumns DEF Forward
<1>10. CASE endStep(p, "end3", EMIT_EVENTS, "complete")
  <2>1. writeStep(p, "end3", EMIT_EVENTS, completeStep(createStep, EMIT_EVENTS), "complete")
    BY <1>10 DEF endStep
  <2>2. /\ pc[p] = "end3" /\ pc'[p] = "complete"
        /\ steps'[p[1]][EMIT_EVENTS] = completeStep(createStep, EMIT_EVENTS)
        /\ \A j \in StepIds \ {EMIT_EVENTS} : steps'[p[1]][j] = steps[p[1]][j]
    BY <1>w, <2>1, StepNames
  <2>3. rowsAt(p)'
    BY <2>2, StepNames, StepColumns DEF rowsAt, unbegun, did, Unreserved, Reserved, Backward
  <2> QED BY <1>1, <2>1, <2>3, StepNames, StepColumns DEF Forward
<1> QED BY <1>2, <1>3, <1>4, <1>5, <1>6, <1>7, <1>8, <1>9, <1>10

(* The statements of startSaga that write none, and the failures.          *)
LEMMA PlacesStill ==
  ASSUME TypeOK, NEW p \in Flows, rowsAt(p), goodsAt(p),
         \/ CreateSaga(p) \/ StartSaga(p) \/ ReserveFails(p) \/ ReserveDone(p)
         \/ ChargeSucceeds(p) \/ ChargeDeclined(p) \/ ConfirmOrder(p) \/ CompleteSaga(p)
         \/ CompleteJob(p) \/ StartCompensation(p) \/ CancelOrder(p)
         \/ FinishCompensation(p) \/ Faulty(p)
  PROVE  rowsAt(p)' /\ goodsAt(p)'
<1>1. steps' = steps /\ held' = held
  BY DEF CreateSaga, StartSaga, ReserveFails, ReserveDone, ChargeSucceeds, ChargeDeclined,
     ConfirmOrder, CompleteSaga, CompleteJob, StartCompensation, CancelOrder,
     FinishCompensation, Faulty, ChargeThrows, CancelFails, Throw, Crash,
     writeSaga, writeOrder, rows, goods
<1>2. \/ pc'[p] = pc[p] /\ pc[p] = "charge"
      \/ pc'[p] \in {"done", "dead"}
      \/ <<pc[p], pc'[p]>> \in
           {<<"create", "start">>, <<"start", "begin0">>, <<"reserve", "fail0">>,
            <<"reserve", "end0">>, <<"charge", "end1">>, <<"charge", "fail1">>,
            <<"confirm", "end2">>, <<"complete", "return">>, <<"compensate", "getSteps">>,
            <<"cancel", "finish">>, <<"finish", "return">>}
  <2>1. pc \in [Flows -> Live \cup Ended]
    BY DEF TypeOK
  <2>2. CASE CreateSaga(p) \/ StartSaga(p) \/ CompleteSaga(p) \/ StartCompensation(p)
    BY <2>1, <2>2 DEF CreateSaga, StartSaga, CompleteSaga, StartCompensation, writeSaga, Goto
  <2>3. CASE ConfirmOrder(p) \/ CancelOrder(p)
    BY <2>1, <2>3 DEF ConfirmOrder, CancelOrder, writeOrder, Goto
  <2>4. CASE ReserveFails(p) \/ ReserveDone(p) \/ ChargeSucceeds(p) \/ ChargeDeclined(p)
    BY <2>1, <2>4 DEF ReserveFails, ReserveDone, ChargeSucceeds, ChargeDeclined, Goto
  <2>5. CASE CompleteJob(p) \/ FinishCompensation(p)
    BY <2>1, <2>5 DEF CompleteJob, FinishCompensation, EndFlow, Goto
  <2>6. CASE Faulty(p)
    BY <2>1, <2>6 DEF Faulty, ChargeThrows, CancelFails, Throw, Crash, EndFlow, Goto
  <2> QED BY <2>2, <2>3, <2>4, <2>5, <2>6
<1>3. rowsAt(p)'
  BY <1>1, <1>2 DEF rowsAt, unbegun, did, Unreserved, Reserved, Backward
<1>4. goodsAt(p)'
  BY <1>1, <1>2 DEF goodsAt, Released
<1> QED BY <1>3, <1>4
LEMMA PlacesReserve ==
  ASSUME TypeOK, HeldInv, NEW p \in Flows, p[2] = "worker", rowsAt(p), goodsAt(p),
         BeginReserve(p) \/ ReserveItem(p)
  PROVE  rowsAt(p)' /\ goodsAt(p)'
<1>1. CASE BeginReserve(p)
  <2>1. put(p, RESERVE_INVENTORY, createStep) /\ pc[p] = "begin0" /\ pc'[p] = "reserve"
    BY <1>1 DEF BeginReserve, setStep, put, Goto, TypeOK
  <2>2. /\ steps'[p[1]][RESERVE_INVENTORY] = createStep
        /\ \A j \in StepIds \ {RESERVE_INVENTORY} : steps'[p[1]][j] = steps[p[1]][j]
    BY <2>1, Put, StepNames
  <2>3. rowsAt(p)'
    BY <2>1, <2>2, StepNames DEF rowsAt, unbegun, Unreserved, Reserved, Backward
  <2>4. held' = held
    BY <1>1 DEF BeginReserve, goods
  <2> QED BY <2>1, <2>2, <2>3, <2>4, StepColumns DEF goodsAt
<1>2. CASE ReserveItem(p)
  <2>1. /\ pc' = pc /\ steps' = steps /\ pc[p] = "reserve"
        /\ \E k \in left[p] : held' = [held EXCEPT ![p[1]] = @ \cup {k}]
    BY <1>2 DEF ReserveItem, isNext, rows
  <2>2. held[p[1]] \cup left[p] = Items(p[1][1])
    BY <2>1, FlowParts DEF HeldInv
  <2>3. held'[p[1]] \subseteq Items(p[1][1])
    BY <2>1, <2>2, FlowParts DEF TypeOK
  <2>4. rowsAt(p)'
    BY <2>1 DEF rowsAt, unbegun, did, Unreserved, Reserved, Backward
  <2> QED BY <2>1, <2>3, <2>4 DEF goodsAt, Released
<1> QED BY <1>1, <1>2

(* compensate never finds a captured payment, and releases what it holds   *)
(* before it says so.                                                      *)
LEMMA PlacesBack ==
  ASSUME TypeOK, MoneyInv, NEW p \in Flows, p[2] = "worker", rowsAt(p), goodsAt(p),
         Compensate(p), ~StartCompensation(p), ~CancelOrder(p), ~FinishCompensation(p)
  PROVE  rowsAt(p)' /\ goodsAt(p)'
<1> DEFINE s == p[1]
<1>0. /\ p = <<s, "worker">> /\ s \in SagaIds /\ s[1] \in Orders
      /\ pc \in [Flows -> Live \cup Ended] /\ snap \in [Flows -> [StepIds -> StepRow]]
      /\ left \in [Flows -> SUBSET Skus] /\ held \in [SagaIds -> SUBSET Skus]
      /\ steps[s] \in [StepIds -> StepRow]
  BY FlowParts DEF TypeOK
<1>1. pc[p] \in Backward => ~charged(steps[s][PP])
  BY <1>0 DEF MoneyInv, PaymentInv, PP
<1>2. pc[p] \notin Refunding
  BY <1>0, <1>1 DEF MoneyInv, SnapshotInv, PP, Refunding, Backward
<1>3. CASE GetSteps(p)
  <2>1. /\ pc[p] = "getSteps" /\ pc'[p] = "release"
        /\ snap'[p] = steps[s] /\ left'[p] = Items(s[1]) /\ steps' = steps /\ held' = held
    BY <1>0, <1>1, <1>3 DEF GetSteps, contextItems, Goto, rows, goods, Backward, PP
  <2>2. rowsAt(p)'
    BY <2>1 DEF rowsAt, unbegun, did, Unreserved, Reserved, Backward
  <2> QED BY <2>1, <2>2 DEF goodsAt, Released
<1>4. CASE ReleaseItem(p)
  <2>1. /\ pc' = pc /\ snap' = snap /\ steps' = steps /\ pc[p] = "release"
        /\ \E k : held'[s] = held[s] \ {k} /\ left'[p] = left[p] \ {k}
    BY <1>0, <1>4 DEF ReleaseItem, rows
  <2>2. rowsAt(p)'
    BY <2>1 DEF rowsAt, unbegun, did, Unreserved, Reserved, Backward
  <2> QED BY <2>1, <2>2 DEF goodsAt, Released
<1>5. CASE ReleaseFails(p) \/ ReleaseDone(p)
  <2>1. /\ snap' = snap /\ steps' = steps /\ held' = held /\ pc[p] = "release"
        /\ \/ pc'[p] \in {"cancel", "markUnreleased"}
           \/ pc'[p] = "markReleased" /\ left[p] = {}
    BY <1>0, <1>5 DEF ReleaseFails, ReleaseDone, afterRelease, Goto, rows, goods, locals
  <2>2. rowsAt(p)'
    BY <2>1 DEF rowsAt, unbegun, did, Unreserved, Reserved, Backward
  <2> QED BY <2>1, <2>2 DEF goodsAt, Released
<1>w. ASSUME NEW at, NEW i \in StepIds, NEW row, NEW to, writeStep(p, at, i, row, to)
      PROVE  /\ pc[p] = at /\ pc'[p] = to /\ held' = held
             /\ steps'[s][i] = row
             /\ \A j \in StepIds \ {i} : steps'[s][j] = steps[s][j]
  BY <1>w, WriteStepEffect
<1>6. CASE writeStep(p, "markReleased", RESERVE_INVENTORY,
                     markStepCompensated(snap[p][RESERVE_INVENTORY]), "cancel")
  <2>1. /\ pc[p] = "markReleased" /\ pc'[p] = "cancel" /\ held' = held
        /\ steps'[s][RESERVE_INVENTORY] = markStepCompensated(snap[p][RESERVE_INVENTORY])
        /\ \A j \in StepIds \ {RESERVE_INVENTORY} : steps'[s][j] = steps[s][j]
    BY <1>6, <1>w, StepNames
  <2>2. steps'[s][RESERVE_INVENTORY].status = steps[s][RESERVE_INVENTORY].status
    BY <1>0, <2>1, StepNames, StepColumns DEF rowsAt
  <2>3. rowsAt(p)'
    BY <2>1, <2>2, StepNames DEF rowsAt, unbegun, Unreserved, Reserved, Backward
  <2> QED BY <2>1, <2>3 DEF goodsAt, Released
<1>7. CASE writeStep(p, "markUnreleased", RESERVE_INVENTORY,
                     markStepCompensationFailed(snap[p][RESERVE_INVENTORY]), "cancel")
  <2>1. /\ pc[p] = "markUnreleased" /\ pc'[p] = "cancel" /\ held' = held
        /\ steps'[s][RESERVE_INVENTORY] = markStepCompensationFailed(snap[p][RESERVE_INVENTORY])
        /\ \A j \in StepIds \ {RESERVE_INVENTORY} : steps'[s][j] = steps[s][j]
    BY <1>7, <1>w, StepNames
  <2>2. /\ steps'[s][RESERVE_INVENTORY].status = steps[s][RESERVE_INVENTORY].status
        /\ steps'[s][RESERVE_INVENTORY].comp = "FAILED"
    BY <1>0, <2>1, StepNames, StepColumns DEF rowsAt
  <2>3. rowsAt(p)'
    BY <2>1, <2>2, StepNames DEF rowsAt, unbegun, Unreserved, Reserved, Backward
  <2> QED BY <2>1, <2>2, <2>3 DEF goodsAt, Released
<1>8. ~ \/ Refund(p)
        \/ writeStep(p, "markRefunded", PROCESS_PAYMENT,
                     markStepCompensated(snap[p][PROCESS_PAYMENT]), "release")
        \/ writeStep(p, "markUnrefunded", PROCESS_PAYMENT,
                     markStepCompensationFailed(snap[p][PROCESS_PAYMENT]), "release")
  BY <1>2 DEF Refund, writeStep, Refunding
<1> QED BY <1>3, <1>4, <1>5, <1>6, <1>7, <1>8 DEF Compensate

LEMMA PlacesFlow ==
  ASSUME LifeInv, PlacesInv, NEW p \in Flows, p[2] = "worker", FlowStep(p)
  PROVE  rowsAt(p)' /\ goodsAt(p)'
<1>1. TypeOK /\ HeldInv /\ MoneyInv /\ rowsAt(p) /\ goodsAt(p)
  BY DEF LifeInv, CoreInv, PlacesInv
<1>2. ~AdminCompensate(p)
  BY AdminAssumption DEF AdminCompensate
<1>3. CASE Compensate(p)
  BY <1>1, <1>3, PlacesBack, PlacesStill
<1>4. CASE Advance(p)
  BY <1>1, <1>4, PlacesForward, PlacesReserve, PlacesStill DEF Advance
<1>5. CASE Faulty(p)
  BY <1>1, <1>5, PlacesStill
<1> QED BY <1>2, <1>3, <1>4, <1>5 DEF FlowStep

LEMMA PlacesStep == Admins = {} /\ LifeInv /\ PlacesInv /\ [Next]_vars => PlacesInv'
<1> SUFFICES ASSUME Admins = {}, LifeInv, PlacesInv, [Next]_vars PROVE PlacesInv'
  OBVIOUS
<1>1. \A p \in Flows : p[2] = "worker"
  BY FlowParts DEF Actors
<1>2. CASE UNCHANGED vars
  BY <1>2 DEF PlacesInv, rowsAt, goodsAt, unbegun, did, vars, rows, goods, locals
<1>3. ASSUME NEW p \in Flows, FlowStep(p) PROVE PlacesInv'
  <2>1. Frame(p)
    BY <1>3, FrameFlow DEF LifeInv, CoreInv
  <2>2. ASSUME NEW q \in Flows, q # p PROVE rowsAt(q)' /\ goodsAt(q)'
    <3>1. q[1] # p[1] /\ q[1] \in SagaIds
      BY <1>1, <2>2, FlowParts
    <3>2. /\ pc'[q] = pc[q] /\ left'[q] = left[q] /\ snap'[q] = snap[q]
          /\ steps'[q[1]] = steps[q[1]] /\ held'[q[1]] = held[q[1]]
      BY <2>1, <2>2, <3>1 DEF Frame
    <3>3. rowsAt(q)'
      BY <3>2 DEF PlacesInv, rowsAt, unbegun, did
    <3> QED BY <3>2, <3>3 DEF PlacesInv, goodsAt
  <2> QED BY <1>1, <1>3, <2>2, PlacesFlow DEF PlacesInv
<1>4. ASSUME NEW o \in Orders, OrderStep(o) PROVE PlacesInv'
  <2>1. /\ steps' = steps /\ held' = held /\ left' = left /\ snap' = snap
        /\ \A q \in Flows : pc'[q] # pc[q] => pc[q] = "idle" /\ pc'[q] = "create"
    BY <1>4, OrderStarts DEF LifeInv, CoreInv
  <2>2. ASSUME NEW q \in Flows PROVE rowsAt(q)' /\ goodsAt(q)'
    <3>1. rowsAt(q)'
      BY <2>1 DEF PlacesInv, rowsAt, unbegun, did, Unreserved, Reserved, Backward
    <3> QED BY <2>1, <3>1 DEF PlacesInv, goodsAt, Released
  <2> QED BY <2>2 DEF PlacesInv
<1> QED BY <1>2, <1>3, <1>4, NextSteps

LEMMA PlacesInit == Init => PlacesInv
<1> SUFFICES ASSUME Init, NEW p \in Flows PROVE rowsAt(p) /\ goodsAt(p)
  BY DEF PlacesInv
<1>1. /\ pc[p] = "idle" /\ held[p[1]] = {}
      /\ \A i \in StepIds : steps[p[1]][i] = NoStep
  BY FlowParts DEF Init, NoSteps
<1> QED BY <1>1, StepNames, StepColumns DEF rowsAt, goodsAt, unbegun, Unreserved, Reserved, Backward

(* COMPLETED and FAILED are written once, when the rows say so, and what   *)
(* they rest on is not touched any more.                                   *)
WholeInv == LifeInv /\ PlacesInv /\ SagaIsWhole

completedWell(s) == /\ held[s] = Items(s[1]) /\ charges[s] > 0
                    /\ \A i \in StepIds : did(s, i)
                    /\ paidIn(outbox[s[1]])
failedWell(s) == /\ \E i \in {RESERVE_INVENTORY, PROCESS_PAYMENT} : steps[s][i].status = "FAILED"
                 /\ ~charged(steps[s][PROCESS_PAYMENT])
                 /\ unbegun(s, {CONFIRM_ORDER, EMIT_EVENTS})

LEMMA WholeByParts ==
  SagaIsWhole <=> \A s \in SagaIds : /\ sagas[s] = "COMPLETED" => completedWell(s)
                                     /\ sagas[s] = "FAILED" => failedWell(s)
BY DEF SagaIsWhole, completedWell, failedWell, did, unbegun, paidIn

LEMMA EndsWell ==
  ASSUME LifeInv, PlacesInv, NEW p \in Flows, p[2] = "worker"
  PROVE  /\ pc[p] = "complete" => completedWell(p[1])
         /\ pc[p] = "finish" => failedWell(p[1])
<1> DEFINE s == p[1]
<1>1. p = <<s, "worker">> /\ s \in SagaIds /\ s[1] \in Orders
  BY FlowParts
<1>2. CASE pc[p] = "complete"
  <2>1. held[s] = Items(s[1])
    BY <1>1, <1>2 DEF LifeInv, CoreInv, HeldInv, Reserved
  <2>2. charges[s] > 0 /\ charged(steps[s][PROCESS_PAYMENT])
    BY <1>1, <1>2 DEF LifeInv, CoreInv, MoneyInv, PaymentInv, Paid
  <2>3. did(s, RESERVE_INVENTORY) /\ did(s, CONFIRM_ORDER) /\ did(s, EMIT_EVENTS)
    BY <1>2 DEF PlacesInv, rowsAt, Reserved
  <2>4. did(s, PROCESS_PAYMENT)
    BY <2>2 DEF did, charged
  <2>5. paidIn(outbox[s[1]])
    BY <1>1, <1>2 DEF LifeInv, StatusInv, paidIn
  <2> QED BY <1>2, <2>1, <2>2, <2>3, <2>4, <2>5, StepNames DEF completedWell
<1>3. CASE pc[p] = "finish"
  <2>1. ~charged(steps[s][PROCESS_PAYMENT])
    BY <1>1, <1>3 DEF LifeInv, CoreInv, MoneyInv, PaymentInv, Backward
  <2> QED BY <1>3, <2>1 DEF PlacesInv, rowsAt, failedWell, Backward
<1> QED BY <1>2, <1>3

LEMMA WholeFlow ==
  ASSUME WholeInv, NEW p \in Flows, p[2] = "worker", FlowStep(p), Next
  PROVE  LET s == p[1] IN
         /\ sagas'[s] = "COMPLETED" => completedWell(s)'
         /\ sagas'[s] = "FAILED" => failedWell(s)'
<1> DEFINE s == p[1]
<1>1. /\ p = <<s, "worker">> /\ s \in SagaIds /\ s[1] \in Orders
      /\ pc \in [Flows -> Live \cup Ended] /\ sagas \in [SagaIds -> SagaStatus \cup {NoRow}]
  BY FlowParts DEF WholeInv, LifeInv, CoreInv, TypeOK
<1>2. paidIn(outbox[s[1]]) => paidIn(outbox'[s[1]])
  BY <1>1, PaidGrows DEF WholeInv, LifeInv, CoreInv
<1>3. ASSUME UNCHANGED <<steps, held, charges>>
      PROVE  /\ completedWell(s) => completedWell(s)'
             /\ failedWell(s) => failedWell(s)'
  BY <1>2, <1>3 DEF completedWell, failedWell, did, unbegun
<1>4. pc[p] \in {"complete", "finish", "return", "done", "dead"} => UNCHANGED <<steps, held, charges>>
  <2> SUFFICES ASSUME pc[p] \in {"complete", "finish", "return", "done", "dead"}
               PROVE  UNCHANGED <<steps, held, charges>>
    OBVIOUS
  <2>1. ~AdminCompensate(p) /\ ~ChargeThrows(p) /\ ~CancelFails(p)
    BY DEF AdminCompensate, ChargeThrows, CancelFails
  <2>2. Advance(p) => CompleteJob(p) \/ CompleteSaga(p)
    BY DEF Advance, CreateSaga, StartSaga, BeginReserve, ReserveItem, ReserveFails,
       ReserveDone, ChargeSucceeds, ChargeDeclined, ConfirmOrder,
       beginStep, endStep, endFailed, writeSaga, writeStep, writeOrder
  <2>3. Compensate(p) => FinishCompensation(p)
    BY DEF Compensate, StartCompensation, GetSteps, Refund, ReleaseItem, ReleaseFails,
       ReleaseDone, CancelOrder, writeSaga, writeStep, writeOrder
  <2>4. CASE CompleteJob(p) \/ CompleteSaga(p) \/ FinishCompensation(p) \/ Throw(p) \/ Crash(p)
    BY <2>4 DEF CompleteJob, CompleteSaga, FinishCompensation, writeSaga, Throw, Crash,
       rows, goods, money
  <2> QED BY <2>1, <2>2, <2>3, <2>4 DEF FlowStep, Faulty
<1>5. Seen(p) \/ Unseen(p)
  BY SeenOrUnseen DEF WholeInv, LifeInv, CoreInv
<1>6. CASE sagas[s] \in {"COMPLETED", "FAILED"}
  <2>1. pc[p] \in {"return", "done", "dead"}
    BY <1>1, <1>6 DEF WholeInv, LifeInv, StatusInv, Live, Startup, Ended, Forward, Backward, NoRow
  <2>2. sagas' = sagas
    BY <1>5, <2>1 DEF Seen, Unseen, sees, tells
  <2> QED BY <1>1, <1>3, <1>4, <2>1, <2>2, WholeByParts DEF WholeInv
<1>7. CASE sagas[s] \notin {"COMPLETED", "FAILED"}
  <2>1. CASE sees(p, "complete", "COMPLETED", {"return"})
    BY <1>1, <1>3, <1>4, <2>1, EndsWell DEF WholeInv, sees
  <2>2. CASE sees(p, "finish", "FAILED", {"return", "done"})
    BY <1>1, <1>3, <1>4, <2>2, EndsWell DEF WholeInv, sees
  <2>3. CASE sagas'[s] \notin {"COMPLETED", "FAILED"}
    BY <2>3
  <2> QED BY <1>1, <1>5, <1>7, <2>1, <2>2, <2>3 DEF Seen, Unseen, sees, tells
<1> QED BY <1>6, <1>7

LEMMA WholeStep == Admins = {} /\ WholeInv /\ [Next]_vars => WholeInv'
<1> SUFFICES ASSUME Admins = {}, WholeInv, [Next]_vars PROVE WholeInv'
  OBVIOUS
<1>1. LifeInv' /\ PlacesInv'
  BY LifeStep, PlacesStep DEF WholeInv
<1>2. \A p \in Flows : p[2] = "worker"
  BY FlowParts DEF Actors
<1>3. ASSUME NEW s \in SagaIds,
             \/ UNCHANGED <<steps, held, charges, sagas>>
             \/ /\ steps'[s] = steps[s] /\ held'[s] = held[s]
                /\ charges'[s] = charges[s] /\ sagas'[s] = sagas[s]
      PROVE  /\ sagas'[s] = "COMPLETED" => completedWell(s)'
             /\ sagas'[s] = "FAILED" => failedWell(s)'
  <2>1. paidIn(outbox[s[1]]) => paidIn(outbox'[s[1]])
    BY PaidGrows, SagaParts DEF WholeInv, LifeInv, CoreInv
  <2>2. /\ sagas[s] = "COMPLETED" => completedWell(s)
        /\ sagas[s] = "FAILED" => failedWell(s)
    BY WholeByParts DEF WholeInv
  <2> QED BY <1>3, <2>1, <2>2 DEF completedWell, failedWell, did, unbegun
<1>4. ASSUME NEW s \in SagaIds
      PROVE  /\ sagas'[s] = "COMPLETED" => completedWell(s)'
             /\ sagas'[s] = "FAILED" => failedWell(s)'
  <2>1. CASE UNCHANGED vars
    BY <1>3, <2>1 DEF vars, rows, goods, money
  <2>2. ASSUME NEW o \in Orders, OrderStep(o) PROVE UNCHANGED <<steps, held, charges, sagas>>
    BY <2>2, OrderStarts DEF WholeInv, LifeInv, CoreInv
  <2>3. ASSUME NEW p \in Flows, FlowStep(p), p[1] # s
        PROVE  /\ steps'[s] = steps[s] /\ held'[s] = held[s]
               /\ charges'[s] = charges[s] /\ sagas'[s] = sagas[s]
    BY <2>3, FrameFlow DEF Frame, WholeInv, LifeInv, CoreInv
  <2>4. ASSUME NEW p \in Flows, FlowStep(p), p[1] = s
        PROVE  /\ sagas'[s] = "COMPLETED" => completedWell(s)'
               /\ sagas'[s] = "FAILED" => failedWell(s)'
    <3>1. Next
      BY <2>4, NextSteps
    <3> QED BY <1>2, <2>4, <3>1, WholeFlow
  <2> QED BY <1>3, <2>1, <2>2, <2>3, <2>4, NextSteps
<1>5. SagaIsWhole'
  BY <1>4 DEF SagaIsWhole, completedWell, failedWell, did, unbegun, paidIn
<1> QED BY <1>1, <1>5 DEF WholeInv

LEMMA Whole == ASSUME Admins = {} PROVE Spec => []WholeInv
<1>1. Init => SagaIsWhole
  BY DEF Init, SagaIsWhole, NoRow
<1>2. Init => WholeInv
  BY <1>1, LifeInit, PlacesInit DEF WholeInv
<1>3. WholeInv /\ [Next]_vars => WholeInv'
  BY WholeStep
<1> QED BY <1>2, <1>3, PTL DEF Spec

(* Without the compensate route a saga's status is where its one run is:   *)
(* no retry, crash or overlap of runs writes the saga of another run.      *)
THEOREM SagaStatusFollowsRun == ASSUME Admins = {} PROVE Spec => []StatusInv
<1>1. WholeInv => StatusInv
  BY DEF WholeInv, LifeInv
<1> QED BY <1>1, Whole, PTL

(* Without the compensate route a COMPLETED saga has everything and a      *)
(* FAILED one has begun nothing that cannot be undone, through every       *)
(* crash, failed statement, retry and overlap of runs.                     *)
THEOREM SagaIsAllOrNothing == ASSUME Admins = {} PROVE Spec => []SagaIsWhole
<1>1. WholeInv => SagaIsWhole
  BY DEF WholeInv
<1> QED BY <1>1, Whole, PTL

(* Without the compensate route RESERVE_INVENTORY is marked compensated    *)
(* only when the saga holds nothing any more, and stays so.                *)
THEOREM CompensationReleases == ASSUME Admins = {} PROVE Spec => []CompensatedMeansReleased
<1>1. Admins = {} /\ WholeInv => CompensatedMeansReleased
  <2> SUFFICES ASSUME PlacesInv, NEW s \in SagaIds,
                      steps[s][RESERVE_INVENTORY].comp = "COMPLETED"
               PROVE  held[s] = {}
    BY DEF WholeInv, CompensatedMeansReleased
  <2>1. <<s, "worker">> \in Flows /\ <<s, "worker">>[1] = s
    BY SagaParts
  <2>2. goodsAt(<<s, "worker">>)
    BY <2>1 DEF PlacesInv
  <2> QED BY <2>1, <2>2 DEF goodsAt
<1> QED BY <1>1, Whole, PTL

-----------------------------------------------------------------------------
(* The inventory table is exact.  First what the units are, one by one.    *)
LEMMA UnitsMember ==
  ASSUME NEW k
  PROVE  \A u : u \in unitsOf(k) <=>
           \E s \in SagaIds : k \in held[s] /\ u \in {s} \X (1 .. Qty[s[1]][k])
BY DEF unitsOf

LEMMA UnitsMemberNext ==
  ASSUME NEW k
  PROVE  \A u : u \in unitsOf(k)' <=>
           \E s \in SagaIds : k \in held'[s] /\ u \in {s} \X (1 .. Qty[s[1]][k])
BY DEF unitsOf

(* A saga that takes or gives back an item adds or removes its units of    *)
(* it, and no other unit.                                                  *)
LEMMA UnitsMove ==
  ASSUME NEW s \in SagaIds, NEW k,
         k \notin held[s], k \in held'[s],
         \A x \in SagaIds : x # s => (k \in held'[x] <=> k \in held[x])
  PROVE  /\ unitsOf(k)' = unitsOf(k) \cup ({s} \X (1 .. Qty[s[1]][k]))
         /\ unitsOf(k) \cap ({s} \X (1 .. Qty[s[1]][k])) = {}
<1>1. \A x \in SagaIds : k \in held'[x] <=> k \in held[x] \/ x = s
  OBVIOUS
<1>2. \A u : u \in unitsOf(k)' <=> u \in unitsOf(k) \cup ({s} \X (1 .. Qty[s[1]][k]))
  BY <1>1, UnitsMember, UnitsMemberNext
<1>3. ASSUME NEW u \in unitsOf(k), u \in {s} \X (1 .. Qty[s[1]][k]) PROVE FALSE
  <2>1. PICK x \in SagaIds : k \in held[x] /\ u \in {x} \X (1 .. Qty[x[1]][k])
    BY <1>3, UnitsMember
  <2>2. u[1] = x /\ u[1] = s
    BY <1>3, <2>1
  <2> QED BY <2>1, <2>2
<1> QED BY <1>2, <1>3

LEMMA UnitsGiven ==
  ASSUME NEW s \in SagaIds, NEW k,
         k \in held[s], k \notin held'[s],
         \A x \in SagaIds : x # s => (k \in held'[x] <=> k \in held[x])
  PROVE  /\ unitsOf(k) = unitsOf(k)' \cup ({s} \X (1 .. Qty[s[1]][k]))
         /\ unitsOf(k)' \cap ({s} \X (1 .. Qty[s[1]][k])) = {}
<1>1. \A x \in SagaIds : k \in held[x] <=> k \in held'[x] \/ x = s
  OBVIOUS
<1>2. \A u : u \in unitsOf(k) <=> u \in unitsOf(k)' \cup ({s} \X (1 .. Qty[s[1]][k]))
  BY <1>1, UnitsMember, UnitsMemberNext
<1>3. ASSUME NEW u \in unitsOf(k)', u \in {s} \X (1 .. Qty[s[1]][k]) PROVE FALSE
  <2>1. PICK x \in SagaIds : k \in held'[x] /\ u \in {x} \X (1 .. Qty[x[1]][k])
    BY <1>3, UnitsMemberNext
  <2>2. u[1] = x /\ u[1] = s
    BY <1>3, <2>1
  <2> QED BY <2>1, <2>2
<1> QED BY <1>2, <1>3

LEMMA UnitsStay ==
  ASSUME NEW k, \A x \in SagaIds : k \in held'[x] <=> k \in held[x]
  PROVE  unitsOf(k)' = unitsOf(k)
<1>1. \A u : u \in unitsOf(k)' <=> u \in unitsOf(k)
  BY UnitsMember, UnitsMemberNext
<1> QED BY <1>1

LEMMA UnitsCount ==
  ASSUME NEW U, IsFiniteSet(U), NEW s, NEW q \in Nat, U \cap ({s} \X (1 .. q)) = {}
  PROVE  /\ IsFiniteSet(U \cup ({s} \X (1 .. q)))
         /\ Cardinality(U) \in Nat
         /\ Cardinality(U \cup ({s} \X (1 .. q))) = Cardinality(U) + q
<1>1. IsFiniteSet({s}) /\ Cardinality({s}) = 1
  BY FS_Singleton
<1>2. IsFiniteSet(1 .. q) /\ Cardinality(1 .. q) = q
  BY FS_Interval
<1>3. IsFiniteSet({s} \X (1 .. q)) /\ Cardinality({s} \X (1 .. q)) = 1 * q
  <2>1. \A S, T : IsFiniteSet(S) /\ IsFiniteSet(T) =>
          /\ IsFiniteSet(S \X T)
          /\ Cardinality(S \X T) = Cardinality(S) * Cardinality(T)
    BY FS_Product
  <2>2. /\ IsFiniteSet({s} \X (1 .. q))
        /\ Cardinality({s} \X (1 .. q)) = Cardinality({s}) * Cardinality(1 .. q)
    BY <1>1, <1>2, <2>1
  <2> QED BY <1>1, <1>2, <2>2
<1>4. Cardinality(U) \in Nat
  BY FS_CardinalityType
<1>5. /\ IsFiniteSet(U \cup ({s} \X (1 .. q)))
      /\ Cardinality(U \cup ({s} \X (1 .. q))) =
           Cardinality(U) + Cardinality({s} \X (1 .. q)) - Cardinality(U \cap ({s} \X (1 .. q)))
  BY <1>3, FS_Union
<1>6. Cardinality(U \cap ({s} \X (1 .. q))) = 0
  BY FS_EmptySet
<1> QED BY <1>3, <1>4, <1>5, <1>6

(* What a run holds while it reserves and when it compensates.             *)
holdsAt(p) == LET s == p[1]
                  row == steps[s][RESERVE_INVENTORY] IN
  /\ pc[p] = "reserve" => held[s] \cap left[p] = {}
  /\ pc[p] \in {"reserve", "end0", "fail0"} => row.status # "FAILED"
  /\ row.status # "FAILED" =>
       /\ pc[p] \in {"compensate", "getSteps"} => held[s] = Items(s[1])
       /\ pc[p] = "release" => left[p] \subseteq held[s]

LEMMA HoldsByFlows == HoldsExactly <=> \A s \in SagaIds : holdsAt(<<s, "worker">>)
BY DEF HoldsExactly, holdsAt

Exacting == {"reserve", "end0", "fail0", "compensate", "getSteps", "release"}

LEMMA HoldsFlow ==
  ASSUME LifeInv, PlacesInv, NEW p \in Flows, p[2] = "worker", holdsAt(p), FlowStep(p)
  PROVE  holdsAt(p)'
<1> DEFINE s == p[1]
<1>0. /\ p = <<s, "worker">> /\ s \in SagaIds /\ s[1] \in Orders
      /\ TypeOK /\ HeldInv /\ MoneyInv
      /\ pc \in [Flows -> Live \cup Ended] /\ left \in [Flows -> SUBSET Skus]
      /\ held \in [SagaIds -> SUBSET Skus]
  BY FlowParts DEF LifeInv, CoreInv, TypeOK
<1>1. pc'[p] \notin Exacting => holdsAt(p)'
  BY DEF Exacting, holdsAt
<1>2. CASE BeginReserve(p)
  <2>1. put(p, RESERVE_INVENTORY, createStep) /\ pc[p] = "begin0" /\ pc'[p] = "reserve" /\ held' = held
    BY <1>0, <1>2 DEF BeginReserve, setStep, put, Goto, goods
  <2>2. steps'[s][RESERVE_INVENTORY] = createStep /\ held[s] = {}
    BY <1>0, <2>1, Put, StepNames DEF HeldInv, Unreserved
  <2> QED BY <2>1, <2>2, StepColumns DEF holdsAt
<1>3. CASE ReserveItem(p)
  <2>1. PICK k \in left[p] : held'[s] = held[s] \cup {k} /\ left'[p] = left[p] \ {k}
    BY <1>0, <1>3 DEF ReserveItem, isNext
  <2>2. pc'[p] = "reserve" /\ pc[p] = "reserve" /\ steps' = steps
    BY <1>3 DEF ReserveItem, rows
  <2> QED BY <2>1, <2>2 DEF holdsAt
<1>4. CASE ReserveFails(p) \/ ReserveDone(p)
  BY <1>0, <1>4 DEF ReserveFails, ReserveDone, Goto, rows, goods, holdsAt
<1>5. CASE endFailed(p, "fail0", RESERVE_INVENTORY)
  <2>1. put(p, RESERVE_INVENTORY, failStep(createStep)) /\ pc'[p] = "compensate"
    BY <1>0, <1>5 DEF endFailed, writeStep, setStep, put, Goto
  <2>2. steps'[s][RESERVE_INVENTORY] = failStep(createStep)
    BY <1>0, <2>1, Put, StepNames
  <2> QED BY <2>1, <2>2, StepColumns DEF holdsAt
<1>6. CASE endFailed(p, "fail1", PROCESS_PAYMENT)
  <2>1. pc[p] = "fail1" /\ pc'[p] = "compensate" /\ held' = held
    BY <1>0, <1>6 DEF endFailed, writeStep, Goto, goods
  <2>2. held[s] = Items(s[1])
    BY <1>0, <2>1 DEF HeldInv, Reserved
  <2> QED BY <2>1, <2>2 DEF holdsAt
<1>7. CASE StartCompensation(p)
  BY <1>0, <1>7 DEF StartCompensation, writeSaga, Goto, goods, locals, holdsAt
<1>8. CASE GetSteps(p)
  <2>1. pc[p] = "getSteps" /\ left'[p] = Items(s[1])
    BY <1>0, <1>8 DEF GetSteps, contextItems
  <2>2. UNCHANGED <<steps, held>>
    BY <1>8 DEF GetSteps, rows, goods
  <2>3. pc'[p] \in {"refund", "release"}
    BY <1>0, <1>8 DEF GetSteps, Goto
  <2> QED BY <2>1, <2>2, <2>3 DEF holdsAt
<1>9. CASE ReleaseItem(p)
  <2>1. PICK k : held'[s] = held[s] \ {k} /\ left'[p] = left[p] \ {k}
    BY <1>0, <1>9 DEF ReleaseItem
  <2>2. pc'[p] = "release" /\ pc[p] = "release" /\ steps' = steps
    BY <1>9 DEF ReleaseItem, rows
  <2> QED BY <2>1, <2>2 DEF holdsAt
<1>10. ~ \/ writeStep(p, "markRefunded", PROCESS_PAYMENT,
                      markStepCompensated(snap[p][PROCESS_PAYMENT]), "release")
         \/ writeStep(p, "markUnrefunded", PROCESS_PAYMENT,
                      markStepCompensationFailed(snap[p][PROCESS_PAYMENT]), "release")
  <2>1. pc[p] \in Backward => ~charged(steps[s][PP])
    BY <1>0 DEF MoneyInv, PaymentInv, PP
  <2>2. pc[p] \notin Refunding
    BY <1>0, <2>1 DEF MoneyInv, SnapshotInv, PP, Refunding, Backward
  <2> QED BY <2>2 DEF writeStep, Refunding
<1>11. CASE \/ endStep(p, "end0", RESERVE_INVENTORY, "begin1")
            \/ beginStep(p, "begin1", PROCESS_PAYMENT, "charge")
            \/ endStep(p, "end1", PROCESS_PAYMENT, "begin2")
            \/ beginStep(p, "begin2", CONFIRM_ORDER, "begin3")
            \/ beginStep(p, "begin3", EMIT_EVENTS, "confirm")
            \/ endStep(p, "end2", CONFIRM_ORDER, "end3")
            \/ endStep(p, "end3", EMIT_EVENTS, "complete")
            \/ writeStep(p, "markReleased", RESERVE_INVENTORY,
                         markStepCompensated(snap[p][RESERVE_INVENTORY]), "cancel")
            \/ writeStep(p, "markUnreleased", RESERVE_INVENTORY,
                         markStepCompensationFailed(snap[p][RESERVE_INVENTORY]), "cancel")
  <2>1. \E at, i, row : \E to \in {"begin1", "charge", "begin2", "begin3", "confirm", "end3", "complete", "cancel"} :
           writeStep(p, at, i, row, to)
    BY <1>11 DEF endStep, beginStep
  <2>2. pc'[p] \notin Exacting
    BY <1>0, <2>1 DEF writeStep, Goto, Exacting
  <2> QED BY <1>1, <2>2
<1>12. CASE \/ CreateSaga(p) \/ StartSaga(p) \/ ChargeSucceeds(p) \/ ChargeDeclined(p)
            \/ ConfirmOrder(p) \/ CompleteSaga(p) \/ CompleteJob(p)
  BY <1>0, <1>1, <1>12 DEF CreateSaga, StartSaga, ChargeSucceeds, ChargeDeclined, ConfirmOrder,
     CompleteSaga, CompleteJob, writeSaga, writeOrder, Goto, EndFlow, Exacting
<1>13. CASE \/ Refund(p) \/ ReleaseFails(p) \/ ReleaseDone(p) \/ CancelOrder(p)
            \/ FinishCompensation(p)
  BY <1>0, <1>1, <1>13 DEF Refund, ReleaseFails, ReleaseDone, afterRelease, CancelOrder,
     FinishCompensation, writeOrder, Goto, EndFlow, Exacting
<1>14. CASE Faulty(p)
  BY <1>0, <1>1, <1>14 DEF Faulty, ChargeThrows, CancelFails, Throw, Crash, Goto, EndFlow, Exacting
<1>15. ~AdminCompensate(p)
  BY AdminAssumption DEF AdminCompensate
<1> QED BY <1>2, <1>3, <1>4, <1>5, <1>6, <1>7, <1>8, <1>9, <1>10, <1>11, <1>12, <1>13, <1>14, <1>15
        DEF FlowStep, Advance, Compensate

(* A step that has failed stays FAILED: no copy written back is older.     *)
LEMMA FailureStays ==
  ASSUME LifeInv, PlacesInv, NEW p \in Flows, holdsAt(p), FlowStep(p),
         steps[p[1]][RESERVE_INVENTORY].status = "FAILED"
  PROVE  steps'[p[1]][RESERVE_INVENTORY].status = "FAILED"
<1> DEFINE s == p[1]
           R == RESERVE_INVENTORY
<1>1. TypeOK /\ rowsAt(p) /\ s \in SagaIds /\ steps[s] \in [StepIds -> StepRow]
  BY FlowParts DEF LifeInv, CoreInv, PlacesInv, TypeOK
<1>2. CASE steps' = steps
  BY <1>2
<1>3. ASSUME NEW i \in StepIds, i # R, NEW row, put(p, i, row)
      PROVE  steps'[s][R].status = "FAILED"
  BY <1>1, <1>3, Put, StepNames
<1>4. ASSUME NEW row, put(p, R, row), pc[p] \in {"begin0", "end0"} PROVE FALSE
  <2>1. pc[p] = "begin0" => steps[s][R] = NoStep
    BY <1>1, StepNames DEF rowsAt, unbegun, Unreserved
  <2>2. pc[p] # "end0"
    BY DEF holdsAt
  <2> QED BY <1>4, <2>1, <2>2 DEF NoStep, NoRow
<1>5. CASE put(p, R, failStep(createStep))
  BY <1>1, <1>5, Put, StepNames, StepColumns
<1>6. ASSUME NEW row, put(p, R, row), pc[p] \in {"markReleased", "markUnreleased"},
             row \in {markStepCompensated(snap[p][R]), markStepCompensationFailed(snap[p][R])}
      PROVE  steps'[s][R].status = "FAILED"
  <2>1. snap[p][R] = steps[s][R] /\ steps[s][R] \in StepRow
    BY <1>1, <1>6, StepNames DEF rowsAt
  <2>2. row.status = steps[s][R].status
    BY <1>6, <2>1, StepColumns
  <2>3. steps'[s][R] = row
    BY <1>1, <1>6, Put, StepNames
  <2> QED BY <2>2, <2>3
<1>7. PP \in StepIds \ {R} /\ CONFIRM_ORDER \in StepIds \ {R} /\ EMIT_EVENTS \in StepIds \ {R}
  BY StepNames DEF PP
<1> QED BY <1>2, <1>3, <1>4, <1>5, <1>6, <1>7, StepWrites

exactAt(k) == /\ IsFiniteSet(unitsOf(k))
              /\ stock[k].reserved = unitsHeld(k)
              /\ stock[k].available + stock[k].reserved = InitStock[k]

(* What the two UPDATEs do to the columns.                                 *)
LEMMA StockColumns ==
  ASSUME NEW row \in StockRow, NEW q \in Nat
  PROVE  /\ reserve(row, q).reserved = row.reserved + q
         /\ reserve(row, q).available = row.available - q
         /\ q <= row.reserved => release(row, q).reserved = row.reserved - q
         /\ release(row, q).available = row.available + q
BY DEF StockRow, reserve, release, greatest0

LEMMA ExactFlow ==
  ASSUME LifeInv, NEW p \in Flows, p[2] = "worker", holdsAt(p), FlowStep(p),
         steps[p[1]][RESERVE_INVENTORY].status # "FAILED",
         NEW x \in Skus, exactAt(x)
  PROVE  exactAt(x)'
<1> DEFINE s == p[1]
<1>0. /\ s \in SagaIds /\ s[1] \in Orders
      /\ held \in [SagaIds -> SUBSET Skus] /\ stock \in [Skus -> StockRow] /\ stock[x] \in StockRow
  BY FlowParts DEF LifeInv, CoreInv, TypeOK
<1>1. ASSUME UNCHANGED <<stock, held>> PROVE exactAt(x)'
  <2>1. unitsOf(x)' = unitsOf(x)
    BY <1>1, UnitsStay
  <2> QED BY <1>1, <2>1 DEF exactAt, unitsHeld
<1>2. CASE ReserveItem(p)
  <2>1. PICK k \in Listed : /\ k \in left[p]
                            /\ stock' = [stock EXCEPT ![k] = reserve(@, Qty[s[1]][k])]
                            /\ held' = [held EXCEPT ![s] = @ \cup {k}]
    BY <1>2 DEF ReserveItem, isNext
  <2>2. k \in Skus /\ Qty[s[1]][k] \in Nat
    BY <1>0, SkusAssumption, QtyAssumption
  <2>3. k \notin held[s]
    BY <1>2, <2>1 DEF holdsAt, ReserveItem
  <2>4. CASE x = k
    <3>1. /\ unitsOf(x)' = unitsOf(x) \cup ({s} \X (1 .. Qty[s[1]][x]))
          /\ unitsOf(x) \cap ({s} \X (1 .. Qty[s[1]][x])) = {}
      BY <1>0, <2>1, <2>3, <2>4, UnitsMove
    <3>2. /\ IsFiniteSet(unitsOf(x)')
          /\ Cardinality(unitsOf(x)') = Cardinality(unitsOf(x)) + Qty[s[1]][x]
      <4>1. IsFiniteSet(unitsOf(x)) /\ Qty[s[1]][x] \in Nat
        BY <2>2, <2>4 DEF exactAt
      <4>2. /\ IsFiniteSet(unitsOf(x) \cup ({s} \X (1 .. Qty[s[1]][x])))
            /\ Cardinality(unitsOf(x) \cup ({s} \X (1 .. Qty[s[1]][x]))) =
                 Cardinality(unitsOf(x)) + Qty[s[1]][x]
        BY <3>1, <4>1, UnitsCount, Zenon
      <4> QED BY <3>1, <4>2
    <3>3. stock'[x] = reserve(stock[x], Qty[s[1]][x])
      BY <1>0, <2>1, <2>2, <2>4
    <3>4. /\ stock'[x].reserved = stock[x].reserved + Qty[s[1]][x]
          /\ stock'[x].available = stock[x].available - Qty[s[1]][x]
      BY <1>0, <2>2, <2>4, <3>3, StockColumns
    <3> QED BY <1>0, <2>2, <2>4, <3>2, <3>4 DEF exactAt, unitsHeld, StockRow
  <2>5. CASE x # k
    <3>1. unitsOf(x)' = unitsOf(x)
      BY <1>0, <2>1, <2>5, UnitsStay
    <3>2. stock'[x] = stock[x]
      BY <1>0, <2>1, <2>5
    <3> QED BY <3>1, <3>2 DEF exactAt, unitsHeld
  <2> QED BY <2>4, <2>5
<1>3. CASE ReleaseItem(p)
  <2>1. PICK k \in Listed : /\ k \in left[p]
                            /\ stock' = [stock EXCEPT ![k] = release(@, Qty[s[1]][k])]
                            /\ held' = [held EXCEPT ![s] = @ \ {k}]
    BY <1>3 DEF ReleaseItem, isNext
  <2>2. k \in Skus /\ Qty[s[1]][k] \in Nat
    BY <1>0, SkusAssumption, QtyAssumption
  <2>3. k \in held[s]
    BY <1>3, <2>1 DEF holdsAt, ReleaseItem
  <2>4. CASE x = k
    <3>1. /\ unitsOf(x) = unitsOf(x)' \cup ({s} \X (1 .. Qty[s[1]][x]))
          /\ unitsOf(x)' \cap ({s} \X (1 .. Qty[s[1]][x])) = {}
      BY <1>0, <2>1, <2>3, <2>4, UnitsGiven
    <3>2. IsFiniteSet(unitsOf(x)')
      BY <3>1, FS_Subset DEF exactAt
    <3>3. /\ Cardinality(unitsOf(x)') \in Nat
          /\ Cardinality(unitsOf(x)) = Cardinality(unitsOf(x)') + Qty[s[1]][x]
      <4>1. Qty[s[1]][x] \in Nat
        BY <2>2, <2>4
      <4>2. /\ Cardinality(unitsOf(x)') \in Nat
            /\ Cardinality(unitsOf(x)' \cup ({s} \X (1 .. Qty[s[1]][x]))) =
                 Cardinality(unitsOf(x)') + Qty[s[1]][x]
        BY <3>1, <3>2, <4>1, UnitsCount, Zenon
      <4> QED BY <3>1, <4>2
    <3>4. stock'[x] = release(stock[x], Qty[s[1]][x])
      BY <1>0, <2>1, <2>2, <2>4
    <3>5. Qty[s[1]][x] <= stock[x].reserved
      BY <2>2, <2>4, <3>3 DEF exactAt, unitsHeld
    <3>6. /\ stock'[x].reserved = stock[x].reserved - Qty[s[1]][x]
          /\ stock'[x].available = stock[x].available + Qty[s[1]][x]
      BY <1>0, <2>2, <2>4, <3>4, <3>5, StockColumns
    <3> QED BY <1>0, <2>2, <2>4, <3>2, <3>3, <3>6 DEF exactAt, unitsHeld, StockRow
  <2>5. CASE x # k
    <3>1. unitsOf(x)' = unitsOf(x)
      BY <1>0, <2>1, <2>5, UnitsStay
    <3>2. stock'[x] = stock[x]
      BY <1>0, <2>1, <2>5
    <3> QED BY <3>1, <3>2 DEF exactAt, unitsHeld
  <2> QED BY <2>4, <2>5
<1> QED BY <1>1, <1>2, <1>3, GoodsMoves

LedgerInv == /\ WholeInv /\ HoldsExactly
             /\ NoneFailed => \A k \in Skus : exactAt(k)

LEMMA LedgerInit == Init => HoldsExactly /\ \A k \in Skus : exactAt(k)
<1> SUFFICES ASSUME Init PROVE HoldsExactly /\ \A k \in Skus : exactAt(k)
  OBVIOUS
<1>1. \A s \in SagaIds : held[s] = {} /\ pc[<<s, "worker">>] = "idle"
  BY SagaParts DEF Init
<1>2. HoldsExactly
  BY <1>1 DEF HoldsExactly
<1>3. ASSUME NEW k \in Skus PROVE exactAt(k)
  <2>1. unitsOf(k) = {}
    BY <1>1, UnitsMember
  <2>2. stock[k] = [available |-> InitStock[k], reserved |-> 0] /\ InitStock[k] \in Nat
    BY StockAssumption DEF Init
  <2> QED BY <2>1, <2>2, FS_EmptySet DEF exactAt, unitsHeld
<1> QED BY <1>2, <1>3

LEMMA LedgerStep == Admins = {} /\ LedgerInv /\ [Next]_vars => LedgerInv'
<1> SUFFICES ASSUME Admins = {}, LedgerInv, [Next]_vars PROVE LedgerInv'
  OBVIOUS
<1>1. WholeInv'
  BY WholeStep DEF LedgerInv
<1>2. LifeInv /\ PlacesInv /\ TypeOK /\ QueueInv
  BY DEF LedgerInv, WholeInv, LifeInv, CoreInv
<1>3. \A p \in Flows : p[2] = "worker" /\ p = <<p[1], "worker">> /\ p[1] \in SagaIds
  BY FlowParts DEF Actors
<1>4. CASE UNCHANGED vars
  <2>1. UNCHANGED <<steps, pc, left, held, stock>>
    BY <1>4 DEF vars, rows, goods, locals
  <2>2. \A k \in Skus : unitsOf(k)' = unitsOf(k)
    BY <2>1, UnitsStay
  <2> QED BY <1>1, <2>1, <2>2 DEF LedgerInv, HoldsExactly, NoneFailed, exactAt, unitsHeld
<1>5. ASSUME NEW o \in Orders, OrderStep(o) PROVE LedgerInv'
  <2>1. /\ UNCHANGED <<steps, held, left, stock>>
        /\ \A q \in Flows : pc'[q] # pc[q] => pc'[q] = "create"
    BY <1>2, <1>5, OrderStarts
  <2>2. \A k \in Skus : unitsOf(k)' = unitsOf(k)
    BY <2>1, UnitsStay
  <2>3. HoldsExactly'
    BY <2>1, SagaParts DEF LedgerInv, HoldsExactly
  <2> QED BY <1>1, <2>1, <2>2, <2>3 DEF LedgerInv, NoneFailed, exactAt, unitsHeld
<1>6. ASSUME NEW p \in Flows, FlowStep(p) PROVE LedgerInv'
  <2>1. Frame(p) /\ p[2] = "worker" /\ p = <<p[1], "worker">> /\ p[1] \in SagaIds
    BY <1>2, <1>3, <1>6, FrameFlow
  <2>2. \A s \in SagaIds : holdsAt(<<s, "worker">>)
    BY HoldsByFlows DEF LedgerInv
  <2>3. holdsAt(p)
    BY <2>1, <2>2
  <2>4. holdsAt(p)'
    BY <1>2, <1>6, <2>1, <2>3, HoldsFlow
  <2>5. HoldsExactly'
    <3>1. ASSUME NEW s \in SagaIds PROVE holdsAt(<<s, "worker">>)'
      <4>1. CASE s = p[1]
        BY <2>1, <2>4, <4>1
      <4>2. CASE s # p[1]
        <5>1. /\ pc'[<<s, "worker">>] = pc[<<s, "worker">>]
              /\ left'[<<s, "worker">>] = left[<<s, "worker">>]
              /\ steps'[s] = steps[s] /\ held'[s] = held[s]
          BY <2>1, <4>2, SagaParts DEF Frame
        <5> QED BY <2>2, <5>1 DEF holdsAt
      <4> QED BY <4>1, <4>2
    <3> QED BY <3>1 DEF HoldsExactly, holdsAt
  <2>6. ASSUME NoneFailed' PROVE \A k \in Skus : exactAt(k)'
    <3>1. steps[p[1]][RESERVE_INVENTORY].status # "FAILED"
      BY <1>2, <1>6, <2>1, <2>3, <2>6, FailureStays DEF NoneFailed
    <3>2. NoneFailed
      BY <2>1, <2>6, <3>1 DEF NoneFailed, Frame
    <3> QED BY <1>2, <1>6, <2>1, <2>3, <3>1, <3>2, ExactFlow DEF LedgerInv
  <2> QED BY <1>1, <2>5, <2>6 DEF LedgerInv
<1> QED BY <1>4, <1>5, <1>6, NextSteps

LEMMA Ledger == ASSUME Admins = {} PROVE Spec => []LedgerInv
<1>1. Init => SagaIsWhole
  BY DEF Init, SagaIsWhole, NoRow
<1>2. Init => LedgerInv
  BY <1>1, LifeInit, PlacesInit, LedgerInit DEF WholeInv, LedgerInv
<1>3. LedgerInv /\ [Next]_vars => LedgerInv'
  BY LedgerStep
<1> QED BY <1>2, <1>3, PTL DEF Spec

(* A run reserves each item once, and when it compensates it releases the  *)
(* items it holds and no others, unless its reservation had failed.        *)
THEOREM RunsHoldExactly == ASSUME Admins = {} PROVE Spec => []HoldsExactly
<1>1. LedgerInv => HoldsExactly
  BY DEF LedgerInv
<1> QED BY <1>1, Ledger, PTL

(* Without the compensate route, and until a reservation has failed, what  *)
(* inventory counts as reserved is what the sagas hold, to the unit, and   *)
(* the rest is available, through every crash, retry and overlap of runs.  *)
THEOREM InventoryIsExact == ASSUME Admins = {} PROVE Spec => []LedgerExact
<1>1. LedgerInv => LedgerExact
  BY DEF LedgerInv, LedgerExact, exactAt
<1> QED BY <1>1, Ledger, PTL

(* So that until then nothing is oversold; oversell.cfg shows that it is   *)
(* once the part of the items a failed reservation left is "released".     *)
THEOREM NothingIsOversold == ASSUME Admins = {} PROVE Spec => [](NoneFailed => NoOversell)
<1>1. LedgerInv => (NoneFailed => NoOversell)
  <2> SUFFICES ASSUME LedgerInv, NoneFailed, NEW k \in Skus PROVE unitsHeld(k) <= InitStock[k]
    BY DEF NoOversell
  <2>1. exactAt(k)
    BY DEF LedgerInv
  <2>2. stock[k] \in StockRow
    BY DEF LedgerInv, WholeInv, LifeInv, CoreInv, TypeOK
  <2> QED BY <2>1, <2>2 DEF exactAt, StockRow
<1> QED BY <1>1, Ledger, PTL
=============================================================================
