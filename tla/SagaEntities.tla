---------------------------- MODULE SagaEntities ----------------------------
(***************************************************************************)
(* The rows and the pure transition helpers the order saga is built from:  *)
(*   domain/entities/saga.ts        saga and step statuses, step helpers   *)
(*   domain/entities/order.ts       order statuses                         *)
(*   domain/repositories/inventory-repository.ts   the two UPDATEs         *)
(*                                                                         *)
(* Ids, dates, payloads and error texts are abstracted.  Of a step's       *)
(* output_payload only one thing is ever read back, whether it carries a   *)
(* transactionId; that is the Boolean field txn.                           *)
(***************************************************************************)
EXTENDS Integers

SagaStatus == {"PENDING", "RUNNING", "COMPLETED", "COMPENSATING", "FAILED"}
StepStatus == {"RUNNING", "COMPLETED", "FAILED"}     \* PENDING is never written
CompensationStatus == {"PENDING", "COMPLETED", "FAILED"} \* RUNNING is never written
OrderStatus == {"PENDING", "PAID", "FULFILLED", "SHIPPED", "CANCELLED", "COMPENSATING"}

(* "NONE" stands for a row that has not been inserted yet.                 *)
NoRow == "NONE"

-----------------------------------------------------------------------------
(* saga.ts: rows of saga_steps and the helpers that return a changed copy. *)
RESERVE_INVENTORY == 0
PROCESS_PAYMENT   == 1
CONFIRM_ORDER     == 2
EMIT_EVENTS       == 3
StepIds == 0 .. 3

StepRow == [status : StepStatus \cup {NoRow}, comp : CompensationStatus, txn : BOOLEAN]
NoStep  == [status |-> NoRow, comp |-> "PENDING", txn |-> FALSE]

createStep == [status |-> "RUNNING", comp |-> "PENDING", txn |-> FALSE]

completeStep(row, i) ==
  [status |-> "COMPLETED", comp |-> row.comp, txn |-> (i = PROCESS_PAYMENT)]
failStep(row) == [row EXCEPT !.status = "FAILED"]

(* Slip: the outcome is recorded on a new row, not on the one read.        *)
markFreshStepCompensated(row) == [createStep EXCEPT !.comp = "COMPLETED"]

markStepCompensated(row)        == [row EXCEPT !.comp = "COMPLETED"]
markStepCompensationFailed(row) == [row EXCEPT !.comp = "FAILED"]

-----------------------------------------------------------------------------
(* inventory-repository.ts: the rows of inventory and the UPDATEs on them. *)
StockRow == [available : Nat, reserved : Nat]

canReserve(row, q) == row.available >= q
(* Slip: the units leave available and appear nowhere.                     *)
reserveUncounted(row, q) ==
  [available |-> row.available - q, reserved |-> row.reserved]

reserve(row, q) ==
  [available |-> row.available - q, reserved |-> row.reserved + q]

(* Slip: available is not credited.                                        *)
releaseUncredited(row, q) ==
  [available |-> row.available, reserved |-> IF row.reserved < q THEN 0 ELSE row.reserved - q]

greatest0(n) == IF n < 0 THEN 0 ELSE n
release(row, q) ==
  [available |-> row.available + q, reserved |-> greatest0(row.reserved - q)]
=============================================================================
