----------------------------- MODULE StockCalls -----------------------------
(***************************************************************************)
(* What the callers of InventoryService may count on, and all that the     *)
(* order saga assumes of it: a call works through its items in the order   *)
(* of their SKUs, each is reserved or released at once and never beyond    *)
(* what is available, and true is answered only when all of them are done. *)
(* A call may give up or throw anywhere and keeps what it did until then.  *)
(* Locks are not mentioned: the promise must hold whatever becomes of      *)
(* them.                                                                   *)
(***************************************************************************)
EXTENDS SagaEntities

CONSTANTS
  Calls,      \* calls of reserveInventory and releaseInventory
  Skus,       \* stock keeping units, numbers in the order of localeCompare
  Listed,     \* those that have a row in inventory
  Reserving,  \* the calls of reserveInventory; the others are of releaseInventory
  Qty,        \* Qty[c][k]: units of k call c is about, 0 when k is not an item
  InitStock   \* inventory at the start

VARIABLES
  stock,   \* inventory
  done,    \* the items a call has reserved or released
  result   \* what it answered; "none" before it returns

stockVars == <<stock, done, result>>

ItemsOf(c) == {k \in Skus : Qty[c][k] > 0}
isNextItem(S, k) == k \in S /\ \A j \in S : k <= j

Init ==
  /\ stock = InitStock
  /\ done = [c \in Calls |-> {}]
  /\ result = [c \in Calls |-> "none"]

Finish(c, k) == done' = [done EXCEPT ![c] = @ \cup {k}]

Reserve(c, k) ==
  /\ c \in Reserving /\ canReserve(stock[k], Qty[c][k])
  /\ stock' = [stock EXCEPT ![k] = reserve(@, Qty[c][k])]

Release(c, k) ==
  /\ c \notin Reserving
  /\ stock' = [stock EXCEPT ![k] = release(@, Qty[c][k])]

Item(c) ==
  /\ result[c] = "none"
  /\ \E k \in Listed :
       /\ isNextItem(ItemsOf(c) \ done[c], k)
       /\ Reserve(c, k) \/ Release(c, k)
       /\ Finish(c, k)
  /\ UNCHANGED result

Answer(c) ==
  /\ result[c] = "none"
  /\ \E r \in {"true", "false", "thrown"} :
       /\ r = "true" => done[c] = ItemsOf(c)
       /\ result' = [result EXCEPT ![c] = r]
  /\ UNCHANGED <<stock, done>>

Next == \E c \in Calls : Item(c) \/ Answer(c)

Spec == Init /\ [][Next]_stockVars
=============================================================================
