--------------------------- MODULE InventoryCalls ---------------------------
(***************************************************************************)
(* InventoryService.reserveInventory and releaseInventory with the locks   *)
(* they take: the loop over the sorted items, every await of it a step,    *)
(* and the release of all locks in finally.                                *)
(*                                                                         *)
(* Covered: calls of several pods and several calls in one pod; a lock     *)
(* refused, expired under its holder, lost with its session, leaked by an  *)
(* unlock on another connection; the stock read and the UPDATE apart from  *)
(* each other; statements that throw with their effect or without.         *)
(* Who calls, and why a release is called for what was never reserved, is  *)
(* the matter of SagaOrchestrator.  A process that dies is a call that     *)
(* makes no more steps and sessions that end.                              *)
(***************************************************************************)
EXTENDS AdvisoryLocks, SagaEntities

CONSTANTS
  Listed,     \* the SKUs that have a row in inventory
  Reserving,  \* the calls of reserveInventory; the others are of releaseInventory
  Qty,        \* Qty[c][k]: units of k call c is about, 0 when k is not an item
  InitStock   \* inventory at the start

ASSUME CallAssumption == /\ Listed \subseteq Skus
                         /\ Reserving \subseteq Calls
                         /\ Qty \in [Calls -> [Skus -> Nat]]
                         /\ InitStock \in [Skus -> StockRow]

VARIABLES
  stock,  \* inventory
  at,     \* the await a call is about to make
  left,   \* the items it has still to reserve or release
  answer  \* what it will answer once its locks are released

callVars == <<stock, at, left, answer>>
vars == <<lockVars, faults, callVars>>

Outcome == {"true", "false", "thrown"}

TypeOK ==
  /\ LockTypeOK
  /\ stock  \in [Skus -> StockRow]
  /\ at     \in [Calls -> {"acquire", "findBySku", "update", "finally", "returned"}]
  /\ left   \in [Calls -> SUBSET Skus]
  /\ answer \in [Calls -> Outcome \cup {"none"}]

sorted(c) == {k \in Skus : Qty[c][k] > 0}
isNext(c, k) == k \in left[c] /\ \A j \in left[c] : k <= j

Init ==
  /\ LockInit
  /\ stock = InitStock
  /\ at = [c \in Calls |-> "acquire"]
  /\ left = [c \in Calls |-> sorted(c)]
  /\ answer = [c \in Calls |-> "none"]

Goto(c, place) == at' = [at EXCEPT ![c] = place]

(* return, or a throw: the finally block releases every lock in releases.  *)
Leave(c, outcome) ==
  /\ Goto(c, "finally")
  /\ answer' = [answer EXCEPT ![c] = outcome]
  /\ releaseAll(c)
  /\ UNCHANGED <<via, forced, expiries>>

-----------------------------------------------------------------------------
(* Slip: acquire waits for the lock (pg_advisory_lock).                    *)
AcquireWaiting(c, k) ==
  /\ at[c] = "acquire" /\ isNext(c, k)
  /\ acquire(c, k) /\ Goto(c, IF c \in Reserving THEN "findBySku" ELSE "update")
  /\ UNCHANGED <<answer, stock, left, faults>>

(* The lock of the next item, or contention.                               *)
Acquire(c, k) ==
  /\ at[c] = "acquire" /\ isNext(c, k)
  /\ \/ /\ acquire(c, k)
        /\ Goto(c, IF c \in Reserving THEN "findBySku" ELSE "update")
        /\ UNCHANGED answer
     \/ refused(c, k) /\ Leave(c, "false") /\ UNCHANGED locks
  /\ UNCHANGED <<stock, left, faults>>

(* The availability is read, and used when it may have changed.            *)
FindBySku(c, k) ==
  /\ at[c] = "findBySku" /\ isNext(c, k)
  /\ IF k \in Listed /\ canReserve(stock[k], Qty[c][k])
     THEN Goto(c, "update") /\ UNCHANGED <<answer, lockVars>>
     ELSE Leave(c, "false") /\ UNCHANGED locks
  /\ UNCHANGED <<stock, left, faults>>

(* The two UPDATEs, and whether they find a row.                           *)
(* Slip: the UPDATE of reserve trusts the lock and the read before it.     *)
AffectsRowUnchecked(c, k) == k \in Listed

affectsRow(c, k) ==
  k \in Listed /\ (c \in Reserving => canReserve(stock[k], Qty[c][k]))
updated(c, k) ==
  stock' = [stock EXCEPT ![k] = IF c \in Reserving THEN reserve(@, Qty[c][k])
                                                   ELSE release(@, Qty[c][k])]
ticked(c, k) == left' = [left EXCEPT ![c] = @ \ {k}]

Update(c, k) ==
  /\ at[c] = "update" /\ isNext(c, k)
  /\ IF affectsRow(c, k)
     THEN /\ updated(c, k) /\ ticked(c, k) /\ Goto(c, "acquire")
          /\ UNCHANGED <<answer, lockVars>>
     ELSE /\ Leave(c, "false")
          /\ UNCHANGED <<stock, left, locks>>
  /\ UNCHANGED faults

AllDone(c) ==
  /\ at[c] = "acquire" /\ left[c] = {}
  /\ Leave(c, "true")
  /\ UNCHANGED <<stock, left, locks, faults>>

(* A statement throws, and may have been executed.                         *)
Throws(c, k) ==
  /\ isNext(c, k)
  /\ \/ at[c] = "acquire"   /\ acquireThrows(c, k) /\ UNCHANGED <<stock, left>>
     \/ at[c] = "findBySku" /\ UNCHANGED <<stock, left, locks>>
     \/ at[c] = "update"    /\ \/ UNCHANGED <<stock, left>>
                               \/ affectsRow(c, k) /\ updated(c, k) /\ ticked(c, k)
                            /\ UNCHANGED locks
  /\ Fault
  /\ Leave(c, "thrown")

(* allSettled over the releases; the unlock of a timer is not awaited.     *)
Return(c) ==
  /\ at[c] = "finally"
  /\ pending[c] \cap (Skus \X {"release"}) = {}
  /\ Goto(c, "returned")
  /\ UNCHANGED <<stock, left, answer, lockVars, faults>>

-----------------------------------------------------------------------------
step(c) == \/ \E k \in Skus : Acquire(c, k) \/ FindBySku(c, k) \/ Update(c, k)
           \/ \E k \in Skus, by \in Issuer : Unlock(c, k, by) /\ UNCHANGED callVars
           \/ AllDone(c) \/ Return(c)

Next == \/ \E c \in Calls : step(c)
        \/ \E c \in Calls, k \in Skus : \/ Throws(c, k)
                                        \/ TimerFires(c, k) /\ UNCHANGED callVars
        \/ \E s \in Sessions : SessionEnds(s) /\ UNCHANGED callVars

Fairness == \A c \in Calls : WF_vars(step(c))

Spec     == Init /\ [][Next]_vars
FairSpec == Spec /\ Fairness

-----------------------------------------------------------------------------
(* As long as no lock of a SKU is freed under a call that relies on it, by *)
(* its timer or with its session, the calls in the locked section of that  *)
(* SKU share one session: acquire excludes other pods, and no unlock, on   *)
(* whichever connection, frees a lock another call has.  Calls of one pod  *)
(* are not excluded from each other.                                       *)
LocksExclude ==
  \A k \in Skus \ forced : \A c, d \in Calls :
    {via[c][k], via[d][k]} \subseteq Sessions => via[c][k] = via[d][k]

(* Whatever becomes of the locks, a call does to inventory what StockCalls *)
(* says, and what SagaOrchestrator assumes.                                *)
Stock == INSTANCE StockCalls WITH
  Calls <- Calls, Skus <- Skus, Listed <- Listed, Reserving <- Reserving,
  Qty <- Qty, InitStock <- InitStock, stock <- stock,
  done <- [c \in Calls |-> sorted(c) \ left[c]],
  result <- [c \in Calls |-> IF at[c] = "returned" THEN answer[c] ELSE "none"]
TakesAreAtomic == Stock!Spec

(* Every call returns: a lock is never waited for, so that neither two     *)
(* calls nor a leaked lock can block one.                                  *)
CallsReturn == \A c \in Calls : <>(at[c] = "returned")

-----------------------------------------------------------------------------
(* Why they hold.                                                          *)

(* No two sessions hold one lock.                                          *)
OneSession ==
  \A k \in Skus, s, t \in Sessions : locks[s][k] > 0 /\ locks[t][k] > 0 => s = t

(* A session holds a lock at least as often as calls have yet to unlock it.*)
claims(s, k) == {c \in Calls : via[c][k] = s}
Backed == \A k \in Skus \ forced, s \in Sessions : locks[s][k] >= Cardinality(claims(s, k))

(* While its timer runs a call has the lock, and an unlock is issued only   *)
(* by a call that has it.                                                  *)
Issued == \A c \in Calls, k \in Skus \ forced :
  /\ timer[c][k] # "fired"
  /\ timer[c][k] = "armed" => via[c][k] # NoSession
  /\ \A by \in Issuer : <<k, by>> \in pending[c] =>
       by = "release" /\ timer[c][k] = "cleared" /\ via[c][k] # NoSession

(* Where a call is, and what it has done by then.                          *)
over(c) == at[c] \in {"finally", "returned"}
Placed == \A c \in Calls :
  /\ left[c] \subseteq sorted(c)
  /\ over(c) <=> answer[c] # "none"
  /\ answer[c] = "true" => left[c] = {}
  /\ at[c] = "findBySku" => c \in Reserving
  /\ ~over(c) => \A k \in Skus : timer[c][k] # "cleared"

LockInv == TypeOK /\ OneSession /\ Backed /\ Issued /\ Placed
=============================================================================
