------------------------------- MODULE Outbox -------------------------------
(***************************************************************************)
(* The transactional outbox: OutboxRepository and the OutboxProcessor that *)
(* runs in every pod (events/outbox/outbox-processor.ts).                  *)
(*                                                                         *)
(* Covered: every await of processBatch is a step, so that the processors  *)
(* of several pods interleave on the same rows; each statement and each    *)
(* queue.add may fail, with its effect or without; a processor dies and    *)
(* starts again; getPending runs outside a transaction, so that FOR UPDATE *)
(* SKIP LOCKED holds its row locks only while its own statement runs.      *)
(* Not covered: poll intervals, payloads, the operator's UPDATE of         *)
(* RUNBOOKS R7, and stop(), which interrupts no batch: the one under way   *)
(* goes on, its adds may fail (PublishThrows) since the queues are being   *)
(* closed, and no other begins.                                            *)
(***************************************************************************)
EXTENDS EventQueue

CONSTANTS
  Processors,  \* one OutboxProcessor per pod (3)
  MaxRetries,  \* outboxMaxRetries (5)
  BatchLimit   \* the limit of getPending (100)

ASSUME OutboxAssumption == /\ IsFiniteSet(Processors) /\ Processors # {}
                           /\ MaxRetries \in Nat
                           /\ BatchLimit \in Nat \ {0}

VARIABLES
  rows,     \* outbox_events.status; "NONE" before the event is committed
  retries,  \* outbox_events.retry_count
  todo,     \* the events of its batch a processor has not dealt with
  seen,     \* the retryCount it read with each of them
  at        \* its next await for the oldest of them

outboxVars == <<rows, retries, todo, seen, at>>
EventStatus == {"NONE", "PENDING", "PUBLISHED", "FAILED"}
NothingSeen == [e \in Events |-> 0]

OutboxTypeOK ==
  /\ rows    \in [Events -> EventStatus]
  /\ retries \in [Events -> Nat]
  /\ todo    \in [Processors -> SUBSET Events]
  /\ seen    \in [Processors -> [Events -> Nat]]
  /\ at      \in [Processors -> {"next", "mark", "reset"}]

OutboxInit ==
  /\ rows    = [e \in Events |-> "NONE"]
  /\ retries = [e \in Events |-> 0]
  /\ todo    = [p \in Processors |-> {}]
  /\ seen    = [p \in Processors |-> NothingSeen]
  /\ at      = [p \in Processors |-> "next"]

-----------------------------------------------------------------------------
(* createWithSql, in the transaction of OrderService or SagaOrchestrator.  *)
(* created_at is when that transaction began; they may commit in any order.*)
Commit(e) ==
  /\ rows[e] = "NONE"
  /\ rows' = [rows EXCEPT ![e] = "PENDING"]
  /\ UNCHANGED <<retries, todo, seen, at, queueVars, budget>>

-----------------------------------------------------------------------------
(* The four statements on a row: none of the three UPDATEs looks at the    *)
(* status it overwrites.                                                   *)
pending(skipped) == {e \in Events \ skipped : rows[e] = "PENDING"}

oldest(S) == {e \in S : Cardinality({f \in S : f <= e}) <= BatchLimit}

markPublished(e) == rows' = [rows EXCEPT ![e] = "PUBLISHED"] /\ UNCHANGED retries
markFailed(e)    == rows' = [rows EXCEPT ![e] = "FAILED"] /\ UNCHANGED retries

resetForRetry(e) == /\ rows' = [rows EXCEPT ![e] = "PENDING"]
                    /\ retries' = [retries EXCEPT ![e] = @ + 1]

attempted(statement) == statement \/ UNCHANGED <<rows, retries>>

-----------------------------------------------------------------------------
(* Moving a processor.                                                     *)
isNext(p, e) == e \in todo[p] /\ \A f \in todo[p] : e <= f

Await(p, what) == at' = [at EXCEPT ![p] = what] /\ UNCHANGED <<todo, seen>>

NextEvent(p, e) == /\ todo' = [todo EXCEPT ![p] = @ \ {e}]
                   /\ seen' = [seen EXCEPT ![p][e] = 0]
                   /\ at' = [at EXCEPT ![p] = "next"]

EndBatch(p) == /\ todo' = [todo EXCEPT ![p] = {}]
               /\ seen' = [seen EXCEPT ![p] = NothingSeen]
               /\ at' = [at EXCEPT ![p] = "next"]

(* Slip: one attempt too many.                                             *)
exceededLate(count) == count > MaxRetries

exceeded(count) == count >= MaxRetries

-----------------------------------------------------------------------------
(* getPending.  Rows another processor is working on may be locked by one  *)
(* of its statements at this moment, and are then skipped.                 *)
Poll(p) ==
  /\ todo[p] = {}
  /\ \E skipped \in SUBSET UNION {todo[q] : q \in Processors \ {p}} :
       /\ pending(skipped) # {}
       /\ todo' = [todo EXCEPT ![p] = oldest(pending(skipped))]
       /\ seen' = [seen EXCEPT ![p] =
                     [e \in Events |-> IF e \in oldest(pending(skipped)) THEN retries[e] ELSE 0]]
  /\ UNCHANGED <<rows, retries, at, queueVars, budget>>

(* Slip: the event is counted and left PENDING.                            *)
GiveUpUnsaved(p, e) ==
  /\ at[p] = "next" /\ isNext(p, e) /\ exceeded(seen[p][e])
  /\ NextEvent(p, e)
  /\ UNCHANGED <<rows, retries, queueVars, budget>>

(* The retries are used up.  This statement is outside the try block.      *)
GiveUp(p, e) ==
  /\ at[p] = "next" /\ isNext(p, e) /\ exceeded(seen[p][e])
  /\ markFailed(e)
  /\ NextEvent(p, e)
  /\ UNCHANGED <<queueVars, budget>>

Publish(p, e) ==
  /\ at[p] = "next" /\ isNext(p, e) /\ ~exceeded(seen[p][e])
  /\ add(e)
  /\ Await(p, "mark")
  /\ UNCHANGED <<rows, retries, budget>>

Mark(p, e) ==
  /\ at[p] = "mark" /\ isNext(p, e)
  /\ markPublished(e)
  /\ NextEvent(p, e)
  /\ UNCHANGED <<queueVars, budget>>

(* catch: the event is PENDING again, whatever the try block achieved.     *)
Reset(p, e) ==
  /\ at[p] = "reset" /\ isNext(p, e)
  /\ resetForRetry(e)
  /\ NextEvent(p, e)
  /\ UNCHANGED <<queueVars, budget>>

-----------------------------------------------------------------------------
(* Failures.  A call that throws may have had its effect.                  *)

(* Slip: the promise of add is not awaited.                                *)
PublishUnawaited(p, e) ==
  /\ at[p] = "next" /\ isNext(p, e) /\ ~exceeded(seen[p][e])
  /\ Fault
  /\ Await(p, "mark")
  /\ UNCHANGED <<rows, retries, queueVars>>

PublishThrows(p, e) ==
  /\ at[p] = "next" /\ isNext(p, e) /\ ~exceeded(seen[p][e])
  /\ Fault
  /\ add(e) \/ UNCHANGED queueVars
  /\ Await(p, "reset")
  /\ UNCHANGED <<rows, retries>>

MarkThrows(p, e) ==
  /\ at[p] = "mark" /\ isNext(p, e)
  /\ Fault
  /\ attempted(markPublished(e))
  /\ Await(p, "reset")
  /\ UNCHANGED queueVars

(* Nothing catches these inside the loop: the rest of the batch is left    *)
(* for the next poll.                                                      *)
BatchThrows(p, e) ==
  /\ isNext(p, e)
  /\ Fault
  /\ \/ at[p] = "next" /\ exceeded(seen[p][e]) /\ attempted(markFailed(e))
     \/ at[p] = "reset" /\ attempted(resetForRetry(e))
  /\ EndBatch(p)
  /\ UNCHANGED queueVars

ProcessorDies(p) ==
  /\ todo[p] # {}
  /\ Death
  /\ EndBatch(p)
  /\ UNCHANGED <<rows, retries, queueVars>>

-----------------------------------------------------------------------------
processBatch(p) ==
  Poll(p) \/ \E e \in Events : GiveUp(p, e) \/ Publish(p, e) \/ Mark(p, e) \/ Reset(p, e)

batchFails(p) ==
  \/ \E e \in Events : PublishThrows(p, e) \/ MarkThrows(p, e) \/ BatchThrows(p, e)
  \/ ProcessorDies(p)

OutboxNext == \/ \E e \in Events : Commit(e)
              \/ \E p \in Processors : processBatch(p) \/ batchFails(p)
=============================================================================
