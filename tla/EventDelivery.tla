---------------------------- MODULE EventDelivery ----------------------------
(***************************************************************************)
(* The way of a domain event from its row in outbox_events to the          *)
(* subscribers: the processors of Outbox, the workers of WebhookDelivery   *)
(* and the administrators of DeadLetters, joined by the queue of           *)
(* EventQueue.                                                             *)
(***************************************************************************)
EXTENDS Outbox, WebhookDelivery, DeadLetters

vars == <<outboxVars, queueVars, dispatchVars, adminVars, budget>>

TypeOK == OutboxTypeOK /\ QueueTypeOK /\ DispatchTypeOK /\ AdminTypeOK

Init == OutboxInit /\ QueueInit /\ DispatchInit /\ AdminInit

Next == \/ OutboxNext /\ UNCHANGED <<dispatchVars, adminVars>>
        \/ DispatchNext /\ UNCHANGED <<outboxVars, adminVars>>
        \/ AdminNext /\ UNCHANGED <<outboxVars, dispatchVars>>

(* Processors keep polling, workers keep working, the stalled-job check    *)
(* runs.  A processor or worker that dies is started again (a pod is).     *)
Fairness ==
  /\ \A p \in Processors : WF_vars(processBatch(p) /\ UNCHANGED <<dispatchVars, adminVars>>)
  /\ \A w \in Workers    : WF_vars(dispatch(w) /\ UNCHANGED <<outboxVars, adminVars>>)
  /\ \A e \in Events     : WF_vars(JobStalled(e) /\ UNCHANGED <<outboxVars, adminVars>>)

Spec     == Init /\ [][Next]_vars
FairSpec == Spec /\ Fairness

-----------------------------------------------------------------------------
(* Safety.                                                                 *)

(* An event is PUBLISHED only after a job for it was added, although the   *)
(* same row is rewritten by several processors from what each read long    *)
(* ago, and by the catch block after an answer was lost.                   *)
PublishedWasQueued == \A e \in Events : rows[e] = "PUBLISHED" => e \in queued

(* An event is given up only when its retries are used up; a processor     *)
(* decides from the count it read with the batch, never from a later one.  *)
FailedOnlyAfterRetries ==
  \A e \in Events : rows[e] = "FAILED" => retries[e] >= MaxRetries

(* Processors that read an event together may each add a retry to it, but  *)
(* the last of them one less than there are processors beyond the limit.   *)
RetriesBounded ==
  \A e \in Events : retries[e] < MaxRetries + Cardinality(Processors)

(* A job is completed only when every subscriber with a public URL has     *)
(* been sent the event, whichever runs were cut short before.              *)
CompletedWasSent ==
  \A e \in Events : jobs[e].state = "completed" =>
    Subscribers \ Blocked \subseteq sent[e]

(* A queued event stays in the queue, or among the failed jobs where an    *)
(* administrator finds it, until every subscriber with a public URL was    *)
(* sent it: neither a stalled worker, nor a second add, nor the removal of *)
(* completed jobs, nor two administrators with the same job lose it.       *)
QueuedIsNotLost ==
  \A e \in queued \ removed :
    jobs[e].state \in {"waiting", "active", "failed"} \/ Subscribers \ Blocked \subseteq sent[e]

(* When no insert failed, the audit trail of a completed job has an entry  *)
(* for every subscriber the event was sent to, unanswered attempts         *)
(* included, also when the run that sent it first was cut short.           *)
AuditComplete ==
  faults = 0 => \A e \in Events : jobs[e].state = "completed" => sent[e] \subseteq deliveries[e]

-----------------------------------------------------------------------------
(* Why they hold: what a processor or a worker knows from where it is.     *)

(* An event a processor is about to mark is queued, the count it read is   *)
(* never ahead of the row's, and it only publishes below the limit.        *)
knows(p) ==
  /\ todo[p] = {} => at[p] = "next"
  /\ \A e \in todo[p] : seen[p][e] <= retries[e]
  /\ \A e \in Events : isNext(p, e) =>
       /\ at[p] = "mark" => e \in queued
       /\ at[p] # "next" => ~exceeded(seen[p][e])

ProcessorInv == \A p \in Processors : knows(p)

(* The processors that may still add a retry to an event.                  *)
holders(e) == {p \in Processors : e \in todo[p] /\ ~exceeded(seen[p][e])}

HoldersInv ==
  \A e \in Events :
    exceeded(retries[e]) =>
      retries[e] + Cardinality(holders(e)) < MaxRetries + Cardinality(Processors)

(* A delivery past its POST was sent, and without faults it is recorded    *)
(* once settled, or before a refusal is recorded again.                    *)
delivered(w) ==
  /\ working[w] = 0 => sends[w] = Unsent
  /\ \A s \in Subscribers \ Blocked :
       /\ sends[w][s] \notin {"unsent", "post"} => s \in sent[working[w]]
       /\ faults = 0 /\ sends[w][s] \in {"settled", "refusedAgain"}
            => s \in deliveries[working[w]]

WorkerInv ==
  /\ \A e \in Events : sent[e] \subseteq Subscribers \ Blocked
  /\ \A w \in Workers : delivered(w)

CompletedInv ==
  faults = 0 => \A e \in Events : jobs[e].state = "completed" =>
                  Subscribers \ Blocked \subseteq deliveries[e]

(* A completed job that is still in Redis was sent to everyone.            *)
EventsSent  == {e \in Events : Subscribers \ Blocked \subseteq sent[e]}
KeptWasSent == kept \in Seq(EventsSent)

(* Whatever touches an event comes after the transaction that wrote it:    *)
(* it is in a batch, is queued, has a job and is worked on only then.      *)
OriginInv ==
  /\ \A p \in Processors : \A e \in todo[p] : rows[e] # "NONE"
  /\ \A e \in queued : rows[e] # "NONE"
  /\ \A e \in Events : jobs[e].state # "none" => e \in queued
  /\ \A w \in Workers : working[w] # 0 => working[w] \in queued

DeliveryInv ==
  /\ TypeOK
  /\ OriginInv
  /\ ProcessorInv /\ PublishedWasQueued /\ FailedOnlyAfterRetries /\ HoldersInv
  /\ WorkerInv /\ CompletedWasSent /\ CompletedInv /\ KeptWasSent /\ QueuedIsNotLost

-----------------------------------------------------------------------------
(* The processors, the workers, the queue and the administrators together  *)
(* implement what the outbox promises of each event.                       *)
finished == {e \in Events : jobs[e].state = "completed"}
Life == INSTANCE EventLife WITH Receivers <- Subscribers \ Blocked, completed <- finished
FollowsEventLife == Life!Spec

-----------------------------------------------------------------------------
(* Liveness, under FairSpec.                                               *)

(* A committed event is settled for good: the processors do not for ever   *)
(* undo each other's work.                                                 *)
EventsSettle ==
  \A e \in Events :
    rows[e] = "PENDING" ~> [](rows[e] \in {"PUBLISHED", "FAILED"})

(* A job that waits is worked off: it completes or fails for good, through *)
(* crashes, stalls, retries and what administrators do, unless it is one   *)
(* of those they remove.                                                   *)
JobsEnd ==
  \A e \in Events :
    jobs[e].state = "waiting" ~>
      jobs[e].state \in {"completed", "failed"} \/ e \in removed

=============================================================================
