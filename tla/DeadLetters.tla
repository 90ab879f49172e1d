---------------------------- MODULE DeadLetters -----------------------------
(***************************************************************************)
(* The routes by which an administrator retries or removes a job of the    *)
(* queue webhook-delivery: POST /dlq/retry/:jobId, DELETE /dlq/:jobId.     *)
(*                                                                         *)
(* Covered: a route finds the job in one step and acts on it in another,   *)
(* whatever it has become; it looks for the job in any state, not only for *)
(* a failed one.                                                           *)
(* Not covered: the list; a job that is not found, to which nothing        *)
(* happens; the other queues.                                              *)
(***************************************************************************)
EXTENDS EventQueue

CONSTANTS
  Operators,   \* requests of administrators at a time
  MaxRequests  \* bound on their requests

ASSUME OperatorsAssumption == MaxRequests \in Nat

VARIABLES
  found,     \* the job the request of an operator has found, 0 if none
  verb,      \* what the request is for
  requests,  \* how much of the bound is used
  removed    \* history: the events whose job an administrator removed

adminVars == <<found, verb, requests, removed>>

AdminTypeOK ==
  /\ found    \in [Operators -> Events \cup {0}]
  /\ verb     \in [Operators -> {"retry", "delete"}]
  /\ requests \in 0 .. MaxRequests
  /\ removed  \in SUBSET Events

AdminInit ==
  /\ found = [o \in Operators |-> 0]
  /\ verb  = [o \in Operators |-> "retry"]
  /\ requests = 0
  /\ removed = {}

-----------------------------------------------------------------------------
Replied(o) == found' = [found EXCEPT ![o] = 0] /\ UNCHANGED <<verb, requests>>

GetJob(o, e) ==
  /\ found[o] = 0 /\ jobs[e].state # "none"
  /\ requests < MaxRequests /\ requests' = requests + 1
  /\ found' = [found EXCEPT ![o] = e]
  /\ \E v \in {"retry", "delete"} : verb' = [verb EXCEPT ![o] = v]
  /\ UNCHANGED <<removed, queueVars, budget>>

(* Slip: the job is removed to be added again, and is not.                 *)
RetryJobLosing(o, e) ==
  /\ found[o] = e /\ verb[o] = "retry"
  /\ IF jobs[e].state = "failed"
     THEN jobs' = [jobs EXCEPT ![e] = NoJob] ELSE UNCHANGED jobs
  /\ Replied(o)
  /\ UNCHANGED <<removed, kept, queued, budget>>

(* job.retry('failed') throws unless the job has failed.  Its attempts are *)
(* not given back: it runs once more.                                      *)
RetryJob(o, e) ==
  /\ found[o] = e /\ verb[o] = "retry"
  /\ IF jobs[e].state = "failed"
     THEN jobs' = [jobs EXCEPT ![e].state = "waiting"] ELSE UNCHANGED jobs
  /\ Replied(o)
  /\ UNCHANGED <<removed, kept, queued, budget>>

(* job.remove() throws while a worker has the job, and removes any other:  *)
(* one that waits and one that is completed, too.                          *)
forgotten(e) ==
  IF \E i \in DOMAIN kept : kept[i] = e
  THEN LET i == CHOOSE n \in DOMAIN kept : kept[n] = e
       IN  SubSeq(kept, 1, i - 1) \o SubSeq(kept, i + 1, Len(kept))
  ELSE kept

RemoveJob(o, e) ==
  /\ found[o] = e /\ verb[o] = "delete"
  /\ IF jobs[e].state \in {"active", "none"}
     THEN UNCHANGED <<jobs, kept, removed>>
     ELSE /\ jobs' = [jobs EXCEPT ![e] = NoJob]
          /\ kept' = forgotten(e)
          /\ removed' = removed \cup {e}
  /\ Replied(o)
  /\ UNCHANGED <<queued, budget>>

AdminNext ==
  \E o \in Operators, e \in Events : GetJob(o, e) \/ RetryJob(o, e) \/ RemoveJob(o, e)
=============================================================================
