----------------------------- MODULE EventQueue -----------------------------
(***************************************************************************)
(* The BullMQ queue webhook-delivery, which the outbox processors fill and *)
(* the notification workers empty: one job per outbox event, because the   *)
(* processors pass the id of the event as jobId.  BullMQ is a library;     *)
(* what is modelled is what infrastructure/queue/connection.ts asks of it: *)
(* attempts, maxStalledCount, removeOnComplete, removeOnFail: false, and   *)
(* that an add whose jobId is still in Redis changes nothing.              *)
(*                                                                         *)
(* The bounds on failures are kept here: the processors and the workers    *)
(* share them.                                                             *)
(***************************************************************************)
EXTENDS Integers, Sequences, FiniteSets

CONSTANTS
  Events,        \* ids of outbox events, numbers in the order of created_at
  Workers,       \* slots of the notification workers (concurrency 50 in each pod)
  JobAttempts,   \* attempts of a job (5)
  MaxStalled,    \* maxStalledCount (2)
  KeepCompleted, \* removeOnComplete (100)
  MaxFaults,     \* bound on failed or unanswered statements and queue calls
  MaxCrashes     \* bound on processors and workers that die

ASSUME EventsAssumption == Events \subseteq Nat \ {0}
ASSUME QueueAssumption  == /\ JobAttempts \in Nat \ {0}
                           /\ MaxStalled \in Nat
                           /\ KeepCompleted \in Nat
                           /\ 0 \notin Workers
ASSUME FailureAssumption == MaxFaults \in Nat /\ MaxCrashes \in Nat

VARIABLES
  jobs,    \* the job of an event
  kept,    \* the completed jobs still in Redis, in the order they completed
  queued,  \* history: the events whose job was ever added
  faults, crashes  \* how much of the two bounds is used

queueVars == <<jobs, kept, queued>>
budget    == <<faults, crashes>>

(* owner is the worker that took the job last, 0 before any has.           *)
JobRecord == [state : {"none", "waiting", "active", "completed", "failed"},
              attempts : Nat, stalls : 0 .. MaxStalled,
              owner : Workers \cup {0}]
NoJob == [state |-> "none", attempts |-> 0, stalls |-> 0, owner |-> 0]

QueueTypeOK ==
  /\ jobs    \in [Events -> JobRecord]
  /\ kept    \in Seq(Events)
  /\ queued  \in SUBSET Events
  /\ faults  \in 0 .. MaxFaults
  /\ crashes \in 0 .. MaxCrashes

QueueInit ==
  /\ jobs = [e \in Events |-> NoJob]
  /\ kept = << >>
  /\ queued = {}
  /\ faults = 0 /\ crashes = 0

Fault == faults < MaxFaults /\ faults' = faults + 1 /\ UNCHANGED crashes
Death == crashes < MaxCrashes /\ crashes' = crashes + 1 /\ UNCHANGED faults

-----------------------------------------------------------------------------
(* What happens to a job.                                                  *)
taken(j, w) ==
  [state |-> "active", attempts |-> j.attempts, stalls |-> j.stalls, owner |-> w]

resolved(j) == [j EXCEPT !.state = "completed"]

rejected(j) ==
  [state |-> IF j.attempts + 1 < JobAttempts THEN "waiting" ELSE "failed",
   attempts |-> j.attempts + 1, stalls |-> j.stalls, owner |-> j.owner]

(* Slip: the limit is not looked at.                                       *)
stalledUnlimited(j) ==
  [state |-> "waiting", attempts |-> j.attempts, stalls |-> j.stalls + 1, owner |-> j.owner]

stalled(j) ==
  IF j.stalls < MaxStalled
  THEN [state |-> "waiting", attempts |-> j.attempts, stalls |-> j.stalls + 1, owner |-> j.owner]
  ELSE [j EXCEPT !.state = "failed"]

-----------------------------------------------------------------------------
(* queue.add with jobId: a no-op while a job with that id is in Redis,     *)
(* waiting, active, failed, or completed and not yet removed.              *)
add(e) ==
  /\ jobs' = IF jobs[e].state = "none" THEN [jobs EXCEPT ![e].state = "waiting"] ELSE jobs
  /\ queued' = queued \cup {e}
  /\ UNCHANGED kept

take(e, w) ==
  /\ jobs[e].state = "waiting"
  /\ jobs' = [jobs EXCEPT ![e] = taken(@, w)]
  /\ UNCHANGED <<kept, queued>>

owns(w, e) == jobs[e].state = "active" /\ jobs[e].owner = w

(* The processor's promise resolves.  A report by a worker that lost the   *)
(* job is refused.  The oldest completed job beyond KeepCompleted goes.    *)
complete(w, e) ==
  IF owns(w, e)
  THEN LET done == Append(kept, e)
           full == Len(done) > KeepCompleted
       IN  /\ kept' = IF full THEN Tail(done) ELSE done
           /\ jobs' = [f \in Events |-> IF full /\ f = Head(done) THEN NoJob
                                        ELSE IF f = e THEN resolved(jobs[f])
                                        ELSE jobs[f]]
           /\ UNCHANGED queued
  ELSE UNCHANGED queueVars

(* The processor's promise rejects: the job waits again or has failed.     *)
fail(w, e) ==
  /\ jobs' = IF owns(w, e) THEN [jobs EXCEPT ![e] = rejected(@)] ELSE jobs
  /\ UNCHANGED <<kept, queued>>

(* The stalled-job check returns an active job whose lock has expired.     *)
stall(e) ==
  /\ jobs[e].state = "active"
  /\ jobs' = [jobs EXCEPT ![e] = stalled(@)]
  /\ UNCHANGED <<kept, queued>>
=============================================================================
