-------------------------- MODULE WebhookDelivery ---------------------------
(***************************************************************************)
(* What a job of the queue webhook-delivery does: the notification worker  *)
(* and WebhookDispatcher.dispatch.                                         *)
(*                                                                         *)
(* Covered: the deliveries to all subscribers run concurrently, each an    *)
(* HTTP call and one or two inserts into webhook_deliveries; a subscriber  *)
(* accepts, refuses, or gives no answer within the timeout; the SELECT of  *)
(* the subscriptions throws and the job is retried; a worker dies; a job   *)
(* stalls, its worker dead or alive.                                       *)
(* Not covered: signatures, bodies, metrics; subscriptions do not change   *)
(* (no code writes them) and all of them want every event; the entries of  *)
(* webhook_deliveries are modelled by whether there is one, and under the  *)
(* event although event_id holds the order's id.                           *)
(***************************************************************************)
EXTENDS EventQueue

CONSTANTS
  Subscribers,  \* the active subscriptions
  Blocked,      \* those whose URL is a private address
  LiveStalls    \* whether a job may stall while its worker is executing

ASSUME SubscriberAssumption == Blocked \subseteq Subscribers /\ LiveStalls \in BOOLEAN

VARIABLES
  working,    \* the event of the job a worker executes, 0 when it has none
  sends,      \* where its delivery to each subscriber is
  sent,       \* history: the subscribers an event was POSTed to
  deliveries  \* webhook_deliveries: the subscribers with an entry for an event

dispatchVars == <<working, sends, sent, deliveries>>

(* An answer: a 2xx status, another status, none (timeout, reset).         *)
Answer == {"accepted", "refused", "lost"}
(* A delivery is about to POST, about to record its answer (a refusal a    *)
(* first or a second time), or settled; "unsent" before the SELECT.        *)
Stage == {"unsent", "post", "refusedAgain", "settled"} \cup Answer
Unsent == [s \in Subscribers |-> "unsent"]

DispatchTypeOK ==
  /\ working    \in [Workers -> Events \cup {0}]
  /\ sends      \in [Workers -> [Subscribers -> Stage]]
  /\ sent       \in [Events -> SUBSET Subscribers]
  /\ deliveries \in [Events -> SUBSET Subscribers]

DispatchInit ==
  /\ working    = [w \in Workers |-> 0]
  /\ sends      = [w \in Workers |-> Unsent]
  /\ sent       = [e \in Events |-> {}]
  /\ deliveries = [e \in Events |-> {}]

-----------------------------------------------------------------------------
Rest(w) == /\ working' = [working EXCEPT ![w] = 0]
           /\ sends' = [sends EXCEPT ![w] = Unsent]

Send(w, s, stage) == sends' = [sends EXCEPT ![w][s] = stage]

PickUp(w) ==
  /\ working[w] = 0
  /\ \E e \in Events : take(e, w) /\ working' = [working EXCEPT ![w] = e]
  /\ UNCHANGED <<sends, sent, deliveries, budget>>

(* The active subscriptions are read and every delivery started; without   *)
(* any the job is finished.                                                *)
Select(w) ==
  /\ working[w] # 0 /\ sends[w] = Unsent /\ Subscribers # {}
  /\ sends' = [sends EXCEPT ![w] = [s \in Subscribers |-> "post"]]
  /\ UNCHANGED <<working, sent, deliveries, queueVars, budget>>

(* The SELECT throws: the one failure of a job that reaches the queue.     *)
SelectThrows(w) ==
  /\ working[w] # 0 /\ sends[w] = Unsent
  /\ Fault
  /\ fail(w, working[w])
  /\ Rest(w)
  /\ UNCHANGED <<sent, deliveries>>

-----------------------------------------------------------------------------
(* deliver.                                                                *)
Refuse(w, s) ==
  /\ sends[w][s] = "post" /\ s \in Blocked
  /\ Send(w, s, "settled")
  /\ UNCHANGED <<working, sent, deliveries, queueVars, budget>>

(* Slip: the POST has no timeout, and one without an answer never ends.    *)
PostUnlimited(w, s) ==
  /\ sends[w][s] = "post" /\ s \notin Blocked
  /\ \E a \in {"accepted", "refused", "unsent"} : Send(w, s, a)
  /\ sent' = [sent EXCEPT ![working[w]] = @ \cup {s}]
  /\ UNCHANGED <<working, deliveries, queueVars, budget>>

Post(w, s) ==
  /\ sends[w][s] = "post" /\ s \notin Blocked
  /\ \E a \in Answer : Send(w, s, a)
  /\ sent' = [sent EXCEPT ![working[w]] = @ \cup {s}]
  /\ UNCHANGED <<working, deliveries, queueVars, budget>>

(* A refusal is recorded in the try block, thrown, and recorded again by   *)
(* the catch block.                                                        *)
afterRecord(stage) == IF stage = "refused" THEN "refusedAgain" ELSE "settled"

(* Slip: the catch block records nothing.                                  *)
RecordInTryOnly(w, s) ==
  /\ sends[w][s] \in Answer \cup {"refusedAgain"}
  /\ deliveries' = IF sends[w][s] \in {"accepted", "refused"}
                   THEN [deliveries EXCEPT ![working[w]] = @ \cup {s}]
                   ELSE deliveries
  /\ Send(w, s, afterRecord(sends[w][s]))
  /\ UNCHANGED <<working, sent, queueVars, budget>>

Record(w, s) ==
  /\ sends[w][s] \in Answer \cup {"refusedAgain"}
  /\ deliveries' = [deliveries EXCEPT ![working[w]] = @ \cup {s}]
  /\ Send(w, s, afterRecord(sends[w][s]))
  /\ UNCHANGED <<working, sent, queueVars, budget>>

(* recordDelivery swallows what its insert throws.                         *)
RecordFails(w, s) ==
  /\ sends[w][s] \in Answer \cup {"refusedAgain"}
  /\ Fault
  /\ Send(w, s, afterRecord(sends[w][s]))
  /\ UNCHANGED <<working, sent, deliveries, queueVars>>

deliver(w, s) == Refuse(w, s) \/ Post(w, s) \/ Record(w, s)

-----------------------------------------------------------------------------
(* Slip: Promise.race instead of Promise.allSettled.                       *)
FinishFirst(w) ==
  /\ working[w] # 0 /\ \E s \in Subscribers : sends[w][s] = "settled"
  /\ complete(w, working[w])
  /\ Rest(w)
  /\ UNCHANGED <<sent, deliveries, budget>>

(* allSettled never rejects, so the job completes whatever the answers.    *)
Finish(w) ==
  /\ working[w] # 0
  /\ \A s \in Subscribers : sends[w][s] = "settled"
  /\ complete(w, working[w])
  /\ Rest(w)
  /\ UNCHANGED <<sent, deliveries, budget>>

WorkerDies(w) ==
  /\ working[w] # 0
  /\ Death
  /\ Rest(w)
  /\ UNCHANGED <<sent, deliveries, queueVars>>

(* The lock of an active job expires because its worker is gone, or could  *)
(* not renew it in time.                                                   *)
Stalls(e, alive) ==
  /\ (\E w \in Workers : owns(w, e) /\ working[w] = e) = alive
  /\ stall(e)
  /\ UNCHANGED <<dispatchVars, budget>>

JobStalled(e)     == Stalls(e, FALSE)
JobStalledLive(e) == LiveStalls /\ Stalls(e, TRUE)

-----------------------------------------------------------------------------
dispatch(w) == \/ PickUp(w) \/ Select(w) \/ Finish(w)
               \/ \E s \in Subscribers : deliver(w, s)

dispatchFails(w) == \/ SelectThrows(w) \/ WorkerDies(w)
                    \/ \E s \in Subscribers : RecordFails(w, s)

DispatchNext == \/ \E w \in Workers : dispatch(w) \/ dispatchFails(w)
                \/ \E e \in Events  : JobStalled(e) \/ JobStalledLive(e)
=============================================================================
