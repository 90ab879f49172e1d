--------------------------- MODULE SagaInvariants ---------------------------
(***************************************************************************)
(* The invariants that SagaOrchestrator's safety properties rest on: what  *)
(* the place of a worker's run says about the rows of its saga.            *)
(***************************************************************************)
EXTENDS SagaOrchestrator

(* A worker's run by what it has reached.                                  *)
Unreserved == {"idle", "create", "start", "begin0"}
Reserved   == {"end0", "begin1", "charge", "end1", "fail1", "begin2",
               "begin3", "confirm", "end2", "end3", "complete"}
Unpaid     == Unreserved \cup {"reserve", "end0", "fail0", "begin1", "charge", "end1", "fail1"}
Paid       == {"begin2", "begin3", "confirm", "end2", "end3", "complete"}
Refunding  == {"refund", "markRefunded", "markUnrefunded"}

(* createOrder comes before its job, and a job before its runs; each run   *)
(* but the last has cost an attempt or a stall, so that the bound on runs  *)
(* is never what keeps a job from being picked up.                         *)
JobInv ==
  \A o \in Orders :
    /\ api[o] = "idle" <=> orders[o] = NoRow
    /\ api[o] # "done" => job[o] = NoJob
    /\ job[o].state # "none" => orders[o] # NoRow
    /\ job[o].state \in {"waiting", "active"} => job[o].attempts < JobAttempts
    /\ job[o].state = "waiting" => job[o].run = job[o].attempts + job[o].stalls
    /\ job[o].state = "active" => job[o].run = job[o].attempts + job[o].stalls + 1
    /\ \A n \in Runs : n > job[o].run => pc[Worker(o, n)] = "idle"

(* What runs, or is compensated, is a saga of a committed order.           *)
PlacedInv ==
  /\ \A p \in Flows : pc[p] # "idle" => orders[p[1][1]] # NoRow
  /\ \A s \in SagaIds : sagas[s] # NoRow => orders[s[1]] # NoRow

(* A call of the route is never in startSaga, and has no item to release.  *)
RouteInv ==
  \A p \in Flows : p[2] # "worker" => pc[p] \in Backward \cup Ended /\ left[p] = {}

(* What a run holds, by its place.                                         *)
HeldInv ==
  \A s \in SagaIds : LET w == <<s, "worker">> IN
    /\ pc[w] \in Unreserved => held[s] = {}
    /\ pc[w] = "reserve" => held[s] \cup left[w] = Items(s[1])
    /\ pc[w] \in Reserved => held[s] = Items(s[1])

(* What is on record of its payment, by its place.                         *)
PaymentInv ==
  \A s \in SagaIds : LET w == <<s, "worker">> IN
    /\ pc[w] \in Unpaid \cup Backward => ~charged(steps[s][PROCESS_PAYMENT])
    /\ pc[w] \in {"end1"} \cup Paid => charges[s] > 0
    /\ pc[w] \in Paid => charged(steps[s][PROCESS_PAYMENT])
    /\ pc[w] = "confirm" => steps[s][EMIT_EVENTS].status # NoRow

(* What compensate writes back is the record it has read.                  *)
SnapshotInv ==
  \A p \in Flows : pc[p] \in Refunding =>
    /\ charged(snap[p][PROCESS_PAYMENT])
    /\ charged(steps[p[1]][PROCESS_PAYMENT])

(* Without live stalls a run that executes owns its job.                   *)
OwnerInv ==
  ~LiveStalls =>
    \A o \in Orders : \A n \in Runs :
      pc[Worker(o, n)] \in Live => job[o].state = "active" /\ job[o].run = n

(* What has become of an order by the end of its runs and of its job.      *)
Decided == {"PAID", "CANCELLED"}

OutcomeInv ==
  /\ \A s \in SagaIds : LET w == <<s, "worker">> IN
       /\ pc[w] \in {"end2", "end3", "complete"} => orders[s[1]] \in Decided
       /\ pc[w] \in {"return", "done"} =>
            orders[s[1]] \in Decided \/ sagas[s] \in {"COMPENSATING", "FAILED"}
       /\ faults = 0 /\ crashes = 0 =>
            /\ pc[w] # "dead"
            /\ pc[w] \in {"finish", "return", "done"} => orders[s[1]] \in Decided
  /\ \A o \in Orders :
       /\ job[o].state = "completed" => \E n \in Runs : pc[Worker(o, n)] = "done"
       /\ job[o].state \in {"active", "completed", "failed"} =>
            job[o].run \in Runs /\ pc[Worker(o, job[o].run)] # "idle"
       /\ faults = 0 /\ crashes = 0 /\ api[o] = "done" => job[o].state # "none"

EventOf == [PENDING |-> "order.created", PAID |-> "order.paid", CANCELLED |-> "order.failed"]

(* An order has the status of the event that was committed last: by way of *)
(* writeOrder, which is one step.  The event with the latest created_at    *)
(* may be another when two transactions overlapped.                        *)
StatusIsLastCommitted ==
  \A o \in Orders : orders[o] # NoRow =>
    /\ orders[o] \in DOMAIN EventOf
    /\ outbox[o] # << >>
    /\ outbox[o][Len(outbox[o])] = EventOf[orders[o]]

(* The inductive invariant: what the place of every flow says of its       *)
(* saga's rows, its order, its job and its snapshot, with the properties   *)
(* that are inductive by themselves.                                       *)
IInv == /\ TypeOK /\ JobInv /\ PlacedInv /\ RouteInv /\ HeldInv /\ PaymentInv /\ SnapshotInv /\ OwnerInv
        /\ OutcomeInv
        /\ StatusIsLastCommitted /\ PaidIsBacked /\ StockNeverVanishes

-----------------------------------------------------------------------------
(* Without the compensate route a saga is written by its own run only, and *)
(* its status is where the run is.                                         *)
StatusInv ==
  \A s \in SagaIds : LET w == <<s, "worker">> IN
    /\ pc[w] \in {"idle", "create"} => sagas[s] = NoRow
    /\ pc[w] = "start" => sagas[s] = "PENDING"
    /\ pc[w] \in Forward \cup {"compensate"} => sagas[s] = "RUNNING"
    /\ pc[w] \in Backward \ {"compensate"} => sagas[s] = "COMPENSATING"
    /\ pc[w] \in {"end2", "end3", "complete"} =>
         \E i \in DOMAIN outbox[s[1]] : outbox[s[1]][i] = "order.paid"

(* saga_instances and the outbox behave as SagaLifecycle says.             *)
Lifecycle == INSTANCE SagaLifecycle WITH
  Orders <- Orders, SagaIds <- SagaIds, sagas <- sagas, outbox <- outbox
FollowsLifecycle == Lifecycle!Spec
=============================================================================
