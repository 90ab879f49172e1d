--------------------------- MODULE DeliveryProofs ---------------------------
(***************************************************************************)
(* Proofs about EventDelivery, for any events, processors, workers,        *)
(* subscribers, limits and numbers of failures: its types, then what a     *)
(* processor knows (queued, read counts, holders), then what a worker      *)
(* knows (sent, recorded).                                                 *)
(***************************************************************************)
EXTENDS EventDelivery, FiniteSetTheorems, SequenceTheorems, TLAPS

USE EventsAssumption, QueueAssumption, FailureAssumption, OutboxAssumption,
    SubscriberAssumption, OperatorsAssumption

-----------------------------------------------------------------------------
(* Types.                                                                  *)

(* The queue keeps its types whatever a worker or a processor does to it:  *)
(* a job's record changes as a whole, kept stays a sequence of events.     *)
LEMMA JobChanges ==
  ASSUME NEW j \in JobRecord
  PROVE  /\ \A w \in Workers : taken(j, w) \in JobRecord
         /\ resolved(j) \in JobRecord
         /\ rejected(j) \in JobRecord
         /\ stalled(j) \in JobRecord
         /\ NoJob \in JobRecord
         /\ [j EXCEPT !.state = "waiting"] \in JobRecord
  BY DEF JobRecord, taken, resolved, rejected, stalled, NoJob

QueueType == jobs \in [Events -> JobRecord] /\ kept \in Seq(Events) /\ queued \in SUBSET Events

LEMMA QueueKeepsTypes ==
  ASSUME QueueType, NEW e \in Events
  PROVE  /\ add(e) => QueueType'
         /\ \A w \in Workers :
              take(e, w) \/ complete(w, e) \/ fail(w, e) => QueueType'
         /\ stall(e) => QueueType'
         /\ UNCHANGED queueVars => QueueType'
  <1>0. jobs \in [Events -> JobRecord] /\ kept \in Seq(Events) /\ queued \in SUBSET Events
    BY DEF QueueType
  <1>1. jobs[e] \in JobRecord
    BY <1>0
  <1>2. add(e) => QueueType'
    <2>1. [jobs[e] EXCEPT !.state = "waiting"] \in JobRecord
      BY <1>1, JobChanges
    <2>2. ASSUME add(e) PROVE jobs' \in [Events -> JobRecord]
      <3>1. CASE jobs[e].state = "none"
        BY <3>1, <2>1, <2>2, <1>0 DEF add
      <3>2. CASE jobs[e].state # "none"
        BY <3>2, <2>2, <1>0 DEF add
      <3> QED BY <3>1, <3>2
    <2> QED BY <2>2, <1>0 DEF add, QueueType
  <1>3. ASSUME NEW w \in Workers PROVE take(e, w) => QueueType'
    <2>1. taken(jobs[e], w) \in JobRecord
      BY <1>1, JobChanges
    <2> QED BY <2>1, <1>0 DEF take, QueueType
  <1>4. ASSUME NEW w \in Workers PROVE complete(w, e) => QueueType'
    <2>1. ASSUME complete(w, e), owns(w, e) PROVE QueueType'
      <3> DEFINE done == Append(kept, e)
                 full == Len(done) > KeepCompleted
      <3>1. done \in Seq(Events) /\ done # << >>
        BY <1>0
      <3>2. Tail(done) \in Seq(Events)
        BY <3>1
      <3>3. kept' \in Seq(Events)
        <4>1. kept' = IF full THEN Tail(done) ELSE done
          BY <2>1 DEF complete
        <4> HIDE DEF done, full
        <4> QED BY <4>1, <3>1, <3>2
      <3>4. jobs' \in [Events -> JobRecord]
        <4>1. jobs' = [f \in Events |-> IF full /\ f = Head(done) THEN NoJob
                                        ELSE IF f = e THEN resolved(jobs[f]) ELSE jobs[f]]
          BY <2>1 DEF complete
        <4>2. \A f \in Events : NoJob \in JobRecord /\ resolved(jobs[f]) \in JobRecord
                                /\ jobs[f] \in JobRecord
          BY <1>0, JobChanges
        <4> HIDE DEF done, full
        <4> QED BY <4>1, <4>2
      <3> QED BY <3>3, <3>4, <2>1, <1>0 DEF complete, QueueType
    <2>2. ASSUME complete(w, e), ~owns(w, e) PROVE QueueType'
      BY <2>2, <1>0 DEF complete, QueueType, queueVars
    <2> QED BY <2>1, <2>2
  <1>5. ASSUME NEW w \in Workers PROVE fail(w, e) => QueueType'
    <2>1. rejected(jobs[e]) \in JobRecord
      BY <1>1, JobChanges
    <2>2. ASSUME fail(w, e) PROVE jobs' \in [Events -> JobRecord]
      <3>1. CASE owns(w, e)
        BY <3>1, <2>1, <2>2, <1>0 DEF fail
      <3>2. CASE ~owns(w, e)
        BY <3>2, <2>2, <1>0 DEF fail
      <3> QED BY <3>1, <3>2
    <2> QED BY <2>2, <1>0 DEF fail, QueueType
  <1>6. stall(e) => QueueType'
    <2>1. stalled(jobs[e]) \in JobRecord
      BY <1>1, JobChanges
    <2> QED BY <2>1, <1>0 DEF stall, QueueType
  <1>7. UNCHANGED queueVars => QueueType'
    BY <1>0 DEF queueVars, QueueType
  <1> QED BY <1>2, <1>3, <1>4, <1>5, <1>6, <1>7

RowTypes   == rows \in [Events -> EventStatus] /\ retries \in [Events -> Nat]
BatchTypes == /\ todo \in [Processors -> SUBSET Events]
              /\ seen \in [Processors -> [Events -> Nat]]
              /\ at   \in [Processors -> {"next", "mark", "reset"}]

(* The three UPDATEs keep the types of a row.                              *)
LEMMA RowStatements ==
  ASSUME RowTypes, NEW e \in Events
  PROVE  /\ markPublished(e) => RowTypes'
         /\ markFailed(e) => RowTypes'
         /\ resetForRetry(e) => RowTypes'
         /\ UNCHANGED <<rows, retries>> => RowTypes'
  BY DEF RowTypes, EventStatus, markPublished, markFailed, resetForRetry

(* Moving on keeps the types of a processor's batch.                       *)
LEMMA BatchMoves ==
  ASSUME BatchTypes, NEW p \in Processors, NEW e \in Events
  PROVE  /\ NextEvent(p, e) => BatchTypes'
         /\ EndBatch(p) => BatchTypes'
         /\ \A what \in {"mark", "reset"} : Await(p, what) => BatchTypes'
  <1> USE DEF BatchTypes
  <1>1. ASSUME NextEvent(p, e) PROVE BatchTypes'
    <2>1. [seen[p] EXCEPT ![e] = 0] \in [Events -> Nat]
      OBVIOUS
    <2>2. seen' \in [Processors -> [Events -> Nat]]
      BY <1>1, <2>1 DEF NextEvent
    <2> QED BY <1>1, <2>2 DEF NextEvent
  <1>2. ASSUME EndBatch(p) PROVE BatchTypes'
    BY <1>2 DEF EndBatch, NothingSeen
  <1>3. ASSUME NEW what \in {"mark", "reset"}, Await(p, what) PROVE BatchTypes'
    BY <1>3 DEF Await
  <1> QED BY <1>1, <1>2, <1>3

(* A poll replaces the batch of its processor and what it read of it.      *)
LEMMA PollReads ==
  ASSUME NEW p \in Processors, Poll(p)
  PROVE  \E S \in SUBSET Events :
           /\ todo' = [todo EXCEPT ![p] = S]
           /\ seen' = [seen EXCEPT ![p] = [g \in Events |-> IF g \in S THEN retries[g] ELSE 0]]
  <1>1. PICK skipped :
          /\ todo' = [todo EXCEPT ![p] = oldest(pending(skipped))]
          /\ seen' = [seen EXCEPT ![p] =
                        [g \in Events |-> IF g \in oldest(pending(skipped)) THEN retries[g] ELSE 0]]
    BY DEF Poll
  <1>2. oldest(pending(skipped)) \in SUBSET Events
    BY DEF oldest, pending
  <1> QED BY <1>1, <1>2

(* The parts of the state the processors write keep their types.           *)
LEMMA OutboxTypes ==
  ASSUME OutboxTypeOK, OutboxNext
  PROVE  OutboxTypeOK'
  <1> USE DEF OutboxTypeOK, EventStatus
  <1>1. ASSUME NEW e \in Events, Commit(e) PROVE OutboxTypeOK'
    BY <1>1 DEF Commit
  <1>2. ASSUME NEW p \in Processors, Poll(p) PROVE OutboxTypeOK'
    <2>1. PICK S \in SUBSET Events :
            /\ todo' = [todo EXCEPT ![p] = S]
            /\ seen' = [seen EXCEPT ![p] = [g \in Events |-> IF g \in S THEN retries[g] ELSE 0]]
      BY <1>2, PollReads
    <2>2. [g \in Events |-> IF g \in S THEN retries[g] ELSE 0] \in [Events -> Nat]
      OBVIOUS
    <2> QED BY <1>2, <2>1, <2>2 DEF Poll
  <1>0. /\ RowTypes /\ BatchTypes
        /\ (RowTypes' /\ BatchTypes') => OutboxTypeOK'
    BY DEF RowTypes, BatchTypes
  <1>3. ASSUME NEW p \in Processors, NEW e \in Events,
               GiveUp(p, e) \/ Publish(p, e) \/ Mark(p, e) \/ Reset(p, e)
        PROVE  OutboxTypeOK'
    <2>1. RowTypes'
      BY <1>0, <1>3, RowStatements DEF GiveUp, Publish, Mark, Reset
    <2>2. BatchTypes'
      BY <1>0, <1>3, BatchMoves DEF GiveUp, Publish, Mark, Reset
    <2> QED BY <1>0, <2>1, <2>2
  <1>5. ASSUME NEW p \in Processors, NEW e \in Events,
               PublishThrows(p, e) \/ MarkThrows(p, e) \/ BatchThrows(p, e)
        PROVE  OutboxTypeOK'
    <2>1. RowTypes'
      BY <1>0, <1>5, RowStatements DEF PublishThrows, MarkThrows, BatchThrows, attempted
    <2>2. BatchTypes'
      BY <1>0, <1>5, BatchMoves DEF PublishThrows, MarkThrows, BatchThrows
    <2> QED BY <1>0, <2>1, <2>2
  <1>6. ASSUME NEW p \in Processors, ProcessorDies(p) PROVE OutboxTypeOK'
    <2>1. NothingSeen \in [Events -> Nat]
      BY DEF NothingSeen
    <2> QED BY <1>6, <2>1 DEF ProcessorDies, EndBatch
  <1> QED BY <1>1, <1>2, <1>3, <1>5, <1>6 DEF OutboxNext, processBatch, batchFails

(* The parts of the state the workers write keep their types.              *)
LEMMA DispatchTypes ==
  ASSUME DispatchTypeOK, DispatchNext
  PROVE  DispatchTypeOK'
  <1> USE DEF DispatchTypeOK
  <1>1. Unsent \in [Subscribers -> Stage]
    BY DEF Unsent, Stage
  <1>2. ASSUME NEW w \in Workers, PickUp(w) \/ Select(w) \/ Finish(w) PROVE DispatchTypeOK'
    <2>1. CASE PickUp(w)
      BY <2>1 DEF PickUp
    <2>2. CASE Select(w)
      <3>1. [s \in Subscribers |-> "post"] \in [Subscribers -> Stage]
        BY DEF Stage
      <3> QED BY <2>2, <3>1 DEF Select
    <2>3. CASE Finish(w)
      BY <1>1, <2>3 DEF Finish, Rest
    <2> QED BY <1>2, <2>1, <2>2, <2>3
  <1>3. ASSUME NEW w \in Workers, NEW s \in Subscribers, NEW stage \in Stage, Send(w, s, stage)
        PROVE  sends' \in [Workers -> [Subscribers -> Stage]]
    <2>1. [sends[w] EXCEPT ![s] = stage] \in [Subscribers -> Stage]
      OBVIOUS
    <2> QED BY <1>3, <2>1 DEF Send
  <1>4. ASSUME NEW w \in Workers, NEW s \in Subscribers, Refuse(w, s) \/ Post(w, s)
        PROVE  DispatchTypeOK'
    <2>1. sends' \in [Workers -> [Subscribers -> Stage]]
      BY <1>3, <1>4 DEF Refuse, Post, Stage, Answer
    <2>2. CASE Refuse(w, s)
      BY <2>1, <2>2 DEF Refuse
    <2>3. CASE Post(w, s)
      <3>1. sent' \in [Events -> SUBSET Subscribers]
        BY <2>3 DEF Post
      <3> QED BY <2>1, <2>3, <3>1 DEF Post
    <2> QED BY <1>4, <2>2, <2>3
  <1>5. ASSUME NEW w \in Workers, NEW s \in Subscribers, Record(w, s) \/ RecordFails(w, s)
        PROVE  DispatchTypeOK'
    <2>1. sends' \in [Workers -> [Subscribers -> Stage]]
      BY <1>3, <1>5 DEF Record, RecordFails, afterRecord, Stage
    <2> QED BY <1>5, <2>1 DEF Record, RecordFails
  <1>6. ASSUME NEW w \in Workers, SelectThrows(w) \/ WorkerDies(w) PROVE DispatchTypeOK'
    <2>1. CASE SelectThrows(w)
      BY <1>1, <2>1 DEF SelectThrows, Rest
    <2>2. CASE WorkerDies(w)
      BY <1>1, <2>2 DEF WorkerDies, Rest
    <2> QED BY <1>6, <2>1, <2>2
  <1>7. ASSUME NEW e \in Events, JobStalled(e) \/ JobStalledLive(e) PROVE DispatchTypeOK'
    BY <1>7 DEF JobStalled, JobStalledLive, Stalls, dispatchVars
  <1> QED BY <1>2, <1>3, <1>4, <1>5, <1>6, <1>7
          DEF DispatchNext, dispatch, dispatchFails, deliver

(* Every step does at most one thing to the queue and spends at most one   *)
(* failure or death.                                                       *)
LEMMA BudgetTypes ==
  ASSUME TypeOK, Fault \/ Death \/ UNCHANGED budget
  PROVE  faults' \in 0 .. MaxFaults /\ crashes' \in 0 .. MaxCrashes
  BY DEF TypeOK, QueueTypeOK, Fault, Death, budget

LEMMA OutboxQueue ==
  ASSUME TypeOK, OutboxNext
  PROVE  QueueTypeOK'
  <1>0. /\ QueueType
        /\ (QueueType' /\ faults' \in 0 .. MaxFaults /\ crashes' \in 0 .. MaxCrashes) => QueueTypeOK'
    BY DEF TypeOK, QueueTypeOK, QueueType
  <1>1. Fault \/ Death \/ UNCHANGED budget
    BY DEF OutboxNext, processBatch, batchFails, Commit, Poll, GiveUp, Publish, Mark, Reset,
           PublishThrows, MarkThrows, BatchThrows, ProcessorDies
  <1>2. \/ \E e \in Events : add(e)
        \/ UNCHANGED queueVars
    BY DEF OutboxNext, processBatch, batchFails, Commit, Poll, GiveUp, Publish, Mark, Reset,
           PublishThrows, MarkThrows, BatchThrows, ProcessorDies
  <1>3. CASE \E e \in Events : add(e)
    BY <1>0, <1>1, <1>3, BudgetTypes, QueueKeepsTypes
  <1>4. CASE UNCHANGED queueVars
    BY <1>0, <1>1, <1>4, BudgetTypes DEF QueueType, queueVars
  <1> QED BY <1>2, <1>3, <1>4

LEMMA DispatchQueue ==
  ASSUME TypeOK, DispatchNext
  PROVE  QueueTypeOK'
  <1>0. /\ QueueType
        /\ (QueueType' /\ faults' \in 0 .. MaxFaults /\ crashes' \in 0 .. MaxCrashes) => QueueTypeOK'
    BY DEF TypeOK, QueueTypeOK, QueueType
  <1>1. Fault \/ Death \/ UNCHANGED budget
    BY DEF DispatchNext, dispatch, dispatchFails, deliver, PickUp, Select, Finish, Refuse, Post,
           Record, RecordFails, SelectThrows, WorkerDies, JobStalled, JobStalledLive, Stalls
  <1>2. \A w \in Workers : working[w] # 0 => working[w] \in Events
    BY DEF TypeOK, DispatchTypeOK
  <1>3. \/ \E e \in Events : \E w \in Workers : take(e, w) \/ complete(w, e) \/ fail(w, e)
        \/ \E e \in Events : stall(e)
        \/ UNCHANGED queueVars
    BY <1>2
       DEF DispatchNext, dispatch, dispatchFails, deliver, PickUp, Select, Finish, Refuse, Post,
           Record, RecordFails, SelectThrows, WorkerDies, JobStalled, JobStalledLive, Stalls
  <1>4. CASE \E e \in Events : \E w \in Workers : take(e, w) \/ complete(w, e) \/ fail(w, e)
    <2>1. PICK e \in Events, w \in Workers : take(e, w) \/ complete(w, e) \/ fail(w, e)
      BY <1>4
    <2>2. QueueType'
      BY <1>0, <2>1, QueueKeepsTypes
    <2> QED BY <1>0, <1>1, <2>2, BudgetTypes
  <1>5. CASE \E e \in Events : stall(e)
    BY <1>0, <1>1, <1>5, BudgetTypes, QueueKeepsTypes
  <1>6. CASE UNCHANGED queueVars
    BY <1>0, <1>1, <1>6, BudgetTypes DEF QueueType, queueVars
  <1> QED BY <1>3, <1>4, <1>5, <1>6

(* Removing a job takes at most one place out of the completed ones.       *)
LEMMA ForgottenIsSeq ==
  ASSUME NEW S, kept \in Seq(S), NEW e
  PROVE  forgotten(e) \in Seq(S)
  <1>1. CASE \E i \in DOMAIN kept : kept[i] = e
    <2> DEFINE i == CHOOSE n \in DOMAIN kept : kept[n] = e
    <2>1. i \in 1 .. Len(kept)
      BY <1>1
    <2>2. Len(kept) \in Nat /\ \A n \in 1 .. Len(kept) : kept[n] \in S
      OBVIOUS
    <2> HIDE DEF i
    <2>3. SubSeq(kept, 1, i - 1) \in Seq(S)
      BY <2>1, <2>2, SubSeqProperties
    <2>4. SubSeq(kept, i + 1, Len(kept)) \in Seq(S)
      BY <2>1, <2>2, SubSeqProperties
    <2>5. SubSeq(kept, 1, i - 1) \o SubSeq(kept, i + 1, Len(kept)) \in Seq(S)
      BY <2>3, <2>4, ConcatProperties
    <2> QED BY <1>1, <2>5 DEF forgotten, i
  <1>2. CASE ~\E i \in DOMAIN kept : kept[i] = e
    BY <1>2 DEF forgotten
  <1> QED BY <1>1, <1>2

LEMMA AdminTypes ==
  ASSUME TypeOK, AdminNext
  PROVE  AdminTypeOK' /\ QueueTypeOK'
  <1> USE DEF TypeOK, AdminTypeOK, QueueTypeOK
  <1>1. ASSUME NEW o \in Operators, NEW e \in Events, GetJob(o, e)
        PROVE  AdminTypeOK' /\ QueueTypeOK'
    BY <1>1 DEF GetJob, queueVars, budget
  <1>2. ASSUME NEW o \in Operators, NEW e \in Events, RetryJob(o, e)
        PROVE  AdminTypeOK' /\ QueueTypeOK'
    <2>1. [jobs[e] EXCEPT !.state = "waiting"] \in JobRecord
      BY JobChanges
    <2>2. jobs' \in [Events -> JobRecord]
      BY <1>2, <2>1 DEF RetryJob
    <2> QED BY <1>2, <2>2 DEF RetryJob, Replied, budget
  <1>3. ASSUME NEW o \in Operators, NEW e \in Events, RemoveJob(o, e)
        PROVE  AdminTypeOK' /\ QueueTypeOK'
    <2>1. NoJob \in JobRecord
      BY JobChanges
    <2>2. jobs' \in [Events -> JobRecord]
      BY <1>3, <2>1 DEF RemoveJob
    <2>3. kept' \in Seq(Events)
      BY <1>3, ForgottenIsSeq DEF RemoveJob
    <2>4. removed' \in SUBSET Events
      BY <1>3 DEF RemoveJob
    <2> QED BY <1>3, <2>2, <2>3, <2>4 DEF RemoveJob, Replied, budget
  <1> QED BY <1>1, <1>2, <1>3 DEF AdminNext

LEMMA TypeInit == Init => TypeOK
  BY DEF Init, AdminInit, AdminTypeOK, TypeOK, OutboxInit, OutboxTypeOK, EventStatus, NothingSeen, QueueInit, QueueTypeOK,
         NoJob, JobRecord, DispatchInit, DispatchTypeOK, Unsent, Stage

LEMMA TypeStep ==
  ASSUME TypeOK, [Next]_vars
  PROVE  TypeOK'
  <1>1. CASE OutboxNext /\ UNCHANGED <<dispatchVars, adminVars>>
    <2>1. DispatchTypeOK' /\ AdminTypeOK'
      BY <1>1 DEF TypeOK, DispatchTypeOK, dispatchVars, AdminTypeOK, adminVars
    <2> QED BY <1>1, <2>1, OutboxTypes, OutboxQueue DEF TypeOK
  <1>2. CASE DispatchNext /\ UNCHANGED <<outboxVars, adminVars>>
    <2>1. OutboxTypeOK' /\ AdminTypeOK'
      BY <1>2 DEF TypeOK, OutboxTypeOK, outboxVars, AdminTypeOK, adminVars
    <2> QED BY <1>2, <2>1, DispatchTypes, DispatchQueue DEF TypeOK
  <1>3. CASE AdminNext /\ UNCHANGED <<outboxVars, dispatchVars>>
    <2>1. OutboxTypeOK' /\ DispatchTypeOK'
      BY <1>3 DEF TypeOK, OutboxTypeOK, outboxVars, DispatchTypeOK, dispatchVars
    <2> QED BY <1>3, <2>1, AdminTypes DEF TypeOK
  <1>4. CASE UNCHANGED vars
    BY <1>4 DEF vars, TypeOK, OutboxTypeOK, QueueTypeOK, DispatchTypeOK, AdminTypeOK, outboxVars,
                queueVars, dispatchVars, adminVars, budget
  <1> QED BY <1>1, <1>2, <1>3, <1>4 DEF Next

(* Rows, counts, jobs, deliveries and the bounds keep their types under    *)
(* every interleaving of processors and workers and every failure.         *)
THEOREM DeliveryTypeCorrect == Spec => []TypeOK
  BY TypeInit, TypeStep, PTL DEF Spec

-----------------------------------------------------------------------------
(* What a processor knows.                                                 *)

(* A row becomes PUBLISHED only by a processor that has added the job, and *)
(* FAILED only by one that read a count at the limit; counts only grow.    *)
LEMMA RowSteps ==
  ASSUME TypeOK, ProcessorInv, OutboxNext, NEW e \in Events
  PROVE  /\ queued \subseteq queued'
         /\ retries[e] <= retries'[e]
         /\ rows'[e] = "PUBLISHED" => rows[e] = "PUBLISHED" \/ e \in queued
         /\ rows'[e] = "FAILED" => rows[e] = "FAILED" \/ exceeded(retries[e])
  <1> USE DEF TypeOK, OutboxTypeOK, QueueTypeOK
  <1>1. queued \subseteq queued'
    BY DEF OutboxNext, processBatch, batchFails, Commit, Poll, GiveUp, Publish, Mark, Reset,
           PublishThrows, MarkThrows, BatchThrows, ProcessorDies, add, queueVars
  <1>2. \/ UNCHANGED <<rows, retries>>
        \/ \E f \in Events : Commit(f)
        \/ \E p \in Processors : \E f \in Events : at[p] = "mark" /\ isNext(p, f) /\ markPublished(f)
        \/ \E p \in Processors : \E f \in Events :
             exceeded(seen[p][f]) /\ isNext(p, f) /\ markFailed(f)
        \/ \E p \in Processors : \E f \in Events : at[p] = "reset" /\ isNext(p, f) /\ resetForRetry(f)
    BY DEF OutboxNext, processBatch, batchFails, Poll, GiveUp, Publish, Mark, Reset,
           PublishThrows, MarkThrows, BatchThrows, ProcessorDies, attempted
  <1>3. CASE UNCHANGED <<rows, retries>>
    BY <1>1, <1>3
  <1>4. CASE \E f \in Events : Commit(f)
    BY <1>1, <1>4 DEF Commit
  <1>5. CASE \E p \in Processors : \E f \in Events : at[p] = "mark" /\ isNext(p, f) /\ markPublished(f)
    BY <1>1, <1>5 DEF markPublished, ProcessorInv, knows
  <1>6. CASE \E p \in Processors : \E f \in Events :
               exceeded(seen[p][f]) /\ isNext(p, f) /\ markFailed(f)
    <2>1. PICK p \in Processors, f \in Events : exceeded(seen[p][f]) /\ isNext(p, f) /\ markFailed(f)
      BY <1>6
    <2>2. exceeded(retries[f])
      BY <2>1 DEF ProcessorInv, knows, isNext, exceeded
    <2> QED BY <1>1, <2>1, <2>2 DEF markFailed
  <1>7. CASE \E p \in Processors : \E f \in Events : at[p] = "reset" /\ isNext(p, f) /\ resetForRetry(f)
    BY <1>1, <1>7 DEF resetForRetry
  <1> QED BY <1>2, <1>3, <1>4, <1>5, <1>6, <1>7

(* A processor that does not move keeps what it knows.                     *)
LEMMA KnowsStays ==
  ASSUME TypeOK, NEW p \in Processors, knows(p),
         queued \subseteq queued', \A e \in Events : retries[e] <= retries'[e],
         TypeOK', todo'[p] = todo[p], seen'[p] = seen[p], at'[p] = at[p]
  PROVE  knows(p)'
  <1>1. \A e \in Events : isNext(p, e)' <=> isNext(p, e)
    BY DEF isNext
  <1>2. \A e \in todo[p] : seen[p][e] \in Nat /\ retries[e] \in Nat /\ retries'[e] \in Nat
                          /\ retries[e] <= retries'[e]
    BY DEF TypeOK, OutboxTypeOK
  <1> QED BY <1>1, <1>2 DEF knows, exceeded

OnlyMoves(p) ==
  \A q \in Processors \ {p} : todo'[q] = todo[q] /\ seen'[q] = seen[q] /\ at'[q] = at[q]

(* One that moves knows it from the code it just ran.                      *)
LEMMA KnowsMoves ==
  ASSUME TypeOK, TypeOK', NEW p \in Processors, knows(p),
         queued \subseteq queued', \A e \in Events : retries[e] <= retries'[e],
         \/ EndBatch(p)
         \/ Poll(p)
         \/ \E e \in Events : NextEvent(p, e)
         \/ \E e \in Events :
              /\ isNext(p, e) /\ ~exceeded(seen[p][e])
              /\ Await(p, "reset") \/ (Await(p, "mark") /\ e \in queued')
  PROVE  /\ knows(p)'
         /\ OnlyMoves(p)
  <1> USE DEF TypeOK, OutboxTypeOK, OnlyMoves
  <1>1. CASE EndBatch(p)
    BY <1>1 DEF EndBatch, knows, isNext
  <1>2. CASE Poll(p)
    <2>1. PICK S \in SUBSET Events :
            /\ todo' = [todo EXCEPT ![p] = S]
            /\ seen' = [seen EXCEPT ![p] = [g \in Events |-> IF g \in S THEN retries[g] ELSE 0]]
      BY <1>2, PollReads
    <2>2. at[p] = "next" /\ at' = at /\ retries' = retries
      BY <1>2 DEF Poll, knows
    <2>3. \A e \in todo'[p] : e \in Events /\ seen'[p][e] = retries[e]
      BY <2>1
    <2>4. knows(p)'
      BY <2>2, <2>3 DEF knows
    <2> QED BY <2>1, <2>2, <2>4
  <1>3. ASSUME NEW e \in Events, NextEvent(p, e)
        PROVE  /\ knows(p)'
               /\ OnlyMoves(p)
    <2>1. /\ todo'[p] = todo[p] \ {e} /\ at'[p] = "next"
          /\ \A f \in Events \ {e} : seen'[p][f] = seen[p][f]
      BY <1>3 DEF NextEvent
    <2>2. \A f \in todo'[p] : /\ seen'[p][f] = seen[p][f] /\ seen[p][f] <= retries[f]
                             /\ retries[f] <= retries'[f] /\ seen[p][f] \in Nat
                             /\ retries[f] \in Nat /\ retries'[f] \in Nat
      BY <2>1 DEF knows
    <2>3. knows(p)'
      BY <2>1, <2>2 DEF knows
    <2> QED BY <1>3, <2>3 DEF NextEvent
  <1>4. ASSUME NEW e \in Events, isNext(p, e), ~exceeded(seen[p][e]),
               Await(p, "reset") \/ (Await(p, "mark") /\ e \in queued')
        PROVE  /\ knows(p)'
               /\ OnlyMoves(p)
    <2>1. \A f \in Events : isNext(p, f)' => f = e
      BY <1>4, EventsAssumption DEF isNext, Await
    <2>2. \A f \in todo[p] : /\ seen[p][f] <= retries[f] /\ retries[f] <= retries'[f]
                            /\ seen[p][f] \in Nat /\ retries[f] \in Nat /\ retries'[f] \in Nat
      BY DEF knows
    <2>3. todo' = todo /\ seen' = seen /\ at'[p] \in {"reset", "mark"} /\ todo[p] # {}
      BY <1>4 DEF Await, isNext
    <2>4. at'[p] = "mark" => e \in queued'
      BY <1>4 DEF Await
    <2>5. knows(p)'
      <3>1. \A f \in todo'[p] : seen'[p][f] <= retries'[f]
        BY <2>2, <2>3
      <3>2. \A f \in Events : isNext(p, f)' => ~exceeded(seen[p][f])'
        BY <1>4, <2>1, <2>3 DEF exceeded
      <3>3. \A f \in Events : isNext(p, f)' => (at'[p] = "mark" => f \in queued')
        BY <2>1, <2>4
      <3>4. todo'[p] # {}
        BY <2>3
      <3> QED BY <3>1, <3>2, <3>3, <3>4 DEF knows
    <2> QED BY <1>4, <2>5 DEF Await
  <1> QED BY <1>1, <1>2, <1>3, <1>4 DEF EndBatch

LEMMA ProcessorStep ==
  ASSUME TypeOK, TypeOK', ProcessorInv, OutboxNext
  PROVE  ProcessorInv'
  <1>0. queued \subseteq queued' /\ \A e \in Events : retries[e] <= retries'[e]
    <2>1. queued \subseteq queued'
      BY DEF OutboxNext, processBatch, batchFails, Commit, Poll, GiveUp, Publish, Mark, Reset,
             PublishThrows, MarkThrows, BatchThrows, ProcessorDies, add, queueVars
    <2> QED BY <2>1, RowSteps
  <1>1. ASSUME NEW p \in Processors, knows(p)', OnlyMoves(p) PROVE ProcessorInv'
    BY <1>0, <1>1, KnowsStays DEF OnlyMoves, ProcessorInv
  <1>2. CASE \E e \in Events : Commit(e)
    BY <1>0, <1>2, KnowsStays DEF Commit, ProcessorInv
  <1>3. ASSUME NEW p \in Processors, processBatch(p) \/ batchFails(p) PROVE ProcessorInv'
    <2>1. \/ EndBatch(p)
          \/ Poll(p)
          \/ \E e \in Events : NextEvent(p, e)
          \/ \E e \in Events :
               /\ isNext(p, e) /\ ~exceeded(seen[p][e])
               /\ Await(p, "reset") \/ (Await(p, "mark") /\ e \in queued')
      <3>1. CASE Poll(p) \/ ProcessorDies(p)
        BY <3>1 DEF ProcessorDies
      <3>2. ASSUME NEW e \in Events, GiveUp(p, e) \/ Mark(p, e) \/ Reset(p, e)
            PROVE  NextEvent(p, e)
        BY <3>2 DEF GiveUp, Mark, Reset
      <3>3. ASSUME NEW e \in Events, BatchThrows(p, e) PROVE EndBatch(p)
        BY <3>3 DEF BatchThrows
      <3>4. ASSUME NEW e \in Events, Publish(p, e)
            PROVE  isNext(p, e) /\ ~exceeded(seen[p][e]) /\ Await(p, "mark") /\ e \in queued'
        BY <3>4 DEF Publish, add
      <3>5. ASSUME NEW e \in Events, PublishThrows(p, e) \/ MarkThrows(p, e)
            PROVE  isNext(p, e) /\ ~exceeded(seen[p][e]) /\ Await(p, "reset")
        BY <3>5 DEF PublishThrows, MarkThrows, ProcessorInv, knows
      <3> QED BY <1>3, <3>1, <3>2, <3>3, <3>4, <3>5 DEF processBatch, batchFails
    <2>2. knows(p)
      BY DEF ProcessorInv
    <2>3. knows(p)' /\ OnlyMoves(p)
      BY <1>0, <2>1, <2>2, KnowsMoves
    <2> QED BY <1>1, <2>3
  <1> QED BY <1>2, <1>3 DEF OutboxNext

-----------------------------------------------------------------------------
(* Who may still add a retry.                                              *)

LEMMA HoldersFinite ==
  ASSUME NEW e \in Events
  PROVE  /\ IsFiniteSet(holders(e)) /\ Cardinality(holders(e)) \in Nat
         /\ \A S \in SUBSET holders(e) :
              /\ IsFiniteSet(S) /\ Cardinality(S) \in Nat
              /\ Cardinality(S) <= Cardinality(holders(e))
         /\ Cardinality(Processors) \in Nat
         /\ \A S \in SUBSET Processors :
              /\ IsFiniteSet(S) /\ Cardinality(S) \in Nat
              /\ Cardinality(S) <= Cardinality(Processors)
              /\ \A p \in S : Cardinality(S \ {p}) = Cardinality(S) - 1
  <1>1. holders(e) \in SUBSET Processors
    BY DEF holders
  <1>2. IsFiniteSet(holders(e))
    BY <1>1, FS_Subset
  <1>3. \A S \in SUBSET Processors : IsFiniteSet(S) /\ Cardinality(S) <= Cardinality(Processors)
    BY FS_Subset
  <1>4. \A S : IsFiniteSet(S) => Cardinality(S) \in Nat
    BY FS_CardinalityType
  <1>5. \A S \in SUBSET holders(e) : IsFiniteSet(S) /\ Cardinality(S) <= Cardinality(holders(e))
    BY <1>2, FS_Subset
  <1>6. \A S \in SUBSET Processors : \A p \in S : Cardinality(S \ {p}) = Cardinality(S) - 1
    BY <1>3, FS_RemoveElement
  <1> QED BY <1>2, <1>3, <1>4, <1>5, <1>6

(* Leaving an event, or the batch, never makes a processor a holder.       *)
LEMMA BatchesShrink ==
  ASSUME TypeOK, NEW p \in Processors, NEW f \in Events,
         NextEvent(p, f) \/ EndBatch(p) \/ UNCHANGED <<todo, seen>>, NEW e \in Events
  PROVE  /\ holders(e)' \subseteq holders(e)
         /\ EndBatch(p) \/ (NextEvent(p, f) /\ e = f) => p \notin holders(e)'
  <1> USE DEF TypeOK, OutboxTypeOK
  <1>1. CASE NextEvent(p, f)
    <2>1. \A q \in Processors : e \in todo'[q] => e \in todo[q] /\ seen'[q][e] = seen[q][e]
      BY <1>1 DEF NextEvent
    <2>2. e = f => e \notin todo'[p]
      BY <1>1 DEF NextEvent
    <2>3. CASE EndBatch(p)
      BY <2>1, <2>3 DEF EndBatch, holders, exceeded
    <2>4. CASE ~EndBatch(p)
      BY <2>1, <2>2, <2>4 DEF holders, exceeded
    <2> QED BY <2>3, <2>4
  <1>2. CASE EndBatch(p)
    <2>1. \A q \in Processors : e \in todo'[q] => e \in todo[q] /\ seen'[q][e] = seen[q][e]
      BY <1>2 DEF EndBatch
    <2>2. e \notin todo'[p]
      BY <1>2 DEF EndBatch
    <2> QED BY <2>1, <2>2 DEF holders, exceeded
  <1>3. CASE UNCHANGED <<todo, seen>> /\ ~NextEvent(p, f) /\ ~EndBatch(p)
    BY <1>3 DEF holders, exceeded
  <1> QED BY <1>1, <1>2, <1>3

(* A step adds no holder to an event at the limit, and who adds a retry is *)
(* a holder no longer.                                                     *)
LEMMA HoldersMove ==
  ASSUME TypeOK, TypeOK', ProcessorInv, OutboxNext, NEW e \in Events
  PROVE  \/ /\ retries'[e] = retries[e]
            /\ exceeded(retries[e]) => holders(e)' \subseteq holders(e)
         \/ \E p \in holders(e) : /\ retries'[e] = retries[e] + 1
                                 /\ holders(e)' \subseteq holders(e) \ {p}
  <1> USE DEF TypeOK, OutboxTypeOK
  <1>1. ASSUME NEW f \in Events, Commit(f)
        PROVE  retries'[e] = retries[e] /\ holders(e)' \subseteq holders(e)
    BY <1>1 DEF Commit, holders, exceeded
  <1>2. ASSUME NEW p \in Processors, Poll(p)
        PROVE  /\ retries'[e] = retries[e]
               /\ exceeded(retries[e]) => holders(e)' \subseteq holders(e)
    <2>1. PICK S \in SUBSET Events :
            /\ todo' = [todo EXCEPT ![p] = S]
            /\ seen' = [seen EXCEPT ![p] = [g \in Events |-> IF g \in S THEN retries[g] ELSE 0]]
      BY <1>2, PollReads
    <2>2. retries' = retries
      BY <1>2 DEF Poll
    <2>3. e \in todo'[p] => seen'[p][e] = retries[e]
      BY <2>1
    <2>4. \A q \in Processors \ {p} : todo'[q] = todo[q] /\ seen'[q] = seen[q]
      BY <2>1
    <2>5. ASSUME exceeded(retries[e]), NEW q \in Processors, q \in holders(e)'
          PROVE  q \in holders(e)
      <3>1. e \in todo'[q] /\ ~exceeded(seen'[q][e])
        BY <2>5 DEF holders, exceeded
      <3>2. q # p
        BY <2>3, <2>5, <3>1
      <3> QED BY <2>4, <3>1, <3>2 DEF holders
    <2>6. holders(e)' \subseteq Processors
      BY DEF holders
    <2> QED BY <2>2, <2>5, <2>6
  <1>3. ASSUME NEW p \in Processors, NEW f \in Events,
               NextEvent(p, f) \/ EndBatch(p) \/ UNCHANGED <<todo, seen>>,
               retries' = retries
        PROVE  retries'[e] = retries[e] /\ holders(e)' \subseteq holders(e)
    BY <1>3, BatchesShrink
  <1>4. ASSUME NEW p \in Processors, NEW f \in Events, at[p] = "reset", isNext(p, f),
               resetForRetry(f), NextEvent(p, f) \/ EndBatch(p)
        PROVE  \/ retries'[e] = retries[e] /\ holders(e)' \subseteq holders(e)
               \/ /\ p \in holders(e) /\ retries'[e] = retries[e] + 1
                  /\ holders(e)' \subseteq holders(e) \ {p}
    <2>1. p \in holders(f)
      BY <1>4 DEF ProcessorInv, knows, isNext, holders
    <2>2. holders(e)' \subseteq holders(e) /\ (e = f => p \notin holders(e)')
      BY <1>4, BatchesShrink
    <2>3. CASE e = f
      BY <1>4, <2>1, <2>2, <2>3 DEF resetForRetry
    <2>4. CASE e # f
      BY <1>4, <2>2, <2>4 DEF resetForRetry
    <2> QED BY <2>3, <2>4
  <1>5. ASSUME NEW p \in Processors, NEW f \in Events,
               GiveUp(p, f) \/ Publish(p, f) \/ Mark(p, f) \/ PublishThrows(p, f) \/ MarkThrows(p, f)
        PROVE  /\ NextEvent(p, f) \/ UNCHANGED <<todo, seen>>
               /\ retries' = retries
    BY <1>5 DEF GiveUp, Publish, Mark, PublishThrows, MarkThrows, Await, attempted,
                markFailed, markPublished
  <1>6. ASSUME NEW p \in Processors, NEW f \in Events, Reset(p, f) \/ BatchThrows(p, f)
        PROVE  /\ NextEvent(p, f) \/ EndBatch(p)
               /\ \/ retries' = retries
                  \/ at[p] = "reset" /\ isNext(p, f) /\ resetForRetry(f)
    BY <1>6 DEF Reset, BatchThrows, attempted, markFailed
  <1>7. ASSUME NEW p \in Processors, ProcessorDies(p)
        PROVE  retries'[e] = retries[e] /\ holders(e)' \subseteq holders(e)
    BY <1>7, BatchesShrink DEF ProcessorDies
  <1>8. ASSUME NEW p \in Processors, NEW f \in Events,
               \/ GiveUp(p, f) \/ Publish(p, f) \/ Mark(p, f) \/ Reset(p, f)
               \/ PublishThrows(p, f) \/ MarkThrows(p, f) \/ BatchThrows(p, f)
        PROVE  \/ retries'[e] = retries[e] /\ holders(e)' \subseteq holders(e)
               \/ /\ p \in holders(e) /\ retries'[e] = retries[e] + 1
                  /\ holders(e)' \subseteq holders(e) \ {p}
    <2>1. CASE retries' = retries
      BY <1>3, <1>5, <1>6, <1>8, <2>1
    <2>2. CASE retries' # retries
      BY <1>4, <1>5, <1>6, <1>8, <2>2
    <2> QED BY <2>1, <2>2
  <1> QED BY <1>1, <1>2, <1>7, <1>8 DEF OutboxNext, processBatch, batchFails

LEMMA HoldersStep ==
  ASSUME TypeOK, TypeOK', ProcessorInv, HoldersInv, OutboxNext
  PROVE  HoldersInv'
  <1> SUFFICES ASSUME NEW e \in Events, exceeded(retries[e])'
               PROVE  (retries[e] + Cardinality(holders(e)) < MaxRetries + Cardinality(Processors))'
    BY DEF HoldersInv
  <1> DEFINE h  == Cardinality(holders(e))
             h1 == Cardinality(holders(e)')
             n  == Cardinality(Processors)
  <1>0. /\ retries[e] \in Nat /\ retries'[e] \in Nat /\ retries'[e] >= MaxRetries
        /\ MaxRetries \in Nat
    BY DEF TypeOK, OutboxTypeOK, exceeded
  <1>1. exceeded(retries[e]) => retries[e] + h < MaxRetries + n
    BY DEF HoldersInv
  <1>2. CASE /\ retries'[e] = retries[e]
             /\ exceeded(retries[e]) => holders(e)' \subseteq holders(e)
    <2>1. exceeded(retries[e])
      BY <1>0, <1>2 DEF exceeded
    <2>2. h1 <= h /\ h \in Nat /\ h1 \in Nat /\ n \in Nat
      BY <1>2, <2>1, HoldersFinite
    <2> QED BY <1>0, <1>1, <1>2, <2>1, <2>2
  <1>3. ASSUME NEW p \in holders(e), retries'[e] = retries[e] + 1,
               holders(e)' \subseteq holders(e) \ {p}
        PROVE  retries'[e] + h1 < MaxRetries + n
    <2>1. holders(e) \in SUBSET Processors /\ p \in Processors
      BY DEF holders
    <2>2. Cardinality(holders(e) \ {p}) = h - 1 /\ h <= n /\ h \in Nat /\ n \in Nat
      BY <2>1, HoldersFinite
    <2>3. h1 <= h - 1 /\ h1 \in Nat
      <3>1. IsFiniteSet(holders(e) \ {p})
        BY HoldersFinite
      <3>2. h1 <= Cardinality(holders(e) \ {p})
        BY <1>3, <3>1, FS_Subset
      <3>3. h1 \in Nat
        BY <1>3, HoldersFinite
      <3> QED BY <2>2, <3>2, <3>3
    <2>4. CASE exceeded(retries[e])
      BY <1>0, <1>1, <1>3, <2>2, <2>3, <2>4
    <2>5. CASE ~exceeded(retries[e])
      <3>1. retries'[e] = MaxRetries
        BY <1>0, <1>3, <2>5 DEF exceeded
      <3> QED BY <1>0, <2>2, <2>3, <3>1
    <2> QED BY <2>4, <2>5
  <1> QED BY <1>2, <1>3, HoldersMove

-----------------------------------------------------------------------------
(* What a worker knows.                                                    *)

(* History and the audit trail only grow, and a fault is never undone.     *)
LEMMA TrailGrows ==
  ASSUME TypeOK, DispatchNext
  PROVE  /\ \A e \in Events : sent[e] \subseteq sent'[e] /\ deliveries[e] \subseteq deliveries'[e]
         /\ faults' = 0 => faults = 0
  <1>1. \/ UNCHANGED <<sent, deliveries>>
        \/ \E w \in Workers : \E s \in Subscribers : Post(w, s) \/ Record(w, s)
    BY DEF DispatchNext, dispatch, dispatchFails, deliver, PickUp, Select, Finish, Refuse,
           RecordFails, SelectThrows, WorkerDies, JobStalled, JobStalledLive, Stalls,
           dispatchVars
  <1>2. \A e \in Events : sent[e] \subseteq sent'[e] /\ deliveries[e] \subseteq deliveries'[e]
    <2>1. CASE UNCHANGED <<sent, deliveries>>
      BY <2>1
    <2>2. ASSUME NEW w \in Workers, NEW s \in Subscribers, Post(w, s)
          PROVE  \A e \in Events : sent[e] \subseteq sent'[e] /\ deliveries[e] \subseteq deliveries'[e]
      BY <2>2 DEF Post, TypeOK, DispatchTypeOK
    <2>3. ASSUME NEW w \in Workers, NEW s \in Subscribers, Record(w, s)
          PROVE  \A e \in Events : sent[e] \subseteq sent'[e] /\ deliveries[e] \subseteq deliveries'[e]
      BY <2>3 DEF Record, TypeOK, DispatchTypeOK
    <2> QED BY <1>1, <2>1, <2>2, <2>3
  <1>3. Fault \/ Death \/ UNCHANGED budget
    BY DEF DispatchNext, dispatch, dispatchFails, deliver, PickUp, Select, Finish, Refuse, Post,
           Record, RecordFails, SelectThrows, WorkerDies, JobStalled, JobStalledLive, Stalls
  <1>4. faults' = 0 => faults = 0
    BY <1>3 DEF Fault, Death, budget, TypeOK, QueueTypeOK
  <1> QED BY <1>2, <1>4

OnlyWorks(w) ==
  \A v \in Workers \ {w} : working'[v] = working[v] /\ sends'[v] = sends[v]

(* A worker that does not move keeps what it knows.                        *)
LEMMA DeliveredStays ==
  ASSUME TypeOK, NEW w \in Workers, delivered(w),
         \A e \in Events : sent[e] \subseteq sent'[e] /\ deliveries[e] \subseteq deliveries'[e],
         faults' = 0 => faults = 0,
         working'[w] = working[w], sends'[w] = sends[w]
  PROVE  delivered(w)'
  <1>1. CASE working[w] = 0
    BY <1>1 DEF delivered, Unsent
  <1>2. CASE working[w] # 0
    <2>1. working[w] \in Events
      BY <1>2 DEF TypeOK, DispatchTypeOK
    <2> QED BY <1>2, <2>1 DEF delivered
  <1> QED BY <1>1, <1>2

LEMMA WorkerStep ==
  ASSUME TypeOK, TypeOK', WorkerInv, DispatchNext
  PROVE  WorkerInv'
  <1> USE DEF TypeOK, DispatchTypeOK
  <1>0. /\ \A e \in Events : sent[e] \subseteq sent'[e] /\ deliveries[e] \subseteq deliveries'[e]
        /\ faults' = 0 => faults = 0
    BY TrailGrows
  <1>1. \A e \in Events : sent'[e] \subseteq Subscribers \ Blocked
    <2>1. \/ UNCHANGED sent
          \/ \E w \in Workers : \E s \in Subscribers : Post(w, s)
      BY DEF DispatchNext, dispatch, dispatchFails, deliver, PickUp, Select, Finish, Refuse,
             Record, RecordFails, SelectThrows, WorkerDies, JobStalled, JobStalledLive, Stalls,
           dispatchVars
    <2>2. ASSUME NEW w \in Workers, NEW s \in Subscribers, Post(w, s)
          PROVE  \A e \in Events : sent'[e] \subseteq Subscribers \ Blocked
      BY <2>2 DEF Post, WorkerInv
    <2> QED BY <2>1, <2>2 DEF WorkerInv
  <1>2. ASSUME NEW w \in Workers, delivered(w)', OnlyWorks(w) PROVE WorkerInv'
    BY <1>0, <1>1, <1>2, DeliveredStays DEF OnlyWorks, WorkerInv
  <1>3. ASSUME NEW e \in Events, JobStalled(e) \/ JobStalledLive(e) PROVE WorkerInv'
    BY <1>0, <1>1, <1>3, DeliveredStays
       DEF JobStalled, JobStalledLive, Stalls, dispatchVars, WorkerInv
  <1>4. ASSUME NEW w \in Workers, Rest(w) PROVE WorkerInv'
    <2>1. working'[w] = 0 /\ sends'[w] = Unsent /\ OnlyWorks(w)
      BY <1>4 DEF Rest, OnlyWorks
    <2>2. delivered(w)'
      BY <2>1 DEF delivered, Unsent
    <2> QED BY <1>2, <2>1, <2>2
  <1>5. ASSUME NEW w \in Workers, PickUp(w) PROVE WorkerInv'
    <2>1. sends[w] = Unsent /\ sends' = sends /\ OnlyWorks(w)
      BY <1>5 DEF PickUp, OnlyWorks, WorkerInv, delivered
    <2>2. working'[w] # 0
      BY <1>5, EventsAssumption DEF PickUp
    <2>3. delivered(w)'
      BY <2>1, <2>2 DEF delivered, Unsent
    <2> QED BY <1>2, <2>1, <2>3
  <1>6. ASSUME NEW w \in Workers, Select(w) PROVE WorkerInv'
    <2>1. /\ sends'[w] = [s \in Subscribers |-> "post"] /\ working'[w] # 0
          /\ OnlyWorks(w)
      BY <1>6 DEF Select, OnlyWorks
    <2>2. delivered(w)'
      BY <2>1 DEF delivered
    <2> QED BY <1>2, <2>1, <2>2
  <1>7. ASSUME NEW w \in Workers, NEW s \in Subscribers,
               Refuse(w, s) \/ Post(w, s) \/ Record(w, s) \/ RecordFails(w, s)
        PROVE  WorkerInv'
    <2>0. delivered(w)
      BY DEF WorkerInv
    <2>1. OnlyWorks(w) /\ working' = working /\ sends[w][s] # "unsent"
          /\ \A u \in Subscribers \ {s} : sends'[w][u] = sends[w][u]
      <3>1. \E stage \in Stage : Send(w, s, stage)
        BY <1>7 DEF Refuse, Post, Record, RecordFails, afterRecord, Stage
      <3>2. \A stage : Send(w, s, stage) =>
              OnlyWorks(w) <=> \A v \in Workers \ {w} : working'[v] = working[v]
        BY DEF Send, OnlyWorks
      <3>3. \A u \in Subscribers \ {s} : sends'[w][u] = sends[w][u]
        BY <3>1 DEF Send
      <3>4. working' = working /\ sends[w][s] # "unsent"
        BY <1>7 DEF Refuse, Post, Record, RecordFails, Answer
      <3> QED BY <3>1, <3>2, <3>3, <3>4
    <2>2. working[w] \in Events
      BY <2>0, <2>1 DEF delivered, Unsent
    <2>3. s \notin Blocked =>
            /\ sends'[w][s] \notin {"unsent", "post"} => s \in sent'[working[w]]
            /\ faults' = 0 /\ sends'[w][s] \in {"settled", "refusedAgain"}
                 => s \in deliveries'[working[w]]
      <3>1. CASE Refuse(w, s)
        BY <3>1 DEF Refuse
      <3>2. CASE Post(w, s)
        BY <2>2, <3>2 DEF Post, Send, Answer
      <3>3. CASE Record(w, s)
        BY <2>0, <2>2, <3>3 DEF Record, delivered, Answer
      <3>4. CASE RecordFails(w, s)
        <4>1. faults' # 0
          BY <3>4 DEF RecordFails, Fault, QueueTypeOK
        <4> QED BY <2>0, <2>2, <3>4, <4>1 DEF RecordFails, delivered, Answer
      <3> QED BY <1>7, <3>1, <3>2, <3>3, <3>4
    <2>4. delivered(w)'
      BY <1>0, <2>0, <2>1, <2>2, <2>3, EventsAssumption DEF delivered
    <2> QED BY <1>2, <2>1, <2>4
  <1> QED BY <1>3, <1>4, <1>5, <1>6, <1>7
          DEF DispatchNext, dispatch, dispatchFails, deliver, Finish, SelectThrows, WorkerDies

-----------------------------------------------------------------------------
(* Completed jobs.                                                         *)

(* Only a worker whose deliveries are all settled completes a job.         *)
LEMMA CompletedBy ==
  ASSUME TypeOK, DispatchNext, NEW e \in Events, jobs'[e].state = "completed"
  PROVE  \/ jobs[e].state = "completed"
         \/ \E w \in Workers : Finish(w) /\ working[w] = e
  <1>0. jobs \in [Events -> JobRecord]
    BY DEF TypeOK, QueueTypeOK
  <1>1. CASE UNCHANGED queueVars
    BY <1>1 DEF queueVars
  <1>2. ASSUME NEW w \in Workers, NEW f \in Events, take(f, w)
        PROVE  jobs[e].state = "completed"
    <2>1. taken(jobs[f], w).state = "active"
      BY DEF taken
    <2>2. jobs'[f].state = "active"
      BY <1>0, <1>2, <2>1 DEF take
    <2>3. f # e => jobs'[e] = jobs[e]
      BY <1>0, <1>2 DEF take
    <2> QED BY <2>2, <2>3
  <1>3. ASSUME NEW f \in Events, stall(f)
        PROVE  jobs[e].state = "completed"
    <2>1. stalled(jobs[f]).state \in {"waiting", "failed"}
      <3>1. jobs[f] \in JobRecord
        BY <1>0
      <3> QED BY <3>1 DEF stalled, JobRecord
    <2>2. jobs'[f].state \in {"waiting", "failed"}
      BY <1>0, <1>3, <2>1 DEF stall
    <2>3. f # e => jobs'[e] = jobs[e]
      BY <1>0, <1>3 DEF stall
    <2> QED BY <2>2, <2>3
  <1>4. ASSUME NEW w \in Workers, SelectThrows(w)
        PROVE  jobs[e].state = "completed"
    <2> DEFINE f == working[w]
    <2>1. rejected(jobs[f]).state \in {"waiting", "failed"}
      BY DEF rejected
    <2>2. f \in Events /\ fail(w, f)
      BY <1>4 DEF SelectThrows, TypeOK, DispatchTypeOK
    <2>3. CASE owns(w, f)
      <3>1. jobs' = [jobs EXCEPT ![f] = rejected(@)]
        BY <2>2, <2>3 DEF fail
      <3>2. jobs'[f].state \in {"waiting", "failed"}
        BY <1>0, <2>1, <2>2, <3>1
      <3>3. f # e => jobs'[e] = jobs[e]
        BY <1>0, <2>2, <3>1
      <3> QED BY <3>2, <3>3
    <2>4. CASE ~owns(w, f)
      BY <2>2, <2>4 DEF fail
    <2> QED BY <2>3, <2>4
  <1>5. ASSUME NEW w \in Workers, Finish(w), working[w] # e
        PROVE  jobs[e].state = "completed"
    <2> DEFINE f == working[w]
    <2>1. complete(w, f)
      BY <1>5 DEF Finish
    <2>2. CASE owns(w, f)
      <3>1. jobs'[e] = NoJob \/ jobs'[e] = jobs[e]
        BY <1>5, <2>1, <2>2 DEF complete
      <3>2. NoJob.state # "completed"
        BY DEF NoJob
      <3> QED BY <3>1, <3>2
    <2>3. CASE ~owns(w, f)
      BY <2>1, <2>3 DEF complete, queueVars
    <2> QED BY <2>2, <2>3
  <1>6. \/ UNCHANGED queueVars
        \/ \E w \in Workers : \E f \in Events : take(f, w)
        \/ \E f \in Events : stall(f)
        \/ \E w \in Workers : SelectThrows(w) \/ Finish(w)
    BY DEF DispatchNext, dispatch, dispatchFails, deliver, PickUp, Select, Refuse, Post, Record,
           RecordFails, WorkerDies, JobStalled, JobStalledLive, Stalls
  <1> QED BY <1>1, <1>2, <1>3, <1>4, <1>5, <1>6

(* Then everything was sent, and without faults everything is recorded.    *)
LEMMA CompletedStep ==
  ASSUME TypeOK, WorkerInv, CompletedWasSent, CompletedInv, DispatchNext
  PROVE  CompletedWasSent' /\ CompletedInv'
  <1>0. /\ \A e \in Events : sent[e] \subseteq sent'[e] /\ deliveries[e] \subseteq deliveries'[e]
        /\ faults' = 0 => faults = 0
    BY TrailGrows
  <1>1. ASSUME NEW e \in Events, jobs'[e].state = "completed"
        PROVE  /\ Subscribers \ Blocked \subseteq sent[e]
               /\ faults = 0 => Subscribers \ Blocked \subseteq deliveries[e]
    <2>1. CASE jobs[e].state = "completed"
      BY <2>1 DEF CompletedWasSent, CompletedInv
    <2>2. ASSUME NEW w \in Workers, Finish(w), working[w] = e
          PROVE  /\ Subscribers \ Blocked \subseteq sent[e]
                 /\ faults = 0 => Subscribers \ Blocked \subseteq deliveries[e]
      BY <2>2 DEF Finish, WorkerInv, delivered
    <2> QED BY <1>1, <2>1, <2>2, CompletedBy
  <1> QED BY <1>0, <1>1 DEF CompletedWasSent, CompletedInv

(* A queued event keeps its job when no job leaves the queue but that of   *)
(* an event sent to everyone.                                              *)
LEMMA QueuedStays ==
  ASSUME TypeOK, QueuedIsNotLost, removed \subseteq removed',
         EventsSent \subseteq EventsSent',
         NEW e \in queued' \ removed',
         e \in queued \/ jobs'[e].state = "waiting",
         \/ jobs'[e] = jobs[e]
         \/ jobs'[e].state \in {"waiting", "active", "failed"}
         \/ e \in EventsSent
  PROVE  jobs'[e].state \in {"waiting", "active", "failed"} \/ e \in EventsSent'
  BY DEF QueuedIsNotLost, EventsSent, TypeOK, QueueTypeOK

(* Each call on a job leaves it in the queue or completes it.              *)
LEMMA JobStates ==
  ASSUME NEW j \in JobRecord
  PROVE  /\ \A w \in Workers : taken(j, w).state = "active"
         /\ rejected(j).state \in {"waiting", "failed"}
         /\ stalled(j).state \in {"waiting", "failed"}
         /\ [j EXCEPT !.state = "waiting"].state = "waiting"
  BY DEF JobRecord, taken, rejected, stalled

(* The processors touch neither completed jobs nor the audit trail.        *)
LEMMA CompletedKept ==
  ASSUME TypeOK, CompletedWasSent, CompletedInv, WorkerInv, OutboxNext, UNCHANGED dispatchVars
  PROVE  CompletedWasSent' /\ CompletedInv' /\ WorkerInv'
  <1>1. faults' = 0 => faults = 0
    <2>1. Fault \/ Death \/ UNCHANGED budget
      BY DEF OutboxNext, processBatch, batchFails, Commit, Poll, GiveUp, Publish, Mark, Reset,
             PublishThrows, MarkThrows, BatchThrows, ProcessorDies
    <2> QED BY <2>1 DEF Fault, Death, budget, TypeOK, QueueTypeOK
  <1>2. ASSUME NEW e \in Events, jobs'[e].state = "completed"
        PROVE  jobs[e].state = "completed"
    <2>1. CASE UNCHANGED queueVars
      BY <1>2, <2>1 DEF queueVars
    <2>2. ASSUME NEW f \in Events, add(f) PROVE jobs[e].state = "completed"
      <3>0. jobs \in [Events -> JobRecord]
        BY DEF TypeOK, QueueTypeOK
      <3>1. CASE jobs[f].state # "none"
        BY <1>2, <2>2, <3>1 DEF add
      <3>2. CASE jobs[f].state = "none"
        <4>1. jobs' = [jobs EXCEPT ![f].state = "waiting"]
          BY <2>2, <3>2 DEF add
        <4>2. jobs'[f].state = "waiting"
          BY <3>0, <4>1 DEF JobRecord
        <4>3. f # e => jobs'[e] = jobs[e]
          BY <3>0, <4>1
        <4> QED BY <1>2, <4>2, <4>3
      <3> QED BY <3>1, <3>2
    <2> QED BY <2>1, <2>2
        DEF OutboxNext, processBatch, batchFails, Commit, Poll, GiveUp, Publish, Mark, Reset,
            PublishThrows, MarkThrows, BatchThrows, ProcessorDies
  <1>3. CompletedWasSent' /\ CompletedInv'
    BY <1>1, <1>2 DEF CompletedWasSent, CompletedInv, dispatchVars
  <1>4. WorkerInv'
    BY <1>1 DEF WorkerInv, delivered, dispatchVars, Unsent
  <1> QED BY <1>3, <1>4

(* Nor do the administrators.                                              *)
LEMMA CompletedByNoAdmin ==
  ASSUME TypeOK, CompletedWasSent, CompletedInv, WorkerInv, AdminNext, UNCHANGED dispatchVars
  PROVE  CompletedWasSent' /\ CompletedInv' /\ WorkerInv'
  <1> USE DEF TypeOK, QueueTypeOK
  <1>1. faults' = faults
    BY DEF AdminNext, GetJob, RetryJob, RemoveJob, budget
  <1>2. ASSUME NEW e \in Events, jobs'[e].state = "completed"
        PROVE  jobs[e].state = "completed"
    <2>1. CASE jobs' = jobs
      BY <1>2, <2>1
    <2>2. ASSUME NEW f \in Events, jobs' = [jobs EXCEPT ![f].state = "waiting"]
          PROVE  jobs[e].state = "completed"
      <3>1. jobs' = [jobs EXCEPT ![f] = [jobs[f] EXCEPT !.state = "waiting"]]
        BY <2>2
      <3>2. [jobs[f] EXCEPT !.state = "waiting"].state = "waiting"
        BY JobStates
      <3> QED BY <1>2, <3>1, <3>2
    <2>3. ASSUME NEW f \in Events, jobs' = [jobs EXCEPT ![f] = NoJob]
          PROVE  jobs[e].state = "completed"
      BY <1>2, <2>3 DEF NoJob
    <2> QED BY <2>1, <2>2, <2>3 DEF AdminNext, GetJob, RetryJob, RemoveJob, queueVars
  <1>3. CompletedWasSent' /\ CompletedInv'
    BY <1>1, <1>2 DEF CompletedWasSent, CompletedInv, dispatchVars
  <1>4. WorkerInv'
    BY <1>1 DEF WorkerInv, delivered, dispatchVars, Unsent
  <1> QED BY <1>3, <1>4

-----------------------------------------------------------------------------
(* Queued events.                                                          *)

(* A worker takes a job from the queue only by completing it, and with it  *)
(* goes the oldest of the completed ones.                                  *)
LEMMA QueuedByWorkers ==
  ASSUME TypeOK, WorkerInv, KeptWasSent, QueuedIsNotLost, DispatchNext, UNCHANGED adminVars
  PROVE  KeptWasSent' /\ QueuedIsNotLost'
  <1>0. /\ EventsSent \subseteq EventsSent'
        /\ \A f \in Events : jobs[f] \in JobRecord
        /\ jobs \in [Events -> JobRecord] /\ removed' = removed
    BY TrailGrows DEF EventsSent, TypeOK, QueueTypeOK, adminVars
  <1>1. ASSUME kept' \in Seq(EventsSent), queued' = queued,
               \A e \in Events : \/ jobs'[e] = jobs[e]
                                 \/ jobs'[e].state \in {"waiting", "active", "failed"}
                                 \/ e \in EventsSent
        PROVE  KeptWasSent' /\ QueuedIsNotLost'
    <2>1. KeptWasSent'
      BY <1>0, <1>1 DEF KeptWasSent
    <2>2. QueuedIsNotLost'
      BY <1>0, <1>1, QueuedStays DEF QueuedIsNotLost, EventsSent, TypeOK, QueueTypeOK
    <2> QED BY <2>1, <2>2
  <1>2. ASSUME NEW f \in Events, NEW w \in Workers, take(f, w)
        PROVE  KeptWasSent' /\ QueuedIsNotLost'
    BY <1>0, <1>1, <1>2, JobStates DEF take, KeptWasSent
  <1>3. ASSUME NEW f \in Events, stall(f)
        PROVE  KeptWasSent' /\ QueuedIsNotLost'
    BY <1>0, <1>1, <1>3, JobStates DEF stall, KeptWasSent
  <1>4. ASSUME NEW f \in Events, NEW w \in Workers, fail(w, f)
        PROVE  KeptWasSent' /\ QueuedIsNotLost'
    <2>1. \A e \in Events : jobs'[e] = jobs[e] \/ jobs'[e].state \in {"waiting", "failed"}
      BY <1>0, <1>4, JobStates DEF fail
    <2> QED BY <1>1, <1>4, <2>1 DEF fail, KeptWasSent
  <1>5. CASE UNCHANGED queueVars
    BY <1>1, <1>5 DEF queueVars, KeptWasSent
  <1>6. ASSUME NEW w \in Workers, Finish(w)
        PROVE  KeptWasSent' /\ QueuedIsNotLost'
    <2> DEFINE f    == working[w]
               done == Append(kept, f)
               full == Len(done) > KeepCompleted
    <2>1. f \in EventsSent /\ complete(w, f)
      BY <1>6 DEF Finish, WorkerInv, delivered, EventsSent, TypeOK, DispatchTypeOK
    <2>2. CASE ~owns(w, f)
      BY <1>5, <2>1, <2>2 DEF complete
    <2>3. CASE owns(w, f)
      <3>1. done \in Seq(EventsSent) /\ done # << >>
        BY <2>1, AppendProperties DEF KeptWasSent
      <3>2. Tail(done) \in Seq(EventsSent) /\ Head(done) \in EventsSent
        BY <3>1, HeadTailProperties
      <3>3. /\ kept' = IF full THEN Tail(done) ELSE done
            /\ \A e \in Events : jobs'[e] = jobs[e] \/ e = f \/ e = Head(done)
            /\ queued' = queued
        BY <2>1, <2>3 DEF complete
      <3> HIDE DEF f, done, full
      <3> QED BY <1>1, <2>1, <3>1, <3>2, <3>3
    <2> QED BY <2>2, <2>3
  <1>7. \/ UNCHANGED queueVars
        \/ \E f \in Events : \E w \in Workers : take(f, w)
        \/ \E f \in Events : stall(f)
        \/ \E f \in Events : \E w \in Workers : fail(w, f)
        \/ \E w \in Workers : Finish(w)
    <2>1. \A w \in Workers : working[w] # 0 => working[w] \in Events
      BY DEF TypeOK, DispatchTypeOK
    <2> QED BY <2>1 DEF DispatchNext, dispatch, dispatchFails, deliver, PickUp, Select, Refuse,
                        Post, Record, RecordFails, SelectThrows, WorkerDies, JobStalled,
                        JobStalledLive, Stalls
  <1> QED BY <1>2, <1>3, <1>4, <1>5, <1>6, <1>7

(* A processor only adds jobs.                                             *)
LEMMA QueuedByProcessors ==
  ASSUME TypeOK, CompletedWasSent, KeptWasSent, QueuedIsNotLost, OutboxNext,
         UNCHANGED <<dispatchVars, adminVars>>
  PROVE  KeptWasSent' /\ QueuedIsNotLost'
  <1>0. /\ EventsSent' = EventsSent
        /\ \A f \in Events : jobs[f] \in JobRecord
        /\ jobs \in [Events -> JobRecord] /\ queued \subseteq Events /\ removed' = removed
    BY DEF EventsSent, TypeOK, QueueTypeOK, adminVars, dispatchVars
  <1>1. CASE UNCHANGED queueVars
    BY <1>0, <1>1 DEF queueVars, KeptWasSent, QueuedIsNotLost, EventsSent
  <1>2. ASSUME NEW f \in Events, add(f) PROVE KeptWasSent' /\ QueuedIsNotLost'
    <2>1. CASE jobs[f].state = "none"
      <3>1. jobs' = [jobs EXCEPT ![f] = [jobs[f] EXCEPT !.state = "waiting"]]
        BY <1>2, <2>1 DEF add
      <3>2. /\ jobs'[f].state = "waiting"
            /\ \A e \in Events \ {f} : jobs'[e] = jobs[e]
        BY <1>0, <3>1, JobStates
      <3> QED BY <1>0, <1>2, <3>2 DEF add, KeptWasSent, QueuedIsNotLost, EventsSent
    <2>2. CASE jobs[f].state # "none"
      <3>1. jobs' = jobs /\ queued' = queued \cup {f} /\ kept' = kept
        BY <1>2, <2>2 DEF add
      <3>2. jobs[f].state = "completed" => f \in EventsSent
        BY DEF CompletedWasSent, EventsSent
      <3> QED BY <1>0, <2>2, <3>1, <3>2 DEF KeptWasSent, QueuedIsNotLost, EventsSent, JobRecord
    <2> QED BY <2>1, <2>2
  <1> QED BY <1>1, <1>2 DEF OutboxNext, processBatch, batchFails, Commit, Poll, GiveUp, Publish,
                            Mark, Reset, PublishThrows, MarkThrows, BatchThrows, ProcessorDies

(* An administrator removes the jobs of events that count as removed.      *)
LEMMA QueuedByAdmins ==
  ASSUME TypeOK, KeptWasSent, QueuedIsNotLost, AdminNext, UNCHANGED <<outboxVars, dispatchVars>>
  PROVE  KeptWasSent' /\ QueuedIsNotLost'
  <1>0. /\ EventsSent' = EventsSent
        /\ \A f \in Events : jobs[f] \in JobRecord
        /\ jobs \in [Events -> JobRecord] /\ queued \subseteq Events
    BY DEF EventsSent, TypeOK, QueueTypeOK, dispatchVars
  <1>1. ASSUME kept' \in Seq(EventsSent), queued' = queued, removed \subseteq removed',
               \A f \in Events : jobs'[f] = jobs[f] \/ jobs'[f].state = "waiting" \/ f \in removed'
        PROVE  KeptWasSent' /\ QueuedIsNotLost'
    <2>1. KeptWasSent'
      BY <1>0, <1>1 DEF KeptWasSent
    <2>2. \A e \in queued \ removed' :
            jobs'[e].state \in {"waiting", "active", "failed"} \/ e \in EventsSent
      BY <1>0, <1>1 DEF QueuedIsNotLost, EventsSent
    <2>3. \A e \in EventsSent : Subscribers \ Blocked \subseteq sent'[e]
      BY <1>0 DEF EventsSent
    <2>4. QueuedIsNotLost'
      BY <1>1, <2>2, <2>3 DEF QueuedIsNotLost
    <2> QED BY <2>1, <2>4
  <1>2. ASSUME NEW o \in Operators, NEW e \in Events, GetJob(o, e)
        PROVE  KeptWasSent' /\ QueuedIsNotLost'
    BY <1>1, <1>2 DEF GetJob, queueVars, KeptWasSent
  <1>3. ASSUME NEW o \in Operators, NEW e \in Events, RetryJob(o, e)
        PROVE  KeptWasSent' /\ QueuedIsNotLost'
    <2>1. jobs' = jobs \/ jobs' = [jobs EXCEPT ![e] = [jobs[e] EXCEPT !.state = "waiting"]]
      BY <1>3 DEF RetryJob
    <2>2. [jobs[e] EXCEPT !.state = "waiting"].state = "waiting"
      BY <1>0, JobStates
    <2>3. \A f \in Events : jobs'[f] = jobs[f] \/ jobs'[f].state = "waiting"
      BY <1>0, <2>1, <2>2
    <2> QED BY <1>1, <1>3, <2>3 DEF RetryJob, KeptWasSent
  <1>4. ASSUME NEW o \in Operators, NEW e \in Events, RemoveJob(o, e)
        PROVE  KeptWasSent' /\ QueuedIsNotLost'
    <2>1. \A f \in Events : jobs'[f] = jobs[f] \/ f \in removed'
      BY <1>0, <1>4 DEF RemoveJob
    <2>2. removed \subseteq removed' /\ queued' = queued
      BY <1>4 DEF RemoveJob
    <2>3. kept' \in Seq(EventsSent)
      BY <1>4, ForgottenIsSeq DEF RemoveJob, KeptWasSent
    <2> QED BY <1>1, <2>1, <2>2, <2>3
  <1> QED BY <1>2, <1>3, <1>4 DEF AdminNext

-----------------------------------------------------------------------------
(* Where an event comes from.                                              *)

(* What a processor does: it adds a job, or writes one row; in either case *)
(* of an event it has polled, when it knows enough.                        *)
LEMMA ProcessorEffect ==
  ASSUME TypeOK, ProcessorInv, OriginInv, OutboxNext
  PROVE  \/ \E e \in Events : rows[e] # "NONE" /\ add(e) /\ UNCHANGED <<rows, retries>>
         \/ UNCHANGED queueVars /\ UNCHANGED <<rows, retries>>
         \/ UNCHANGED queueVars /\ \E e \in Events : Commit(e)
         \/ UNCHANGED queueVars /\ \E e \in Events :
              /\ rows[e] # "NONE"
              /\ \/ e \in queued /\ markPublished(e)
                 \/ exceeded(retries[e]) /\ markFailed(e)
                 \/ resetForRetry(e)
  <1>1. ASSUME NEW p \in Processors, NEW e \in Events, isNext(p, e)
        PROVE  /\ rows[e] # "NONE"
               /\ at[p] = "mark" => e \in queued
               /\ exceeded(seen[p][e]) => exceeded(retries[e])
    <2>1. e \in todo[p] /\ seen[p][e] <= retries[e]
      BY <1>1 DEF isNext, ProcessorInv, knows
    <2>2. seen[p][e] \in Nat /\ retries[e] \in Nat
      BY DEF TypeOK, OutboxTypeOK
    <2> QED BY <1>1, <2>1, <2>2 DEF OriginInv, ProcessorInv, knows, exceeded
  <1>2. CASE \E e \in Events : Commit(e)
    BY <1>2 DEF Commit
  <1>3. ASSUME NEW p \in Processors, Poll(p) \/ ProcessorDies(p)
        PROVE  UNCHANGED queueVars /\ UNCHANGED <<rows, retries>>
    BY <1>3 DEF Poll, ProcessorDies
  <1>4. ASSUME NEW p \in Processors, NEW e \in Events,
               \/ GiveUp(p, e) \/ Publish(p, e) \/ Mark(p, e) \/ Reset(p, e)
               \/ PublishThrows(p, e) \/ MarkThrows(p, e) \/ BatchThrows(p, e)
        PROVE  \/ rows[e] # "NONE" /\ add(e) /\ UNCHANGED <<rows, retries>>
               \/ UNCHANGED queueVars /\ UNCHANGED <<rows, retries>>
               \/ /\ UNCHANGED queueVars /\ rows[e] # "NONE"
                  /\ \/ e \in queued /\ markPublished(e)
                     \/ exceeded(retries[e]) /\ markFailed(e)
                     \/ resetForRetry(e)
    <2>1. isNext(p, e)
      BY <1>4 DEF GiveUp, Publish, Mark, Reset, PublishThrows, MarkThrows, BatchThrows
    <2>2. /\ rows[e] # "NONE" /\ (at[p] = "mark" => e \in queued)
          /\ exceeded(seen[p][e]) => exceeded(retries[e])
      BY <1>1, <2>1
    <2> QED BY <1>4, <2>2
            DEF GiveUp, Publish, Mark, Reset, PublishThrows, MarkThrows, BatchThrows, attempted
  <1> QED BY <1>2, <1>3, <1>4 DEF OutboxNext, processBatch, batchFails

(* Only add gives an event a job, and only complete completes one, its own *)
(* one, and may forget another.                                            *)
LEMMA JobsMove ==
  ASSUME jobs \in [Events -> JobRecord], NEW e \in Events
  PROVE  /\ add(e) => /\ finished' = finished /\ queued' = queued \cup {e}
                      /\ \A f \in Events : jobs'[f].state # "none" => jobs[f].state # "none" \/ f = e
         /\ stall(e) \/ (\E w \in Workers : take(e, w) \/ fail(w, e))
              => /\ finished' \subseteq finished /\ queued' = queued
                 /\ \A f \in Events : jobs'[f].state # "none" => jobs[f].state # "none"
         /\ \A w \in Workers : complete(w, e)
              => /\ finished' \subseteq finished \cup {e} /\ queued' = queued
                 /\ \A f \in Events : jobs'[f].state # "none" => jobs[f].state # "none"
                 /\ ~owns(w, e) => finished' = finished
  <1>1. \A f \in Events : jobs[f] \in JobRecord
    OBVIOUS
  <1>2. ASSUME add(e) PROVE /\ finished' = finished /\ queued' = queued \cup {e}
                            /\ \A f \in Events : jobs'[f].state # "none" => jobs[f].state # "none" \/ f = e
    <2>1. CASE jobs[e].state = "none"
      <3>1. jobs' = [jobs EXCEPT ![e] = [jobs[e] EXCEPT !.state = "waiting"]]
        BY <1>2, <2>1 DEF add
      <3>2. jobs'[e].state = "waiting" /\ \A f \in Events \ {e} : jobs'[f] = jobs[f]
        BY <1>1, <3>1, JobStates
      <3> QED BY <1>2, <2>1, <3>2 DEF add, finished
    <2>2. CASE jobs[e].state # "none"
      BY <1>2, <2>2 DEF add, finished
    <2> QED BY <2>1, <2>2
  <1>3. ASSUME stall(e) \/ \E w \in Workers : take(e, w) \/ fail(w, e)
        PROVE  /\ finished' \subseteq finished /\ queued' = queued
               /\ \A f \in Events : jobs'[f].state # "none" => jobs[f].state # "none"
    <2> DEFINE reopened == /\ jobs'[e].state \in {"waiting", "active", "failed"}
                           /\ \A f \in Events \ {e} : jobs'[f] = jobs[f]
    <2>1. jobs' = jobs \/ (jobs[e].state # "none" /\ reopened)
      <3>1. CASE stall(e)
        BY <1>1, <3>1, JobStates DEF stall
      <3>2. ASSUME NEW w \in Workers, take(e, w) PROVE jobs[e].state # "none" /\ reopened
        BY <1>1, <3>2, JobStates DEF take
      <3>3. ASSUME NEW w \in Workers, fail(w, e), owns(w, e)
            PROVE  jobs[e].state # "none" /\ reopened
        BY <1>1, <3>3, JobStates DEF fail, owns
      <3> QED BY <1>3, <3>1, <3>2, <3>3 DEF fail
    <2>2. queued' = queued
      BY <1>3 DEF stall, take, fail
    <2> QED BY <2>1, <2>2 DEF finished
  <1>4. ASSUME NEW w \in Workers, complete(w, e)
        PROVE  /\ finished' \subseteq finished \cup {e} /\ queued' = queued
               /\ \A f \in Events : jobs'[f].state # "none" => jobs[f].state # "none"
               /\ ~owns(w, e) => finished' = finished
    <2>1. CASE owns(w, e)
      <3>1. \A f \in Events : \/ jobs'[f] = NoJob \/ jobs'[f] = jobs[f]
                              \/ f = e /\ jobs[f].state # "none"
        <4> DEFINE full == Len(Append(kept, e)) > KeepCompleted
                   oldestDone == Head(Append(kept, e))
        <4>1. /\ jobs' = [f \in Events |-> IF full /\ f = oldestDone THEN NoJob
                                           ELSE IF f = e THEN resolved(jobs[f]) ELSE jobs[f]]
              /\ jobs[e].state # "none"
          BY <1>4, <2>1 DEF complete, owns
        <4> HIDE DEF full, oldestDone
        <4> QED BY <4>1
      <3>2. NoJob.state = "none" /\ queued' = queued
        BY <1>4, <2>1 DEF complete, NoJob
      <3> QED BY <2>1, <3>1, <3>2 DEF finished
    <2>2. CASE ~owns(w, e)
      BY <1>4, <2>2 DEF complete, queueVars, finished
    <2> QED BY <2>1, <2>2
  <1> QED BY <1>2, <1>3, <1>4

(* The routes complete no job and give no event a new one.                 *)
LEMMA AdminsMove ==
  ASSUME jobs \in [Events -> JobRecord], NEW o \in Operators, NEW e \in Events,
         GetJob(o, e) \/ RetryJob(o, e) \/ RemoveJob(o, e)
  PROVE  /\ finished' \subseteq finished /\ queued' = queued
         /\ \A f \in Events : jobs'[f].state # "none" => jobs[f].state # "none"
  <1>1. [jobs[e] EXCEPT !.state = "waiting"].state = "waiting" /\ NoJob.state = "none"
    BY JobStates DEF NoJob
  <1>2. \/ jobs' = jobs
        \/ /\ jobs[e].state # "none" /\ jobs'[e].state \in {"waiting", "none"}
           /\ \A f \in Events \ {e} : jobs'[f] = jobs[f]
    BY <1>1 DEF GetJob, RetryJob, RemoveJob, queueVars
  <1>3. queued' = queued
    BY DEF GetJob, RetryJob, RemoveJob, queueVars
  <1> QED BY <1>2, <1>3 DEF finished

(* An event is committed before anything else happens to it.               *)
LEMMA OriginStep ==
  ASSUME TypeOK, ProcessorInv, WorkerInv, OriginInv, Next
  PROVE  OriginInv'
  <1>0. /\ jobs \in [Events -> JobRecord] /\ rows \in [Events -> EventStatus]
        /\ working \in [Workers -> Events \cup {0}] /\ todo \in [Processors -> SUBSET Events]
        /\ queued \subseteq Events /\ 0 \notin Events
    BY DEF TypeOK, QueueTypeOK, OutboxTypeOK, DispatchTypeOK
  <1>1. ASSUME \A e \in Events : rows[e] # "NONE" => rows'[e] # "NONE",
               \A p \in Processors : \A e \in todo'[p] : e \in todo[p] \/ rows[e] # "NONE",
               queued \subseteq queued', \A e \in queued' : e \in queued \/ rows[e] # "NONE",
               queued' \subseteq Events, todo' \in [Processors -> SUBSET Events],
               \A e \in Events : jobs'[e].state # "none" => jobs[e].state # "none" \/ e \in queued',
               \A w \in Workers : \/ working'[w] = working[w] \/ working'[w] = 0
                                  \/ working'[w] \in queued
        PROVE  OriginInv'
    BY <1>0, <1>1 DEF OriginInv
  <1>2. CASE OutboxNext /\ UNCHANGED <<dispatchVars, adminVars>>
    <2>1. \A e \in Events : rows[e] # "NONE" => rows'[e] # "NONE"
      BY <1>0, <1>2, ProcessorEffect DEF Commit, markPublished, markFailed, resetForRetry
    <2>2. ASSUME NEW e \in Events, add(e), rows[e] # "NONE"
          PROVE  /\ queued \subseteq queued'
                 /\ \A f \in queued' : f \in queued \/ rows[f] # "NONE"
                 /\ queued' \subseteq Events
                 /\ \A f \in Events : jobs'[f].state # "none" => jobs[f].state # "none" \/ f \in queued'
      <3>1. /\ queued' = queued \cup {e}
            /\ \A f \in Events : jobs'[f].state # "none" => jobs[f].state # "none" \/ f = e
        BY <1>0, <2>2, JobsMove
      <3> QED BY <1>0, <2>2, <3>1
    <2>3. /\ queued \subseteq queued' /\ queued' \subseteq Events
          /\ \A e \in queued' : e \in queued \/ rows[e] # "NONE"
          /\ \A e \in Events : jobs'[e].state # "none" => jobs[e].state # "none" \/ e \in queued'
      BY <1>0, <1>2, <2>2, ProcessorEffect DEF queueVars
    <2>4. \A p \in Processors : \A e \in todo'[p] : e \in todo[p] \/ rows[e] # "NONE"
      <3>1. ASSUME NEW p \in Processors, Poll(p) PROVE \A q \in Processors : \A e \in todo'[q] :
                                                             e \in todo[q] \/ rows[e] # "NONE"
        BY <1>0, <3>1 DEF Poll, oldest, pending
      <3> QED BY <1>0, <1>2, <3>1
          DEF OutboxNext, processBatch, batchFails, Commit, GiveUp, Publish, Mark, Reset,
              PublishThrows, MarkThrows, BatchThrows, ProcessorDies, NextEvent, EndBatch, Await
    <2>5. todo' \in [Processors -> SUBSET Events] /\ working' = working
      BY <1>2, OutboxTypes DEF TypeOK, OutboxTypeOK, dispatchVars
    <2> QED BY <1>1, <2>1, <2>3, <2>4, <2>5
  <1>3. CASE DispatchNext /\ UNCHANGED <<outboxVars, adminVars>>
    <2>1. \A w \in Workers : working[w] # 0 => working[w] \in Events
      BY <1>0
    <2>2. \/ \E e \in Events : \/ stall(e)
                               \/ \E w \in Workers : take(e, w) \/ fail(w, e) \/ complete(w, e)
          \/ UNCHANGED queueVars
      BY <1>3, <2>1
         DEF DispatchNext, dispatch, dispatchFails, deliver, PickUp, Select, Finish, Refuse, Post,
             Record, RecordFails, SelectThrows, WorkerDies, JobStalled, JobStalledLive, Stalls
    <2>3. /\ queued' = queued
          /\ \A e \in Events : jobs'[e].state # "none" => jobs[e].state # "none"
      BY <1>0, <2>2, JobsMove DEF queueVars
    <2>4. \A w \in Workers : working'[w] = working[w] \/ working'[w] = 0 \/ working'[w] \in queued
      <3>1. ASSUME NEW w \in Workers, PickUp(w)
            PROVE  \E e \in queued : working' = [working EXCEPT ![w] = e]
        BY <3>1 DEF PickUp, take, OriginInv
      <3>2. CASE \E w \in Workers : PickUp(w)
        BY <1>0, <3>1, <3>2
      <3>3. CASE ~\E w \in Workers : PickUp(w)
        BY <1>0, <1>3, <3>3
           DEF DispatchNext, dispatch, dispatchFails, deliver, Select, Finish, Refuse, Post, Rest,
               Record, RecordFails, SelectThrows, WorkerDies, JobStalled, JobStalledLive, Stalls,
               dispatchVars
      <3> QED BY <3>2, <3>3
    <2> QED BY <1>0, <1>1, <1>3, <2>3, <2>4 DEF outboxVars
  <1>4. CASE AdminNext /\ UNCHANGED <<outboxVars, dispatchVars>>
    <2>1. /\ queued' = queued
          /\ \A e \in Events : jobs'[e].state # "none" => jobs[e].state # "none"
      BY <1>0, <1>4, AdminsMove DEF AdminNext
    <2> QED BY <1>0, <1>1, <1>4, <2>1 DEF outboxVars, dispatchVars
  <1> QED BY <1>2, <1>3, <1>4 DEF Next

-----------------------------------------------------------------------------
(* The whole invariant.                                                    *)

LEMMA DeliveryInit == Init => DeliveryInv
  <1> SUFFICES ASSUME Init PROVE DeliveryInv
    OBVIOUS
  <1>1. TypeOK
    BY TypeInit
  <1>2. ProcessorInv /\ PublishedWasQueued /\ FailedOnlyAfterRetries
    BY DEF Init, OutboxInit, ProcessorInv, knows, isNext, PublishedWasQueued,
           FailedOnlyAfterRetries
  <1>3. HoldersInv
    <2>1. ASSUME NEW e \in Events PROVE holders(e) = {}
      BY DEF Init, OutboxInit, holders
    <2>2. Cardinality(Processors) \in Nat /\ Cardinality(Processors) # 0
      BY FS_CardinalityType, FS_EmptySet
    <2>3. \A e \in Events : retries[e] = 0
      BY DEF Init, OutboxInit
    <2>4. \A e \in Events : Cardinality(holders(e)) = 0
      BY <2>1, FS_EmptySet
    <2> QED BY <2>2, <2>3, <2>4 DEF HoldersInv, exceeded
  <1>4. WorkerInv
    BY DEF Init, DispatchInit, WorkerInv, delivered, Unsent
  <1>5. CompletedWasSent /\ CompletedInv /\ KeptWasSent /\ QueuedIsNotLost
    BY DEF Init, QueueInit, NoJob, CompletedWasSent, CompletedInv, KeptWasSent, QueuedIsNotLost
  <1>6. OriginInv
    BY DEF Init, OutboxInit, QueueInit, DispatchInit, NoJob, OriginInv
  <1> QED BY <1>1, <1>2, <1>3, <1>4, <1>5, <1>6 DEF DeliveryInv

(* What the processors know does not depend on what the others do.         *)
LEMMA RowsStay ==
  ASSUME TypeOK, ProcessorInv, PublishedWasQueued, FailedOnlyAfterRetries, HoldersInv,
         UNCHANGED outboxVars, queued' = queued
  PROVE  ProcessorInv' /\ PublishedWasQueued' /\ FailedOnlyAfterRetries' /\ HoldersInv'
  <1> USE DEF outboxVars
  <1>1. ProcessorInv'
    BY DEF ProcessorInv, knows, isNext, exceeded
  <1>2. PublishedWasQueued' /\ FailedOnlyAfterRetries'
    BY DEF PublishedWasQueued, FailedOnlyAfterRetries
  <1>3. \A e \in Events : holders(e)' = holders(e)
    BY DEF holders, exceeded
  <1>4. HoldersInv'
    BY <1>3 DEF HoldersInv, exceeded
  <1> QED BY <1>1, <1>2, <1>4

LEMMA DeliveryStep ==
  ASSUME DeliveryInv, [Next]_vars
  PROVE  DeliveryInv'
  <1> USE DEF DeliveryInv
  <1>0. TypeOK'
    BY TypeStep
  <1>5. OriginInv'
    <2>1. CASE Next
      BY <2>1, OriginStep
    <2>2. CASE UNCHANGED vars
      BY <2>2 DEF vars, outboxVars, queueVars, dispatchVars, OriginInv
    <2> QED BY <2>1, <2>2
  <1>1. CASE OutboxNext /\ UNCHANGED <<dispatchVars, adminVars>>
    <2>1. ProcessorInv' /\ HoldersInv'
      BY <1>0, <1>1, ProcessorStep, HoldersStep
    <2>2. PublishedWasQueued' /\ FailedOnlyAfterRetries'
      <3>1. ASSUME NEW e \in Events
            PROVE  /\ rows'[e] = "PUBLISHED" => e \in queued'
                   /\ rows'[e] = "FAILED" => retries'[e] >= MaxRetries
        <4>1. /\ queued \subseteq queued'
              /\ retries[e] <= retries'[e]
              /\ rows'[e] = "PUBLISHED" => rows[e] = "PUBLISHED" \/ e \in queued
              /\ rows'[e] = "FAILED" => rows[e] = "FAILED" \/ exceeded(retries[e])
          BY <1>1, RowSteps
        <4>2. retries[e] \in Nat /\ retries'[e] \in Nat
          BY <1>0 DEF TypeOK, OutboxTypeOK
        <4> QED BY <4>1, <4>2 DEF PublishedWasQueued, FailedOnlyAfterRetries, exceeded
      <3> QED BY <3>1 DEF PublishedWasQueued, FailedOnlyAfterRetries
    <2> QED BY <1>0, <1>1, <1>5, <2>1, <2>2, CompletedKept, QueuedByProcessors
  <1>2. CASE DispatchNext /\ UNCHANGED <<outboxVars, adminVars>>
    <2>1. queued' = queued
      BY <1>2 DEF DispatchNext, dispatch, dispatchFails, deliver, PickUp, Select, Finish, Refuse,
                  Post, Record, RecordFails, SelectThrows, WorkerDies, JobStalled, JobStalledLive,
                  Stalls, take, complete, fail, stall, queueVars
    <2> QED BY <1>0, <1>2, <1>5, <2>1, RowsStay, WorkerStep, CompletedStep, QueuedByWorkers
  <1>3. CASE AdminNext /\ UNCHANGED <<outboxVars, dispatchVars>>
    <2>1. queued' = queued
      BY <1>3 DEF AdminNext, GetJob, RetryJob, RemoveJob, queueVars
    <2> QED BY <1>0, <1>3, <1>5, <2>1, RowsStay, CompletedByNoAdmin, QueuedByAdmins
  <1>4. CASE UNCHANGED vars
    <2>1. UNCHANGED <<outboxVars, queueVars, dispatchVars, adminVars, budget>>
      BY <1>4 DEF vars
    <2>2. ProcessorInv' /\ PublishedWasQueued' /\ FailedOnlyAfterRetries' /\ HoldersInv'
      BY <2>1, RowsStay DEF queueVars
    <2>3. WorkerInv'
      BY <2>1 DEF WorkerInv, delivered, dispatchVars, budget, Unsent
    <2>4. CompletedWasSent' /\ CompletedInv'
      BY <2>1 DEF CompletedWasSent, CompletedInv, queueVars, dispatchVars, budget
    <2>5. KeptWasSent' /\ QueuedIsNotLost'
      BY <2>1 DEF KeptWasSent, QueuedIsNotLost, EventsSent, queueVars, dispatchVars, adminVars
    <2> QED BY <1>0, <1>5, <2>2, <2>3, <2>4, <2>5
  <1> QED BY <1>1, <1>2, <1>3, <1>4 DEF Next

(* What processors and workers know from where they are holds for any      *)
(* number of them, and of events, failures and requests.                   *)
THEOREM DeliveryInvariant == Spec => []DeliveryInv
  BY DeliveryInit, DeliveryStep, PTL DEF Spec

-----------------------------------------------------------------------------
(* The results.                                                            *)

(* An event marked PUBLISHED was added to the queue, in every interleaving *)
(* of the processors of all pods and with any call failing after its       *)
(* effect.                                                                 *)
THEOREM EventsPublishedAreQueued == Spec => []PublishedWasQueued
  BY DeliveryInvariant, PTL DEF DeliveryInv

(* An event marked FAILED has used its retries, whatever other processors  *)
(* did to its row in between.                                              *)
THEOREM FailuresUseRetries == Spec => []FailedOnlyAfterRetries
  BY DeliveryInvariant, PTL DEF DeliveryInv

(* However many processors retry an event from stale counts, they exceed   *)
(* the limit by less than their number.                                    *)
THEOREM RetriesAreBounded == Spec => []RetriesBounded
  <1>1. DeliveryInv => RetriesBounded
    <2> SUFFICES ASSUME DeliveryInv, NEW e \in Events
                 PROVE  retries[e] < MaxRetries + Cardinality(Processors)
      BY DEF RetriesBounded
    <2>1. retries[e] \in Nat
      BY DEF DeliveryInv, TypeOK, OutboxTypeOK
    <2>2. Cardinality(Processors) \in Nat /\ Cardinality(holders(e)) \in Nat
      BY FS_CardinalityType, HoldersFinite
    <2>3. CASE exceeded(retries[e])
      BY <2>1, <2>2, <2>3 DEF DeliveryInv, HoldersInv
    <2>4. CASE ~exceeded(retries[e])
      BY <2>1, <2>2, <2>4 DEF exceeded
    <2> QED BY <2>3, <2>4
  <1> QED BY <1>1, DeliveryInvariant, PTL

(* A completed job was sent to every subscriber with a public URL,         *)
(* whichever of its runs stalled, died or was retried.                     *)
THEOREM CompletedJobsWereSent == Spec => []CompletedWasSent
  BY DeliveryInvariant, PTL DEF DeliveryInv

(* Whatever processors, workers and administrators do at the same time, a  *)
(* queued event that was not removed by one of them waits, is worked on,   *)
(* has failed, or was sent to every subscriber with a public URL.          *)
THEOREM QueuedEventsStay == Spec => []QueuedIsNotLost
  BY DeliveryInvariant, PTL DEF DeliveryInv

(* As long as no statement has failed, what was sent for a completed job   *)
(* is in the audit trail.                                                  *)
THEOREM AuditIsComplete == Spec => []AuditComplete
  <1>1. DeliveryInv => AuditComplete
    BY DEF DeliveryInv, WorkerInv, CompletedInv, AuditComplete
  <1> QED BY <1>1, DeliveryInvariant, PTL

-----------------------------------------------------------------------------
(* The promise of the outbox: Init maps to Init, a step to a step or a     *)
(* stutter.                                                                *)
LifeVars == <<rows, retries, queued, sent, finished>>

LEMMA LifeStarts == Init => Life!Init
BY DEF Init, OutboxInit, QueueInit, DispatchInit, NoJob, finished, Life!Init

(* Adding a job, committing an event and writing its row.                  *)
LEMMA LifeOfRows ==
  ASSUME DeliveryInv, OutboxNext, UNCHANGED <<dispatchVars, adminVars>>
  PROVE  [Life!Next]_LifeVars
<1>0. /\ jobs \in [Events -> JobRecord] /\ sent' = sent
      /\ TypeOK /\ ProcessorInv /\ OriginInv
  BY DEF DeliveryInv, TypeOK, QueueTypeOK, dispatchVars
<1>1. UNCHANGED queueVars => UNCHANGED <<queued, finished>>
  BY DEF queueVars, finished
<1>2. ASSUME NEW e \in Events, rows[e] # "NONE", add(e), UNCHANGED <<rows, retries>>
      PROVE  Life!Queue(e)
  <2>1. finished' = finished /\ queued' = queued \cup {e}
    BY <1>0, <1>2, JobsMove
  <2> QED BY <1>0, <1>2, <2>1 DEF Life!Queue, Life!row
<1>3. ASSUME UNCHANGED queueVars, NEW e \in Events, Commit(e)
      PROVE  Life!Commit(e)
  BY <1>0, <1>1, <1>3 DEF Commit, Life!Commit, Life!unsent
<1>4. ASSUME UNCHANGED queueVars, NEW e \in Events, rows[e] # "NONE",
             \/ e \in queued /\ markPublished(e)
             \/ exceeded(retries[e]) /\ markFailed(e)
             \/ resetForRetry(e)
      PROVE  Life!Publish(e) \/ Life!GiveUp(e) \/ Life!Retry(e)
  BY <1>0, <1>1, <1>4
     DEF markPublished, markFailed, resetForRetry, exceeded, Life!Publish, Life!GiveUp, Life!Retry,
         Life!become, Life!unsent
<1>5. CASE UNCHANGED queueVars /\ UNCHANGED <<rows, retries>>
  BY <1>0, <1>1, <1>5 DEF LifeVars
<1> QED BY <1>0, <1>2, <1>3, <1>4, <1>5, ProcessorEffect DEF Life!Next

(* A worker sends its event to a receiver or completes its job; the rest   *)
(* of what it does nobody sees.                                            *)
LEMMA LifeOfJobs ==
  ASSUME DeliveryInv, DispatchNext, UNCHANGED <<outboxVars, adminVars>>
  PROVE  [Life!Next]_LifeVars
<1>0. /\ jobs \in [Events -> JobRecord] /\ UNCHANGED <<rows, retries>>
      /\ \A w \in Workers : working[w] # 0 => working[w] \in Events /\ working[w] \in queued
      /\ \A w \in Workers : delivered(w)
  BY DEF DeliveryInv, TypeOK, QueueTypeOK, DispatchTypeOK, OriginInv, WorkerInv, outboxVars
<1>1. UNCHANGED queueVars => UNCHANGED <<queued, finished>>
  BY DEF queueVars, finished
<1>2. ASSUME NEW w \in Workers, NEW s \in Subscribers, Post(w, s)
      PROVE  Life!Send(working[w], s) /\ working[w] \in Events /\ s \in Subscribers \ Blocked
  <2>1. working[w] # 0
    BY <1>0, <1>2 DEF Post, delivered, Unsent
  <2> QED BY <1>0, <1>1, <1>2, <2>1 DEF Post, Life!Send, Life!row
<1>3. ASSUME NEW w \in Workers, Finish(w)
      PROVE  Life!Complete(working[w]) /\ working[w] \in Events
  <2>1. /\ working[w] \in Events /\ working[w] \in queued /\ complete(w, working[w]) /\ sent' = sent
        /\ \A s \in Subscribers : sends[w][s] = "settled"
    BY <1>0, <1>3 DEF Finish
  <2>2. Subscribers \ Blocked \subseteq sent[working[w]]
    BY <1>0, <2>1 DEF delivered
  <2>3. finished' \subseteq finished \cup {working[w]} /\ queued' = queued
    BY <1>0, <2>1, JobsMove
  <2> QED BY <1>0, <2>1, <2>2, <2>3 DEF Life!Complete, Life!row
<1>4. CASE ~ \E w \in Workers : Finish(w) \/ \E s \in Subscribers : Post(w, s)
  <2>1. sent' = sent
    BY <1>4 DEF DispatchNext, dispatch, dispatchFails, deliver, PickUp, Select, Refuse, Record,
                RecordFails, SelectThrows, WorkerDies, JobStalled, JobStalledLive, Stalls,
                dispatchVars
  <2>2. \/ \E e \in Events : stall(e) \/ \E w \in Workers : take(e, w) \/ fail(w, e)
        \/ UNCHANGED queueVars
    BY <1>0, <1>4
       DEF DispatchNext, dispatch, dispatchFails, deliver, PickUp, Select, Refuse, Record,
           RecordFails, SelectThrows, WorkerDies, JobStalled, JobStalledLive, Stalls
  <2>3. finished' \subseteq finished /\ queued' = queued
    BY <1>0, <1>1, <2>2, JobsMove
  <2> QED BY <1>0, <2>1, <2>3 DEF Life!Next, Life!Forget, Life!row
<1> QED BY <1>2, <1>3, <1>4 DEF Life!Next

LEMMA LifeOfRequests ==
  ASSUME DeliveryInv, AdminNext, UNCHANGED <<outboxVars, dispatchVars>>
  PROVE  [Life!Next]_LifeVars
<1>1. jobs \in [Events -> JobRecord] /\ UNCHANGED <<rows, retries, sent>>
  BY DEF DeliveryInv, TypeOK, QueueTypeOK, outboxVars, dispatchVars
<1>2. finished' \subseteq finished /\ queued' = queued
  BY <1>1, AdminsMove DEF AdminNext
<1> QED BY <1>1, <1>2 DEF Life!Next, Life!Forget, Life!row

(* Processors that overlap on the same rows, workers that die or overlap   *)
(* on the same job and administrators who retry and remove jobs together   *)
(* keep the promise of the outbox for every event: it is sent only after   *)
(* its transaction, marked only after it was queued, given up only after   *)
(* its retries, completed only after everyone was sent it.                 *)
THEOREM RefinesEventLife == Spec => FollowsEventLife
<1>1. DeliveryInv /\ [Next]_vars => [Life!Next]_LifeVars
  <2> SUFFICES ASSUME DeliveryInv, [Next]_vars PROVE [Life!Next]_LifeVars
    OBVIOUS
  <2>1. CASE UNCHANGED vars
    BY <2>1 DEF vars, outboxVars, queueVars, dispatchVars, LifeVars, finished
  <2>2. CASE Next
    BY <2>2, LifeOfRows, LifeOfJobs, LifeOfRequests DEF Next
  <2> QED BY <2>1, <2>2
<1>2. [Life!Next]_LifeVars => [Life!Next]_(Life!vars)
  BY DEF LifeVars, Life!vars, Life!row
<1> QED BY <1>1, <1>2, DeliveryInvariant, LifeStarts, PTL DEF Spec, FollowsEventLife, Life!Spec
=============================================================================
