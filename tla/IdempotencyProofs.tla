------------------------- MODULE IdempotencyProofs --------------------------
(***************************************************************************)
(* Proofs about Idempotency, for any requests, clients, keys and bodies    *)
(* and any pattern of outages, deaths and expiries.                        *)
(***************************************************************************)
EXTENDS Idempotency, SequenceTheorems, TLAPS

USE RequestsAssumption, OutagesAssumption

(* The steps that leave the answers as they are.                           *)
Moves(r) == Arrive(r) \/ GetFails(r) \/ Die(r) \/ Insert(r)

LEMMA StepKinds ==
  ASSUME Next
  PROVE  \E r \in Requests :
           Moves(r) \/ Get(r) \/ Reject(r) \/ InsertThrows(r) \/ Set(r) \/ SetFails(r) \/ Expire(r)
  BY DEF Next, Moves

LEMMA RepeatInit == Init => RepeatInv
  BY DEF Init, RepeatInv, TypeOK, Places, Answers, KeysUnique, SetInv, CreatedInv,
         ReplayIsOriginal, ConflictIsReal

LEMMA RepeatTypes ==
  ASSUME TypeOK, SetInv, [Next]_vars
  PROVE  TypeOK'
  <1> USE DEF TypeOK, Places, Answers, Goto, Answer, entry, store
  <1>1. ASSUME NEW r \in Requests, Moves(r) PROVE TypeOK'
    BY <1>1 DEF Moves, Arrive, GetFails, Die, Insert, SetInv
  <1>2. ASSUME NEW r \in Requests, Get(r) PROVE TypeOK'
    <2>1. CASE entry(r) = {} /\ Goto(r, "insert") /\ UNCHANGED reply
      BY <1>2, <2>1 DEF Get
    <2>2. ASSUME NEW q \in entry(r), NEW status \in {"replayed", "conflict"}, Answer(r, status, q)
          PROVE  TypeOK'
      <3>1. q \in Requests
        BY <2>2
      <3> QED BY <1>2, <2>2, <3>1 DEF Get
    <2> QED BY <1>2, <2>1, <2>2 DEF Get
  <1>3. ASSUME NEW r \in Requests, Reject(r) \/ InsertThrows(r) PROVE TypeOK'
    BY <1>3 DEF Reject, InsertThrows
  <1>4. ASSUME NEW r \in Requests, Set(r) \/ SetFails(r) PROVE TypeOK'
    BY <1>4 DEF Set, SetFails, SetInv
  <1>5. ASSUME NEW r \in Requests, Expire(r) PROVE TypeOK'
    BY <1>5 DEF Expire
  <1>6. CASE UNCHANGED vars
    BY <1>6 DEF vars
  <1> QED BY <1>1, <1>2, <1>3, <1>4, <1>5, <1>6, StepKinds

(* An order is only inserted while no other has its key.                   *)
LEMMA OrdersStep ==
  ASSUME TypeOK, KeysUnique, [Next]_vars
  PROVE  orders \subseteq orders' /\ KeysUnique'
  <1>1. \/ UNCHANGED orders
        \/ \E r \in Requests : ~taken(r) /\ orders' = orders \cup {r}
    BY DEF Next, vars, Arrive, Get, Insert, Reject, Set, Expire, GetFails, InsertThrows, SetFails, Die
  <1> QED BY <1>1 DEF KeysUnique, taken

(* What the request whose entry is found shares with the one that finds it. *)
sharesEntry(q, r) ==
  /\ redisKey(q) = redisKey(r)
  /\ alone(r) => q.client = r.client /\ q.key = r.key

LEMMA EntryShared ==
  ASSUME NEW r \in Requests, NEW q \in Requests, q \in entry(r)
  PROVE  sharesEntry(q, r)
  BY DEF entry, sharesEntry, sameSlot, alone

(* What a stored response or an answer says stays true as orders grow; a   *)
(* new answer rests on the entry it was read from, or on the own order.    *)
LEMMA AnswersStep ==
  ASSUME RepeatInv, TypeOK', orders \subseteq orders', [Next]_vars
  PROVE  SetInv' /\ CreatedInv' /\ ReplayIsOriginal' /\ ConflictIsReal'
  <1> USE DEF RepeatInv, TypeOK, Goto, SetInv, CreatedInv, ReplayIsOriginal, ConflictIsReal, sharesEntry
  <1>1. ASSUME NEW r \in Requests, Moves(r)
        PROVE  SetInv' /\ CreatedInv' /\ ReplayIsOriginal' /\ ConflictIsReal'
    <2>1. UNCHANGED reply
      BY <1>1 DEF Moves, Arrive, GetFails, Die, Insert
    <2>2. SetInv'
      BY <1>1 DEF Moves, Arrive, GetFails, Die, Insert
    <2> QED BY <2>1, <2>2
  <1>2. ASSUME NEW r \in Requests, NEW q \in Requests, NEW status \in Answers, Answer(r, status, q),
               status = "created" => r \in orders /\ q = r,
               status = "replayed" => q \in orders /\ sharesEntry(q, r) /\ q.body = r.body,
               status = "conflict" => q \in orders /\ sharesEntry(q, r) /\ q.body # r.body
        PROVE  SetInv' /\ CreatedInv' /\ ReplayIsOriginal' /\ ConflictIsReal'
    <2>1. /\ reply'[r].status = status /\ reply'[r].of = q /\ at'[r] = "done"
          /\ \A s \in Requests \ {r} : reply'[s] = reply[s] /\ at'[s] = at[s]
      BY <1>2 DEF Answer
    <2>2. SetInv'
      BY <2>1
    <2>3. CreatedInv'
      BY <1>2, <2>1
    <2>4. ReplayIsOriginal'
      BY <1>2, <2>1
    <2>5. ConflictIsReal'
      BY <1>2, <2>1
    <2> QED BY <2>2, <2>3, <2>4, <2>5
  <1>3. ASSUME NEW r \in Requests, Get(r)
        PROVE  SetInv' /\ CreatedInv' /\ ReplayIsOriginal' /\ ConflictIsReal'
    <2>1. CASE Goto(r, "insert") /\ UNCHANGED reply
      BY <2>1
    <2>2. ASSUME NEW q \in entry(r), Answer(r, IF sameHash(q, r) THEN "replayed" ELSE "conflict", q)
          PROVE  SetInv' /\ CreatedInv' /\ ReplayIsOriginal' /\ ConflictIsReal'
      <3>1. q \in Requests /\ q \in orders /\ sharesEntry(q, r)
        BY <2>2, EntryShared DEF entry
      <3>2. CASE sameHash(q, r)
        BY <1>2, <2>2, <3>1, <3>2 DEF sameHash, Answers
      <3>3. CASE ~sameHash(q, r)
        BY <1>2, <2>2, <3>1, <3>3 DEF sameHash, Answers
      <3> QED BY <3>2, <3>3
    <2> QED BY <1>3, <2>1, <2>2 DEF Get
  <1>4. ASSUME NEW r \in Requests, Reject(r) \/ InsertThrows(r) \/ Set(r) \/ SetFails(r)
        PROVE  SetInv' /\ CreatedInv' /\ ReplayIsOriginal' /\ ConflictIsReal'
    <2>1. CASE Reject(r) \/ InsertThrows(r)
      BY <1>2, <2>1 DEF Reject, InsertThrows, Answers
    <2>2. CASE Set(r) \/ SetFails(r)
      BY <1>2, <2>2 DEF Set, SetFails, Answers
    <2> QED BY <1>4, <2>1, <2>2
  <1>5. CASE UNCHANGED <<at, reply>>
    BY <1>5
  <1> QED BY <1>1, <1>3, <1>4, <1>5, StepKinds DEF Expire, vars

LEMMA RepeatInvariant == Spec => []RepeatInv
  <1>1. RepeatInv /\ [Next]_vars => RepeatInv'
    BY RepeatTypes, OrdersStep, AnswersStep DEF RepeatInv
  <1> QED BY <1>1, RepeatInit, PTL DEF Spec

-----------------------------------------------------------------------------
(* The types; a response is in Redis only with its order in the table.     *)
THEOREM RepeatTypeCorrect == Spec => []TypeOK
  BY RepeatInvariant, PTL DEF RepeatInv

(* Answers show orders that exist and never two of one key, although keys  *)
(* expire in Redis, Redis goes away, processes die, and two clients may    *)
(* make one Redis key.                                                     *)
THEOREM KeysGetOneOrder == Spec => []OneOrderPerKey
  <1>1. RepeatInv => OneOrderPerKey
    <2> SUFFICES ASSUME RepeatInv PROVE OneOrderPerKey
      OBVIOUS
    <2>1. \A r \in Requests : accepted(r) =>
            /\ reply[r].of \in orders
            /\ alone(r) => reply[r].of.key = r.key
      BY DEF RepeatInv, accepted, CreatedInv, ReplayIsOriginal
    <2> QED BY <2>1 DEF RepeatInv, KeysUnique, OneOrderPerKey
  <1> QED BY <1>1, RepeatInvariant, PTL

(* A replay is the response to a request with the same Redis key and body, *)
(* and to the same client's same request if no other pair makes that key.  *)
THEOREM ReplaysAreOriginal == Spec => []ReplayIsOriginal
  BY RepeatInvariant, PTL DEF RepeatInv

(* A conflict is only reported against an order of another body under the  *)
(* same Redis key: the client's own, if no other pair makes that key.      *)
THEOREM ConflictsAreReal == Spec => []ConflictIsReal
  BY RepeatInvariant, PTL DEF RepeatInv

(* When no key has a colon, as a UUID has none, every request is alone     *)
(* under its Redis key, whatever the clients call themselves: then replays *)
(* and conflicts are the same client's same key.                           *)
THEOREM PlainKeysAreAlone ==
  ASSUME \A k \in Keys : Len(k) = 1
  PROVE  \A r \in Requests : alone(r)
  <1> SUFFICES ASSUME NEW r \in Requests, NEW q \in Requests, redisKey(q) = redisKey(r)
               PROVE  q.client = r.client /\ q.key = r.key
    BY DEF alone, sameSlot
  <1> DEFINE C == q.client  K == q.key  D == r.client  L == r.key
  <1>1. C \in Seq(STRING) /\ K \in Seq(STRING) /\ D \in Seq(STRING) /\ L \in Seq(STRING)
        /\ Len(K) = 1 /\ Len(L) = 1
    BY HeadersAssumption
  <1>2. C \o K = D \o L
    BY DEF redisKey
  <1> HIDE DEF C, K, D, L
  <1>3. /\ Len(C \o K) = Len(C) + 1 /\ Len(D \o L) = Len(D) + 1
        /\ \A i \in 1..Len(C) + 1 : (C \o K)[i] = IF i <= Len(C) THEN C[i] ELSE K[i - Len(C)]
        /\ \A i \in 1..Len(D) + 1 : (D \o L)[i] = IF i <= Len(D) THEN D[i] ELSE L[i - Len(D)]
    <2>1. /\ Len(C \o K) = Len(C) + Len(K)
          /\ \A i \in 1..Len(C) + Len(K) : (C \o K)[i] = IF i <= Len(C) THEN C[i] ELSE K[i - Len(C)]
      BY <1>1, ConcatProperties, Zenon
    <2>2. /\ Len(D \o L) = Len(D) + Len(L)
          /\ \A i \in 1..Len(D) + Len(L) : (D \o L)[i] = IF i <= Len(D) THEN D[i] ELSE L[i - Len(D)]
      BY <1>1, ConcatProperties, Zenon
    <2> QED BY <1>1, <2>1, <2>2
  <1> DEFINE M == Len(C)  N == Len(D)
  <1>4. M \in Nat /\ N \in Nat
    BY <1>1
  <1>5. M = N
    <2> HIDE DEF M, N
    <2>1. M + 1 = N + 1
      BY <1>2, <1>3 DEF M, N
    <2> QED BY <2>1, <1>4
  <1>6. \A i \in 1..M : C[i] = D[i]
    BY <1>2, <1>3, <1>4, <1>5
  <1>7. K[1] = L[1]
    BY <1>2, <1>3, <1>4, <1>5
  <1>8. C = D
    BY <1>1, <1>5, <1>6, SeqEqual
  <1>9. K = L
    BY <1>1, <1>7, SeqEqual
  <1> QED BY <1>8, <1>9 DEF C, K, D, L

(* A stored response is never replaced by that of another request of its   *)
(* client and key: what is stored has its order, and a key has one.        *)
THEOREM EntriesStand == Spec => EntryStands
  <1> DEFINE Stands == \A q \in cached \ cached' :
                         ~\E r \in cached' : r.client = q.client /\ r.key = q.key
  <1>1. ASSUME RepeatInv, RepeatInv', [Next]_vars PROVE [Stands]_vars
    <2>1. orders \subseteq orders'
      BY <1>1, OrdersStep DEF RepeatInv
    <2>2. cached \subseteq orders' /\ cached' \subseteq orders'
      BY <1>1, <2>1 DEF RepeatInv, TypeOK
    <2> QED BY <1>1, <2>2 DEF RepeatInv, KeysUnique
  <1> QED BY <1>1, RepeatInvariant, PTL DEF Spec, EntryStands
=============================================================================
