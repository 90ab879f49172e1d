--------------------------- MODULE InventoryProofs --------------------------
(***************************************************************************)
(* Proofs about InventoryCalls: types, what the advisory locks exclude,    *)
(* and that the calls implement StockCalls.                                *)
(***************************************************************************)
EXTENDS InventoryCalls, FiniteSetTheorems, TLAPS

(* The parts of TypeOK that concern the locks, and the rest.               *)
CallTypeOK ==
  /\ stock  \in [Skus -> StockRow]
  /\ at     \in [Calls -> {"acquire", "findBySku", "update", "finally", "returned"}]
  /\ left   \in [Calls -> SUBSET Skus]
  /\ answer \in [Calls -> Outcome \cup {"none"}]

(* What a step does to the locks.  Locks are released all at once, by a    *)
(* call that leaves its try block, perhaps because acquire threw.          *)
Leaves(c) ==
  /\ ~over(c)
  /\ releaseAll(c)
  /\ locks' = locks \/ \E k \in Skus : acquireThrows(c, k)
  /\ faults' \in 0 .. MaxFaults
  /\ UNCHANGED <<via, forced, expiries>>

LockStep ==
  \/ \E c \in Calls, k \in Skus : ~over(c) /\ acquire(c, k) /\ UNCHANGED faults
  \/ \E c \in Calls : Leaves(c)
  \/ \E c \in Calls, k \in Skus, by \in Issuer : Unlock(c, k, by)
  \/ \E c \in Calls, k \in Skus : TimerFires(c, k)
  \/ \E s \in Sessions : SessionEnds(s)
  \/ UNCHANGED lockVars /\ faults' \in 0 .. MaxFaults

LEMMA GrantIsTyped ==
  ASSUME LockTypeOK, NEW c \in Calls, NEW k \in Skus, NEW s \in Pool[c], grant(s, k)
  PROVE  locks' \in [Sessions -> [Skus -> Nat]]
BY LockAssumption DEF LockTypeOK, grant

LEMMA ReleaseAllIsTyped ==
  ASSUME LockTypeOK, NEW c \in Calls, releaseAll(c)
  PROVE  /\ timer' \in [Calls -> [Skus -> {"none", "armed", "fired", "cleared"}]]
         /\ pending' \in [Calls -> SUBSET (Skus \X Issuer)]
<1>1. acquired(c) \X {"release"} \subseteq Skus \X Issuer
  BY DEF acquired, Issuer
<1>2. timer' \in [Calls -> [Skus -> {"none", "armed", "fired", "cleared"}]]
  BY DEF LockTypeOK, releaseAll
<1>3. pending' \in [Calls -> SUBSET (Skus \X Issuer)]
  <2>1. pending[c] \cup (acquired(c) \X {"release"}) \in SUBSET (Skus \X Issuer)
    BY <1>1 DEF LockTypeOK
  <2>2. QED BY <2>1 DEF LockTypeOK, releaseAll
<1>4. QED BY <1>2, <1>3

LEMMA LockTypeStep ==
  ASSUME LockTypeOK, LockStep
  PROVE  LockTypeOK'
<1>1. ASSUME NEW c \in Calls, NEW k \in Skus, acquire(c, k), UNCHANGED faults
      PROVE  LockTypeOK'
  <2>1. PICK s \in Pool[c] : /\ grant(s, k) /\ via' = [via EXCEPT ![c][k] = s]
                             /\ timer' = [timer EXCEPT ![c][k] = "armed"]
                             /\ UNCHANGED <<pending, forced, expiries>>
    BY <1>1 DEF acquire
  <2>2. locks' \in [Sessions -> [Skus -> Nat]]
    BY <2>1, GrantIsTyped
  <2>3. via' \in [Calls -> [Skus -> Sessions \cup {NoSession}]]
    BY <2>1, LockAssumption DEF LockTypeOK
  <2>4. timer' \in [Calls -> [Skus -> {"none", "armed", "fired", "cleared"}]]
    BY <2>1 DEF LockTypeOK
  <2>5. QED BY <1>1, <2>1, <2>2, <2>3, <2>4 DEF LockTypeOK
<1>2. ASSUME NEW c \in Calls, Leaves(c) PROVE LockTypeOK'
  <2>1. locks' \in [Sessions -> [Skus -> Nat]]
    <3>1. CASE locks' = locks
      BY <3>1 DEF LockTypeOK
    <3>2. ASSUME NEW k \in Skus, NEW s \in Pool[c], grant(s, k)
          PROVE  locks' \in [Sessions -> [Skus -> Nat]]
      BY <3>2, GrantIsTyped
    <3>3. QED BY <1>2, <3>1, <3>2 DEF Leaves, acquireThrows
  <2>2. QED BY <1>2, <2>1, ReleaseAllIsTyped DEF LockTypeOK, Leaves
<1>3. ASSUME NEW c \in Calls, NEW k \in Skus, NEW by \in Issuer, Unlock(c, k, by)
      PROVE  LockTypeOK'
  <2>1. locks' \in [Sessions -> [Skus -> Nat]] /\ faults' \in 0 .. MaxFaults
    <3>1. CASE (\E s \in Pool[c] : unlock(s, k)) /\ UNCHANGED faults
      <4>1. PICK s \in Pool[c] : unlock(s, k)
        BY <3>1
      <4>2. s \in Sessions
        BY LockAssumption
      <4>3. (IF locks[s][k] > 0 THEN locks[s][k] - 1 ELSE 0) \in Nat
        BY <4>2 DEF LockTypeOK
      <4>4. QED BY <3>1, <4>1, <4>2, <4>3 DEF LockTypeOK, unlock
    <3>2. CASE Fault /\ UNCHANGED locks
      BY <3>2, LockBounds DEF LockTypeOK, Fault
    <3>3. QED BY <1>3, <3>1, <3>2 DEF Unlock
  <2>2. pending' \in [Calls -> SUBSET (Skus \X Issuer)]
    BY <1>3 DEF LockTypeOK, Unlock
  <2>3. via' \in [Calls -> [Skus -> Sessions \cup {NoSession}]]
    BY <1>3 DEF LockTypeOK, Unlock
  <2>4. QED BY <1>3, <2>1, <2>2, <2>3 DEF LockTypeOK, Unlock
<1>4. ASSUME NEW c \in Calls, NEW k \in Skus, TimerFires(c, k) PROVE LockTypeOK'
  <2>1. pending' \in [Calls -> SUBSET (Skus \X Issuer)]
    <3>1. <<k, "ttl">> \in Skus \X Issuer
      BY DEF Issuer
    <3>2. QED BY <1>4, <3>1 DEF LockTypeOK, TimerFires
  <2>2. timer' \in [Calls -> [Skus -> {"none", "armed", "fired", "cleared"}]]
    BY <1>4 DEF LockTypeOK, TimerFires
  <2>3. QED BY <1>4, <2>1, <2>2, LockBounds DEF LockTypeOK, TimerFires, Expiry
<1>5. ASSUME NEW s \in Sessions, SessionEnds(s) PROVE LockTypeOK'
  <2>1. locks' \in [Sessions -> [Skus -> Nat]]
    BY <1>5 DEF LockTypeOK, SessionEnds
  <2>2. via' \in [Calls -> [Skus -> Sessions \cup {NoSession}]]
    BY <1>5 DEF LockTypeOK, SessionEnds
  <2>3. QED BY <1>5, <2>1, <2>2, LockBounds DEF LockTypeOK, SessionEnds, Expiry
<1>6. CASE UNCHANGED lockVars /\ faults' \in 0 .. MaxFaults
  BY <1>6 DEF LockTypeOK, lockVars
<1>7. QED BY <1>1, <1>2, <1>3, <1>4, <1>5, <1>6 DEF LockStep

-----------------------------------------------------------------------------
(* Every step of Next is a LockStep.                                       *)
LEMMA FaultIsTyped ==
  ASSUME LockTypeOK, Fault
  PROVE  faults' \in 0 .. MaxFaults
BY LockBounds DEF LockTypeOK, Fault

LEMMA StepsAreLockSteps ==
  ASSUME TypeOK, Placed, [Next]_vars
  PROVE  LockStep
<1> USE DEF TypeOK
<1>1. ASSUME NEW c \in Calls, NEW r \in Outcome, Leave(c, r), ~over(c), UNCHANGED locks,
             faults' \in 0 .. MaxFaults
      PROVE  LockStep
  BY <1>1 DEF Leave, Leaves, LockStep
<1>2. faults \in 0 .. MaxFaults
  BY DEF LockTypeOK
<1>3. ASSUME NEW c \in Calls, NEW k \in Skus, Acquire(c, k) PROVE LockStep
  BY <1>1, <1>2, <1>3 DEF Acquire, LockStep, over, Outcome
<1>4. ASSUME NEW c \in Calls, NEW k \in Skus, FindBySku(c, k) PROVE LockStep
  BY <1>1, <1>2, <1>4 DEF FindBySku, LockStep, over, Outcome
<1>5. ASSUME NEW c \in Calls, NEW k \in Skus, Update(c, k) PROVE LockStep
  BY <1>1, <1>2, <1>5 DEF Update, LockStep, over, Outcome
<1>6. ASSUME NEW c \in Calls, NEW k \in Skus, Throws(c, k) PROVE LockStep
  <2>1. ~over(c) /\ (locks' = locks \/ acquireThrows(c, k))
    BY <1>6 DEF Throws, over
  <2>2. QED BY <1>6, <2>1, FaultIsTyped DEF Throws, Leave, Leaves, LockStep
<1>7. ASSUME NEW c \in Calls, AllDone(c) PROVE LockStep
  BY <1>1, <1>2, <1>7 DEF AllDone, over, Outcome
<1>8. ASSUME NEW c \in Calls, Return(c) PROVE LockStep
  BY <1>2, <1>8 DEF Return, LockStep
<1>9. CASE UNCHANGED vars
  BY <1>2, <1>9 DEF vars, LockStep
<1>10. QED
  BY <1>3, <1>4, <1>5, <1>6, <1>7, <1>8, <1>9 DEF Next, step, LockStep

(* The rest of the types: availability stays a natural number because the  *)
(* UPDATE looks at it.                                                     *)
LEMMA UpdateIsTyped ==
  ASSUME TypeOK, NEW c \in Calls, NEW k \in Skus, affectsRow(c, k), updated(c, k)
  PROVE  stock' \in [Skus -> StockRow]
<1>1. stock[k] \in StockRow /\ Qty[c][k] \in Nat
  BY CallAssumption DEF TypeOK
<1>2. CASE c \in Reserving
  <2>1. reserve(stock[k], Qty[c][k]) \in StockRow
    BY <1>1, <1>2 DEF affectsRow, canReserve, reserve, StockRow
  <2>2. stock' = [stock EXCEPT ![k] = reserve(stock[k], Qty[c][k])]
    BY <1>2 DEF updated
  <2>3. QED BY <2>1, <2>2 DEF TypeOK
<1>3. CASE c \notin Reserving
  <2>1. release(stock[k], Qty[c][k]) \in StockRow
    BY <1>1 DEF release, greatest0, StockRow
  <2>2. stock' = [stock EXCEPT ![k] = release(stock[k], Qty[c][k])]
    BY <1>3 DEF updated
  <2>3. QED BY <2>1, <2>2 DEF TypeOK
<1>4. QED BY <1>2, <1>3

LEMMA CallTypeStep ==
  ASSUME TypeOK, [Next]_vars
  PROVE  CallTypeOK'
<1> USE DEF TypeOK, CallTypeOK
<1>1. ASSUME NEW c \in Calls, NEW r \in Outcome, Leave(c, r)
      PROVE  /\ at' \in [Calls -> {"acquire", "findBySku", "update", "finally", "returned"}]
             /\ answer' \in [Calls -> Outcome \cup {"none"}]
  BY <1>1 DEF Leave, Goto
<1>2. ASSUME NEW c \in Calls, NEW k \in Skus, ticked(c, k)
      PROVE  left' \in [Calls -> SUBSET Skus]
  BY <1>2 DEF ticked
<1>3. ASSUME NEW c \in Calls, NEW k \in Skus, Acquire(c, k) PROVE CallTypeOK'
  BY <1>1, <1>3 DEF Acquire, Goto, Outcome
<1>4. ASSUME NEW c \in Calls, NEW k \in Skus, FindBySku(c, k) PROVE CallTypeOK'
  BY <1>1, <1>4 DEF FindBySku, Goto, Outcome
<1>5. ASSUME NEW c \in Calls, NEW k \in Skus, Update(c, k) PROVE CallTypeOK'
  <2>1. CASE affectsRow(c, k)
    BY <1>2, <1>5, <2>1, UpdateIsTyped DEF Update, Goto
  <2>2. CASE ~affectsRow(c, k)
    BY <1>1, <1>5, <2>2 DEF Update, Outcome
  <2>3. QED BY <2>1, <2>2
<1>6. ASSUME NEW c \in Calls, NEW k \in Skus, Throws(c, k) PROVE CallTypeOK'
  <2>1. CASE UNCHANGED <<stock, left>>
    BY <1>1, <1>6, <2>1 DEF Throws, Outcome
  <2>2. CASE affectsRow(c, k) /\ updated(c, k) /\ ticked(c, k)
    BY <1>1, <1>2, <1>6, <2>2, UpdateIsTyped DEF Throws, Outcome
  <2>3. QED BY <1>6, <2>1, <2>2 DEF Throws
<1>7. ASSUME NEW c \in Calls, AllDone(c) PROVE CallTypeOK'
  BY <1>1, <1>7 DEF AllDone, Outcome
<1>8. ASSUME NEW c \in Calls, Return(c) PROVE CallTypeOK'
  BY <1>8 DEF Return, Goto
<1>9. CASE UNCHANGED callVars
  BY <1>9 DEF callVars
<1>10. QED
  BY <1>3, <1>4, <1>5, <1>6, <1>7, <1>8, <1>9 DEF Next, step, vars, callVars

-----------------------------------------------------------------------------
(* No two sessions hold one lock: acquire looks at the others, unlock and  *)
(* the end of a session only take locks away.                              *)
LEMMA GrantKeepsOneSession ==
  ASSUME LockTypeOK, OneSession, NEW k \in Skus, NEW s \in Sessions, free(s, k), grant(s, k)
  PROVE  OneSession'
BY DEF LockTypeOK, OneSession, free, grant

LEMMA OneSessionStep ==
  ASSUME LockTypeOK, OneSession, LockStep
  PROVE  OneSession'
<1>1. ASSUME NEW c \in Calls, NEW k \in Skus, acquire(c, k) PROVE OneSession'
  BY <1>1, LockAssumption, GrantKeepsOneSession DEF acquire
<1>2. ASSUME NEW c \in Calls, Leaves(c) PROVE OneSession'
  <2>1. CASE locks' = locks
    BY <2>1 DEF OneSession
  <2>2. ASSUME NEW k \in Skus, NEW s \in Pool[c], free(s, k), grant(s, k) PROVE OneSession'
    BY <2>2, LockAssumption, GrantKeepsOneSession
  <2>3. QED BY <1>2, <2>1, <2>2 DEF Leaves, acquireThrows
<1>3. ASSUME NEW c \in Calls, NEW k \in Skus, NEW by \in Issuer, Unlock(c, k, by)
      PROVE  OneSession'
  <2>1. ASSUME NEW s \in Pool[c], unlock(s, k) PROVE OneSession'
    BY <2>1, LockAssumption DEF LockTypeOK, OneSession, unlock
  <2>2. CASE UNCHANGED locks
    BY <2>2 DEF OneSession
  <2>3. QED BY <1>3, <2>1, <2>2 DEF Unlock
<1>4. ASSUME NEW c \in Calls, NEW k \in Skus, TimerFires(c, k) PROVE OneSession'
  BY <1>4 DEF TimerFires, OneSession
<1>5. ASSUME NEW s \in Sessions, SessionEnds(s) PROVE OneSession'
  BY <1>5 DEF SessionEnds, LockTypeOK, OneSession
<1>6. CASE UNCHANGED lockVars
  BY <1>6 DEF lockVars, OneSession
<1>7. QED BY <1>1, <1>2, <1>3, <1>4, <1>5, <1>6 DEF LockStep

-----------------------------------------------------------------------------
(* Counting claims.                                                        *)
LEMMA ClaimsAreFinite ==
  ASSUME NEW s, NEW k
  PROVE  IsFiniteSet(claims(s, k)) /\ Cardinality(claims(s, k)) \in Nat
BY LockAssumption, FS_Subset, FS_CardinalityType DEF claims

(* Claims that become fewer stay backed by as many locks.                  *)
LEMMA FewerClaims ==
  ASSUME NEW S, NEW T, IsFiniteSet(T), S \subseteq T
  PROVE  Cardinality(S) \in Nat /\ Cardinality(T) \in Nat /\ Cardinality(S) <= Cardinality(T)
BY FS_Subset, FS_CardinalityType

(* A session in which a call has a claim holds the lock.                   *)
LEMMA ClaimedIsLocked ==
  ASSUME LockTypeOK, Backed, NEW c \in Calls, NEW k \in Skus \ forced, via[c][k] # NoSession
  PROVE  via[c][k] \in Sessions /\ locks[via[c][k]][k] > 0
<1>1. via[c][k] \in Sessions
  BY DEF LockTypeOK
<1> DEFINE s == via[c][k]
<1>2. {c} \subseteq claims(s, k)
  BY DEF claims
<1>3. 1 <= Cardinality(claims(s, k))
  <2>1. Cardinality({c}) = 1
    BY FS_Singleton
  <2>2. IsFiniteSet(claims(s, k))
    BY ClaimsAreFinite
  <2>3. Cardinality({c}) <= Cardinality(claims(s, k))
    BY <1>2, <2>2, FewerClaims
  <2>4. QED BY <2>1, <2>3
<1>4. locks[s][k] >= Cardinality(claims(s, k)) /\ locks[s][k] \in Nat
  BY <1>1 DEF Backed, LockTypeOK
<1>5. QED BY <1>1, <1>3, <1>4, ClaimsAreFinite

LEMMA BackedStep ==
  ASSUME LockTypeOK, OneSession, Backed, Issued, LockStep
  PROVE  Backed'
<1> SUFFICES ASSUME NEW j \in Skus \ forced', NEW t \in Sessions
             PROVE  locks'[t][j] >= Cardinality(claims(t, j)')
  BY DEF Backed
<1>0. /\ j \notin forced => locks[t][j] >= Cardinality(claims(t, j))
      /\ locks[t][j] \in Nat /\ Cardinality(claims(t, j)) \in Nat
      /\ IsFiniteSet(claims(t, j))
  BY ClaimsAreFinite DEF Backed, LockTypeOK
<1>1. ASSUME NEW c \in Calls, NEW k \in Skus, acquire(c, k)
      PROVE  locks'[t][j] >= Cardinality(claims(t, j)')
  <2>1. PICK s \in Pool[c] : /\ grant(s, k) /\ via' = [via EXCEPT ![c][k] = s]
                             /\ UNCHANGED forced
    BY <1>1 DEF acquire
  <2>2. s \in Sessions
    BY LockAssumption
  <2>3. CASE s = t /\ k = j
    <3>1. locks'[t][j] = locks[t][j] + 1
      BY <2>1, <2>2, <2>3 DEF grant, LockTypeOK
    <3>2. claims(t, j)' \subseteq claims(t, j) \cup {c}
      BY <2>1 DEF claims, LockTypeOK
    <3>3. /\ IsFiniteSet(claims(t, j) \cup {c})
          /\ Cardinality(claims(t, j) \cup {c}) \in
               {Cardinality(claims(t, j)), Cardinality(claims(t, j)) + 1}
      BY <1>0, FS_AddElement
    <3>4. QED BY <1>0, <2>1, <3>1, <3>2, <3>3, FewerClaims
  <2>4. CASE ~(s = t /\ k = j)
    <3>1. locks'[t][j] = locks[t][j]
      BY <2>1, <2>2, <2>4 DEF grant, LockTypeOK
    <3>2. claims(t, j)' \subseteq claims(t, j)
      BY <2>1, <2>4 DEF claims, LockTypeOK
    <3>3. QED BY <1>0, <2>1, <3>1, <3>2, FewerClaims
  <2>5. QED BY <2>3, <2>4
<1>2. ASSUME NEW c \in Calls, Leaves(c)
      PROVE  locks'[t][j] >= Cardinality(claims(t, j)')
  <2>1. claims(t, j)' = claims(t, j) /\ j \notin forced
    BY <1>2 DEF Leaves, claims
  <2>2. locks'[t][j] >= locks[t][j] /\ locks'[t][j] \in Nat
    <3>1. ASSUME NEW k \in Skus, NEW s \in Pool[c], grant(s, k)
          PROVE  locks'[t][j] >= locks[t][j] /\ locks'[t][j] \in Nat
      BY <1>0, <3>1, LockAssumption DEF grant, LockTypeOK
    <3>2. QED BY <1>0, <1>2, <3>1 DEF Leaves, acquireThrows
  <2>3. QED BY <1>0, <2>1, <2>2
<1>3. ASSUME NEW c \in Calls, NEW k \in Skus, NEW by \in Issuer, Unlock(c, k, by)
      PROVE  locks'[t][j] >= Cardinality(claims(t, j)')
  <2>1. /\ via' = [via EXCEPT ![c][k] = NoSession]
        /\ j \notin forced
    BY <1>3 DEF Unlock
  <2>2. claims(t, j)' \subseteq claims(t, j)
    BY <2>1, LockAssumption DEF claims, LockTypeOK, NoSession
  <2>3. CASE locks'[t][j] = locks[t][j]
    BY <1>0, <2>1, <2>2, <2>3, FewerClaims
  <2>4. CASE locks'[t][j] # locks[t][j]
    <3>1. PICK s \in Pool[c] : unlock(s, k)
      BY <1>3, <2>4 DEF Unlock
    <3>2. s = t /\ k = j /\ locks[t][j] > 0 /\ locks'[t][j] = locks[t][j] - 1
      BY <2>4, <3>1, LockAssumption DEF unlock, LockTypeOK
    <3>3. via[c][j] # NoSession
      BY <1>3, <2>1, <3>2 DEF Unlock, Issued
    <3>4. via[c][j] = t
      BY <2>1, <3>2, <3>3, ClaimedIsLocked DEF OneSession
    <3>5. claims(t, j)' \subseteq claims(t, j) \ {c} /\ c \in claims(t, j)
      BY <2>1, <2>2, <3>2, <3>4, LockAssumption DEF claims, LockTypeOK, NoSession
    <3>6. /\ IsFiniteSet(claims(t, j) \ {c})
          /\ Cardinality(claims(t, j) \ {c}) = Cardinality(claims(t, j)) - 1
      BY <1>0, <3>5, FS_RemoveElement
    <3>7. QED BY <1>0, <2>1, <3>2, <3>5, <3>6, FewerClaims
  <2>5. QED BY <2>3, <2>4
<1>4. ASSUME NEW c \in Calls, NEW k \in Skus, TimerFires(c, k)
      PROVE  locks'[t][j] >= Cardinality(claims(t, j)')
  BY <1>0, <1>4 DEF TimerFires, claims
<1>5. ASSUME NEW s \in Sessions, SessionEnds(s)
      PROVE  locks'[t][j] >= Cardinality(claims(t, j)')
  <2>1. j \notin forced /\ claims(t, j)' \subseteq claims(t, j)
    BY <1>5, LockAssumption DEF SessionEnds, claims, LockTypeOK, NoSession
  <2>2. CASE t = s
    <3>1. claims(t, j)' = {}
      BY <1>5, <2>2, LockAssumption DEF SessionEnds, claims, NoSession
    <3>2. locks'[t][j] = 0
      BY <1>5, <2>2 DEF SessionEnds, LockTypeOK
    <3>3. QED BY <3>1, <3>2, FS_EmptySet
  <2>3. CASE t # s
    <3>1. locks'[t][j] = locks[t][j]
      BY <1>5, <2>3 DEF SessionEnds, LockTypeOK
    <3>2. QED BY <1>0, <2>1, <3>1, FewerClaims
  <2>4. QED BY <2>2, <2>3
<1>6. CASE UNCHANGED lockVars
  BY <1>0, <1>6 DEF lockVars, claims
<1>7. QED BY <1>1, <1>2, <1>3, <1>4, <1>5, <1>6 DEF LockStep

(* Issued, for one call and one lock.                                      *)
Held(d, j) ==
  /\ timer[d][j] # "fired"
  /\ timer[d][j] = "armed" => via[d][j] # NoSession
  /\ \A by \in Issuer : <<j, by>> \in pending[d] =>
       by = "release" /\ timer[d][j] = "cleared" /\ via[d][j] # NoSession

LEMMA IssuedStep ==
  ASSUME LockTypeOK, Issued, Placed, LockStep
  PROVE  Issued'
<1> SUFFICES ASSUME NEW d \in Calls, NEW j \in Skus \ forced'
             PROVE  Held(d, j)'
  BY DEF Issued, Held
<1>0. j \notin forced =>
        /\ timer[d][j] # "fired"
        /\ timer[d][j] = "armed" => via[d][j] # NoSession
        /\ \A by \in Issuer : <<j, by>> \in pending[d] =>
             by = "release" /\ timer[d][j] = "cleared" /\ via[d][j] # NoSession
  BY DEF Issued
<1>1. ASSUME NEW c \in Calls, NEW k \in Skus, acquire(c, k), ~over(c) PROVE Held(d, j)'
  <2>1. PICK s \in Sessions : /\ via' = [via EXCEPT ![c][k] = s]
                              /\ timer' = [timer EXCEPT ![c][k] = "armed"]
                              /\ UNCHANGED <<pending, forced>>
    BY <1>1, LockAssumption DEF acquire
  <2>2. CASE d = c /\ j = k
    <3>1. via'[d][j] = s /\ timer'[d][j] = "armed" /\ s # NoSession
      BY <2>1, <2>2, LockAssumption DEF LockTypeOK, NoSession
    <3>2. timer[d][j] # "cleared"
      BY <1>1, <2>2 DEF Placed
    <3>3. QED BY <1>0, <2>1, <3>1, <3>2 DEF Held
  <2>3. CASE ~(d = c /\ j = k)
    <3>1. via'[d][j] = via[d][j] /\ timer'[d][j] = timer[d][j]
      BY <2>1, <2>3 DEF LockTypeOK
    <3>2. QED BY <1>0, <2>1, <3>1 DEF Held
  <2>4. QED BY <2>2, <2>3
<1>2. ASSUME NEW c \in Calls, Leaves(c) PROVE Held(d, j)'
  <2>1. UNCHANGED <<via, forced>> /\ ~over(c)
    BY <1>2 DEF Leaves
  <2>2. CASE d = c
    <3>1. timer[d][j] \in {"none", "armed"}
      BY <1>0, <2>1, <2>2 DEF Placed, LockTypeOK
    <3>2. /\ timer'[d][j] = IF timer[d][j] = "armed" THEN "cleared" ELSE timer[d][j]
          /\ pending'[d] = pending[d] \cup (acquired(d) \X {"release"})
      BY <1>2, <2>2 DEF Leaves, releaseAll, LockTypeOK
    <3>3. \A by \in Issuer : <<j, by>> \in pending'[d] => by = "release" /\ timer[d][j] = "armed"
      BY <1>0, <2>1, <3>1, <3>2 DEF acquired
    <3>4. QED BY <1>0, <2>1, <3>1, <3>2, <3>3 DEF Held
  <2>3. CASE d # c
    <3>1. timer'[d] = timer[d] /\ pending'[d] = pending[d]
      BY <1>2, <2>3 DEF Leaves, releaseAll, LockTypeOK
    <3>2. QED BY <1>0, <2>1, <3>1 DEF Held
  <2>4. QED BY <2>2, <2>3
<1>3. ASSUME NEW c \in Calls, NEW k \in Skus, NEW by \in Issuer, Unlock(c, k, by)
      PROVE  Held(d, j)'
  <2>1. /\ pending' = [pending EXCEPT ![c] = @ \ {<<k, by>>}]
        /\ via' = [via EXCEPT ![c][k] = NoSession]
        /\ UNCHANGED <<timer, forced>> /\ <<k, by>> \in pending[c]
    BY <1>3 DEF Unlock
  <2>2. CASE d = c /\ j = k
    <3>1. by = "release" /\ timer[d][j] = "cleared"
      BY <1>0, <2>1, <2>2
    <3>2. \A b \in Issuer : <<j, b>> \notin pending'[d]
      BY <1>0, <2>1, <2>2, <3>1 DEF LockTypeOK
    <3>3. QED BY <2>1, <3>1, <3>2 DEF Held
  <2>3. CASE ~(d = c /\ j = k)
    <3>1. via'[d][j] = via[d][j]
      BY <2>1, <2>3 DEF LockTypeOK
    <3>2. \A b \in Issuer : <<j, b>> \in pending'[d] => <<j, b>> \in pending[d]
      BY <2>1 DEF LockTypeOK
    <3>3. QED BY <1>0, <2>1, <3>1, <3>2 DEF Held
  <2>4. QED BY <2>2, <2>3
<1>4. ASSUME NEW c \in Calls, NEW k \in Skus, TimerFires(c, k) PROVE Held(d, j)'
  <2>1. j # k /\ j \notin forced /\ UNCHANGED via
    BY <1>4 DEF TimerFires
  <2>2. timer'[d][j] = timer[d][j]
    BY <1>4, <2>1 DEF TimerFires, LockTypeOK
  <2>3. \A b \in Issuer : <<j, b>> \in pending'[d] => <<j, b>> \in pending[d]
    BY <1>4, <2>1 DEF TimerFires, LockTypeOK
  <2>4. QED BY <1>0, <2>1, <2>2, <2>3 DEF Held
<1>5. ASSUME NEW s \in Sessions, SessionEnds(s) PROVE Held(d, j)'
  <2>1. j \notin forced /\ via[d][j] # s /\ UNCHANGED <<timer, pending>>
    BY <1>5 DEF SessionEnds
  <2>2. via'[d][j] = via[d][j]
    BY <1>5, <2>1 DEF SessionEnds
  <2>3. QED BY <1>0, <2>1, <2>2 DEF Held
<1>6. CASE UNCHANGED lockVars
  BY <1>0, <1>6 DEF lockVars, Held
<1>7. QED BY <1>1, <1>2, <1>3, <1>4, <1>5, <1>6 DEF LockStep

-----------------------------------------------------------------------------
(* Placed, for one call.                                                   *)
PlacedAt(c) ==
  /\ left[c] \subseteq sorted(c)
  /\ over(c) <=> answer[c] # "none"
  /\ answer[c] = "true" => left[c] = {}
  /\ at[c] = "findBySku" => c \in Reserving
  /\ ~over(c) => \A k \in Skus : timer[c][k] # "cleared"

LEMMA LeaveIsPlaced ==
  ASSUME TypeOK, NEW c \in Calls, PlacedAt(c), NEW r \in Outcome, Leave(c, r),
         left'[c] \subseteq left[c], r = "true" => left'[c] = {}
  PROVE  PlacedAt(c)'
BY DEF TypeOK, PlacedAt, Leave, Goto, over, sorted, Outcome

(* A step of one call leaves the others where they are.                    *)
LEMMA OthersStay ==
  ASSUME TypeOK, NEW c \in Calls, NEW d \in Calls, d # c,
         step(c) \/ \E k \in Skus : Throws(c, k)
  PROVE  /\ left'[d] = left[d] /\ at'[d] = at[d] /\ answer'[d] = answer[d]
         /\ timer'[d] = timer[d]
<1>1. ASSUME NEW r, Leave(c, r)
      PROVE  at'[d] = at[d] /\ answer'[d] = answer[d] /\ timer'[d] = timer[d]
  BY <1>1 DEF Leave, Goto, releaseAll, TypeOK, LockTypeOK
<1>2. ASSUME NEW k \in Skus, Acquire(c, k)
      PROVE  left' = left /\ at'[d] = at[d] /\ answer'[d] = answer[d] /\ timer'[d] = timer[d]
  BY <1>1, <1>2 DEF Acquire, acquire, Goto, TypeOK, LockTypeOK
<1>3. ASSUME NEW k \in Skus, FindBySku(c, k)
      PROVE  left' = left /\ at'[d] = at[d] /\ answer'[d] = answer[d] /\ timer'[d] = timer[d]
  BY <1>1, <1>3 DEF FindBySku, Goto, TypeOK, lockVars
<1>4. ASSUME NEW k \in Skus, Update(c, k)
      PROVE  /\ left'[d] = left[d] /\ at'[d] = at[d] /\ answer'[d] = answer[d]
             /\ timer'[d] = timer[d]
  BY <1>1, <1>4 DEF Update, ticked, Goto, TypeOK, lockVars
<1>5. ASSUME NEW k \in Skus, Throws(c, k)
      PROVE  /\ left'[d] = left[d] /\ at'[d] = at[d] /\ answer'[d] = answer[d]
             /\ timer'[d] = timer[d]
  BY <1>1, <1>5 DEF Throws, ticked, TypeOK
<1>6. ASSUME NEW k \in Skus, NEW by \in Issuer, Unlock(c, k, by), UNCHANGED callVars
      PROVE  left' = left /\ at' = at /\ answer' = answer /\ timer' = timer
  BY <1>6 DEF Unlock, callVars
<1>7. CASE AllDone(c)
  BY <1>1, <1>7 DEF AllDone
<1>8. CASE Return(c)
  BY <1>8 DEF Return, Goto, TypeOK, lockVars
<1>9. QED
  BY <1>2, <1>3, <1>4, <1>5, <1>6, <1>7, <1>8 DEF step

LEMMA CallStepIsPlaced ==
  ASSUME TypeOK, NEW c \in Calls, PlacedAt(c), step(c) \/ \E k \in Skus : Throws(c, k)
  PROVE  PlacedAt(c)'
<1>1. ASSUME NEW k \in Skus, Acquire(c, k) PROVE PlacedAt(c)'
  <2>1. CASE refused(c, k) /\ Leave(c, "false")
    BY <1>1, <2>1, LeaveIsPlaced DEF Acquire, Outcome
  <2>2. CASE acquire(c, k) /\ Goto(c, IF c \in Reserving THEN "findBySku" ELSE "update")
             /\ UNCHANGED answer
    <3>1. timer'[c] = [timer[c] EXCEPT ![k] = "armed"]
      BY <2>2 DEF acquire, TypeOK, LockTypeOK
    <3>2. at'[c] = IF c \in Reserving THEN "findBySku" ELSE "update"
      BY <2>2 DEF Goto, TypeOK
    <3>3. QED BY <1>1, <2>2, <3>1, <3>2 DEF Acquire, PlacedAt, over, sorted, TypeOK, LockTypeOK
  <2>3. QED BY <1>1, <2>1, <2>2 DEF Acquire
<1>2. ASSUME NEW k \in Skus, FindBySku(c, k) PROVE PlacedAt(c)'
  <2>1. CASE Leave(c, "false")
    BY <1>2, <2>1, LeaveIsPlaced DEF FindBySku, Outcome
  <2>2. CASE Goto(c, "update") /\ UNCHANGED <<answer, lockVars>>
    BY <1>2, <2>2 DEF FindBySku, Goto, PlacedAt, over, sorted, lockVars, TypeOK
  <2>3. QED BY <1>2, <2>1, <2>2 DEF FindBySku
<1>3. ASSUME NEW k \in Skus, Update(c, k) PROVE PlacedAt(c)'
  <2>1. CASE Leave(c, "false") /\ UNCHANGED left
    BY <2>1, LeaveIsPlaced DEF Outcome
  <2>2. CASE ticked(c, k) /\ Goto(c, "acquire") /\ UNCHANGED <<answer, lockVars>>
    BY <1>3, <2>2 DEF Update, ticked, Goto, PlacedAt, over, sorted, lockVars, TypeOK
  <2>3. QED BY <1>3, <2>1, <2>2 DEF Update
<1>4. ASSUME NEW k \in Skus, Throws(c, k) PROVE PlacedAt(c)'
  <2>1. left'[c] \subseteq left[c]
    BY <1>4 DEF Throws, ticked, TypeOK
  <2>2. QED BY <1>4, <2>1, LeaveIsPlaced DEF Throws, Outcome
<1>5. ASSUME NEW k \in Skus, NEW by \in Issuer, Unlock(c, k, by), UNCHANGED callVars
      PROVE  PlacedAt(c)'
  BY <1>5 DEF Unlock, callVars, PlacedAt, over, sorted
<1>6. CASE AllDone(c)
  BY <1>6, LeaveIsPlaced DEF AllDone, Outcome
<1>7. CASE Return(c)
  BY <1>7 DEF Return, Goto, PlacedAt, over, sorted, TypeOK
<1>8. QED BY <1>1, <1>2, <1>3, <1>4, <1>5, <1>6, <1>7 DEF step

LEMMA PlacedStep ==
  ASSUME TypeOK, Placed, [Next]_vars
  PROVE  Placed'
<1> SUFFICES ASSUME NEW d \in Calls PROVE PlacedAt(d)'
  BY DEF Placed, PlacedAt
<1>0. PlacedAt(d)
  BY DEF Placed, PlacedAt
<1>1. ASSUME NEW c \in Calls, step(c) \/ \E k \in Skus : Throws(c, k) PROVE PlacedAt(d)'
  <2>1. CASE d = c
    BY <1>0, <1>1, <2>1, CallStepIsPlaced
  <2>2. CASE d # c
    BY <1>0, <1>1, <2>2, OthersStay DEF PlacedAt, over, sorted
  <2>3. QED BY <2>1, <2>2
<1>2. ASSUME NEW c \in Calls, NEW k \in Skus, TimerFires(c, k), UNCHANGED callVars
      PROVE  PlacedAt(d)'
  BY <1>0, <1>2 DEF TimerFires, callVars, PlacedAt, over, sorted, TypeOK, LockTypeOK
<1>3. ASSUME NEW s \in Sessions, SessionEnds(s), UNCHANGED callVars PROVE PlacedAt(d)'
  BY <1>0, <1>3 DEF SessionEnds, callVars, PlacedAt, over, sorted
<1>4. CASE UNCHANGED vars
  BY <1>0, <1>4 DEF vars, lockVars, callVars, PlacedAt, over, sorted
<1>5. QED BY <1>1, <1>2, <1>3, <1>4 DEF Next

-----------------------------------------------------------------------------
LEMMA LockInvInit ==
  ASSUME Init
  PROVE  LockInv
<1>1. TypeOK
  BY CallAssumption, LockBounds DEF Init, LockInit, TypeOK, LockTypeOK, sorted, NoSession
<1>2. OneSession /\ Issued /\ Placed
  BY <1>1 DEF Init, LockInit, OneSession, Issued, Placed, over
<1>3. Backed
  <2>1. ASSUME NEW k \in Skus, NEW s \in Sessions PROVE claims(s, k) = {}
    BY LockAssumption DEF Init, LockInit, claims, NoSession
  <2>2. Cardinality({}) = 0
    BY FS_EmptySet
  <2>3. \A k \in Skus, s \in Sessions : locks[s][k] = 0
    BY DEF Init, LockInit
  <2>4. QED BY <2>1, <2>2, <2>3 DEF Backed
<1>4. QED BY <1>1, <1>2, <1>3 DEF LockInv

LEMMA LockInvStep ==
  ASSUME LockInv, [Next]_vars
  PROVE  LockInv'
<1>1. LockStep
  BY StepsAreLockSteps DEF LockInv
<1>2. LockTypeOK
  BY DEF LockInv, TypeOK
<1>3. TypeOK'
  BY <1>1, <1>2, LockTypeStep, CallTypeStep DEF LockInv, TypeOK, CallTypeOK
<1>4. OneSession' /\ Backed' /\ Issued' /\ Placed'
  BY <1>1, <1>2, OneSessionStep, BackedStep, IssuedStep, PlacedStep DEF LockInv
<1>5. QED BY <1>3, <1>4 DEF LockInv

(* The inductive invariant: how often a session holds a lock covers the    *)
(* calls that have yet to unlock it, and where each call is says what it   *)
(* has done.                                                               *)
THEOREM LocksAreBacked == Spec => []LockInv
<1>1. Init => LockInv
  BY LockInvInit
<1>2. LockInv /\ [Next]_vars => LockInv'
  BY LockInvStep
<1>3. QED BY <1>1, <1>2, PTL DEF Spec

(* Advisory locks exclude the calls of different sessions for any number   *)
(* of pods, connections, calls and SKUs, as long as no timer fires and no  *)
(* session ends under a call, on whichever connections its unlocks run.    *)
THEOREM SessionsAreExcluded == Spec => []LocksExclude
<1>1. ASSUME LockInv PROVE LocksExclude
  <2>1. ASSUME NEW k \in Skus \ forced, NEW c \in Calls, via[c][k] \in Sessions
        PROVE  locks[via[c][k]][k] > 0
    BY <1>1, <2>1, LockAssumption, ClaimedIsLocked DEF LockInv, TypeOK, NoSession
  <2>2. QED BY <1>1, <2>1 DEF LockInv, LocksExclude, OneSession
<1>2. QED BY <1>1, LocksAreBacked, PTL

-----------------------------------------------------------------------------
(* The refinement: an UPDATE that finds a row is an item of StockCalls, a  *)
(* return is its answer, everything else is a stutter.                     *)
doneMap == [c \in Calls |-> sorted(c) \ left[c]]
resultMap == [c \in Calls |-> IF at[c] = "returned" THEN answer[c] ELSE "none"]

LEMMA UpdateIsItem ==
  ASSUME LockInv, NEW c \in Calls, NEW k \in Skus, isNext(c, k), ~over(c), affectsRow(c, k),
         updated(c, k), ticked(c, k), at'[c] # "returned",
         \A d \in Calls : d # c => at'[d] = at[d] /\ answer'[d] = answer[d]
  PROVE  Stock!Item(c)
<1>1. left[c] \subseteq sorted(c) /\ sorted(c) = Stock!ItemsOf(c) /\ at[c] # "returned"
  BY DEF LockInv, Placed, sorted, Stock!ItemsOf, over
<1>2. doneMap[c] = sorted(c) \ left[c]
  BY DEF doneMap
<1>3. Stock!ItemsOf(c) \ doneMap[c] = left[c]
  BY <1>1, <1>2
<1>4. Stock!isNextItem(Stock!ItemsOf(c) \ doneMap[c], k)
  BY <1>3 DEF isNext, Stock!isNextItem
<1>5. Stock!Reserve(c, k) \/ Stock!Release(c, k)
  BY DEF affectsRow, updated, Stock!Reserve, Stock!Release, canReserve, Stock!canReserve,
         reserve, Stock!reserve, release, Stock!release, greatest0, Stock!greatest0
<1>6. doneMap' = [doneMap EXCEPT ![c] = @ \cup {k}]
  <2>1. sorted(c) \ (left[c] \ {k}) = (sorted(c) \ left[c]) \cup {k}
    BY <1>1 DEF isNext
  <2>2. \A d \in Calls : sorted(d)' = sorted(d)
    BY DEF sorted
  <2>3. left' = [left EXCEPT ![c] = left[c] \ {k}]
    BY DEF ticked
  <2>4. QED BY <2>1, <2>2, <2>3 DEF doneMap, LockInv, TypeOK
<1>7. resultMap' = resultMap /\ resultMap[c] = "none"
  BY <1>1 DEF resultMap
<1>8. k \in Listed
  BY DEF affectsRow
<1>9. QED
  BY <1>4, <1>5, <1>6, <1>7, <1>8 DEF Stock!Item, Stock!Finish, doneMap, resultMap
LEMMA AnswerIsAnswer ==
  ASSUME LockInv, NEW c \in Calls, Return(c)
  PROVE  Stock!Answer(c)
<1>1. /\ at[c] = "finally" /\ at' = [at EXCEPT ![c] = "returned"]
      /\ UNCHANGED <<stock, left, answer>>
  BY DEF Return, Goto
<1>2. answer[c] \in Outcome /\ (answer[c] = "true" => doneMap[c] = sorted(c))
  BY <1>1 DEF LockInv, TypeOK, Placed, over, Outcome, doneMap
<1>3. resultMap[c] = "none" /\ resultMap' = [resultMap EXCEPT ![c] = answer[c]]
  BY <1>1 DEF resultMap, LockInv, TypeOK
<1>4. doneMap' = doneMap
  BY <1>1 DEF doneMap, sorted
<1>5. sorted(c) = Stock!ItemsOf(c)
  BY DEF sorted, Stock!ItemsOf
<1>6. QED
  BY <1>1, <1>2, <1>3, <1>4, <1>5 DEF Stock!Answer, doneMap, resultMap, Outcome

LEMMA SilentIsStutter ==
  ASSUME UNCHANGED <<stock, left>>,
         \A d \in Calls : \/ at'[d] = at[d] /\ answer'[d] = answer[d]
                          \/ at[d] # "returned" /\ at'[d] # "returned"
  PROVE  UNCHANGED Stock!stockVars
<1>1. doneMap' = doneMap
  BY DEF doneMap, sorted
<1>2. resultMap' = resultMap
  BY DEF resultMap
<1>3. QED BY <1>1, <1>2 DEF Stock!stockVars, doneMap, resultMap

LEMMA StepImplementsStock ==
  ASSUME LockInv, [Next]_vars
  PROVE  [Stock!Next]_(Stock!stockVars)
<1>1. ASSUME NEW c \in Calls, step(c) \/ \E k \in Skus : Throws(c, k)
      PROVE  [Stock!Next]_(Stock!stockVars)
  <2> USE DEF Goto
  <2>0. \A d \in Calls : d # c => at'[d] = at[d] /\ answer'[d] = answer[d]
    BY <1>1, OthersStay DEF LockInv
  <2>1. ASSUME NEW r, Leave(c, r), UNCHANGED <<stock, left>>, ~over(c)
        PROVE  UNCHANGED Stock!stockVars
    BY <2>0, <2>1, SilentIsStutter DEF Leave, over, LockInv, TypeOK
  <2>2. ASSUME NEW k \in Skus, Acquire(c, k) PROVE UNCHANGED Stock!stockVars
    <3>1. CASE Leave(c, "false")
      BY <2>1, <2>2, <3>1 DEF Acquire, over
    <3>2. CASE Goto(c, IF c \in Reserving THEN "findBySku" ELSE "update")
      BY <2>0, <2>2, <3>2, SilentIsStutter DEF Acquire, LockInv, TypeOK
    <3>3. QED BY <2>2, <3>1, <3>2 DEF Acquire
  <2>3. ASSUME NEW k \in Skus, FindBySku(c, k) PROVE UNCHANGED Stock!stockVars
    <3>1. CASE Leave(c, "false")
      BY <2>1, <2>3, <3>1 DEF FindBySku, over
    <3>2. CASE Goto(c, "update")
      BY <2>0, <2>3, <3>2, SilentIsStutter DEF FindBySku, LockInv, TypeOK
    <3>3. QED BY <2>3, <3>1, <3>2 DEF FindBySku
  <2>4. ASSUME NEW k \in Skus, Update(c, k) PROVE [Stock!Next]_(Stock!stockVars)
    <3>1. CASE Leave(c, "false") /\ UNCHANGED <<stock, left>>
      BY <2>1, <2>4, <3>1 DEF Update, over
    <3>2. CASE affectsRow(c, k) /\ updated(c, k) /\ ticked(c, k) /\ Goto(c, "acquire")
      <4>1. isNext(c, k) /\ ~over(c) /\ at'[c] # "returned"
        BY <2>4, <3>2 DEF Update, over, LockInv, TypeOK
      <4>2. QED BY <2>0, <3>2, <4>1, UpdateIsItem DEF Stock!Next
    <3>3. QED BY <2>4, <3>1, <3>2 DEF Update
  <2>5. ASSUME NEW k \in Skus, Throws(c, k) PROVE [Stock!Next]_(Stock!stockVars)
    <3>1. isNext(c, k) /\ ~over(c) /\ Leave(c, "thrown")
      BY <2>5 DEF Throws, over
    <3>2. CASE UNCHANGED <<stock, left>>
      BY <2>1, <3>1, <3>2
    <3>3. CASE affectsRow(c, k) /\ updated(c, k) /\ ticked(c, k)
      <4>1. at'[c] # "returned"
        BY <3>1 DEF Leave, LockInv, TypeOK
      <4>2. QED BY <2>0, <3>1, <3>3, <4>1, UpdateIsItem DEF Stock!Next
    <3>4. QED BY <2>5, <3>2, <3>3 DEF Throws
  <2>6. ASSUME NEW k \in Skus, NEW by \in Issuer, Unlock(c, k, by), UNCHANGED callVars
        PROVE  UNCHANGED Stock!stockVars
    BY <2>6, SilentIsStutter DEF callVars
  <2>7. CASE AllDone(c)
    BY <2>1, <2>7 DEF AllDone, over
  <2>8. CASE Return(c)
    BY <2>8, AnswerIsAnswer DEF Stock!Next
  <2>9. QED BY <1>1, <2>2, <2>3, <2>4, <2>5, <2>6, <2>7, <2>8 DEF step
<1>2. CASE UNCHANGED callVars
  BY <1>2, SilentIsStutter DEF callVars
<1>3. QED BY <1>1, <1>2 DEF Next, vars

(* The inventory calls implement StockCalls, whichever locks are refused,  *)
(* shared, expired, leaked or lost: reading and updating in two statements *)
(* never reserves what is not available, and true means all items.         *)
THEOREM CallsImplementStock == Spec => TakesAreAtomic
<1>1. Init => Stock!Init
  BY DEF Init, Stock!Init, sorted
<1>2. LockInv /\ [Next]_vars => [Stock!Next]_(Stock!stockVars)
  BY StepImplementsStock
<1>3. QED
  BY <1>1, <1>2, LocksAreBacked, PTL DEF Spec, TakesAreAtomic, Stock!Spec
=============================================================================
