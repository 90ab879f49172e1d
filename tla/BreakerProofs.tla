---------------------------- MODULE BreakerProofs ----------------------------
(* Proofs about CircuitBreaker, for any number of charges and any values   *)
(* of the policy's parameters.                                             *)
EXTENDS CircuitBreaker, TLAPS

USE BreakerAssumption

LEMMA InitHolds == Init => BreakerInv
<1> SUFFICES ASSUME Init PROVE BreakerInv
  OBVIOUS
<1>1. TypeOK
  <2>1. count \in 0 .. Threshold /\ tries \in [Charges -> 0 .. MaxAttempts]
    BY DEF Init
  <2>2. cooled \in BOOLEAN /\ up \in BOOLEAN
    BY Zenon DEF Init
  <2> QED BY <2>1, <2>2, Zenon DEF Init, TypeOK
<1>2. HalfOpenHasTest BY DEF Init, HalfOpenHasTest
<1>3. ClosedIsBelowThreshold BY DEF Init, ClosedIsBelowThreshold
<1>4. WaitsForTest BY DEF Init, WaitsForTest
<1> QED BY <1>1, <1>2, <1>3, <1>4 DEF BreakerInv

(* A charge goes to the breaker, first or again after a test.              *)
LEMMA ExecuteHolds ==
  ASSUME BreakerInv, NEW c \in Charges, at[c] \in {"idle", "woken"}, execute(c), UNCHANGED up
  PROVE  BreakerInv'
<1> USE DEF BreakerInv
<1>1. CASE Closed(c)
  <2>1. TypeOK' BY <1>1 DEF Closed, Admit, circuit, TypeOK
  <2>2. HalfOpenHasTest' BY <1>1 DEF Closed, Admit, circuit, HalfOpenHasTest
  <2>3. ClosedIsBelowThreshold' BY <1>1 DEF Closed, circuit, ClosedIsBelowThreshold
  <2>4. WaitsForTest' BY <1>1 DEF Closed, Admit, circuit, TypeOK, WaitsForTest
  <2> QED BY <2>1, <2>2, <2>3, <2>4
<1>2. CASE Refuse(c)
  <2>1. TypeOK' BY <1>2 DEF Refuse, circuit, TypeOK
  <2>2. HalfOpenHasTest' BY <1>2 DEF Refuse, circuit, HalfOpenHasTest
  <2>3. ClosedIsBelowThreshold' BY <1>2 DEF Refuse, circuit, ClosedIsBelowThreshold
  <2>4. WaitsForTest' BY <1>2 DEF Refuse, TypeOK, WaitsForTest
  <2> QED BY <2>1, <2>2, <2>3, <2>4
<1>3. CASE Test(c)
  <2>1. TypeOK' BY <1>3 DEF Test, Admit, TypeOK
  <2>2. HalfOpenHasTest' BY <1>3 DEF Test, Admit, TypeOK, HalfOpenHasTest
  <2>3. ClosedIsBelowThreshold' BY <1>3 DEF Test, ClosedIsBelowThreshold
  <2>4. WaitsForTest' BY <1>3 DEF Test, Admit, TypeOK, WaitsForTest
  <2> QED BY <2>1, <2>2, <2>3, <2>4
<1>4. CASE Wait(c)
  <2>1. TypeOK' BY <1>4 DEF Wait, circuit, TypeOK
  <2>2. HalfOpenHasTest' BY <1>4 DEF Wait, circuit, TypeOK, HalfOpenHasTest
  <2>3. ClosedIsBelowThreshold' BY <1>4 DEF Wait, circuit, ClosedIsBelowThreshold
  <2>4. WaitsForTest' BY <1>4 DEF Wait, TypeOK, HalfOpenHasTest, WaitsForTest
  <2> QED BY <2>1, <2>2, <2>3, <2>4
<1> QED BY <1>1, <1>2, <1>3, <1>4 DEF execute

(* What Settle leaves behind: nobody waits for a charge that has reported. *)
LEMMA SettleHolds ==
  ASSUME BreakerInv, NEW c \in Charges, Settle(c)
  PROVE  /\ at' \in [Charges -> {"idle", "calling", "waiting", "woken", "answered"}]
         /\ mode' \in [Charges -> {"plain", "test"}]
         /\ tries' \in [Charges -> 0 .. MaxAttempts]
         /\ awaited' \in [Charges -> Charges \cup {NoTest}]
         /\ up' \in BOOLEAN
         /\ WaitsForTest'
         /\ state = "halfOpen" /\ test # c =>
              at'[test] = "calling" /\ mode'[test] = "test"
<1> USE DEF BreakerInv
<1>1. at' \in [Charges -> {"idle", "calling", "waiting", "woken", "answered"}]
  BY DEF Settle, TypeOK
<1>2. /\ mode' \in [Charges -> {"plain", "test"}]
      /\ tries' \in [Charges -> 0 .. MaxAttempts]
      /\ awaited' \in [Charges -> Charges \cup {NoTest}]
      /\ up' \in BOOLEAN
  BY DEF Settle, TypeOK
<1>3. WaitsForTest'
  <2> SUFFICES ASSUME NEW d \in Charges, at'[d] = "waiting"
               PROVE  /\ awaited'[d] \in Charges
                      /\ at'[awaited'[d]] = "calling" /\ mode'[awaited'[d]] = "test"
    BY DEF WaitsForTest
  <2>1. d # c /\ at[d] = "waiting" /\ awaited[d] # c BY DEF Settle
  <2>2. awaited[d] \in Charges /\ at[awaited[d]] = "calling" /\ mode[awaited[d]] = "test"
    BY <2>1 DEF WaitsForTest
  <2> QED BY <2>1, <2>2 DEF Settle, TypeOK
<1>4. state = "halfOpen" /\ test # c => at'[test] = "calling" /\ mode'[test] = "test"
  BY DEF Settle, TypeOK, HalfOpenHasTest
<1> QED BY <1>1, <1>2, <1>3, <1>4

LEMMA AnswersHolds ==
  ASSUME BreakerInv, NEW c \in Charges, Answers(c)
  PROVE  BreakerInv'
<1> USE DEF BreakerInv
<1>1. Settle(c) /\ succeeded(c) BY DEF Answers
<1>2. TypeOK' BY <1>1, SettleHolds DEF succeeded, TypeOK
<1>3. HalfOpenHasTest'
  <2> SUFFICES ASSUME state' = "halfOpen"
               PROVE  test' \in Charges /\ at'[test'] = "calling" /\ mode'[test'] = "test"
    BY DEF HalfOpenHasTest
  <2>1. state = "halfOpen" /\ mode[c] # "test" /\ test' = test BY <1>1 DEF succeeded
  <2>2. test \in Charges /\ test # c BY <2>1 DEF HalfOpenHasTest
  <2> QED BY <1>1, <2>1, <2>2, SettleHolds
<1>4. ClosedIsBelowThreshold' BY <1>1 DEF succeeded, ClosedIsBelowThreshold
<1> QED BY <1>1, <1>2, <1>3, <1>4, SettleHolds

LEMMA FailsHolds ==
  ASSUME BreakerInv, NEW c \in Charges, Fails(c)
  PROVE  BreakerInv'
<1> USE DEF BreakerInv
<1>1. Settle(c) /\ failed(c) BY DEF Fails
<1>2. counted \in 0 .. Threshold BY DEF counted, TypeOK
<1>3. TypeOK' BY <1>1, <1>2, SettleHolds DEF failed, TypeOK
<1>4. HalfOpenHasTest'
  <2> SUFFICES ASSUME state' = "halfOpen"
               PROVE  test' \in Charges /\ at'[test'] = "calling" /\ mode'[test'] = "test"
    BY DEF HalfOpenHasTest
  <2>1. state = "halfOpen" /\ mode[c] # "test" /\ test' = test BY <1>1 DEF failed
  <2>2. test \in Charges /\ test # c BY <2>1 DEF HalfOpenHasTest
  <2> QED BY <1>1, <2>1, <2>2, SettleHolds
<1>5. ClosedIsBelowThreshold'
  BY <1>1, <1>2 DEF failed, ClosedIsBelowThreshold
<1> QED BY <1>1, <1>3, <1>4, <1>5, SettleHolds

(* The steps that leave the circuit, or the charges, alone.                *)
LEMMA QuietHolds ==
  ASSUME BreakerInv,
         (\E c \in Charges : Retry(c) \/ Leave(c)) \/ Cool \/ Gateway
  PROVE  BreakerInv'
<1> USE DEF BreakerInv
<1>1. ASSUME NEW c \in Charges, Retry(c) PROVE BreakerInv'
  <2>1. TypeOK' BY <1>1 DEF Retry, circuit, TypeOK
  <2> QED BY <1>1, <2>1
          DEF Retry, circuit, HalfOpenHasTest, ClosedIsBelowThreshold, WaitsForTest
<1>2. ASSUME NEW c \in Charges, Leave(c) PROVE BreakerInv'
  <2>1. TypeOK' BY <1>2 DEF Leave, circuit, TypeOK
  <2>2. HalfOpenHasTest' BY <1>2 DEF Leave, circuit, TypeOK, HalfOpenHasTest
  <2>3. ClosedIsBelowThreshold' BY <1>2 DEF Leave, circuit, ClosedIsBelowThreshold
  <2>4. WaitsForTest' BY <1>2 DEF Leave, TypeOK, WaitsForTest
  <2> QED BY <2>1, <2>2, <2>3, <2>4
<1>3. CASE Cool
  BY <1>3 DEF Cool, calls, TypeOK, HalfOpenHasTest, ClosedIsBelowThreshold, WaitsForTest
<1>4. CASE Gateway
  BY <1>4 DEF Gateway, circuit, calls, TypeOK, HalfOpenHasTest, ClosedIsBelowThreshold,
              WaitsForTest
<1> QED BY <1>1, <1>2, <1>3, <1>4

(* The circuit and the charges agree, for every interleaving of charges,   *)
(* results and time: a half-open circuit has its test under way, a closed  *)
(* one has not seen Threshold failures in a row, and whoever waits waits   *)
(* for a test that will report (circuit-breaker.ts, payment-service.ts).   *)
THEOREM BreakerIsConsistent == Spec => []BreakerInv
<1>1. BreakerInv /\ [Next]_vars => BreakerInv'
  <2> SUFFICES ASSUME BreakerInv, [Next]_vars PROVE BreakerInv'
    OBVIOUS
  <2>1. ASSUME NEW c \in Charges, Charge(c) \/ Wake(c) PROVE BreakerInv'
    BY <2>1, ExecuteHolds DEF Charge, Wake
  <2>2. ASSUME NEW c \in Charges, Answers(c) PROVE BreakerInv'
    BY <2>2, AnswersHolds
  <2>3. ASSUME NEW c \in Charges, Fails(c) PROVE BreakerInv'
    BY <2>3, FailsHolds
  <2>4. CASE (\E c \in Charges : Retry(c) \/ Leave(c)) \/ Cool \/ Gateway
    BY <2>4, QuietHolds
  <2>5. CASE UNCHANGED vars
    BY <2>5 DEF vars, circuit, calls, BreakerInv, TypeOK, HalfOpenHasTest,
                ClosedIsBelowThreshold, WaitsForTest
  <2> QED BY <2>1, <2>2, <2>3, <2>4, <2>5 DEF Next, step
<1> QED BY <1>1, InitHolds, PTL DEF Spec
=============================================================================
