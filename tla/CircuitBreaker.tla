--------------------------- MODULE CircuitBreaker ---------------------------
(***************************************************************************)
(* The charges of one process and the circuit breaker they share:          *)
(* PaymentService.charge, createPaymentResiliencePolicy, and what          *)
(* StripeAdapter.charge makes of the gateway's answers.  The policy wraps  *)
(* a retry policy in a circuit breaker of the library cockatiel (3.2); the *)
(* breaker's transitions are the library's, its parameters and what counts *)
(* as a failure are the code's.                                            *)
(*                                                                         *)
(* Covered: concurrent charges, which the breaker admits in one state and  *)
(* hears of in another; the half-open state, in which one charge is the    *)
(* test and the others wait for it; a late failure that opens the circuit  *)
(* during a test, so that a second test may overlap the first; a gateway   *)
(* that goes away and comes back.                                          *)
(* Not covered: whether a charge without an answer was captured (see       *)
(* SagaOrchestrator), the delays between retries.                          *)
(***************************************************************************)
EXTENDS Integers

CONSTANTS
  Charges,      \* what may charge at a time: jobs of the workers of this process
  Threshold,    \* paymentCircuitBreakerThreshold (5)
  MaxAttempts,  \* maxAttempts of the retry policy: how often it tries again (3)
  NoTest        \* no charge is the test

ASSUME BreakerAssumption == /\ Threshold \in Nat \ {0}
                            /\ MaxAttempts \in Nat
                            /\ NoTest \notin Charges

VARIABLES
  state,    \* the circuit
  count,    \* failures in a row, up to Threshold, beyond which they make no difference
  cooled,   \* whether the circuit has been open for halfOpenAfter
  test,     \* the charge whose promise the half-open state holds
  at,       \* where a charge is; "answered": PaymentService.charge has returned
  mode,     \* whether it is a test
  tries,    \* how often it was tried again
  awaited,  \* the test it waits for
  up        \* whether the gateway can be reached

circuit == <<state, count, cooled, test>>
calls   == <<at, mode, tries, awaited>>
vars    == <<circuit, calls, up>>

TypeOK ==
  /\ state   \in {"closed", "open", "halfOpen"}
  /\ count   \in 0 .. Threshold
  /\ cooled  \in BOOLEAN
  /\ test    \in Charges \cup {NoTest}
  /\ at      \in [Charges -> {"idle", "calling", "waiting", "woken", "answered"}]
  /\ mode    \in [Charges -> {"plain", "test"}]
  /\ tries   \in [Charges -> 0 .. MaxAttempts]
  /\ awaited \in [Charges -> Charges \cup {NoTest}]
  /\ up      \in BOOLEAN

Init ==
  /\ state = "closed" /\ count = 0 /\ cooled = FALSE /\ test = NoTest
  /\ at      = [c \in Charges |-> "idle"]
  /\ mode    = [c \in Charges |-> "plain"]
  /\ tries   = [c \in Charges |-> 0]
  /\ awaited = [c \in Charges |-> NoTest]
  /\ up = TRUE

-----------------------------------------------------------------------------
(* policy.execute: what becomes of a charge depends on the circuit.        *)
Admit(c, m) ==
  /\ at' = [at EXCEPT ![c] = "calling"]
  /\ mode' = [mode EXCEPT ![c] = m]
  /\ UNCHANGED <<tries, awaited>>

Closed(c) == state = "closed" /\ Admit(c, "plain") /\ UNCHANGED circuit

(* BrokenCircuitError, which charge answers as a failed payment.           *)
Refuse(c) ==
  /\ state = "open" /\ ~cooled
  /\ at' = [at EXCEPT ![c] = "answered"]
  /\ UNCHANGED <<circuit, mode, tries, awaited>>

Test(c) ==
  /\ state = "open" /\ cooled
  /\ state' = "halfOpen" /\ test' = c /\ cooled' = FALSE
  /\ Admit(c, "test")
  /\ UNCHANGED count

Wait(c) ==
  /\ state = "halfOpen"
  /\ at' = [at EXCEPT ![c] = "waiting"]
  /\ awaited' = [awaited EXCEPT ![c] = test]
  /\ UNCHANGED <<circuit, mode, tries>>

execute(c) == Closed(c) \/ Refuse(c) \/ Test(c) \/ Wait(c)

Charge(c) == at[c] = "idle" /\ execute(c) /\ UNCHANGED up
Wake(c)   == at[c] = "woken" /\ execute(c) /\ UNCHANGED up

-----------------------------------------------------------------------------
(* A result reaches the breaker: when, and in which state, is up to the    *)
(* gateway.  The result of a test settles the promise others wait for.     *)
(* Slip: the others are not told.                                          *)
SettleAlone(c) ==
  /\ at' = [at EXCEPT ![c] = "answered"]
  /\ mode' = [mode EXCEPT ![c] = "plain"]
  /\ tries' = [tries EXCEPT ![c] = 0]
  /\ UNCHANGED <<awaited, up>>

Settle(c) ==
  /\ at' = [d \in Charges |-> IF d = c THEN "answered"
                              ELSE IF at[d] = "waiting" /\ awaited[d] = c THEN "woken"
                              ELSE at[d]]
  /\ mode' = [mode EXCEPT ![c] = "plain"]
  /\ tries' = [tries EXCEPT ![c] = 0]
  /\ awaited' = [d \in Charges |-> IF awaited[d] = c THEN NoTest ELSE awaited[d]]
  /\ UNCHANGED up

succeeded(c) ==
  /\ count' = 0
  /\ IF mode[c] = "test" /\ state = "halfOpen"
     THEN state' = "closed" /\ test' = NoTest ELSE UNCHANGED <<state, test>>
  /\ UNCHANGED cooled

counted == IF count < Threshold THEN count + 1 ELSE count

(* Slip: a test that fails is only counted.                                *)
failedUnopened(c) ==
  /\ count' = counted
  /\ IF mode[c] = "plain" /\ counted >= Threshold /\ state # "open"
     THEN state' = "open" /\ cooled' = FALSE /\ test' = NoTest
     ELSE UNCHANGED <<state, cooled, test>>

failed(c) ==
  /\ count' = counted
  /\ IF (mode[c] = "test" \/ counted >= Threshold) /\ state # "open"
     THEN state' = "open" /\ cooled' = FALSE /\ test' = NoTest
     ELSE UNCHANGED <<state, cooled, test>>

(* Any response, an error status too, is a result and not a failure.       *)
Answers(c) ==
  /\ at[c] = "calling"
  /\ Settle(c)
  /\ succeeded(c)

(* fetch throws: tried again, also when the circuit has opened meanwhile.  *)
Retry(c) ==
  /\ at[c] = "calling" /\ ~up /\ tries[c] < MaxAttempts
  /\ tries' = [tries EXCEPT ![c] = @ + 1]
  /\ UNCHANGED <<circuit, at, mode, awaited, up>>

Fails(c) ==
  /\ at[c] = "calling" /\ ~up /\ tries[c] = MaxAttempts
  /\ Settle(c)
  /\ failed(c)

(* The caller has its answer; the slot is free.                            *)
Leave(c) ==
  /\ at[c] = "answered"
  /\ at' = [at EXCEPT ![c] = "idle"]
  /\ UNCHANGED <<circuit, mode, tries, awaited, up>>

-----------------------------------------------------------------------------
(* Slip: every refusal starts the time again.                              *)
CoolAgain ==
  /\ state = "open" /\ ~cooled
  /\ \A c \in Charges : at[c] \notin {"woken", "answered"}
  /\ cooled' = TRUE
  /\ UNCHANGED <<state, count, test, calls, up>>

(* halfOpenAfter has passed.  Charges woken by a test execute again in the *)
(* same turn of the event loop, long before.                               *)
Cool ==
  /\ state = "open" /\ ~cooled
  /\ \A c \in Charges : at[c] # "woken"
  /\ cooled' = TRUE
  /\ UNCHANGED <<state, count, test, calls, up>>

Gateway == up' \in BOOLEAN /\ UNCHANGED <<circuit, calls>>

step(c) == Wake(c) \/ Answers(c) \/ Retry(c) \/ Fails(c) \/ Leave(c)

Next == \/ \E c \in Charges : Charge(c) \/ step(c)
        \/ Cool \/ Gateway

(* A fetch ends, a continuation runs, time passes.  Nobody has to charge,  *)
(* and the gateway does what it likes.                                     *)
Fairness == WF_vars(Cool) /\ \A c \in Charges : WF_vars(step(c))

Spec     == Init /\ [][Next]_vars
FairSpec == Spec /\ Fairness

-----------------------------------------------------------------------------
(* Safety.                                                                 *)

(* A half-open circuit always has its test under way, whichever older      *)
(* charges and tests report in between; else nothing would end the state.  *)
HalfOpenHasTest ==
  state = "halfOpen" => test \in Charges /\ at[test] = "calling" /\ mode[test] = "test"

(* A closed circuit has not seen Threshold failures in a row, with results *)
(* of charges that started before it opened, and of tests that overlap.    *)
ClosedIsBelowThreshold == state = "closed" => count < Threshold

(* Whoever waits, waits for a test that is under way.                      *)
WaitsForTest ==
  \A c \in Charges : at[c] = "waiting" =>
    awaited[c] \in Charges /\ at[awaited[c]] = "calling" /\ mode[awaited[c]] = "test"

BreakerInv ==
  TypeOK /\ HalfOpenHasTest /\ ClosedIsBelowThreshold /\ WaitsForTest

-----------------------------------------------------------------------------
(* Liveness, under FairSpec.                                               *)

(* Once the gateway stays reachable every charge is answered: a charge     *)
(* that waits for a test is not sent from one test to the next for ever.   *)
(* (While the gateway comes and goes it can be: an older charge opens the  *)
(* circuit during the test, it cools, and another charge is first to run   *)
(* the next test when this one ends.  It takes four charges.)              *)
ChargesAnswered ==
  <>[]up => \A c \in Charges : at[c] # "idle" ~> at[c] = "answered"

(* Once the gateway stays reachable and charges keep coming, the circuit   *)
(* closes for good, whatever happened before.                              *)
Recovers ==
  <>[]up /\ []<><<\E c \in Charges : Charge(c)>>_vars => <>[](state = "closed")
=============================================================================
