------------------------- MODULE MCSagaOrchestrator -------------------------
(* Small instances of the order saga for TLC: quantities, stock.           *)
EXTENDS SagaLedger, SagaInvariants

OneOfEach   == [o \in Orders |-> [k \in Skus |-> 1]]
O2WantsMore == [o \in Orders |-> [k \in Skus |-> IF k = 1 \/ o = "o2" THEN 1 ELSE 0]]
OneInStock  == [k \in Skus |-> 1]
TwoInStock  == [k \in Skus |-> 2]
=============================================================================
