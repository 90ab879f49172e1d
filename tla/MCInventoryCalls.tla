-------------------------- MODULE MCInventoryCalls --------------------------
(* Two pods: calls a and b share the sessions p1 and p2 of the first, call *)
(* c has the session q1 of the second.  a and b reserve, c releases.       *)
EXTENDS InventoryCalls

CONSTANTS a, b, c, p1, p2, q1

MCPool  == [x \in Calls |-> IF x = c THEN {q1} ELSE {p1, p2}]
MCQty   == [x \in Calls |-> [k \in Skus |-> IF x = b /\ k = 2 THEN 0 ELSE 1]]
MCStock == [k \in Skus |-> [available |-> 1, reserved |-> 1]]
=============================================================================
