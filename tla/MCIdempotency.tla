---------------------------- MODULE MCIdempotency ----------------------------
(* A small instance of repeated requests for TLC: which requests are sent.  *)
EXTENDS Idempotency

Ann == <<"ann">>
K1 == <<"k1">>

(* The client "ann:x" with the key "k1", and Ann with the key "x:k1", both  *)
(* make the Redis key "idempotency:ann:x:k1".                               *)
AnnX == Ann \o <<"x">>
XK1  == <<"x">> \o K1

TheClients == {Ann, AnnX}
TheKeys    == {K1, XK1}

asks(c, k, b, i) == [client |-> c, key |-> k, body |-> b, n |-> i]

(* Ann sends one request twice and reuses its key for another body; "ann:x" *)
(* has chosen the same key, for two bodies, and makes the Redis key of      *)
(* Ann's request with the key "x:k1".                                       *)
Repeats == {asks(Ann, K1, "b1", 1), asks(Ann, K1, "b1", 2), asks(Ann, K1, "b2", 1),
            asks(Ann, XK1, "b1", 1), asks(AnnX, K1, "b1", 1), asks(AnnX, K1, "b2", 1)}
=============================================================================
