---------------------------- MODULE MCRateLimiter ----------------------------
(* Four requests of Ann and two of Bob, windows that let two pass, two      *)
(* outages.  Requests of one client are alike.                              *)
EXTENDS RateLimiter, TLC

CONSTANTS ann1, ann2, ann3, ann4, bob1, bob2

MCClient == [r \in Requests |-> IF r \in {bob1, bob2} THEN "bob" ELSE "ann"]
Alike    == Permutations({ann1, ann2, ann3, ann4}) \cup Permutations({bob1, bob2})
=============================================================================
