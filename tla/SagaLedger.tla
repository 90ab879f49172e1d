----------------------------- MODULE SagaLedger -----------------------------
(***************************************************************************)
(* The inventory table against what the sagas hold.                        *)
(***************************************************************************)
EXTENDS SagaOrchestrator

(* The units of k that sagas have reserved and not given back, one by one. *)
unitsOf(k)   == UNION {{s} \X (1 .. Qty[s[1]][k]) : s \in {x \in SagaIds : k \in held[x]}}
unitsHeld(k) == Cardinality(unitsOf(k))

(* No RESERVE_INVENTORY step has failed: no saga is left with a part of    *)
(* its items, of which releaseInventory would give back the whole.         *)
NoneFailed == \A s \in SagaIds : steps[s][RESERVE_INVENTORY].status # "FAILED"

(* Until then inventory is exact under every interleaving, crash and       *)
(* retry: reserved is what the sagas hold and the rest is available.       *)
(* (Admins = {}.)                                                          *)
LedgerExact ==
  NoneFailed =>
    \A k \in Skus : /\ stock[k].reserved = unitsHeld(k)
                    /\ stock[k].available + stock[k].reserved = InitStock[k]

(* What makes it exact: a run reserves an item once and releases what it   *)
(* has reserved, and the row of its first step is not FAILED before.       *)
HoldsExactly ==
  \A s \in SagaIds : LET w == <<s, "worker">>
                         row == steps[s][RESERVE_INVENTORY] IN
    /\ pc[w] = "reserve" => held[s] \cap left[w] = {}
    /\ pc[w] \in {"reserve", "end0", "fail0"} => row.status # "FAILED"
    /\ row.status # "FAILED" =>
         /\ pc[w] \in {"compensate", "getSteps"} => held[s] = Items(s[1])
         /\ pc[w] = "release" => left[w] \subseteq held[s]

(* README.md, line 21: "zero-overselling inventory reservation": sagas     *)
(* never hold more units than there are.                                   *)
NoOversell == \A k \in Skus : unitsHeld(k) <= InitStock[k]
=============================================================================
