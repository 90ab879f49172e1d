--------------------------- MODULE AdvisoryLocks ----------------------------
(***************************************************************************)
(* PostgresAdvisoryLock: acquire and the release it returns.               *)
(*                                                                         *)
(* A lock of pg_try_advisory_lock belongs to the database session whose    *)
(* connection executed it.  It excludes the other sessions, a session may  *)
(* take it again, and every unlock by that session gives one of them back. *)
(* getSql() is a pool: lock and unlock of one call may be executed by two  *)
(* connections, and an unlock by a session without the lock does nothing.  *)
(* A session ends when its connection is closed (idle_timeout,             *)
(* max_lifetime, a network error, the death of the process), and its locks *)
(* with it; the pool opens another in its place.                           *)
(***************************************************************************)
EXTENDS Integers, FiniteSets

CONSTANTS
  Calls,        \* the calls that lock
  Skus,         \* what they lock: inventory:<sku>, numbers in the order of localeCompare
  Sessions,     \* database sessions, those of all pods
  Pool,         \* Pool[c]: the sessions of the pod in which c executes
  MaxExpiries,  \* bound on timers that fire and sessions that end
  MaxFaults     \* bound on failed or unanswered statements

ASSUME LockAssumption == /\ Skus \subseteq Nat
                         /\ IsFiniteSet(Calls)
                         /\ "none" \notin Sessions
                         /\ Pool \in [Calls -> SUBSET Sessions]
                         /\ \A c \in Calls : Pool[c] # {}
ASSUME LockBounds     == MaxExpiries \in Nat /\ MaxFaults \in Nat

VARIABLES
  locks,    \* pg_locks: how often a session holds the lock of a SKU
  timer,    \* the TTL timer of a call's lock; "none" before acquire returned it
  pending,  \* unlock statements a call has issued, by the timer or by release()
  via,      \* history: the session that took the lock a call has yet to unlock
  forced,   \* history: SKUs whose lock was freed while a call relied on it
  expiries, faults  \* how much of the two bounds is used

lockVars == <<locks, timer, pending, via, forced, expiries>>

NoSession == "none"
Issuer == {"ttl", "release"}

LockTypeOK ==
  /\ locks   \in [Sessions -> [Skus -> Nat]]
  /\ timer   \in [Calls -> [Skus -> {"none", "armed", "fired", "cleared"}]]
  /\ pending \in [Calls -> SUBSET (Skus \X Issuer)]
  /\ via     \in [Calls -> [Skus -> Sessions \cup {NoSession}]]
  /\ forced  \in SUBSET Skus
  /\ expiries \in 0 .. MaxExpiries
  /\ faults  \in 0 .. MaxFaults

LockInit ==
  /\ locks   = [s \in Sessions |-> [k \in Skus |-> 0]]
  /\ timer   = [c \in Calls |-> [k \in Skus |-> "none"]]
  /\ pending = [c \in Calls |-> {}]
  /\ via     = [c \in Calls |-> [k \in Skus |-> NoSession]]
  /\ forced  = {}
  /\ expiries = 0 /\ faults = 0

Fault  == faults < MaxFaults /\ faults' = faults + 1
Expiry == expiries < MaxExpiries /\ expiries' = expiries + 1

-----------------------------------------------------------------------------
(* pg_try_advisory_lock, executed by session s.                            *)
free(s, k) == \A t \in Sessions \ {s} : locks[t][k] = 0
grant(s, k) == locks' = [locks EXCEPT ![s][k] = @ + 1]

(* acquire resolves with a release, or with null.                          *)
acquire(c, k) ==
  \E s \in Pool[c] :
    /\ free(s, k)
    /\ grant(s, k)
    /\ via' = [via EXCEPT ![c][k] = s]
    /\ timer' = [timer EXCEPT ![c][k] = "armed"]
    /\ UNCHANGED <<pending, forced, expiries>>

refused(c, k) == \E s \in Pool[c] : ~free(s, k)

(* acquire throws; the statement may have been executed, and then nobody   *)
(* holds a release for the lock.                                           *)
acquireThrows(c, k) ==
  locks' = locks \/ \E s \in Pool[c] : free(s, k) /\ grant(s, k)

acquired(c) == {k \in Skus : timer[c][k] # "none"}

(* Slip: the timers run on.                                                *)
releaseAllTimersRunning(c) ==
  /\ pending' = [pending EXCEPT ![c] = @ \cup (acquired(c) \X {"release"})]
  /\ UNCHANGED timer

(* release(), for all the locks of a call at once: each is marked released *)
(* and its timer cleared, and its unlock statement is issued.  A timer     *)
(* that has fired has not marked it released.                              *)
releaseAll(c) ==
  /\ timer' = [timer EXCEPT ![c] =
                [k \in Skus |-> IF @[k] = "armed" THEN "cleared" ELSE @[k]]]
  /\ pending' = [pending EXCEPT ![c] = @ \cup (acquired(c) \X {"release"})]

-----------------------------------------------------------------------------
(* Slip: pg_advisory_unlock_all, which gives every lock of the session     *)
(* back.                                                                   *)
unlockEverything(s, k) ==
  locks' = [locks EXCEPT ![s] = [j \in Skus |-> 0]]

(* pg_advisory_unlock, executed by any session of the pod.  What it throws *)
(* is logged, and the lock stays.                                          *)
unlock(s, k) ==
  locks' = [locks EXCEPT ![s][k] = IF @ > 0 THEN @ - 1 ELSE 0]

Unlock(c, k, by) ==
  /\ <<k, by>> \in pending[c]
  /\ \/ (\E s \in Pool[c] : unlock(s, k)) /\ UNCHANGED faults
     \/ Fault /\ UNCHANGED locks
  /\ pending' = [pending EXCEPT ![c] = @ \ {<<k, by>>}]
  /\ via' = [via EXCEPT ![c][k] = NoSession]
  /\ UNCHANGED <<timer, forced, expiries>>

(* The timer fires while its holder is in its loop: the lock is freed, and *)
(* the holder is not told.                                                 *)
TimerFires(c, k) ==
  /\ timer[c][k] = "armed"
  /\ Expiry
  /\ timer' = [timer EXCEPT ![c][k] = "fired"]
  /\ pending' = [pending EXCEPT ![c] = @ \cup {<<k, "ttl">>}]
  /\ forced' = forced \cup {k}
  /\ UNCHANGED <<locks, via, faults>>

SessionEnds(s) ==
  /\ \E k \in Skus : locks[s][k] > 0
  /\ Expiry
  /\ locks' = [locks EXCEPT ![s] = [k \in Skus |-> 0]]
  /\ forced' = forced \cup {k \in Skus : \E c \in Calls : via[c][k] = s}
  /\ via' = [c \in Calls |-> [k \in Skus |-> IF via[c][k] = s THEN NoSession ELSE via[c][k]]]
  /\ UNCHANGED <<timer, pending, faults>>
=============================================================================
