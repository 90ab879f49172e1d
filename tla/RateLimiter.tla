---------------------------- MODULE RateLimiter -----------------------------
(***************************************************************************)
(* RateLimiter.isAllowed and the middleware that asks it: one counter in   *)
(* Redis for a client and a window of time, incremented by every request,  *)
(* and given an expiry by the request that creates it.                     *)
(*                                                                         *)
(* Covered: requests of one client that overlap, in one window and across  *)
(* its end; a request that reads the clock in one window and counts in the *)
(* next; a process that dies between INCR and PEXPIREAT; Redis errors,     *)
(* which let a request pass; a connection lost with a command on its way,  *)
(* for which the client waits (maxRetriesPerRequest: null) and which it    *)
(* sends again, also when Redis has executed it.                           *)
(* Not covered: the headers; clocks of pods that differ.                   *)
(***************************************************************************)
EXTENDS Naturals, FiniteSets

CONSTANTS
  Requests,   \* the requests sent
  Client,     \* Client[r]: who sends r
  RateMax,    \* rateLimitMax (100)
  LastWindow, \* bound on the windows of rateLimitWindowMs
  MaxOutages  \* bound on Redis calls that fail, replies lost and processes that die

ASSUME LimiterAssumption == /\ RateMax \in Nat \ {0}
                            /\ LastWindow \in Nat
                            /\ MaxOutages \in Nat

VARIABLES
  window,   \* the window the clock is in
  gate,     \* where a request is: before it, at a call, or what became of it
  start,    \* windowStart of its isAllowed
  counter,  \* the keys rl:<client>:<windowStart>, 0 without a key
  ttl,      \* those that expire
  counted,  \* history: the requests whose INCR was answered in their window
  extra,    \* history: the INCRs of a key whose reply was lost
  outages   \* how much of the bound is used

redis == <<counter, ttl, counted, extra>>
vars  == <<window, gate, start, redis, outages>>

Windows  == 0 .. LastWindow
RateKeys == {Client[r] : r \in Requests} \X Windows
rateKey(r) == <<Client[r], start[r]>>

TypeOK ==
  /\ window  \in Windows
  /\ gate    \in [Requests -> {"new", "incr", "pexpireat", "allowed", "open", "denied", "lost"}]
  /\ start   \in [Requests -> Windows]
  /\ counter \in [RateKeys -> Nat]
  /\ ttl     \in SUBSET RateKeys
  /\ counted \in SUBSET Requests
  /\ extra   \in [RateKeys -> Nat]
  /\ outages \in 0 .. MaxOutages

Init ==
  /\ window = 0
  /\ gate  = [r \in Requests |-> "new"]
  /\ start = [r \in Requests |-> 0]
  /\ counter = [k \in RateKeys |-> 0]
  /\ ttl = {}
  /\ counted = {}
  /\ extra = [k \in RateKeys |-> 0]
  /\ outages = 0

-----------------------------------------------------------------------------
Pass(r, place) == gate' = [gate EXCEPT ![r] = place]

verdict(current) == IF current <= RateMax THEN "allowed" ELSE "denied"

ReadClock(r) ==
  /\ gate[r] = "new"
  /\ Pass(r, "incr") /\ start' = [start EXCEPT ![r] = window]
  /\ UNCHANGED <<window, redis, outages>>

incr(r) ==
  /\ counter' = [counter EXCEPT ![rateKey(r)] = @ + 1]
  /\ counted' = IF start[r] = window THEN counted \cup {r} ELSE counted

Incr(r) ==
  /\ gate[r] = "incr"
  /\ incr(r)
  /\ Pass(r, IF counter[rateKey(r)] = 0 THEN "pexpireat"
             ELSE verdict(counter[rateKey(r)] + 1))
  /\ UNCHANGED <<window, start, ttl, extra, outages>>

(* A key that expires is gone, and the count starts again.                 *)
gone(K) == counter' = [k \in RateKeys |-> IF k \in K THEN 0 ELSE counter[k]]

(* Slip: the key expires at the start of its window.                       *)
pexpireatStart(r) == gone({rateKey(r)}) /\ UNCHANGED <<ttl, counted>>

(* An expiry in the past deletes the key.                                  *)
pexpireat(r) ==
  IF start[r] = window
  THEN ttl' = ttl \cup {rateKey(r)} /\ UNCHANGED <<counter, counted>>
  ELSE gone({rateKey(r)}) /\ UNCHANGED <<ttl, counted>>

PExpireAt(r) ==
  /\ gate[r] = "pexpireat"
  /\ pexpireat(r)
  /\ Pass(r, verdict(1))
  /\ UNCHANGED <<window, start, extra, outages>>

Outage == outages < MaxOutages /\ outages' = outages + 1

(* The command was executed and its reply is lost with the connection:     *)
(* ioredis sends it again on the next one, and the request waits.          *)
ReplyLost(r) ==
  /\ Outage
  /\ \/ /\ gate[r] = "incr"
        /\ counter' = [counter EXCEPT ![rateKey(r)] = @ + 1]
        /\ extra' = [extra EXCEPT ![rateKey(r)] = @ + 1]
        /\ UNCHANGED <<ttl, counted>>
     \/ gate[r] = "pexpireat" /\ pexpireat(r) /\ UNCHANGED extra
  /\ UNCHANGED <<window, gate, start>>

(* Redis answers with an error, or the connection has been closed: what    *)
(* isAllowed catches, and lets the request pass.                           *)
RedisThrows(r) ==
  /\ Outage /\ gate[r] \in {"incr", "pexpireat"}
  /\ Pass(r, "open")
  /\ UNCHANGED <<window, start, redis>>

Dies(r) ==
  /\ Outage /\ gate[r] \in {"incr", "pexpireat"}
  /\ Pass(r, "lost")
  /\ UNCHANGED <<window, start, redis>>

(* The next window; the keys of this one expire, those that do.            *)
Tick ==
  /\ window < LastWindow
  /\ window' = window + 1
  /\ gone(ttl) /\ ttl' = {}
  /\ UNCHANGED <<gate, start, counted, extra, outages>>

isAllowed(r) ==
  ReadClock(r) \/ Incr(r) \/ PExpireAt(r) \/ ReplyLost(r) \/ RedisThrows(r) \/ Dies(r)

Next == Tick \/ \E r \in Requests : isAllowed(r)
Spec == Init /\ [][Next]_vars

-----------------------------------------------------------------------------
(* A window lets no more than RateMax requests of a client pass, and turns *)
(* none away before that many have been; each INCR whose reply was lost    *)
(* takes the place of one.  So it is whichever requests overlap, whichever *)
(* process dies, and although a late expiry deletes the key.  This is of   *)
(* requests that are counted in the window they read; one that is counted  *)
(* later starts anew, and those Redis failed pass besides.                 *)
by(k, S) == {r \in counted : rateKey(r) = k /\ gate[r] \in S}

LimitHolds ==
  \A k \in RateKeys :
    /\ Cardinality(by(k, {"allowed", "pexpireat"})) <= RateMax
    /\ by(k, {"denied"}) # {} =>
         Cardinality(by(k, {"allowed", "pexpireat", "open", "lost"})) + extra[k] >= RateMax

(* Why it holds: until its window is over a key counts the INCRs executed  *)
(* in it, of the requests counted, none of which will ask again, and those *)
(* whose reply was lost; and nobody counts in a window to come; what       *)
(* expires or is deleted is of windows past.                               *)
CountInv ==
  /\ IsFiniteSet(counted)
  /\ \A r \in Requests : start[r] <= window
  /\ \A r \in counted : gate[r] \notin {"new", "incr"}
  /\ \A k \in RateKeys :
       /\ k[2] > window => counter[k] = 0 /\ extra[k] = 0
       /\ k[2] = window =>
            counter[k] = Cardinality({r \in counted : rateKey(r) = k}) + extra[k]

LimiterInv == TypeOK /\ CountInv /\ LimitHolds
=============================================================================
