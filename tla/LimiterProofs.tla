---------------------------- MODULE LimiterProofs ----------------------------
(***************************************************************************)
(* RateLimiter for every number of requests, clients and windows and every *)
(* limit: LimiterInv is inductive.                                         *)
(***************************************************************************)
EXTENDS RateLimiter, FiniteSetTheorems, TLAPS

Gates == {"new", "incr", "pexpireat", "allowed", "open", "denied", "lost"}

LEMMA KeyOfRequest ==
  ASSUME TypeOK, NEW r \in Requests
  PROVE  /\ rateKey(r) \in RateKeys /\ rateKey(r)[2] = start[r]
         /\ start[r] \in Nat /\ window \in Nat
         /\ counter[rateKey(r)] \in Nat /\ extra[rateKey(r)] \in Nat
BY LimiterAssumption DEF TypeOK, rateKey, RateKeys, Windows

(* A request passes a gate or waits at it; the rest of the limiter sees    *)
(* nothing, one more count, one whose reply is lost, or a key that is gone.*)
Still      == UNCHANGED <<counter, counted, extra>>
Deletes(r) == start[r] # window /\ gone({rateKey(r)}) /\ UNCHANGED <<counted, extra>>
Again(r)   == /\ counter' = [counter EXCEPT ![rateKey(r)] = @ + 1]
              /\ extra' = [extra EXCEPT ![rateKey(r)] = @ + 1]
              /\ UNCHANGED counted

LEMMA CallEffect ==
  ASSUME TypeOK, NEW r \in Requests, isAllowed(r)
  PROVE  /\ window' = window
         /\ \A q \in Requests : q # r => gate'[q] = gate[q] /\ start'[q] = start[q]
         /\ \/ /\ gate[r] = "new" /\ gate'[r] = "incr" /\ start'[r] = window
               /\ Still
            \/ /\ gate[r] = "incr" /\ start' = start
               /\ \/ /\ incr(r)
                     /\ gate'[r] = IF counter[rateKey(r)] = 0 THEN "pexpireat"
                                   ELSE verdict(counter[rateKey(r)] + 1)
                     /\ UNCHANGED extra
                  \/ Again(r) /\ gate'[r] = "incr"
                  \/ Still /\ gate'[r] \in {"open", "lost"}
            \/ /\ gate[r] = "pexpireat" /\ start' = start
               /\ gate'[r] \in {"pexpireat", "allowed", "open", "lost"}
               /\ Still \/ Deletes(r)
<1> USE DEF Pass, TypeOK, redis, Still, Deletes, Again
<1>1. CASE ReadClock(r)
  BY <1>1 DEF ReadClock
<1>2. CASE Incr(r)
  BY <1>2 DEF Incr
<1>3. CASE PExpireAt(r)
  <2>1. verdict(1) = "allowed"
    BY LimiterAssumption DEF verdict
  <2> QED BY <1>3, <2>1 DEF PExpireAt, pexpireat
<1>4. CASE RedisThrows(r)
  BY <1>4 DEF RedisThrows
<1>5. CASE Dies(r)
  BY <1>5 DEF Dies
<1>6. CASE ReplyLost(r)
  BY <1>6 DEF ReplyLost, pexpireat
<1> QED BY <1>1, <1>2, <1>3, <1>4, <1>5, <1>6 DEF isAllowed

LEMMA LimiterTypeStep == TypeOK /\ [Next]_vars => TypeOK'
<1> SUFFICES ASSUME TypeOK, [Next]_vars PROVE TypeOK'
  OBVIOUS
<1>1. CASE UNCHANGED vars
  BY <1>1 DEF vars, redis, TypeOK
<1>2. CASE Tick
  BY <1>2, LimiterAssumption DEF Tick, gone, TypeOK, Windows
<1>3. ASSUME NEW r \in Requests, isAllowed(r) PROVE TypeOK'
  <2>0. \A n \in Nat : verdict(n) \in {"allowed", "denied"}
    BY DEF verdict
  <2>1. rateKey(r) \in RateKeys /\ counter[rateKey(r)] \in Nat /\ extra[rateKey(r)] \in Nat
    BY KeyOfRequest
  <2>2. incr(r) => counter' \in [RateKeys -> Nat] /\ counted' \in SUBSET Requests
    BY <2>1 DEF incr, TypeOK
  <2>3. pexpireat(r) => /\ counter' \in [RateKeys -> Nat] /\ counted' \in SUBSET Requests
                        /\ ttl' \in SUBSET RateKeys
    BY <2>1 DEF pexpireat, gone, TypeOK
  <2>4. Outage => outages' \in 0 .. MaxOutages
    BY LimiterAssumption DEF Outage, TypeOK
  <2> USE DEF TypeOK, Pass, redis
  <2>5. CASE ReadClock(r)
    BY <2>5 DEF ReadClock
  <2>6. CASE Incr(r)
    BY <2>0, <2>1, <2>2, <2>6 DEF Incr
  <2>7. CASE PExpireAt(r)
    BY <2>0, <2>3, <2>7 DEF PExpireAt
  <2>8. CASE RedisThrows(r)
    BY <2>4, <2>8 DEF RedisThrows
  <2>9. CASE Dies(r)
    BY <2>4, <2>9 DEF Dies
  <2>10. CASE ReplyLost(r)
    BY <2>1, <2>3, <2>4, <2>10 DEF ReplyLost
  <2> QED BY <1>3, <2>5, <2>6, <2>7, <2>8, <2>9, <2>10 DEF isAllowed
<1> QED BY <1>1, <1>2, <1>3 DEF Next

-----------------------------------------------------------------------------
(* Counting.                                                               *)
countedAt(k) == {q \in counted : rateKey(q) = k}

LEMMA CountedStay ==
  ASSUME TypeOK, CountInv, NEW r \in Requests, isAllowed(r), NEW q \in counted
  PROVE  start'[q] = start[q] /\ rateKey(q)' = rateKey(q)
<1>1. q \in Requests /\ gate[q] # "new"
  BY DEF TypeOK, CountInv
<1>2. q = r => start' = start
  BY <1>1, CallEffect
<1> QED BY <1>1, <1>2, CallEffect DEF rateKey

(* A request that INCR counts in its window adds one to its key.           *)
LEMMA OneMore ==
  ASSUME TypeOK, CountInv, NEW r \in Requests, isAllowed(r), gate[r] = "incr", incr(r),
         start[r] = window
  PROVE  /\ r \notin counted /\ counted' = counted \cup {r}
         /\ IsFiniteSet(counted') /\ start' = start /\ rateKey(r)[2] = window
         /\ Cardinality(countedAt(rateKey(r))) \in Nat
         /\ counter[rateKey(r)] = Cardinality(countedAt(rateKey(r))) + extra[rateKey(r)]
         /\ counter' = [counter EXCEPT ![rateKey(r)] = @ + 1] /\ extra' = extra
         /\ gate'[r] \in {"pexpireat", "allowed", "denied"}
         /\ gate'[r] = IF counter[rateKey(r)] = 0 THEN "pexpireat"
                       ELSE verdict(counter[rateKey(r)] + 1)
         /\ countedAt(rateKey(r))' = countedAt(rateKey(r)) \cup {r}
         /\ Cardinality(countedAt(rateKey(r))') = Cardinality(countedAt(rateKey(r))) + 1
         /\ \A k \in RateKeys : k # rateKey(r) => countedAt(k)' = countedAt(k)
<1>0. r \notin counted /\ counted' = counted \cup {r}
  BY DEF CountInv, incr
<1>1. /\ r \notin counted /\ counted' = counted \cup {r} /\ start' = start /\ extra' = extra
      /\ gate'[r] \in {"pexpireat", "allowed", "denied"}
      /\ gate'[r] = IF counter[rateKey(r)] = 0 THEN "pexpireat" ELSE verdict(counter[rateKey(r)] + 1)
  BY <1>0, CallEffect DEF Again, Still, verdict
<1>2. IsFiniteSet(counted')
  BY <1>1, FS_AddElement DEF CountInv
<1>3. rateKey(r) \in RateKeys /\ rateKey(r)[2] = window
  BY KeyOfRequest
<1>4. counter[rateKey(r)] = Cardinality(countedAt(rateKey(r))) + extra[rateKey(r)]
  BY <1>3 DEF CountInv, countedAt
<1>5. IsFiniteSet(countedAt(rateKey(r)))
  BY FS_Subset DEF CountInv, countedAt
<1>6. countedAt(rateKey(r))' = countedAt(rateKey(r)) \cup {r} /\ r \notin countedAt(rateKey(r))
  BY <1>1 DEF countedAt, rateKey
<1>7. Cardinality(countedAt(rateKey(r))') = Cardinality(countedAt(rateKey(r))) + 1
  BY <1>5, <1>6, FS_AddElement
<1>8. \A k \in RateKeys : k # rateKey(r) => countedAt(k)' = countedAt(k)
  BY <1>1 DEF countedAt, rateKey
<1> QED BY <1>1, <1>2, <1>3, <1>4, <1>5, <1>6, <1>7, <1>8, FS_CardinalityType DEF incr

LEMMA CountCall ==
  ASSUME TypeOK, CountInv, NEW r \in Requests, isAllowed(r)
  PROVE  CountInv'
<1> USE DEF TypeOK
<1>0. /\ window' = window /\ window \in Nat /\ counted \subseteq Requests
      /\ \A q \in Requests : q # r => gate'[q] = gate[q] /\ start'[q] = start[q]
  BY CallEffect, KeyOfRequest
<1>1. \A q \in Requests : start'[q] <= window'
  BY <1>0, CallEffect DEF CountInv
<1>2. \/ gate'[r] \notin {"new", "incr"}
      \/ gate[r] = "new" /\ gate'[r] = "incr"
      \/ Again(r) /\ gate[r] = "incr"
  BY CallEffect DEF verdict
<1>3. CASE gate[r] = "incr" /\ incr(r) /\ start[r] = window
  <2>1. /\ r \notin counted /\ counted' = counted \cup {r} /\ IsFiniteSet(counted')
    BY <1>3, OneMore
  <2>2. \A q \in counted' : gate'[q] \notin {"new", "incr"}
    BY <1>0, <1>3, <2>1, OneMore DEF CountInv
  <2>3. ASSUME NEW k \in RateKeys
        PROVE  /\ k[2] > window => counter'[k] = 0 /\ extra'[k] = 0
               /\ k[2] = window => counter'[k] = Cardinality(countedAt(k)') + extra'[k]
    <3>1. CASE k = rateKey(r)
      <4>0. rateKey(r)' = k
        BY <1>3, <3>1, OneMore DEF rateKey
      <4>1. countedAt(rateKey(r))' = countedAt(k)'
        BY <3>1, <4>0 DEF countedAt
      <4>2. /\ counter[rateKey(r)] = Cardinality(countedAt(rateKey(r))) + extra[rateKey(r)]
            /\ rateKey(r)[2] = window /\ extra' = extra
            /\ counter' = [counter EXCEPT ![rateKey(r)] = @ + 1]
            /\ Cardinality(countedAt(rateKey(r))) \in Nat /\ extra[rateKey(r)] \in Nat
            /\ Cardinality(countedAt(rateKey(r))') = Cardinality(countedAt(rateKey(r))) + 1
        BY <1>3, OneMore, KeyOfRequest
      <4>3. counter'[k] = counter[rateKey(r)] + 1
        BY <3>1, <4>2 DEF TypeOK
      <4>4. counter'[k] = Cardinality(countedAt(k)') + extra'[k]
        BY <3>1, <4>1, <4>2, <4>3
      <4> QED BY <1>0, <3>1, <4>2, <4>4
    <3>2. CASE k # rateKey(r)
      <4>1. counter'[k] = counter[k] /\ countedAt(k)' = countedAt(k) /\ extra' = extra
        BY <1>3, <3>2, OneMore
      <4> QED BY <4>1 DEF CountInv, countedAt
    <3> QED BY <3>1, <3>2
  <2> QED BY <1>0, <1>1, <2>1, <2>2, <2>3 DEF CountInv, countedAt
<1>4. CASE ~(gate[r] = "incr" /\ incr(r) /\ start[r] = window)
  <2>0. start[r] <= window /\ rateKey(r)[2] = start[r] /\ start[r] \in Nat /\ rateKey(r) \in RateKeys
    BY KeyOfRequest DEF CountInv
  <2>1. counted' = counted
    <3>1. CASE gate[r] = "incr" /\ incr(r)
      BY <1>4, <3>1 DEF incr
    <3> QED BY <3>1, CallEffect DEF Deletes, Still, Again
  <2>2. \A q \in counted' : gate'[q] \notin {"new", "incr"}
    BY <1>0, <1>2, <2>1 DEF CountInv
  <2>3. \A k : countedAt(k)' = countedAt(k)
    BY <2>1, CountedStay DEF countedAt
  <2>4. ASSUME NEW k \in RateKeys, k[2] >= window
        PROVE  \/ counter'[k] = counter[k] /\ extra'[k] = extra[k]
               \/ k[2] = window /\ counter'[k] = counter[k] + 1 /\ extra'[k] = extra[k] + 1
    <3>0. k = rateKey(r) => k[2] = window
      BY <1>0, <2>0, <2>4
    <3>1. CASE Again(r)
      BY <3>0, <3>1 DEF Again
    <3>2. CASE gate[r] = "incr" /\ incr(r) /\ UNCHANGED extra
      BY <1>0, <1>4, <2>0, <2>4, <3>2 DEF incr
    <3>3. CASE Deletes(r)
      BY <1>0, <2>0, <2>4, <3>3 DEF Deletes, gone
    <3>4. CASE Still
      BY <3>4 DEF Still
    <3> QED BY <3>1, <3>2, <3>3, <3>4, CallEffect
  <2>5. ASSUME NEW k \in RateKeys
        PROVE  /\ k[2] > window => counter'[k] = 0 /\ extra'[k] = 0
               /\ k[2] = window => counter'[k] = Cardinality(countedAt(k)') + extra'[k]
    <3>1. k[2] \in Nat /\ counter[k] \in Nat /\ extra[k] \in Nat
      BY LimiterAssumption DEF RateKeys, Windows
    <3>2. IsFiniteSet(countedAt(k))
      BY FS_Subset DEF CountInv, countedAt
    <3>3. Cardinality(countedAt(k)) \in Nat
      BY <3>2, FS_CardinalityType
    <3>4. /\ k[2] > window => counter[k] = 0 /\ extra[k] = 0
          /\ k[2] = window => counter[k] = Cardinality(countedAt(k)) + extra[k]
      BY DEF CountInv, countedAt
    <3>5. CASE k[2] > window
      BY <1>0, <2>4, <3>1, <3>4, <3>5
    <3>6. CASE k[2] = window
      BY <1>0, <2>3, <2>4, <3>1, <3>3, <3>4, <3>6
    <3> QED BY <1>0, <3>1, <3>5, <3>6
  <2> QED BY <1>0, <1>1, <2>1, <2>2, <2>5 DEF CountInv, countedAt
<1> QED BY <1>3, <1>4

LEMMA CountTick == TypeOK /\ CountInv /\ Tick => CountInv'
<1> SUFFICES ASSUME TypeOK, CountInv, Tick PROVE CountInv'
  OBVIOUS
<1>1. /\ window \in Nat /\ window' = window + 1 /\ UNCHANGED <<gate, start, counted, extra>>
      /\ counter' = [k \in RateKeys |-> IF k \in ttl THEN 0 ELSE counter[k]]
  BY LimiterAssumption DEF Tick, gone, TypeOK, Windows
<1>2. ASSUME NEW k \in RateKeys, k[2] > window PROVE counter'[k] = 0 /\ extra'[k] = 0
  BY <1>1, <1>2 DEF CountInv
<1>3. ASSUME NEW k \in RateKeys, k[2] = window + 1 PROVE countedAt(k)' = {}
  <2>1. \A q \in counted : start[q] <= window /\ start[q] \in Nat
    BY LimiterAssumption DEF CountInv, TypeOK, Windows
  <2> QED BY <1>1, <1>3, <2>1 DEF countedAt, rateKey
<1>4. \A k \in RateKeys : k[2] \in Nat
  BY LimiterAssumption DEF RateKeys, Windows
<1>5. \A k \in RateKeys : /\ k[2] > window' => counter'[k] = 0 /\ extra'[k] = 0
                          /\ k[2] = window' => counter'[k] = Cardinality(countedAt(k)') + extra'[k]
  <2> SUFFICES ASSUME NEW k \in RateKeys
               PROVE  /\ k[2] > window' => counter'[k] = 0 /\ extra'[k] = 0
                      /\ k[2] = window' => counter'[k] = Cardinality(countedAt(k)') + extra'[k]
    OBVIOUS
  <2>1. k[2] >= window' => counter'[k] = 0 /\ extra'[k] = 0
    BY <1>1, <1>2, <1>4
  <2>2. k[2] = window' => countedAt(k)' = {}
    BY <1>1, <1>3
  <2>3. k[2] = window' => Cardinality(countedAt(k)') = 0
    BY <2>2, FS_EmptySet
  <2> QED BY <1>1, <1>4, <2>1, <2>3
<1>6. \A q \in Requests : start'[q] <= window'
  BY <1>1, LimiterAssumption DEF CountInv, TypeOK, Windows
<1> QED BY <1>1, <1>5, <1>6 DEF CountInv, countedAt

-----------------------------------------------------------------------------
(* The limit.                                                              *)
Passed == {"allowed", "pexpireat"}
Served == {"allowed", "pexpireat", "open", "lost"}

limitAt(k) == /\ Cardinality(by(k, Passed)) <= RateMax
              /\ by(k, {"denied"}) # {} => Cardinality(by(k, Served)) + extra[k] >= RateMax

LEMMA ByFinite ==
  ASSUME IsFiniteSet(counted), NEW k, NEW S
  PROVE  IsFiniteSet(by(k, S)) /\ Cardinality(by(k, S)) \in Nat
BY FS_Subset, FS_CardinalityType DEF by

(* Who is not counted by a call leaves the limit of every key as it was.   *)
LEMMA LimitSame ==
  ASSUME TypeOK, CountInv, NEW r \in Requests, isAllowed(r), NEW k \in RateKeys, limitAt(k),
         \A q \in counted' : rateKey(q)' = k => q \in counted,
         counted \subseteq counted', IsFiniteSet(counted')
  PROVE  limitAt(k)'
<1>0. counted \subseteq Requests /\ IsFiniteSet(counted)
  BY DEF TypeOK, CountInv
<1>1. \A q \in counted : rateKey(q)' = rateKey(q)
  BY CountedStay
<1>2. ASSUME NEW q \in counted
      PROVE  \/ gate'[q] = gate[q]
             \/ gate[q] = "pexpireat" /\ gate'[q] \in {"allowed", "open", "lost"}
  <2>1. gate[q] \notin {"new", "incr"}
    BY DEF CountInv
  <2> QED BY <1>0, <2>1, CallEffect
<1>3. by(k, Passed)' \subseteq by(k, Passed)
  BY <1>1, <1>2 DEF by, Passed
<1>4. by(k, Served) \subseteq by(k, Served)'
  BY <1>1, <1>2 DEF by, Served
<1>5. by(k, {"denied"})' = by(k, {"denied"})
  BY <1>1, <1>2 DEF by
<1>6. /\ IsFiniteSet(by(k, Passed)) /\ Cardinality(by(k, Passed)) \in Nat
      /\ Cardinality(by(k, Served)) \in Nat
  BY <1>0, ByFinite
<1>7. /\ IsFiniteSet(by(k, Served)') /\ Cardinality(by(k, Served)') \in Nat
      /\ IsFiniteSet(by(k, Passed)') /\ Cardinality(by(k, Passed)') \in Nat
  BY FS_Subset, FS_CardinalityType DEF by
<1>8. Cardinality(by(k, Passed)') <= Cardinality(by(k, Passed))
  BY <1>3, <1>6, FS_Subset
<1>9. Cardinality(by(k, Served)) <= Cardinality(by(k, Served)')
  BY <1>4, <1>7, FS_Subset
<1>10. extra[k] \in Nat /\ extra'[k] \in Nat /\ extra'[k] >= extra[k]
  <2>1. extra' = extra \/ Again(r)
    BY CallEffect DEF Still, Deletes
  <2> QED BY <2>1, KeyOfRequest DEF Again, TypeOK
<1> QED BY <1>5, <1>6, <1>7, <1>8, <1>9, <1>10, LimiterAssumption DEF limitAt

(* Who is counted is let through while there are fewer than RateMax, and   *)
(* turned away when that many have been before.                            *)
LEMMA LimitCounted ==
  ASSUME TypeOK, CountInv, NEW r \in Requests, isAllowed(r), gate[r] = "incr", incr(r),
         start[r] = window, limitAt(rateKey(r))
  PROVE  limitAt(rateKey(r))'
<1> DEFINE k == rateKey(r)
           c == Cardinality(countedAt(k))
           e == extra[k]
<1>0. /\ r \notin counted /\ counted' = counted \cup {r} /\ IsFiniteSet(counted)
      /\ IsFiniteSet(counted') /\ c \in Nat /\ e \in Nat /\ counter[k] = c + e /\ k' = k
      /\ extra'[k] = e
      /\ IsFiniteSet(countedAt(k)') /\ Cardinality(countedAt(k)') = c + 1
      /\ countedAt(k)' = countedAt(k) \cup {r}
  <2>1. k' = k
    BY OneMore DEF rateKey
  <2>2. IsFiniteSet(countedAt(k)')
    BY OneMore, FS_Subset DEF countedAt
  <2> QED BY <2>1, <2>2, OneMore, KeyOfRequest DEF CountInv
<1>1. \A q \in counted : gate'[q] = gate[q] /\ rateKey(q)' = rateKey(q)
  BY <1>0, CallEffect, CountedStay DEF TypeOK
<1>2. gate'[r] = IF c + e = 0 THEN "pexpireat" ELSE verdict(c + e + 1)
  BY <1>0, OneMore
<1>3. gate'[r] \in Passed => c + 1 <= RateMax
  BY <1>0, <1>2, LimiterAssumption DEF verdict, Passed
<1>4. gate'[r] = "denied" => c + e >= RateMax
  BY <1>0, <1>2, LimiterAssumption DEF verdict
<1>5. ASSUME NEW S
      PROVE  /\ by(k, S)' = IF gate'[r] \in S THEN by(k, S) \cup {r} ELSE by(k, S)
             /\ by(k, S)' \subseteq countedAt(k)'
             /\ IsFiniteSet(by(k, S)) /\ Cardinality(by(k, S)) \in Nat
             /\ IsFiniteSet(by(k, S)') /\ Cardinality(by(k, S)') \in Nat
             /\ Cardinality(by(k, S)) <= Cardinality(by(k, S)')
             /\ Cardinality(by(k, S)') <= c + 1
  <2>1. by(k, S)' = IF gate'[r] \in S THEN by(k, S) \cup {r} ELSE by(k, S)
    BY <1>0, <1>1 DEF by
  <2>2. by(k, S)' \subseteq countedAt(k)'
    BY <1>0 DEF by, countedAt
  <2>3. IsFiniteSet(by(k, S)') /\ Cardinality(by(k, S)') <= c + 1
    BY <1>0, <2>2, FS_Subset
  <2>4. Cardinality(by(k, S)) <= Cardinality(by(k, S)')
    BY <2>1, <2>3, FS_Subset
  <2> QED BY <1>0, <2>1, <2>2, <2>3, <2>4, ByFinite, FS_CardinalityType
<1>6. Cardinality(by(k, Passed)') <= RateMax
  <2>1. CASE gate'[r] \in Passed
    BY <1>0, <1>3, <1>5, <2>1, LimiterAssumption
  <2>2. CASE gate'[r] \notin Passed
    BY <1>5, <2>2 DEF limitAt
  <2> QED BY <2>1, <2>2
<1>7. ASSUME by(k, {"denied"})' # {} PROVE Cardinality(by(k, Served)') + extra'[k] >= RateMax
  <2>1. CASE by(k, {"denied"}) # {}
    BY <1>0, <1>5, <2>1, LimiterAssumption DEF limitAt
  <2>2. CASE by(k, {"denied"}) = {}
    <3>1. gate'[r] = "denied"
      BY <1>5, <1>7, <2>2
    <3>2. countedAt(k) = by(k, Served)
      <4>1. \A q \in counted : gate[q] \in {"pexpireat", "allowed", "open", "denied", "lost"}
        BY DEF TypeOK, CountInv
      <4>2. \A q \in counted : rateKey(q) = k => gate[q] # "denied"
        BY <2>2 DEF by
      <4> QED BY <4>1, <4>2 DEF by, countedAt, Served
    <3> QED BY <1>0, <1>4, <1>5, <3>1, <3>2, LimiterAssumption
  <2> QED BY <2>1, <2>2
<1> QED BY <1>0, <1>6, <1>7 DEF limitAt

LEMMA LimitByKeys == LimitHolds <=> \A k \in RateKeys : limitAt(k)
BY DEF LimitHolds, limitAt, Passed, Served

LEMMA LimiterStep == LimiterInv /\ [Next]_vars => LimiterInv'
<1> SUFFICES ASSUME LimiterInv, [Next]_vars PROVE LimiterInv'
  OBVIOUS
<1>1. TypeOK /\ CountInv /\ TypeOK' /\ \A k \in RateKeys : limitAt(k)
  BY LimiterTypeStep, LimitByKeys DEF LimiterInv
<1>2. CASE UNCHANGED vars
  BY <1>1, <1>2 DEF vars, redis, LimiterInv, CountInv, LimitHolds, by, rateKey
<1>3. CASE Tick
  <2>1. CountInv'
    BY <1>1, <1>3, CountTick
  <2>2. UNCHANGED <<gate, start, counted, extra>>
    BY <1>3 DEF Tick
  <2> QED BY <1>1, <2>1, <2>2 DEF LimiterInv, LimitHolds, by, rateKey
<1>4. ASSUME NEW r \in Requests, isAllowed(r) PROVE LimiterInv'
  <2>1. CountInv'
    BY <1>1, <1>4, CountCall
  <2>2. IsFiniteSet(counted')
    BY <2>1 DEF CountInv
  <2>3. ASSUME NEW k \in RateKeys PROVE limitAt(k)'
    <3>1. CASE gate[r] = "incr" /\ incr(r) /\ start[r] = window /\ k = rateKey(r)
      <4>1. limitAt(rateKey(r))' /\ rateKey(r)' = rateKey(r)
        BY <1>1, <1>4, <3>1, LimitCounted, OneMore DEF rateKey
      <4> QED BY <3>1, <4>1 DEF limitAt, by
    <3>2. CASE gate[r] = "incr" /\ incr(r) /\ start[r] = window /\ k # rateKey(r)
      <4>1. counted' = counted \cup {r} /\ rateKey(r)' = rateKey(r)
        BY <1>1, <1>4, <3>2, OneMore DEF rateKey
      <4> QED BY <1>1, <1>4, <2>2, <3>2, <4>1, LimitSame
    <3>3. CASE ~(gate[r] = "incr" /\ incr(r) /\ start[r] = window)
      <4>1. counted' = counted
        BY <1>1, <1>4, <3>3, CallEffect DEF Still, Deletes, Again, incr
      <4> QED BY <1>1, <1>4, <2>2, <4>1, LimitSame
    <3> QED BY <3>1, <3>2, <3>3
  <2>4. LimitHolds'
    BY <2>3 DEF LimitHolds, limitAt, Passed, Served
  <2> QED BY <1>1, <2>1, <2>4 DEF LimiterInv
<1> QED BY <1>2, <1>3, <1>4 DEF Next

(* However many requests overlap in a window and across its end, whichever *)
(* process dies and whatever Redis refuses, RateMax requests of a client   *)
(* that are counted in the window they read pass it, and none is turned    *)
(* away before, an INCR that ioredis sends again taking the place of one;  *)
(* a late PEXPIREAT deletes only keys of windows past.                     *)
THEOREM LimitIsKept == Spec => []LimiterInv
<1>1. Init => LimiterInv
  <2> SUFFICES ASSUME Init PROVE LimiterInv
    OBVIOUS
  <2>1. TypeOK
    BY LimiterAssumption DEF Init, TypeOK, Windows
  <2>2. \A k, S : by(k, S) = {}
    BY DEF Init, by
  <2>3. LimitHolds
    BY <2>2, FS_EmptySet, LimiterAssumption DEF LimitHolds
  <2>4. ASSUME NEW k \in RateKeys
        PROVE  counter[k] = Cardinality({q \in counted : rateKey(q) = k}) + extra[k]
    <3>1. counter[k] = 0 /\ extra[k] = 0 /\ {q \in counted : rateKey(q) = k} = {}
      BY DEF Init
    <3> QED BY <3>1, FS_EmptySet
  <2>5. CountInv
    BY <2>4, FS_EmptySet DEF Init, CountInv
  <2> QED BY <2>1, <2>3, <2>5 DEF LimiterInv
<1> QED BY <1>1, LimiterStep, PTL DEF Spec
=============================================================================
