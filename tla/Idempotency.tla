---------------------------- MODULE Idempotency -----------------------------
(***************************************************************************)
(* POST /api/v1/orders with an Idempotency-Key: the middleware that looks  *)
(* the key up in Redis, the transaction that inserts the order, and the    *)
(* onSend hook that stores the response (api/middleware/idempotency.ts,    *)
(* infrastructure/redis/idempotency-store.ts, api/server.ts).              *)
(*                                                                         *)
(* Covered: every await is a step, so that repeats of a request overlap it *)
(* and each other; two clients choose the same key, or a client and a key  *)
(* that make the Redis key of another pair; a key is reused with another   *)
(* body; an entry expires while the UNIQUE constraint of orders remembers  *)
(* the key; Redis is not available; the transaction fails, or commits and  *)
(* its answer is lost; the process dies.                                   *)
(* Not covered: the rate limiter (RateLimiter) and the validation of the   *)
(* body, which come before and after the look-up and store nothing, and    *)
(* the enqueue of the saga (SagaOrchestrator), whose failure the response  *)
(* does not show.                                                          *)
(***************************************************************************)
EXTENDS Naturals, Sequences

CONSTANTS
  Clients, Keys,  \* X-Client-ID and Idempotency-Key: the parts between their colons
  Bodies,
  Requests,  \* the requests sent; n tells repeats of one request apart
  Outages    \* whether Redis and Postgres calls fail and processes die

ASSUME HeadersAssumption == Clients \cup Keys \subseteq Seq(STRING)
ASSUME RequestsAssumption ==
  Requests \subseteq [client : Clients, key : Keys, body : Bodies, n : Nat]
ASSUME OutagesAssumption == Outages \in BOOLEAN

VARIABLES
  at,      \* the await a request is at
  reply,   \* its response, and the request whose order that response shows
  orders,  \* the requests whose order is in the table
  cached   \* the requests whose response is in Redis

vars == <<at, reply, orders, cached>>

Places  == {"idle", "get", "insert", "set", "done", "lost"}
Answers == {"none", "created", "replayed", "conflict", "error"}

TypeOK ==
  /\ at     \in [Requests -> Places]
  /\ reply  \in [Requests -> [status : Answers, of : Requests]]
  /\ orders \in SUBSET Requests
  /\ cached \in SUBSET orders

Init ==
  /\ at     = [r \in Requests |-> "idle"]
  /\ reply  = [r \in Requests |-> [status |-> "none", of |-> r]]
  /\ orders = {}
  /\ cached = {}

-----------------------------------------------------------------------------
Goto(r, place) == at' = [at EXCEPT ![r] = place]

Answer(r, status, q) == /\ Goto(r, "done")
                        /\ reply' = [reply EXCEPT ![r] = [status |-> status, of |-> q]]

(* Slip: the client is left out of the Redis key.                          *)
sameKeyOnly(q, r) == q.key = r.key

(* The Redis key is `idempotency:${clientId}:${idempotencyKey}`: joining   *)
(* two strings with a colon joins their lists of parts, so <<"a", "b">>,   *)
(* <<"c">> and <<"a">>, <<"b", "c">> have one entry. Neither header is     *)
(* validated. The column orders.idempotency_key has the key alone.         *)
redisKey(r) == r.client \o r.key

sameSlot(q, r) == redisKey(q) = redisKey(r)

(* Slip: the hash of the body is stored and not compared.                  *)
anyHash(q, r) == TRUE

sameHash(q, r) == q.body = r.body

entry(r) == {q \in cached : sameSlot(q, r)}
store(r) == cached' = (cached \ entry(r)) \cup {r}
taken(r) == \E q \in orders : q.key = r.key

-----------------------------------------------------------------------------
Arrive(r) ==
  /\ at[r] = "idle"
  /\ Goto(r, "get")
  /\ UNCHANGED <<reply, orders, cached>>

(* The middleware: replay, conflict, or go on.                             *)
Get(r) ==
  /\ at[r] = "get"
  /\ \/ entry(r) = {} /\ Goto(r, "insert") /\ UNCHANGED reply
     \/ \E q \in entry(r) :
          Answer(r, IF sameHash(q, r) THEN "replayed" ELSE "conflict", q)
  /\ UNCHANGED <<orders, cached>>

(* The store catches its errors: no Redis, no entry.                       *)
GetFails(r) ==
  /\ Outages /\ at[r] = "get"
  /\ Goto(r, "insert")
  /\ UNCHANGED <<reply, orders, cached>>

(* Slip: the column has no UNIQUE constraint.                              *)
InsertAnyway(r) ==
  /\ at[r] = "insert"
  /\ orders' = orders \cup {r}
  /\ Goto(r, "set")
  /\ UNCHANGED <<reply, cached>>

(* The transaction of createOrder commits.                                 *)
Insert(r) ==
  /\ at[r] = "insert" /\ ~taken(r)
  /\ orders' = orders \cup {r}
  /\ Goto(r, "set")
  /\ UNCHANGED <<reply, cached>>

(* Slip: the hook stores every response.                                   *)
RejectStored(r) ==
  /\ at[r] = "insert" /\ taken(r)
  /\ store(r)
  /\ Answer(r, "error", r)
  /\ UNCHANGED orders

(* The constraint is violated: nothing translates the error, and the hook  *)
(* stores only responses with a 2xx status.                                *)
Reject(r) ==
  /\ at[r] = "insert" /\ taken(r)
  /\ Answer(r, "error", r)
  /\ UNCHANGED <<orders, cached>>

InsertThrows(r) ==
  /\ Outages /\ at[r] = "insert"
  /\ UNCHANGED orders \/ (~taken(r) /\ orders' = orders \cup {r})
  /\ Answer(r, "error", r)
  /\ UNCHANGED cached

(* onSend: the response is stored before it is sent.                       *)
Set(r) ==
  /\ at[r] = "set"
  /\ store(r)
  /\ Answer(r, "created", r)
  /\ UNCHANGED orders

SetFails(r) ==
  /\ Outages /\ at[r] = "set"
  /\ Answer(r, "created", r)
  /\ UNCHANGED <<orders, cached>>

(* Also between the SET and the sending of the response.                   *)
Die(r) ==
  /\ Outages /\ at[r] \in {"get", "insert", "set"}
  /\ Goto(r, "lost")
  /\ UNCHANGED cached \/ (at[r] = "set" /\ store(r))
  /\ UNCHANGED <<reply, orders>>

(* idempotencyTtlSeconds after the SET.                                    *)
Expire(q) ==
  /\ q \in cached
  /\ cached' = cached \ {q}
  /\ UNCHANGED <<at, reply, orders>>

-----------------------------------------------------------------------------
Next == \E r \in Requests :
  \/ Arrive(r) \/ Get(r) \/ Insert(r) \/ Reject(r) \/ Set(r) \/ Expire(r)
  \/ GetFails(r) \/ InsertThrows(r) \/ SetFails(r) \/ Die(r)

Spec == Init /\ [][Next]_vars

-----------------------------------------------------------------------------
accepted(r) == reply[r].status \in {"created", "replayed"}

(* No other client and key make r's Redis key: so it is whenever the keys  *)
(* are what the API asks for, UUIDs, which have no colon.                  *)
alone(r) ==
  \A q \in Requests : redisKey(q) = redisKey(r) => q.client = r.client /\ q.key = r.key

(* An answer with an order shows one that exists, and it is of the key the *)
(* request has unless another client and key make its Redis key. No two    *)
(* answers show two orders of one key: also when the requests overlap,     *)
(* come from two clients, find their entry expired or Redis gone, or die.  *)
OneOrderPerKey ==
  \A q, r \in Requests :
    /\ accepted(r) => reply[r].of \in orders /\ (alone(r) => reply[r].of.key = r.key)
    /\ accepted(q) /\ accepted(r) /\ reply[q].of.key = reply[r].of.key
         => reply[q].of = reply[r].of

(* A replayed response is the one of a request that has the same Redis key *)
(* and body and got its order; it is the same client's same request unless *)
(* another client and key make that Redis key.                             *)
ReplayIsOriginal ==
  \A r \in Requests : reply[r].status = "replayed" =>
    LET q == reply[r].of IN
    /\ q \in orders /\ redisKey(q) = redisKey(r) /\ q.body = r.body
    /\ alone(r) => q.client = r.client /\ q.key = r.key

(* 409 is only answered against an order of another body under the same    *)
(* Redis key, never because of a request that failed; it is the client's   *)
(* own order unless another client and key make that Redis key.            *)
ConflictIsReal ==
  \A r \in Requests : reply[r].status = "conflict" =>
    LET q == reply[r].of IN
    /\ q \in orders /\ redisKey(q) = redisKey(r) /\ q.body # r.body
    /\ alone(r) => q.client = r.client /\ q.key = r.key

(* A stored response is never written over by that of another request of   *)
(* the same client and key, although two may both have missed it. (It goes *)
(* when it expires, or when another pair makes its Redis key.)             *)
EntryStands ==
  [][\A q \in cached \ cached' :
       ~\E r \in cached' : r.client = q.client /\ r.key = q.key]_vars

(* Why they hold: only what has its order is stored, and the UNIQUE        *)
(* constraint lets one request of a key have one.                          *)
KeysUnique == \A q, r \in orders : q.key = r.key => q = r
SetInv     == \A r \in Requests : at[r] = "set" => r \in orders
CreatedInv == \A r \in Requests : reply[r].status = "created" => r \in orders /\ reply[r].of = r

RepeatInv == TypeOK /\ KeysUnique /\ SetInv /\ CreatedInv /\ ReplayIsOriginal /\ ConflictIsReal
=============================================================================
