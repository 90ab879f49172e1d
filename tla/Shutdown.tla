------------------------------ MODULE Shutdown ------------------------------
(***************************************************************************)
(* The life of one process: main() of index.ts from the start of the       *)
(* workers to process.exit, with stopWorkers, OutboxProcessor.start and    *)
(* stop, and the closing of the connections.                               *)
(*                                                                         *)
(* Covered: what is under way when a signal arrives and what each step of  *)
(* the shutdown waits for; a second signal, whose shutdown runs beside the *)
(* first; a signal or a failure before main() has finished; the drain      *)
(* timeout; an uncaught exception; the end of the grace period; getSql()   *)
(* opening the pool again after closeDatabase.                             *)
(* Not covered: what requests, jobs and batches do, the modules of which   *)
(* regard an exit as a crash; the three connections are one.               *)
(***************************************************************************)
CONSTANTS
  Requests,      \* requests to the public and the admin server at a time
  Jobs,          \* jobs in the four workers at a time
  Compensations, \* compensations the admin route starts and does not await
  Batch,         \* processBatch
  Signals        \* the signals that arrive: a SIGTERM, a SIGINT, a second of either

Tasks   == Requests \cup Jobs \cup Compensations \cup {Batch}
Awaited == Requests \cup Jobs

ASSUME TasksAssumption ==
  /\ Requests \cap Jobs = {}
  /\ Compensations \cap Awaited = {}
  /\ Batch \notin Awaited \cup Compensations

VARIABLES
  boot,       \* how far main() is
  accepting,  \* whether the servers accept requests
  taking,     \* whether the workers take jobs
  polling,    \* whether the outbox loop goes on
  pool,       \* the connections
  running,    \* the tasks under way
  phase,      \* the await at which the shutdown of a signal is
  timer,      \* its drain timeout
  exit,       \* exit code, or "none"
  cut         \* history: the tasks under way at the exit

services == <<accepting, taking, polling>>
shutdowns == <<phase, timer>>
vars == <<boot, services, pool, running, shutdowns, exit, cut>>

TypeOK ==
  /\ boot \in {"configure", "build", "listen", "ready"}
  /\ accepting \in BOOLEAN /\ taking \in BOOLEAN /\ polling \in BOOLEAN
  /\ pool \in {"open", "ending", "closed"}
  /\ running \in SUBSET Tasks /\ cut \in SUBSET Tasks
  /\ phase \in [Signals -> {"none", "servers", "outbox", "workers", "connections", "tracer"}]
  /\ timer \in [Signals -> {"none", "armed", "cleared"}]
  /\ exit \in {"none", "0", "1", "killed"}

Init ==
  /\ boot = "configure"
  /\ accepting = FALSE /\ taking = FALSE /\ polling = FALSE
  /\ pool = "open"
  /\ running = {} /\ cut = {}
  /\ phase = [s \in Signals |-> "none"]
  /\ timer = [s \in Signals |-> "none"]
  /\ exit = "none"

Exit(code) == exit' = code /\ cut' = running
Alive == exit = "none" /\ UNCHANGED <<exit, cut>>
Ends  == exit = "none" /\ UNCHANGED <<boot, services, pool, running, shutdowns>>

-----------------------------------------------------------------------------
(* main().  The workers and the outbox loop run before a server listens,   *)
(* and before a signal has a handler.                                      *)
StartWorkers ==
  /\ Alive /\ boot = "configure"
  /\ boot' = "build" /\ taking' = TRUE /\ polling' = TRUE
  /\ UNCHANGED <<accepting, pool, running, shutdowns>>

Listen ==
  /\ Alive /\ boot = "build"
  /\ boot' = "listen" /\ accepting' = TRUE
  /\ UNCHANGED <<taking, polling, pool, running, shutdowns>>

Ready ==
  /\ Alive /\ boot = "listen"
  /\ boot' = "ready"
  /\ UNCHANGED <<services, pool, running, shutdowns>>

(* main().catch: the configuration is invalid, a port is taken.            *)
BootFails == boot # "ready" /\ Ends /\ Exit("1")

(* The default action of a signal without a handler, and SIGKILL when the  *)
(* grace period is over.                                                   *)
Killed == (boot # "ready" \/ \E s \in Signals : phase[s] # "none") /\ Ends /\ Exit("killed")

UncaughtException == boot = "ready" /\ Ends /\ Exit("1")

-----------------------------------------------------------------------------
(* What the process does: tasks begin and finish.                          *)
mayBegin(t) ==
  \/ t \in Requests /\ accepting
  \/ t \in Jobs /\ taking
  \/ t = Batch /\ polling
  \/ t \in Compensations /\ running \cap Requests # {}

Begin(t) ==
  /\ Alive /\ t \notin running /\ mayBegin(t)
  /\ running' = running \cup {t}
  /\ UNCHANGED <<boot, services, pool, shutdowns>>

Finish(t) ==
  /\ Alive /\ t \in running
  /\ running' = running \ {t}
  /\ UNCHANGED <<boot, services, pool, shutdowns>>

(* A statement after closeDatabase gets a new pool, which nobody closes.   *)
getSql(t) ==
  /\ Alive /\ t \in running /\ pool = "closed"
  /\ pool' = "open"
  /\ UNCHANGED <<boot, services, running, shutdowns>>

-----------------------------------------------------------------------------
(* shutdown(signal), one run of it for every signal.                       *)
Goto(s, place) == phase' = [phase EXCEPT ![s] = place]

Signal(s) ==
  /\ Alive /\ boot = "ready" /\ phase[s] = "none"
  /\ Goto(s, "servers")
  /\ accepting' = FALSE
  /\ UNCHANGED <<boot, taking, polling, pool, running, timer>>

(* Slip: the close of the servers is not awaited.                          *)
ServersClosingOn(s) ==
  /\ Alive /\ phase[s] = "servers"
  /\ Goto(s, "outbox")
  /\ polling' = FALSE
  /\ UNCHANGED <<boot, accepting, taking, pool, running, timer>>

(* app.close() has waited for the requests in flight.  The outbox loop is  *)
(* told to stop; its batch goes on.                                        *)
ServersClosed(s) ==
  /\ Alive /\ phase[s] = "servers" /\ running \cap Requests = {}
  /\ Goto(s, "outbox")
  /\ polling' = FALSE
  /\ UNCHANGED <<boot, accepting, taking, pool, running, timer>>

(* Slip: the drain has no timeout.                                         *)
OutboxStoppedNoTimeout(s) ==
  /\ Alive /\ phase[s] = "outbox"
  /\ Goto(s, "workers")
  /\ taking' = FALSE
  /\ UNCHANGED <<boot, accepting, polling, pool, running, timer>>

(* The queues are closed; the drain begins.                                *)
OutboxStopped(s) ==
  /\ Alive /\ phase[s] = "outbox"
  /\ Goto(s, "workers")
  /\ timer' = [timer EXCEPT ![s] = "armed"]
  /\ taking' = FALSE
  /\ UNCHANGED <<boot, accepting, polling, pool, running>>

(* Nothing is left to close when another shutdown has done it.             *)
closeDatabase == pool' = IF pool = "open" THEN "ending" ELSE pool

(* Slip: a shutdown whose drain was begun by another goes on at once.      *)
WorkersClosedTwice(s) ==
  /\ Alive /\ phase[s] = "workers"
  /\ \/ running \cap Jobs = {}
     \/ \E r \in Signals \ {s} : phase[r] = "workers"
  /\ Goto(s, "connections")
  /\ timer' = [timer EXCEPT ![s] = "cleared"]
  /\ closeDatabase
  /\ UNCHANGED <<boot, services, running>>

(* Every worker has closed, for all the shutdowns that wait for it.        *)
WorkersClosed(s) ==
  /\ Alive /\ phase[s] = "workers" /\ running \cap Jobs = {}
  /\ Goto(s, "connections")
  /\ timer' = [timer EXCEPT ![s] = "cleared"]
  /\ closeDatabase
  /\ UNCHANGED <<boot, services, running>>

(* A worker that has closed lets its shutdowns go on before a timer fires. *)
DrainTimesOut(s) ==
  /\ timer[s] = "armed" /\ running \cap Jobs # {}
  /\ Ends /\ Exit("1")

ConnectionsClosed(s) ==
  /\ Alive /\ phase[s] = "connections"
  /\ Goto(s, "tracer")
  /\ pool' = IF pool = "ending" THEN "closed" ELSE pool
  /\ UNCHANGED <<boot, services, running, timer>>

Exits(s) == phase[s] = "tracer" /\ Ends /\ Exit("0")

shutdown(s) == \/ ServersClosed(s) \/ OutboxStopped(s) \/ WorkersClosed(s)
               \/ DrainTimesOut(s) \/ ConnectionsClosed(s) \/ Exits(s)

-----------------------------------------------------------------------------
Next == \/ StartWorkers \/ Listen \/ Ready
        \/ BootFails \/ Killed \/ UncaughtException
        \/ \E t \in Tasks : Begin(t) \/ Finish(t) \/ getSql(t)
        \/ \E s \in Signals : Signal(s) \/ shutdown(s)

(* What Node does by itself: a promise that is settled is gone on from, a  *)
(* timer fires.  No task has to end, and neither has the closing of the    *)
(* queues, the connections or the tracer, which waits for Redis, Postgres  *)
(* or the collector and has no timeout.                                    *)
Fairness ==
  \A s \in Signals : WF_vars(ServersClosed(s)) /\ WF_vars(WorkersClosed(s) \/ DrainTimesOut(s))

Spec     == Init /\ [][Next]_vars
FairSpec == Spec /\ Fairness

-----------------------------------------------------------------------------
(* A shutdown that ends with code 0 has cut off no request and no job,     *)
(* whatever another shutdown was doing at the time.  What it may cut off   *)
(* is a compensation an administrator was told is triggered, and a batch.  *)
CleanExit == exit = "0" => cut \cap Awaited = {}

(* As long as a request is in flight the workers take jobs, so that the    *)
(* saga it starts need not wait for another process; and no request or job *)
(* loses its connections.                                                  *)
DrainsInOrder ==
  /\ running \cap Requests # {} => taking
  /\ running \cap Awaited  # {} => pool = "open"

(* The awaits of a shutdown on queues, connections and the tracer.         *)
Closing == {"outbox", "connections", "tracer"}

(* A process that was told to stop ends although its jobs never do: if the *)
(* requests in flight end and what it closes closes, for which the code    *)
(* has no timeout.  The drain of the workers is the one wait that has.     *)
ShutdownEnds ==
  /\ \A r \in Requests : []<>(r \notin running)
  /\ \A s \in Signals  : []<>(phase[s] \notin Closing \/ exit # "none")
  => \A s \in Signals : phase[s] # "none" ~> exit # "none"

-----------------------------------------------------------------------------
(* Why they hold: what has stopped for good where a shutdown is.           *)
past(s, P) == phase[s] \in P
StagesInv ==
  /\ boot \in {"configure", "build"} => ~accepting
  /\ boot = "configure" => running = {} /\ ~taking /\ ~polling
  /\ accepting => taking
  /\ \A s \in Signals :
       /\ phase[s] # "none" => boot = "ready" /\ ~accepting
       /\ past(s, {"outbox", "workers", "connections", "tracer"}) => running \cap Requests = {}
       /\ past(s, {"workers", "connections", "tracer"}) => ~taking
       /\ past(s, {"connections", "tracer"}) => running \cap Jobs = {}
  /\ boot # "configure" /\ ~taking => \E s \in Signals : past(s, {"workers", "connections", "tracer"})
  /\ pool # "open" => \E s \in Signals : past(s, {"connections", "tracer"})
  /\ exit = "0" => \E s \in Signals : phase[s] = "tracer"
  /\ exit # "none" => cut = running

LifeInv == TypeOK /\ StagesInv /\ CleanExit /\ DrainsInOrder
=============================================================================
