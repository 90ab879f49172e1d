--------------------------- MODULE ShutdownProofs ---------------------------
(* Proofs about Shutdown, for any number of tasks and of signals.          *)
EXTENDS Shutdown, TLAPS

LEMMA LifeInit == Init => LifeInv
<1> SUFFICES ASSUME Init PROVE LifeInv
  OBVIOUS
<1>1. TypeOK BY DEF Init, TypeOK
<1>2. StagesInv BY DEF Init, StagesInv, past
<1>3. CleanExit /\ DrainsInOrder BY DEF Init, CleanExit, DrainsInOrder
<1> QED BY <1>1, <1>2, <1>3 DEF LifeInv

(* The stages imply what a reader wants to know.                           *)
LEMMA StagesSuffice ==
  ASSUME TypeOK, StagesInv
  PROVE  CleanExit /\ DrainsInOrder
<1>1. CleanExit
  BY DEF CleanExit, StagesInv, past, Awaited
<1>2. running \cap Requests # {} => taking
  BY DEF TypeOK, StagesInv, past
<1>3. running \cap Awaited # {} => pool = "open"
  BY DEF StagesInv, past, Awaited
<1> QED BY <1>1, <1>2, <1>3 DEF DrainsInOrder

LEMMA BootStep ==
  ASSUME LifeInv, StartWorkers \/ Listen \/ Ready
  PROVE  TypeOK' /\ StagesInv'
<1> USE DEF LifeInv
<1>1. CASE StartWorkers
  <2>1. TypeOK' BY <1>1 DEF StartWorkers, Alive, shutdowns, TypeOK
  <2>2. StagesInv' BY <1>1 DEF StartWorkers, Alive, shutdowns, StagesInv, past
  <2> QED BY <2>1, <2>2
<1>2. CASE Listen
  <2>1. TypeOK' BY <1>2 DEF Listen, Alive, shutdowns, TypeOK
  <2>2. taking BY <1>2 DEF Listen, TypeOK, StagesInv, past
  <2>3. StagesInv' BY <1>2, <2>2 DEF Listen, Alive, shutdowns, StagesInv, past
  <2> QED BY <2>1, <2>3
<1>3. CASE Ready
  <2>1. TypeOK' BY <1>3 DEF Ready, Alive, services, shutdowns, TypeOK
  <2>2. StagesInv' BY <1>3 DEF Ready, Alive, services, shutdowns, StagesInv, past
  <2> QED BY <2>1, <2>2
<1> QED BY <1>1, <1>2, <1>3

(* A task that begins is one that may.                                     *)
LEMMA TaskStep ==
  ASSUME LifeInv, NEW t \in Tasks, Begin(t) \/ Finish(t) \/ getSql(t)
  PROVE  TypeOK' /\ StagesInv'
<1> USE DEF LifeInv
<1>1. CASE Begin(t)
  <2>1. TypeOK' BY <1>1 DEF Begin, Alive, services, shutdowns, TypeOK
  <2>2. t \in Requests => accepting
    BY <1>1, TasksAssumption DEF Begin, mayBegin, Awaited
  <2>3. t \in Jobs => taking
    BY <1>1, TasksAssumption DEF Begin, mayBegin, Awaited
  <2>4. boot # "configure"
    <3>1. accepting \/ taking \/ polling \/ running # {} BY <1>1 DEF Begin, mayBegin
    <3> QED BY <1>1, <3>1 DEF StagesInv
  <2>5. StagesInv'
    BY <1>1, <2>2, <2>3, <2>4 DEF Begin, Alive, services, shutdowns, StagesInv, past
  <2> QED BY <2>1, <2>5
<1>2. CASE Finish(t)
  <2>1. TypeOK' BY <1>2 DEF Finish, Alive, services, shutdowns, TypeOK
  <2>2. StagesInv' BY <1>2 DEF Finish, Alive, services, shutdowns, StagesInv, past
  <2> QED BY <2>1, <2>2
<1>3. CASE getSql(t)
  <2>1. TypeOK' BY <1>3 DEF getSql, Alive, services, shutdowns, TypeOK
  <2>2. StagesInv' BY <1>3 DEF getSql, Alive, services, shutdowns, StagesInv, past
  <2> QED BY <2>1, <2>2
<1> QED BY <1>1, <1>2, <1>3

(* A shutdown goes on, beside any other.                                   *)
LEMMA SignalStep ==
  ASSUME LifeInv, NEW s \in Signals,
         Signal(s) \/ ServersClosed(s) \/ OutboxStopped(s) \/ WorkersClosed(s)
           \/ ConnectionsClosed(s)
  PROVE  TypeOK' /\ StagesInv'
<1> USE DEF LifeInv, Goto
<1>1. CASE Signal(s)
  <2>1. TypeOK' BY <1>1 DEF Signal, Alive, TypeOK
  <2>2. StagesInv' BY <1>1 DEF Signal, Alive, TypeOK, StagesInv, past
  <2> QED BY <2>1, <2>2
<1>2. CASE ServersClosed(s)
  <2>1. TypeOK' BY <1>2 DEF ServersClosed, Alive, TypeOK
  <2>2. StagesInv' BY <1>2 DEF ServersClosed, Alive, TypeOK, StagesInv, past
  <2> QED BY <2>1, <2>2
<1>3. CASE OutboxStopped(s)
  <2>1. TypeOK' BY <1>3 DEF OutboxStopped, Alive, TypeOK
  <2>2. StagesInv' BY <1>3 DEF OutboxStopped, Alive, TypeOK, StagesInv, past
  <2> QED BY <2>1, <2>2
<1>4. CASE WorkersClosed(s)
  <2>1. TypeOK' BY <1>4 DEF WorkersClosed, closeDatabase, Alive, services, TypeOK
  <2>2. StagesInv'
    BY <1>4 DEF WorkersClosed, closeDatabase, Alive, services, TypeOK, StagesInv, past
  <2> QED BY <2>1, <2>2
<1>5. CASE ConnectionsClosed(s)
  <2>1. TypeOK' BY <1>5 DEF ConnectionsClosed, Alive, services, TypeOK
  <2>2. StagesInv' BY <1>5 DEF ConnectionsClosed, Alive, services, TypeOK, StagesInv, past
  <2> QED BY <2>1, <2>2
<1> QED BY <1>1, <1>2, <1>3, <1>4, <1>5

LEMMA ExitStep ==
  ASSUME LifeInv,
         BootFails \/ Killed \/ UncaughtException
           \/ \E s \in Signals : DrainTimesOut(s) \/ Exits(s)
  PROVE  TypeOK' /\ StagesInv'
<1> USE DEF LifeInv
<1>1. PICK code \in {"0", "1", "killed"} :
        /\ Ends /\ Exit(code)
        /\ code = "0" => \E s \in Signals : phase[s] = "tracer"
  BY DEF BootFails, Killed, UncaughtException, DrainTimesOut, Exits
<1>2. TypeOK' BY <1>1 DEF Ends, Exit, services, shutdowns, TypeOK
<1>3. StagesInv' BY <1>1 DEF Ends, Exit, services, shutdowns, StagesInv, past
<1> QED BY <1>2, <1>3

THEOREM LifeInvariant == Spec => []LifeInv
<1>1. LifeInv /\ [Next]_vars => LifeInv'
  <2> SUFFICES ASSUME LifeInv, [Next]_vars PROVE TypeOK' /\ StagesInv'
    <3>1. TypeOK' /\ StagesInv' => (CleanExit /\ DrainsInOrder)'
      BY StagesSuffice, PTL
    <3> QED BY <3>1 DEF LifeInv
  <2>1. CASE StartWorkers \/ Listen \/ Ready BY <2>1, BootStep
  <2>2. ASSUME NEW t \in Tasks, Begin(t) \/ Finish(t) \/ getSql(t) PROVE TypeOK' /\ StagesInv'
    BY <2>2, TaskStep
  <2>3. ASSUME NEW s \in Signals, Signal(s) \/ ServersClosed(s) \/ OutboxStopped(s)
                                    \/ WorkersClosed(s) \/ ConnectionsClosed(s)
        PROVE  TypeOK' /\ StagesInv'
    BY <2>3, SignalStep
  <2>4. CASE BootFails \/ Killed \/ UncaughtException
               \/ \E s \in Signals : DrainTimesOut(s) \/ Exits(s)
    BY <2>4, ExitStep
  <2>5. CASE UNCHANGED vars
    BY <2>5 DEF vars, services, shutdowns, LifeInv, TypeOK, StagesInv, past
  <2> QED BY <2>1, <2>2, <2>3, <2>4, <2>5 DEF Next, shutdown
<1> QED BY <1>1, LifeInit, PTL DEF Spec

(* Exit code 0 tells the truth about requests and jobs, with any number of *)
(* signals and however their shutdowns interleave (index.ts, shutdown).    *)
THEOREM CleanExitsCutNothing == Spec => []CleanExit
<1>1. LifeInv => CleanExit BY DEF LifeInv
<1> QED BY <1>1, LifeInvariant, PTL

(* Requests in flight find workers, and requests and jobs find their       *)
(* connections (index.ts, shutdown; stopWorkers; closeDatabase).           *)
THEOREM DrainIsOrdered == Spec => []DrainsInOrder
<1>1. LifeInv => DrainsInOrder BY DEF LifeInv
<1> QED BY <1>1, LifeInvariant, PTL
=============================================================================
