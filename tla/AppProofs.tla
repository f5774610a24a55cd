------------------------------ MODULE AppProofs -----------------------------
(***************************************************************************)
(* The life of the process for every set of migrations, every number of    *)
(* goroutines, reply workers and places in the reply queue.                *)
(***************************************************************************)
EXTENDS App, TLAPS

Phases == {"down", "migrating", "serving", "stopping", "stopped", "draining",
           "canceling", "drained", "leaving"}

Pools == [closed : BOOLEAN, shut : BOOLEAN, canceled : BOOLEAN,
          enq : {"idle", "checked", "added"}, inFlight : 0 .. QueueSize + Workers + 1,
          queue : 0 .. QueueSize, busy : 0 .. Workers]

\* The pool a process starts with (New of the service) is well typed.
LEMMA FreshPool ==
  /\ Pool \in Pools
  /\ Pool.inFlight = 0 /\ Pool.queue = 0 /\ Pool.busy = 0
  /\ Pool.enq = "idle" /\ Pool.closed = FALSE /\ Pool.shut = FALSE
<1>1. 0 \in 0 .. QueueSize /\ 0 \in 0 .. Workers /\ 0 \in 0 .. QueueSize + Workers + 1
  BY AppAssumption
<1> QED
  BY Zenon, <1>1 DEF Pool, Pools

\* An installation without a database (Init).
LEMMA AppInit ==
  Init => AppInv
<1> SUFFICES ASSUME Init PROVE AppInv
  BY Zenon
<1>1. DOMAIN schema = {}
  BY DEF Init
<1>2. schema \in Seq(Files)
  BY DEF Init
<1>3. TypeOK
  BY Zenon, FreshPool, <1>2 DEF Init, TypeOK, Pools, NoMig
<1>4. MigrationInv
  BY Zenon, <1>1 DEF Init, MigrationInv, NoMig, Up
<1>5. PoolInv
  BY FreshPool DEF Init, PoolInv
<1>6. ShutdownInv
  BY Zenon, FreshPool DEF Init, ShutdownInv, Up
<1> QED
  BY Zenon, <1>3, <1>4, <1>5, <1>6 DEF AppInv

\* A process that begins or ends has no goroutines, no replies and has looked at
\* no migration; the database stays as it was committed (Boot, Exit, Crash).
LEMMA ResetStep ==
  ASSUME AppInv, NEW p \in {"down", "migrating"}, Reset(p),
         UNCHANGED <<shipped, schema, recorded>>, exit' \in {0, 1}
  PROVE  AppInv'
<1> USE DEF AppInv
<1>1. TypeOK'
  BY Zenon, FreshPool DEF TypeOK, Reset, Pools, NoMig
<1>2. MigrationInv'
  <2>1. mig' = NoMig /\ phase' = p /\ ~Up'
    BY Zenon DEF Reset, Up
  <2>2. \A f \in shipped : ~(f <= 0)
    BY AppAssumption DEF TypeOK
  <2> QED
    BY Zenon, <2>1, <2>2 DEF MigrationInv, NoMig
<1>3. PoolInv'
  BY FreshPool DEF Reset, PoolInv
<1>4. ShutdownInv'
  BY Zenon, FreshPool DEF Reset, ShutdownInv
<1> QED
  BY Zenon, <1>1, <1>2, <1>3, <1>4

\* What is committed is only touched by Migrate.
LEMMA DatabaseKept ==
  ASSUME AppInv, UNCHANGED database, phase' = phase \/ (Up /\ Up')
  PROVE  MigrationInv'
  BY Zenon DEF AppInv, MigrationInv, database, Up

\* A newly installed version waits for the next start to be migrated.
LEMMA DeployStep ==
  ASSUME AppInv, Deploy
  PROVE  AppInv'
<1> USE DEF AppInv, Deploy, process
<1>1. TypeOK'
  BY Zenon DEF TypeOK
<1>2. MigrationInv'
  BY DEF MigrationInv, Up, TypeOK
<1>3. PoolInv' /\ ShutdownInv'
  BY Zenon DEF PoolInv, ShutdownInv, Up
<1> QED
  BY Zenon, <1>1, <1>2, <1>3

\* Files are compared by their place in the lexical order.
LEMMA FileNumbers ==
  ASSUME TypeOK
  PROVE  mig.at \in Nat /\ shipped \subseteq Nat \ {0}
<1>1. mig.at \in Files \cup {0} /\ shipped \subseteq Files
  BY Zenon DEF TypeOK
<1>2. Files \subseteq Nat \ {0} /\ \A x \in Nat \ {0} : x \in Nat
  BY Zenon, AppAssumption
<1>3. 0 \in Nat
  BY Zenon
<1> QED
  BY Zenon, <1>1, <1>2, <1>3

\* Migrate passes over no file: what is not behind the next one has been seen.
LEMMA FirstIsNext ==
  ASSUME TypeOK, NEW f, First(f)
  PROVE  \A g \in shipped : g <= f => g <= mig.at \/ g = f
  BY FileNumbers DEF First, Remaining

\* Migrate records a file in the transaction that executes it, in order.
LEMMA MigrateStep ==
  ASSUME AppInv, Migrate
  PROVE  AppInv'
<1> USE DEF AppInv
<1>1. ASSUME NEW f \in shipped, Skip(f) PROVE AppInv'
  <2> USE <1>1 DEF Skip, process
  <2>1. TypeOK'
    BY Zenon DEF TypeOK
  <2>2. mig'.at = f /\ mig'.tx = "none"
    BY Zenon DEF TypeOK
  <2>3. \A g \in shipped : g <= f => g <= mig.at \/ g = f
    BY Zenon, FirstIsNext
  <2>4. MigrationInv'
    BY Zenon, <2>2, <2>3 DEF MigrationInv, Up
  <2>5. PoolInv' /\ ShutdownInv'
    BY Zenon DEF PoolInv, ShutdownInv, Up
  <2> QED
    BY Zenon, <2>1, <2>4, <2>5
<1>2. ASSUME NEW f \in shipped, Execute(f) PROVE AppInv'
  <2> USE <1>2 DEF Execute, process
  <2>1. TypeOK'
    BY Zenon DEF TypeOK
  <2>2. mig'.at = f /\ mig'.tx = "executed"
    BY Zenon DEF TypeOK
  <2>3. \A g \in shipped : g <= f => g <= mig.at \/ g = f
    BY Zenon, FirstIsNext
  <2>4. MigrationInv'
    BY Zenon, <2>2, <2>3 DEF MigrationInv, Up
  <2>5. PoolInv' /\ ShutdownInv'
    BY Zenon DEF PoolInv, ShutdownInv, Up
  <2> QED
    BY Zenon, <2>1, <2>4, <2>5
<1>3. ASSUME Commit PROVE AppInv'
  <2> USE <1>3 DEF Commit, process
  <2>1. mig.at \in shipped \ recorded /\ mig.at \in Files
    BY Zenon DEF MigrationInv, TypeOK
  <2>2. TypeOK'
    BY <2>1 DEF TypeOK
  <2>3. mig'.at = mig.at /\ mig'.tx = "none"
    BY Zenon DEF TypeOK
  <2>4. /\ DOMAIN schema' = DOMAIN schema \cup {Len(schema) + 1}
        /\ Len(schema) + 1 \notin DOMAIN schema
        /\ \A i \in DOMAIN schema : schema'[i] = schema[i]
        /\ schema'[Len(schema) + 1] = mig.at
    BY <2>1 DEF TypeOK
  <2>5. recorded' = {schema'[i] : i \in DOMAIN schema'}
    BY <2>4 DEF MigrationInv
  <2>6. \A i, j \in DOMAIN schema' : schema'[i] = schema'[j] => i = j
    BY <2>1, <2>4 DEF MigrationInv
  <2>7. MigrationInv'
    BY Zenon, <2>3, <2>5, <2>6 DEF MigrationInv, Up
  <2>8. PoolInv' /\ ShutdownInv'
    BY Zenon DEF PoolInv, ShutdownInv, Up
  <2> QED
    BY Zenon, <2>2, <2>7, <2>8
<1> QED
  BY Zenon, <1>1, <1>2, <1>3 DEF Migrate

\* The service starts when no file remains.
LEMMA ServeStep ==
  ASSUME AppInv, Serve
  PROVE  AppInv'
<1> USE DEF AppInv, Serve, database
<1>1. TypeOK'
  BY Zenon DEF TypeOK
<1>2. \A f \in shipped : f <= mig.at
  BY FileNumbers DEF Remaining
<1>3. MigrationInv'
  BY Zenon, <1>2 DEF MigrationInv
<1>4. PoolInv' /\ ShutdownInv'
  BY Zenon, FreshPool DEF PoolInv, ShutdownInv, Up
<1> QED
  BY Zenon, <1>1, <1>3, <1>4

-----------------------------------------------------------------------------
(* The goroutines.                                                         *)

\* What the goroutines change besides the pool keeps its type.
LEMMA TypeKept ==
  ASSUME AppInv, UNCHANGED <<database, phase, svc, exit>>, running' \subseteq Loops,
         {ctxDone', broken', failed', late'} \subseteq BOOLEAN
  PROVE  TypeOK'
  BY Zenon DEF AppInv, TypeOK, database

\* A signal, a listen failure and the end of a goroutine leave the pool alone:
\* the poller does not end while it hands over a reply (enqueueReply).
LEMMA LoopStep ==
  ASSUME AppInv, Signal \/ ListenFails \/ ReportFailure \/ (\E g \in Loops : LoopEnds(g))
  PROVE  AppInv'
<1> USE DEF AppInv
<1>0. running \subseteq Loops /\ {ctxDone, broken, failed, late} \subseteq BOOLEAN
  BY Zenon DEF TypeOK
<1>1. UNCHANGED <<database, phase, svc, late, exit>> /\ Up' = Up
  BY Zenon DEF Signal, ListenFails, ReportFailure, LoopEnds, Up
<1>2. MigrationInv'
  BY Zenon, <1>1, DatabaseKept
<1>3. CASE Signal
  <2>0. running' \subseteq Loops /\ {ctxDone', broken', failed', late'} \subseteq BOOLEAN
    BY Zenon, <1>0, <1>3 DEF Signal
  <2>1. TypeOK'
    BY Zenon, <1>1, <2>0, TypeKept
  <2>2. PoolInv'
    BY Zenon, <1>1, <1>3 DEF Signal, PoolInv
  <2>3. ShutdownInv'
    BY <1>1, <1>3 DEF Signal, ShutdownInv
  <2> QED
    BY Zenon, <1>2, <2>1, <2>2, <2>3
<1>4. CASE ListenFails
  <2>0. running' \subseteq Loops /\ {ctxDone', broken', failed', late'} \subseteq BOOLEAN
    BY Zenon, <1>0, <1>4 DEF ListenFails
  <2>1. TypeOK'
    BY Zenon, <1>1, <2>0, TypeKept
  <2>2. PoolInv'
    BY Zenon, <1>1, <1>4 DEF ListenFails, PoolInv
  <2>3. ShutdownInv'
    BY <1>1, <1>4 DEF ListenFails, ShutdownInv
  <2> QED
    BY Zenon, <1>2, <2>1, <2>2, <2>3
<1>5. CASE ReportFailure
  <2>0. running' \subseteq Loops /\ {ctxDone', broken', failed', late'} \subseteq BOOLEAN
    BY Zenon, <1>0, <1>5 DEF ReportFailure
  <2>1. TypeOK'
    BY Zenon, <1>1, <2>0, TypeKept
  <2>2. PoolInv'
    BY Zenon, <1>1, <1>5 DEF ReportFailure, PoolInv
  <2>3. ShutdownInv'
    BY <1>1, <1>5 DEF ReportFailure, ShutdownInv
  <2> QED
    BY Zenon, <1>2, <2>1, <2>2, <2>3
<1>6. ASSUME NEW g \in Loops, LoopEnds(g) PROVE AppInv'
  <2>0. running' \subseteq Loops /\ {ctxDone', broken', failed', late'} \subseteq BOOLEAN
    BY Zenon, <1>0, <1>6 DEF LoopEnds
  <2>1. TypeOK'
    BY Zenon, <1>1, <2>0, TypeKept
  <2>2. PoolInv'
    BY Zenon, <1>1, <1>6 DEF LoopEnds, PoolInv
  <2>3. ShutdownInv'
    BY <1>1, <1>6 DEF LoopEnds, ShutdownInv
  <2> QED
    BY Zenon, <1>2, <2>1, <2>2, <2>3
<1> QED
  BY Zenon, <1>3, <1>4, <1>5, <1>6

\* enqueueReply and replyWorker keep the count of the replies in flight exact.
LEMMA PoolStep ==
  ASSUME AppInv, EnqueueCheck \/ EnqueueAdd \/ EnqueueSend \/ Take \/ Done
  PROVE  AppInv'
<1> USE DEF AppInv
<1>1. UNCHANGED <<database, phase, process, exit>> /\ Up /\ Up' = Up
  BY Zenon DEF EnqueueCheck, EnqueueAdd, EnqueueSend, Take, Done, Up
<1>2. MigrationInv'
  BY Zenon, <1>1, DatabaseKept
<1>3. svc \in Pools /\ PoolInv
  BY Zenon DEF TypeOK, Pools
<1>4. /\ svc' \in Pools /\ svc'.closed = svc.closed /\ svc'.shut = svc.shut
      /\ svc'.inFlight = svc'.queue + svc'.busy + (IF svc'.enq = "added" THEN 1 ELSE 0)
      /\ svc'.enq # "idle" => "poller" \in running /\ ~svc.closed
      /\ svc.inFlight = 0 => svc'.inFlight = 0 \/ svc.enq # "idle"
  <2>0. /\ svc.queue \in Nat /\ svc.busy \in Nat /\ svc.queue <= QueueSize /\ svc.busy <= Workers
        /\ QueueSize \in Nat /\ Workers \in Nat
        /\ svc.inFlight = svc.queue + svc.busy + (IF svc.enq = "added" THEN 1 ELSE 0)
    BY <1>3, AppAssumption DEF PoolInv, Pools
  <2>1. CASE EnqueueCheck
    <3>1. /\ svc' \in Pools /\ svc'.closed = svc.closed /\ svc'.shut = svc.shut
          /\ svc'.enq = "checked" /\ svc'.inFlight = svc.inFlight
          /\ svc'.queue = svc.queue /\ svc'.busy = svc.busy
      BY Zenon, <1>3, <2>1 DEF EnqueueCheck, Pools
    <3>2. svc.enq = "idle" /\ "poller" \in running /\ ~svc.closed
      BY Zenon, <2>1 DEF EnqueueCheck
    <3> QED
      BY Zenon, <2>0, <3>1, <3>2
  <2>2. CASE EnqueueAdd
    <3>1. svc.enq = "checked" /\ "poller" \in running /\ ~svc.closed
      BY Zenon, <1>3, <2>2 DEF EnqueueAdd, PoolInv
    <3>2. svc.inFlight + 1 = svc.queue + svc.busy + 1 /\ svc.inFlight + 1 \in 0 .. QueueSize + Workers + 1
      BY <2>0, <3>1
    <3>3. /\ svc' \in Pools /\ svc'.closed = svc.closed /\ svc'.shut = svc.shut
          /\ svc'.enq = "added" /\ svc'.inFlight = svc.inFlight + 1
          /\ svc'.queue = svc.queue /\ svc'.busy = svc.busy
      BY Zenon, <1>3, <2>2, <3>2 DEF EnqueueAdd, Pools
    <3> QED
      BY Zenon, <2>0, <3>1, <3>2, <3>3
  <2>3. CASE EnqueueSend
    <3>1. svc.enq = "added" /\ svc.inFlight = svc.queue + svc.busy + 1
      BY Zenon, <2>0, <2>3 DEF EnqueueSend
    <3>2. CASE svc.queue < QueueSize
      <4>1. svc.queue + 1 \in 0 .. QueueSize
        BY <2>0, <3>2
      <4>2. /\ svc' \in Pools /\ svc'.closed = svc.closed /\ svc'.shut = svc.shut
            /\ svc'.enq = "idle" /\ svc'.inFlight = svc.inFlight
            /\ svc'.queue = svc.queue + 1 /\ svc'.busy = svc.busy
        BY Zenon, <1>3, <2>3, <3>2, <4>1 DEF EnqueueSend, Pools
      <4> QED
        BY <2>0, <3>1, <4>2
    <3>3. CASE ~(svc.queue < QueueSize)
      <4>1. svc.inFlight - 1 = svc.queue + svc.busy /\ svc.inFlight - 1 \in 0 .. QueueSize + Workers + 1
        BY <2>0, <3>1
      <4>2. /\ svc' \in Pools /\ svc'.closed = svc.closed /\ svc'.shut = svc.shut
            /\ svc'.enq = "idle" /\ svc'.inFlight = svc.inFlight - 1
            /\ svc'.queue = svc.queue /\ svc'.busy = svc.busy
        BY Zenon, <1>3, <2>3, <3>3, <4>1 DEF EnqueueSend, Pools
      <4> QED
        BY <2>0, <3>1, <4>1, <4>2
    <3> QED
      BY Zenon, <3>2, <3>3
  <2>4. CASE Take
    <3>1. svc.queue - 1 \in 0 .. QueueSize /\ svc.busy + 1 \in 0 .. Workers
      BY <2>0, <2>4 DEF Take
    <3>2. /\ svc' \in Pools /\ svc'.closed = svc.closed /\ svc'.shut = svc.shut
          /\ svc'.enq = svc.enq /\ svc'.inFlight = svc.inFlight
          /\ svc'.queue = svc.queue - 1 /\ svc'.busy = svc.busy + 1
      BY Zenon, <1>3, <2>4, <3>1 DEF Take, Pools
    <3>3. svc'.enq # "idle" => "poller" \in running /\ ~svc.closed
      BY Zenon, <1>3, <3>2 DEF PoolInv
    <3> QED
      BY <2>0, <3>2, <3>3
  <2>5. CASE Done
    <3>1. svc.busy - 1 \in 0 .. Workers /\ svc.inFlight - 1 \in 0 .. QueueSize + Workers + 1
      BY <2>0, <2>5 DEF Done
    <3>2. /\ svc' \in Pools /\ svc'.closed = svc.closed /\ svc'.shut = svc.shut
          /\ svc'.enq = svc.enq /\ svc'.inFlight = svc.inFlight - 1
          /\ svc'.queue = svc.queue /\ svc'.busy = svc.busy - 1
      BY Zenon, <1>3, <2>5, <3>1 DEF Done, Pools
    <3>3. svc'.enq # "idle" => "poller" \in running /\ ~svc.closed
      BY Zenon, <1>3, <3>2 DEF PoolInv
    <3> QED
      BY <2>0, <3>1, <3>2, <3>3
  <2> QED
    BY Zenon, <2>1, <2>2, <2>3, <2>4, <2>5
<1>5. TypeOK'
  BY Zenon, <1>1, <1>4 DEF TypeOK, Pools, database, process
<1>6. PoolInv'
  BY Zenon, <1>1, <1>4 DEF PoolInv, process
<1>7. ShutdownInv'
  BY Zenon, <1>1, <1>4 DEF PoolInv, ShutdownInv, process
<1> QED
  BY Zenon, <1>2, <1>5, <1>6, <1>7

-----------------------------------------------------------------------------
(* awaitShutdownAndStop and Shutdown.                                      *)

\* Each step of the shutdown leaves what the one before it has waited for.
LEMMA ShutdownStep ==
  ASSUME AppInv, Shutdown
  PROVE  AppInv'
<1> USE DEF AppInv
<1>1. ASSUME NEW t \in BOOLEAN, StopHTTP(t) PROVE AppInv'
  <2> USE <1>1 DEF StopHTTP, Main
  <2>1. Up /\ Up'
    BY Zenon DEF Up
  <2>2. MigrationInv'
    BY Zenon, <2>1, DatabaseKept
  <2>3. PoolInv'
    BY Zenon, <2>1 DEF PoolInv
  <2>4. ShutdownInv'
    BY Zenon, <2>1 DEF ShutdownInv
  <2>5. TypeOK'
    BY Zenon DEF TypeOK, database
  <2> QED
    BY Zenon, <2>2, <2>3, <2>4, <2>5
<1>2. ASSUME NEW t \in BOOLEAN, WaitLoops(t) PROVE AppInv'
  <2> USE <1>2 DEF WaitLoops, Main
  <2>1. Up /\ Up'
    BY Zenon DEF Up
  <2>2. MigrationInv'
    BY Zenon, <2>1, DatabaseKept
  <2>3. TypeOK'
    BY Zenon DEF TypeOK, database
  <2>4. PoolInv' /\ ShutdownInv'
    BY Zenon, <2>1 DEF PoolInv, ShutdownInv
  <2> QED
    BY Zenon, <2>2, <2>3, <2>4
<1>3. CASE Close
  <2> USE <1>3 DEF Close, Main
  <2>1. Up /\ Up'
    BY Zenon DEF Up
  <2>2. MigrationInv'
    BY Zenon, <2>1, DatabaseKept
  <2>3. svc \in Pools /\ PoolInv
    BY Zenon DEF TypeOK, Pools
  <2>4. /\ svc' \in Pools /\ svc'.closed /\ svc'.enq = "idle" 
        /\ svc'.inFlight = svc'.queue + svc'.busy + (IF svc'.enq = "added" THEN 1 ELSE 0)
    BY Zenon, <2>3 DEF Pools, PoolInv
  <2>5. TypeOK'
    BY Zenon, <2>4 DEF TypeOK, Pools, database, process
  <2>6. PoolInv'
    BY Zenon, <2>4 DEF PoolInv, process
  <2>7. ShutdownInv'
    BY Zenon, <2>1 DEF ShutdownInv, process
  <2> QED
    BY Zenon, <2>2, <2>5, <2>6, <2>7
<1>4. CASE Drained
  <2> USE <1>4 DEF Drained
  <2>1. Up /\ Up'
    BY Zenon DEF Up
  <2>2. MigrationInv'
    BY Zenon, <2>1, DatabaseKept
  <2>3. TypeOK' /\ PoolInv' /\ ShutdownInv'
    BY Zenon, <2>1 DEF TypeOK, PoolInv, ShutdownInv, database, process
  <2> QED
    BY Zenon, <2>2, <2>3
<1>5. CASE DrainTimeout
  <2> USE <1>5 DEF DrainTimeout, Main
  <2>1. Up /\ Up'
    BY Zenon DEF Up
  <2>2. MigrationInv'
    BY Zenon, <2>1, DatabaseKept
  <2>3. svc \in Pools /\ PoolInv
    BY Zenon DEF TypeOK, Pools
  <2>4. /\ svc' \in Pools /\ svc'.closed = svc.closed /\ svc'.shut = svc.shut
        /\ svc'.enq = svc.enq /\ svc'.inFlight = svc.inFlight
        /\ svc'.queue = svc.queue /\ svc'.busy = svc.busy
    BY Zenon, <2>3 DEF Pools
  <2>5. TypeOK'
    BY Zenon, <2>4 DEF TypeOK, Pools, database
  <2>6. PoolInv'
    BY Zenon, <2>4 DEF PoolInv
  <2>7. ShutdownInv'
    BY Zenon, <2>1 DEF ShutdownInv
  <2> QED
    BY Zenon, <2>2, <2>5, <2>6, <2>7
<1>6. CASE CloseJobs
  <2> USE <1>6 DEF CloseJobs, Main
  <2>1. Up /\ Up'
    BY Zenon DEF Up
  <2>2. MigrationInv'
    BY Zenon, <2>1, DatabaseKept
  <2>3. svc \in Pools /\ PoolInv
    BY Zenon DEF TypeOK, Pools
  <2>4. /\ svc' \in Pools /\ svc'.closed = svc.closed /\ svc'.enq = svc.enq
        /\ svc'.inFlight = svc.inFlight /\ svc'.queue = svc.queue /\ svc'.busy = svc.busy
    BY Zenon, <2>3 DEF Pools
  <2>5. TypeOK'
    BY Zenon, <2>4 DEF TypeOK, Pools, database, process
  <2>6. PoolInv'
    BY Zenon, <2>4 DEF PoolInv, process
  <2>7. ShutdownInv'
    BY Zenon, <2>1, <2>4 DEF ShutdownInv, process
  <2> QED
    BY Zenon, <2>2, <2>5, <2>6, <2>7
<1>7. ASSUME NEW t \in BOOLEAN, Exit(t) PROVE AppInv'
  BY Zenon, <1>7, ResetStep DEF Exit
<1> QED
  BY Zenon, <1>1, <1>2, <1>3, <1>4, <1>5, <1>6, <1>7 DEF Shutdown

-----------------------------------------------------------------------------
(* The theorems.                                                           *)

\* Every step of the process keeps the invariant.
LEMMA AppNext ==
  ASSUME AppInv, [Next]_vars
  PROVE  AppInv'
<1>1. CASE Boot \/ BuildFails \/ MigrateOnly \/ Crash
  BY Zenon, <1>1, ResetStep DEF Boot, BuildFails, MigrateOnly, Crash, AppInv, TypeOK
<1>2. CASE UNCHANGED vars
  <2>1. TypeOK'
    BY Zenon, <1>2 DEF vars, AppInv, TypeOK
  <2>2. MigrationInv'
    BY Zenon, <1>2, DatabaseKept DEF vars, database
  <2>3. PoolInv'
    BY Zenon, <1>2 DEF vars, AppInv, PoolInv
  <2>4. ShutdownInv'
    BY Zenon, <1>2 DEF vars, AppInv, ShutdownInv, Up
  <2> QED
    BY Zenon, <2>1, <2>2, <2>3, <2>4 DEF AppInv
<1> QED
  BY Zenon, <1>1, <1>2, DeployStep, MigrateStep, ServeStep, LoopStep, PoolStep, ShutdownStep
  DEF Next, Goroutines, Enqueue

\* The invariant holds in every life of the process.
THEOREM AppInvariant ==
  Spec => []AppInv
<1>1. Init => AppInv
  BY Zenon, AppInit
<1>2. AppInv /\ [Next]_vars => AppInv'
  BY Zenon, AppNext
<1> QED
  BY <1>1, <1>2, PTL DEF Spec

\* The service runs on a database in which every migration it ships with was
\* executed once (Migrate): for any number of files, in any order of arrival.
THEOREM MigrationsRunOnce ==
  Spec => []MigratedOnce
<1>1. AppInv => MigratedOnce
  BY Zenon DEF AppInv, MigrationInv, MigratedOnce
<1> QED
  BY <1>1, AppInvariant, PTL

\* No goroutine is between the check and the send of enqueueReply when Shutdown
\* has closed the channel: for any queue and any number of workers.
THEOREM ChannelSafe ==
  Spec => []NoSendOnClosed
<1>1. AppInv => NoSendOnClosed
  BY Zenon DEF AppInv, PoolInv, NoSendOnClosed
<1> QED
  BY <1>1, AppInvariant, PTL

\* If no wait timed out, nothing runs and no reply is left when the process exits.
THEOREM ExitIsClean ==
  Spec => []CleanExit
<1>1. AppInv => CleanExit
  <2> SUFFICES ASSUME AppInv, phase = "leaving", ~late
               PROVE  running = {} /\ svc.queue = 0 /\ svc.busy = 0 /\ svc.enq = "idle"
    BY Zenon DEF CleanExit
  <2>1. running = {} /\ svc.inFlight = 0 /\ svc \in Pools
    BY Zenon DEF AppInv, ShutdownInv, TypeOK, Pools
  <2>2. svc.inFlight = svc.queue + svc.busy + (IF svc.enq = "added" THEN 1 ELSE 0)
    BY Zenon DEF AppInv, PoolInv
  <2>3. svc.queue \in Nat /\ svc.busy \in Nat
    BY <2>1, AppAssumption DEF Pools
  <2>4. svc.queue = 0 /\ svc.busy = 0
    BY <2>1, <2>2, <2>3
  <2> QED
    BY Zenon, <2>1, <2>4 DEF AppInv, PoolInv
<1> QED
  BY <1>1, AppInvariant, PTL

\* A failure to listen is in the exit status, if no wait timed out (Run).
THEOREM ListenFailureExits ==
  Spec => ListenFailureShows
<1>1. ASSUME AppInv, [Next]_vars, phase = "leaving", phase' = "down", exit' = 0
      PROVE  ~broken \/ late
  <2>1. PICK t \in BOOLEAN : Exit(t)
    <3>1. ~(Deploy \/ Boot \/ Migrate \/ BuildFails \/ MigrateOnly \/ Serve)
      BY Zenon, <1>1 DEF Deploy, Boot, Migrate, Skip, Execute, Commit, BuildFails, MigrateOnly, Serve
    <3>2. ~(Signal \/ ListenFails \/ ReportFailure \/ Goroutines \/ Enqueue \/ UNCHANGED vars)
      BY Zenon, <1>1 DEF Signal, ListenFails, ReportFailure, Goroutines, LoopEnds, EnqueueCheck,
         Take, Done, Enqueue, EnqueueAdd, EnqueueSend, vars
    <3>3. ~Crash
      BY <1>1 DEF Crash
    <3>4. Shutdown => \E t \in BOOLEAN : Exit(t)
      BY Zenon, <1>1 DEF Shutdown, StopHTTP, Main, WaitLoops, Close, Drained, DrainTimeout, CloseJobs
    <3> QED
      BY Zenon, <1>1, <3>1, <3>2, <3>3, <3>4 DEF Next
  <2>2. ~failed
    BY <1>1, <2>1 DEF Exit, AppInv, TypeOK
  <2>3. ~late => running = {}
    BY Zenon, <1>1 DEF AppInv, ShutdownInv
  <2> QED
    BY Zenon, <1>1, <2>2, <2>3 DEF AppInv, ShutdownInv
<1>2. AppInv /\ [Next]_vars =>
        [phase = "leaving" /\ phase' = "down" /\ exit' = 0 => ~broken \/ late]_vars
  BY Zenon, <1>1
<1> QED
  BY <1>2, AppInvariant, PTL DEF Spec, ListenFailureShows

=============================================================================
