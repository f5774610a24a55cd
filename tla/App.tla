-------------------------------- MODULE App ---------------------------------
(***************************************************************************)
(* The life of the process (internal/app/app.go, internal/database/        *)
(* sqlite.go, Shutdown and enqueueReply of the service): it migrates the   *)
(* database, starts its goroutines, and on a signal or a fatal error of    *)
(* the HTTP server stops them, drains the replies and exits; or it crashes *)
(* and is started again.                                                   *)
(*                                                                         *)
(* Every wait of the shutdown is bounded: its timer may fire before what   *)
(* it waits for, and after that goroutines run beside the rest of the      *)
(* shutdown.  A goroutine stuck in a call never ends.                      *)
(***************************************************************************)
EXTENDS Naturals, Sequences, FiniteSets

CONSTANTS
  Files,       \* the migrations there will ever be, in lexical order
  Loops,       \* goroutines of startWorkers and of the HTTP server
  QueueSize,   \* REPLY_QUEUE_SIZE
  Workers      \* REPLY_WORKERS

ASSUME AppAssumption ==
  /\ Files \subseteq Nat \ {0}
  /\ {"http", "poller"} \subseteq Loops
  /\ {QueueSize, Workers} \subseteq Nat \ {0}

VARIABLES
  shipped,   \* the files in migrations/ of the version installed
  schema,    \* the bodies executed and committed, in order
  recorded,  \* the rows of schema_migrations
  mig,       \* the migration at hand and the state of its transaction
  phase,     \* where main is
  ctxDone,   \* rootCtx is canceled
  running,   \* the goroutines that run
  broken,    \* the HTTP server has failed to listen
  failed,    \* an error in listenErr
  svc,       \* the reply pool
  late,      \* some wait of the shutdown timed out
  exit       \* the exit status of the last process

vars == <<shipped, schema, recorded, mig, phase, ctxDone, running, broken, failed,
          svc, late, exit>>

database == <<shipped, schema, recorded, mig>>

process == <<ctxDone, running, broken, failed, late>>

\* enq is where the poller is in enqueueReply, inFlight the wait group.
Pool == [closed |-> FALSE, shut |-> FALSE, canceled |-> FALSE, enq |-> "idle",
         inFlight |-> 0, queue |-> 0, busy |-> 0]

NoMig == [at |-> 0, tx |-> "none"]

Reset(p) ==
  /\ phase' = p
  /\ mig' = NoMig
  /\ ctxDone' = FALSE
  /\ running' = {}
  /\ broken' = FALSE /\ failed' = FALSE
  /\ svc' = Pool
  /\ late' = FALSE

Init ==
  /\ shipped \in SUBSET Files
  /\ schema = <<>>
  /\ recorded = {}
  /\ mig = NoMig
  /\ phase = "down"
  /\ ctxDone = FALSE
  /\ running = {}
  /\ broken = FALSE /\ failed = FALSE
  /\ svc = Pool
  /\ late = FALSE
  /\ exit = 0

-----------------------------------------------------------------------------
(* Migrate.                                                                *)

\* A new version brings migrations, in any place of the order.
Deploy ==
  /\ phase = "down"
  /\ \E f \in Files \ shipped : shipped' = shipped \cup {f}
  /\ UNCHANGED <<schema, recorded, mig, phase, process, svc, exit>>

Boot ==
  /\ phase = "down"
  /\ Reset("migrating")
  /\ UNCHANGED <<shipped, schema, recorded, exit>>

\* The files not yet looked at.
Remaining == {f \in shipped : f > mig.at}

First(f) == f \in Remaining /\ \A g \in Remaining : f <= g

Skip(f) ==
  /\ phase = "migrating" /\ mig.tx = "none"
  /\ First(f) /\ f \in recorded
  /\ mig' = [mig EXCEPT !.at = f]
  /\ UNCHANGED <<shipped, schema, recorded, phase, process, svc, exit>>

\* Mutant: the body is executed outside of the transaction.
ExecuteInPlace(f) ==
  /\ phase = "migrating" /\ mig.tx = "none"
  /\ First(f) /\ f \notin recorded
  /\ mig' = [at |-> f, tx |-> "executed"]
  /\ schema' = Append(schema, f)
  /\ UNCHANGED <<shipped, recorded, phase, process, svc, exit>>

\* applyMigration: the body, then its row, in one transaction.
Execute(f) ==
  /\ phase = "migrating" /\ mig.tx = "none"
  /\ First(f) /\ f \notin recorded
  /\ mig' = [at |-> f, tx |-> "executed"]
  /\ UNCHANGED <<shipped, schema, recorded, phase, process, svc, exit>>

Commit ==
  /\ phase = "migrating" /\ mig.tx = "executed"
  /\ schema' = Append(schema, mig.at)
  /\ recorded' = recorded \cup {mig.at}
  /\ mig' = [mig EXCEPT !.tx = "none"]
  /\ UNCHANGED <<shipped, phase, process, svc, exit>>

\* Any error ends Build, and with it the process; the transaction is undone.
BuildFails ==
  /\ phase = "migrating"
  /\ Reset("down")
  /\ exit' = 1
  /\ UNCHANGED <<shipped, schema, recorded>>

\* -migrate-only ends after Migrate.
MigrateOnly ==
  /\ phase = "migrating" /\ mig.tx = "none" /\ Remaining = {}
  /\ Reset("down")
  /\ exit' = 0
  /\ UNCHANGED <<shipped, schema, recorded>>

Serve ==
  /\ phase = "migrating" /\ mig.tx = "none" /\ Remaining = {}
  /\ phase' = "serving"
  /\ running' = Loops
  /\ UNCHANGED <<database, ctxDone, broken, failed, svc, late, exit>>

-----------------------------------------------------------------------------
(* The goroutines.                                                         *)

Up == phase \notin {"down", "migrating"}

\* SIGINT or SIGTERM: while it migrates, the process may still get to Serve.
Signal ==
  /\ phase # "down" /\ ~ctxDone
  /\ ctxDone' = TRUE
  /\ UNCHANGED <<database, phase, running, broken, failed, svc, late, exit>>

\* ListenAndServe returns an error, which its goroutine hands to main.
ListenFails ==
  /\ Up /\ "http" \in running /\ ~broken
  /\ broken' = TRUE
  /\ UNCHANGED <<database, phase, ctxDone, running, failed, svc, late, exit>>

ReportFailure ==
  /\ Up /\ "http" \in running /\ broken
  /\ failed' = TRUE
  /\ ctxDone' = TRUE
  /\ running' = running \ {"http"}
  /\ UNCHANGED <<database, phase, broken, svc, late, exit>>

\* A loop sees that the context is done, the server that it is shut down; the
\* poller not while it hands over a reply.
LoopEnds(g) ==
  /\ Up /\ g \in running
  /\ IF g = "http" THEN phase # "serving" /\ ~broken ELSE ctxDone
  /\ g = "poller" => svc.enq = "idle"
  /\ running' = running \ {g}
  /\ UNCHANGED <<database, phase, ctxDone, broken, failed, svc, late, exit>>

\* enqueueReply, under the read lock: the check, the wait group, the channel.
EnqueueCheck ==
  /\ Up /\ "poller" \in running
  /\ svc.enq = "idle" /\ ~svc.closed
  /\ svc' = [svc EXCEPT !.enq = "checked"]
  /\ UNCHANGED <<database, phase, process, exit>>

EnqueueAdd ==
  /\ Up /\ svc.enq = "checked"
  /\ svc' = [svc EXCEPT !.enq = "added", !.inFlight = @ + 1]
  /\ UNCHANGED <<database, phase, process, exit>>

\* Mutant: a full queue leaves the wait group counted.
EnqueueSendLeaks ==
  /\ Up /\ svc.enq = "added"
  /\ svc' = IF svc.queue < QueueSize
              THEN [svc EXCEPT !.enq = "idle", !.queue = @ + 1]
              ELSE [svc EXCEPT !.enq = "idle"]
  /\ UNCHANGED <<database, phase, process, exit>>

EnqueueSend ==
  /\ Up /\ svc.enq = "added"
  /\ svc' = IF svc.queue < QueueSize
              THEN [svc EXCEPT !.enq = "idle", !.queue = @ + 1]
              ELSE [svc EXCEPT !.enq = "idle", !.inFlight = @ - 1]
  /\ UNCHANGED <<database, phase, process, exit>>

\* replyWorker takes a job and, sent or failed, is done with it.
Take ==
  /\ Up /\ svc.queue > 0 /\ svc.busy < Workers
  /\ svc' = [svc EXCEPT !.queue = @ - 1, !.busy = @ + 1]
  /\ UNCHANGED <<database, phase, process, exit>>

Done ==
  /\ Up /\ svc.busy > 0
  /\ svc' = [svc EXCEPT !.busy = @ - 1, !.inFlight = @ - 1]
  /\ UNCHANGED <<database, phase, process, exit>>

-----------------------------------------------------------------------------
(* awaitShutdownAndStop and Shutdown.                                      *)

Main(from, to) == phase = from /\ phase' = to

\* server.Shutdown: the handlers, which change nothing, end or its timer fires.
StopHTTP(timeout) ==
  /\ Main("serving", "stopping")
  /\ ctxDone
  /\ late' = (late \/ timeout)
  /\ UNCHANGED <<database, ctxDone, running, broken, failed, svc, exit>>

\* Mutant: the HTTP server's goroutine is not in the wait group.
WaitLoopsOnly(timeout) ==
  /\ Main("stopping", "stopped")
  /\ timeout \/ running \subseteq {"http"}
  /\ late' = (late \/ running \ {"http"} # {})
  /\ UNCHANGED <<database, ctxDone, running, broken, failed, svc, exit>>

\* waitBounded on the goroutines: they ended, or the timer fires.
WaitLoops(timeout) ==
  /\ Main("stopping", "stopped")
  /\ timeout \/ running = {}
  /\ late' = (late \/ running # {})
  /\ UNCHANGED <<database, ctxDone, running, broken, failed, svc, exit>>

\* Mutant: closed is set without the lock.
CloseUnlocked ==
  /\ Main("stopped", "draining")
  /\ svc' = [svc EXCEPT !.closed = TRUE]
  /\ UNCHANGED <<database, process, exit>>

Close ==
  /\ Main("stopped", "draining")
  /\ svc.enq = "idle"
  /\ svc' = [svc EXCEPT !.closed = TRUE]
  /\ UNCHANGED <<database, process, exit>>

\* Mutant: the drain looks at the channel, not at the replies in flight.
DrainedEmptyQueue ==
  /\ phase \in {"draining", "canceling"}
  /\ svc.queue = 0
  /\ phase' = "drained"
  /\ UNCHANGED <<database, process, svc, exit>>

\* The drain grace, then the cancellation and the hard deadline.
Drained ==
  /\ phase \in {"draining", "canceling"}
  /\ svc.inFlight = 0
  /\ phase' = "drained"
  /\ UNCHANGED <<database, process, svc, exit>>

DrainTimeout ==
  /\ svc.inFlight > 0
  /\ late' = TRUE
  /\ \/ Main("draining", "canceling") /\ svc' = [svc EXCEPT !.canceled = TRUE]
     \/ Main("canceling", "drained") /\ UNCHANGED svc
  /\ UNCHANGED <<database, ctxDone, running, broken, failed, exit>>

CloseJobs ==
  /\ Main("drained", "leaving")
  /\ svc' = [svc EXCEPT !.shut = TRUE, !.canceled = TRUE]
  /\ UNCHANGED <<database, process, exit>>

\* Mutant: the wait for the pool is not bounded.
ExitWaiting(timeout) ==
  /\ phase = "leaving"
  /\ svc.queue + svc.busy = 0
  /\ exit' = IF failed THEN 1 ELSE 0
  /\ Reset("down")
  /\ UNCHANGED <<shipped, schema, recorded>>

\* The pool has ended or is abandoned; listenErr decides the exit status.
Exit(timeout) ==
  /\ phase = "leaving"
  /\ timeout \/ svc.queue + svc.busy = 0
  /\ exit' = IF failed THEN 1 ELSE 0
  /\ Reset("down")
  /\ UNCHANGED <<shipped, schema, recorded>>

Crash ==
  /\ phase # "down"
  /\ Reset("down")
  /\ exit' = 1
  /\ UNCHANGED <<shipped, schema, recorded>>

Migrate == (\E f \in shipped : Skip(f) \/ Execute(f)) \/ Commit

Shutdown ==
  \/ \E t \in BOOLEAN : StopHTTP(t) \/ WaitLoops(t)
  \/ Close \/ Drained \/ DrainTimeout \/ CloseJobs \/ (\E t \in BOOLEAN : Exit(t))

\* enqueueReply never blocks.
Enqueue == EnqueueAdd \/ EnqueueSend

Goroutines ==
  \/ \E g \in Loops : LoopEnds(g)
  \/ EnqueueCheck \/ Take \/ Done

Next ==
  \/ Deploy \/ Boot \/ Migrate \/ BuildFails \/ MigrateOnly \/ Serve
  \/ Signal \/ ListenFails \/ ReportFailure \/ Goroutines \/ Enqueue \/ Shutdown \/ Crash

\* main, also before it serves, and the poller's hand-over go on; nothing is
\* assumed of the other goroutines, which may be stuck in a call.  sync.RWMutex
\* does not let readers starve Lock.
Fairness ==
  /\ WF_vars(Migrate \/ Serve) /\ WF_vars(Shutdown) /\ SF_vars(Close)
  /\ WF_vars(Enqueue)

Spec == Init /\ [][Next]_vars /\ Fairness

-----------------------------------------------------------------------------
(* Properties.                                                             *)

\* Every variable keeps its type.
TypeOK ==
  /\ recorded \subseteq shipped /\ shipped \subseteq Files
  /\ schema \in Seq(Files)
  /\ mig \in [at : Files \cup {0}, tx : {"none", "executed"}]
  /\ phase \in {"down", "migrating", "serving", "stopping", "stopped", "draining",
                "canceling", "drained", "leaving"}
  /\ running \subseteq Loops
  /\ {ctxDone, broken, failed, late} \subseteq BOOLEAN
  /\ svc \in [closed : BOOLEAN, shut : BOOLEAN, canceled : BOOLEAN,
              enq : {"idle", "checked", "added"},
              inFlight : 0 .. QueueSize + Workers + 1,
              queue : 0 .. QueueSize, busy : 0 .. Workers]
  /\ exit \in {0, 1}

\* The service only runs on a database on which every migration it ships with
\* was executed, each once, whatever failed or crashed on the way and in
\* whichever order versions brought them (Migrate).
MigratedOnce ==
  /\ Up => \A f \in shipped : \E i \in DOMAIN schema : schema[i] = f
  /\ \A i, j \in DOMAIN schema : schema[i] = schema[j] => i = j

\* No reply is sent on the closed channel (a panic): whoever passed the check in
\* enqueueReply is counted before Shutdown closes the channel.
NoSendOnClosed == svc.shut => svc.enq = "idle"

\* If no wait timed out, the process leaves nothing behind: every goroutine has
\* ended and every reply handed over was tried before the database is closed.
CleanExit ==
  phase = "leaving" /\ ~late =>
    running = {} /\ svc.queue = 0 /\ svc.busy = 0 /\ svc.enq = "idle"

\* "a fatal listen failure must exit non-zero, not 0" (Run): also one that comes
\* while the process is already stopping, if no wait timed out.
ListenFailureShows ==
  [][phase = "leaving" /\ phase' = "down" /\ exit' = 0 => ~broken \/ late]_vars

\* "a Sender that ignores cancellation would otherwise hang shutdown forever": a
\* signal ends the process, whatever its goroutines do.
ExitsOnSignal == ctxDone ~> phase = "down"

-----------------------------------------------------------------------------
(* The inductive invariant behind the safety properties.                   *)

\* A row stands for one execution; what the scan has passed is recorded, but for
\* the file whose transaction is open; the service starts after the last file.
MigrationInv ==
  /\ recorded = {schema[i] : i \in DOMAIN schema}
  /\ \A i, j \in DOMAIN schema : schema[i] = schema[j] => i = j
  /\ mig.tx = "executed" => phase = "migrating" /\ mig.at \in shipped \ recorded
  /\ phase = "migrating" =>
       \A f \in shipped : f <= mig.at =>
         f \in recorded \/ (mig.tx = "executed" /\ f = mig.at)
  /\ Up => shipped \subseteq recorded

\* The wait group counts the replies that are queued, being sent or about to be
\* queued; whoever is handing one over holds the lock that Close takes.
PoolInv ==
  /\ svc.inFlight = svc.queue + svc.busy + (IF svc.enq = "added" THEN 1 ELSE 0)
  /\ svc.enq # "idle" => "poller" \in running /\ ~svc.closed
  /\ svc.closed <=> phase \in {"draining", "canceling", "drained", "leaving"}
  /\ svc.shut => svc.closed

\* What each wait of the shutdown has seen stays so, unless a timer fired.
ShutdownInv ==
  /\ ~Up => running = {} /\ svc = Pool /\ ~broken
  /\ broken /\ "http" \notin running => failed
  /\ phase \in {"stopped", "draining", "canceling", "drained", "leaving"} /\ ~late =>
       running = {}
  /\ phase \in {"drained", "leaving"} /\ ~late => svc.inFlight = 0

AppInv == TypeOK /\ MigrationInv /\ PoolInv /\ ShutdownInv

=============================================================================
