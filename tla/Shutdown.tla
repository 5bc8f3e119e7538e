------------------------------ MODULE Shutdown ------------------------------
(***************************************************************************)
(* The end of one instance.  The first SIGTERM or SIGINT starts two        *)
(* coroutines that know nothing of each other: ShutdownService.shutdown,   *)
(* which ends in process.exit, and the shutdown hooks of Nest that main.ts *)
(* enables, which call the onModuleDestroy of QueueService, PrismaService  *)
(* and CacheService, one module after the other, and then close the HTTP   *)
(* server.  Requests, queue jobs and cron tasks are still being served.    *)
(***************************************************************************)
EXTENDS Integers

CONSTANTS
    ShutdownTimeout,    \* shutdownTimeout, in clock ticks
    CloseTimeouts,      \* values of websocketCloseTimeout
    NotifyWait,         \* gracefulShutdown's wait before it disconnects
    MaxWork             \* bound on requests, jobs and tasks at a time

ASSUME Timeouts == ShutdownTimeout \in Nat /\ CloseTimeouts \subseteq Nat
ASSUME WorkBound == MaxWork \in Nat

(* One second, in the code.                                                *)
ASSUME WaitIsPositive == NotifyWait \in Nat \ {0}

VARIABLES
    setup,      \* what this process was started with, see Setup
    svc,        \* where ShutdownService.shutdown waits
    elapsed,    \* time since the signal
    exit,       \* the exit code of the process, or running
    sockets,    \* closed when gracefulShutdown has disconnected the clients
                \* it knows, the authenticated ones; failed when it rejected
    cron,       \* on, off, or failed: some job could not be stopped
    redis,      \* whether the cache connection is open
    db,         \* whether the database connection is open
    queue,      \* the state of the mail queue on this instance
    ingress,    \* whether the HTTP server listens
    hooks,      \* the module whose onModuleDestroy runs, or where Nest is
    undestroyed,\* the modules whose onModuleDestroy is still to be called
    jobs, requests, tasks   \* work in progress

vars == <<setup, svc, elapsed, exit, sockets, cron, redis, db, queue, ingress, hooks,
          undestroyed, jobs, requests, tasks>>

resources == <<sockets, cron, redis, db, queue, ingress>>
nest == <<hooks, undestroyed>>
work == <<jobs, requests, tasks>>

Destroyed == {"queue", "prisma", "cache"}

(* The parts ShutdownService finds, each of which the code provides for    *)
(* missing, and websocketCloseTimeout, which may be any positive number.   *)
Setup == [parts : SUBSET {"gateway", "scheduler", "cache"},
          closeTimeout : CloseTimeouts]

Has(part) == part \in setup.parts

TypeOK ==
    /\ setup \in Setup
    /\ svc \in {"idle", "sockets", "cache", "done"}
    /\ elapsed \in 0..ShutdownTimeout
    /\ exit \in {"running", "0", "1"}
    /\ sockets \in {"open", "closed", "failed"}
    /\ cron \in {"on", "off", "failed"}
    /\ redis \in {"open", "closed"} /\ db \in {"open", "closed"}
    /\ queue \in {"open", "closing", "closed"}
    /\ ingress \in {"open", "closing", "closed"}
    /\ hooks \in {"idle", "next", "http", "done"} \cup Destroyed
    /\ undestroyed \subseteq Destroyed
    /\ jobs \in 0..MaxWork /\ requests \in 0..MaxWork /\ tasks \in 0..MaxWork

Init ==
    /\ setup \in Setup
    /\ svc = "idle" /\ elapsed = 0 /\ exit = "running"
    /\ sockets = "open" /\ cron = "on" /\ redis = "open" /\ db = "open"
    /\ queue = "open" /\ ingress = "open"
    /\ hooks = "idle" /\ undestroyed = Destroyed
    /\ jobs = 0 /\ requests = 0 /\ tasks = 0

Running == exit = "running"

-----------------------------------------------------------------------------
(* The first signal reaches both listeners; later ones are ignored by both *)
(* (isShuttingDown, and Nest's own flag).  gracefulShutdown emits the      *)
(* notice at once, and rejects if that throws.                             *)
Signal ==
    /\ Running
    /\ svc = "idle"
    /\ svc' = "sockets"
    /\ hooks' = "next"
    /\ sockets' \in IF Has("gateway") THEN {"open", "failed"} ELSE {"open"}
    /\ UNCHANGED <<elapsed, exit, cron, redis, db, queue, ingress, undestroyed, work>>

(* gracefulShutdown's wait ends in the disconnection of the clients, or in *)
(* the rejection of one of the disconnections.                             *)
SocketsAt(t) ==
    IF Has("gateway") /\ sockets = "open" /\ t >= NotifyWait
    THEN {"closed", "failed"} ELSE {sockets}

(* Variant to refute TypeOK: no timer ends the process at the timeout.     *)
TickPastTimeout ==
    /\ Running
    /\ svc # "idle"
    /\ elapsed <= ShutdownTimeout
    /\ elapsed' = elapsed + 1
    /\ sockets' \in SocketsAt(elapsed')
    /\ UNCHANGED <<svc, exit, cron, redis, db, queue, ingress, nest, work>>

(* Time since the signal.  Timers fire before time goes on past them.      *)
Tick ==
    /\ Running
    /\ svc # "idle"
    /\ elapsed < ShutdownTimeout
    /\ elapsed' = elapsed + 1
    /\ sockets' \in SocketsAt(elapsed')
    /\ UNCHANGED <<svc, exit, cron, redis, db, queue, ingress, nest, work>>

(* Variant to refute ExitZeroIsOrderly: the race does not wait at all.     *)
SocketsRaceLost == TRUE

(* closeWebSockets ends without a gateway, or with gracefulShutdown or the *)
(* timeout, whichever is first; a rejection is caught and logged.          *)
SocketsRace ==
    \/ ~Has("gateway")
    \/ sockets # "open"
    \/ elapsed >= setup.closeTimeout

(* closeWebSockets returns; stopScheduledTasks, which catches its errors,  *)
(* and drainQueues, which only logs, run without an await of their own;    *)
(* cacheManager.disconnect starts.                                         *)
CloseWebSockets ==
    /\ Running
    /\ svc = "sockets"
    /\ SocketsRace
    /\ svc' = "cache"
    /\ cron' \in IF Has("scheduler") THEN {"off", "failed"} ELSE {cron}
    /\ UNCHANGED <<elapsed, exit, sockets, redis, db, queue, ingress, nest, work>>

(* disconnect answers, or rejects and is caught, or there is no cache, and *)
(* the process exits.  disconnect may also never answer.                   *)
CloseCacheConnections ==
    /\ Running
    /\ svc = "cache"
    /\ svc' = "done"
    /\ redis' \in IF Has("cache") THEN {"closed", redis} ELSE {redis}
    /\ exit' = "0"
    /\ UNCHANGED <<elapsed, sockets, cron, db, queue, ingress, nest, work>>

(* Variant to refute ExitsAnyway: the timer is only there once the sequence *)
(* has come to its last step.                                              *)
ForceExitLate ==
    /\ Running
    /\ svc = "done"
    /\ elapsed = ShutdownTimeout
    /\ exit' = "1"
    /\ UNCHANGED <<svc, elapsed, resources, nest, work>>

(* The shutdown timer. *)
ForceExit ==
    /\ Running
    /\ elapsed = ShutdownTimeout
    /\ exit' = "1"
    /\ UNCHANGED <<svc, elapsed, resources, nest, work>>

-----------------------------------------------------------------------------
(* Nest calls the next onModuleDestroy; the order is that of its modules.  *)
BeginDestroy(m) ==
    /\ Running
    /\ hooks = "next"
    /\ m \in undestroyed
    /\ undestroyed' = undestroyed \ {m}
    /\ hooks' = m
    /\ UNCHANGED <<svc, elapsed, exit, resources, work>>

(* closeQueue: getActiveCount has answered and queue.close() is called,    *)
(* which starts no new jobs and waits for the active ones.  (The           *)
(* notification queue, which has no jobs here, is closed beside it.)       *)
CloseQueue ==
    /\ Running
    /\ hooks = "queue"
    /\ queue = "open"
    /\ queue' = "closing"
    /\ UNCHANGED <<svc, elapsed, exit, sockets, cron, redis, db, ingress, nest, work>>

QueueDestroyed ==
    /\ Running
    /\ hooks = "queue"
    /\ queue = "closing"
    /\ jobs = 0
    /\ queue' = "closed"
    /\ hooks' = "next"
    /\ UNCHANGED <<svc, elapsed, exit, sockets, cron, redis, db, ingress,
                   undestroyed, work>>

(* getActiveCount or close rejects: closeQueue only logs it, and Nest goes *)
(* on with the queue as it is.                                             *)
CloseQueueFails ==
    /\ Running
    /\ hooks = "queue"
    /\ hooks' = "next"
    /\ UNCHANGED <<svc, elapsed, exit, resources, undestroyed, work>>

PrismaDestroyed ==
    /\ Running
    /\ hooks = "prisma"
    /\ db' = "closed"
    /\ hooks' = "next"
    /\ UNCHANGED <<svc, elapsed, exit, sockets, cron, redis, queue, ingress,
                   undestroyed, work>>

(* An onModuleDestroy that throws ends the process; only PrismaService's   *)
(* does not catch its errors.                                              *)
PrismaDestroyThrows ==
    /\ Running
    /\ hooks = "prisma"
    /\ exit' = "1"
    /\ UNCHANGED <<svc, elapsed, resources, nest, work>>

CacheDestroyed ==
    /\ Running
    /\ hooks = "cache"
    /\ redis' \in {"closed", redis}
    /\ hooks' = "next"
    /\ UNCHANGED <<svc, elapsed, exit, sockets, cron, db, queue, ingress,
                   undestroyed, work>>

(* After the last hook Nest closes the HTTP server, which takes no new     *)
(* requests and waits for those in progress.                               *)
BeginClose ==
    /\ Running
    /\ hooks = "next"
    /\ undestroyed = {}
    /\ hooks' = "http"
    /\ ingress' = "closing"
    /\ UNCHANGED <<svc, elapsed, exit, sockets, cron, redis, db, queue,
                   undestroyed, work>>

(* Nest signals its own process; ShutdownService ignores that signal. *)
EndClose ==
    /\ Running
    /\ hooks = "http"
    /\ requests = 0
    /\ hooks' = "done"
    /\ ingress' = "closed"
    /\ UNCHANGED <<svc, elapsed, exit, sockets, cron, redis, db, queue,
                   undestroyed, work>>

-----------------------------------------------------------------------------
(* Work starts where its source is still open, and ends by itself. *)
StartWork ==
    /\ Running
    /\ \/ /\ queue = "open" /\ jobs < MaxWork
          /\ jobs' = jobs + 1 /\ UNCHANGED <<requests, tasks>>
       \/ /\ ingress = "open" /\ requests < MaxWork
          /\ requests' = requests + 1 /\ UNCHANGED <<jobs, tasks>>
       \/ /\ cron # "off" /\ tasks < MaxWork
          /\ tasks' = tasks + 1 /\ UNCHANGED <<jobs, requests>>
    /\ UNCHANGED <<svc, elapsed, exit, resources, nest>>

EndWork ==
    /\ Running
    /\ \/ jobs > 0 /\ jobs' = jobs - 1 /\ UNCHANGED <<requests, tasks>>
       \/ requests > 0 /\ requests' = requests - 1 /\ UNCHANGED <<jobs, tasks>>
       \/ tasks > 0 /\ tasks' = tasks - 1 /\ UNCHANGED <<jobs, requests>>
    /\ UNCHANGED <<svc, elapsed, exit, resources, nest>>

Next ==
    /\ \/ Signal \/ Tick
       \/ CloseWebSockets \/ CloseCacheConnections \/ ForceExit
       \/ \E m \in Destroyed : BeginDestroy(m)
       \/ CloseQueue \/ QueueDestroyed \/ CloseQueueFails
       \/ PrismaDestroyed \/ PrismaDestroyThrows \/ CacheDestroyed
       \/ BeginClose \/ EndClose
       \/ StartWork \/ EndWork
    /\ UNCHANGED setup

Spec == Init /\ [][Next]_vars

(* Timers fire.  Nothing is assumed of the calls that are awaited, nor of  *)
(* the work in progress.                                                   *)
FairSpec == Spec /\ WF_vars(Tick /\ UNCHANGED setup)
                 /\ WF_vars(ForceExit /\ UNCHANGED setup)

-----------------------------------------------------------------------------
(* Exit code 0 is only given when gracefulShutdown has come to its end,    *)
(* well or badly, and the stop of the cron jobs has been tried: the        *)
(* sequence goes on past its own race only without a gateway, or with a    *)
(* websocketCloseTimeout below the second that gracefulShutdown waits.     *)
ExitZeroIsOrderly ==
    exit = "0" =>
        /\ \/ sockets \in {"closed", "failed"}
           \/ ~Has("gateway")
           \/ setup.closeTimeout < NotifyWait
        /\ cron \in {"off", "failed"} \/ ~Has("scheduler")

(* Once signalled, the process exits, even when a connection never closes, *)
(* a job never ends or Nest's hooks hang.                                  *)
ExitsAnyway == svc # "idle" ~> ~Running

(* Queue draining: a clean exit waits for active jobs to complete.         *)
CleanExitDrainsQueues == exit = "0" => jobs = 0
=============================================================================
