------------------------------ MODULE Lifecycle ------------------------------
(***************************************************************************)
(* The backend process from start to exit (src/index.ts, workers/index.ts) *)
(* and the scheduling half of the event worker it starts and drains:       *)
(* poll, scheduleNext, triggerPoll, runExclusive, stop and waitForDrain of *)
(* workers/soroban-event-worker.ts.  Batches are numbered as they join the *)
(* chain; what a batch does is the subject of Indexer.                     *)
(***************************************************************************)
EXTENDS Naturals, FiniteSets

CONSTANTS MaxLcBatches,   \* bound: batches that ever join the chain
          Signals         \* SIGTERM and SIGINT, each delivered at most once

ASSUME LifecycleAssumption == MaxLcBatches \in Nat

VARIABLES
  boot,          \* how far startServer got
  exitCode,      \* none while the process runs
  redis,         \* _available
  database,      \* whether Prisma is connected
  accepting,     \* whether the HTTP server takes connections
  lcRunning,     \* isRunning of the event worker
  pollTimer,     \* whether its timer is set
  runwayTimer,
  chained,       \* batches that joined the mutex chain
  ended,         \* batches that settled: the chain runs them in order
  scheduledBatch,\* the batch of the scheduled poll, 0 when none is waiting or running
  shutdowns,     \* per signal the step its shutdown call is at
  drained,       \* per signal the gate waitForDrain read, 0 when it was null
  known,         \* history: per signal the batches in the chain at that moment
  lcTimedOut     \* the signals whose drain timed out

lcVars == <<boot, exitCode, redis, database, accepting, lcRunning, pollTimer, runwayTimer,
            chained, ended, scheduledBatch, shutdowns, drained, known, lcTimedOut>>

NoExit == "none"
Alive == exitCode = NoExit

LcTypeOK ==
  /\ boot \in {"connecting", "redis", "listening", "polling", "up"}
  /\ exitCode \in {NoExit, "0", "1", "signal"}
  /\ {redis, database, accepting, lcRunning, pollTimer, runwayTimer} \subseteq BOOLEAN
  /\ lcTimedOut \subseteq Signals
  /\ chained \in 0..MaxLcBatches /\ ended \in 0..chained /\ scheduledBatch \in 0..MaxLcBatches
  /\ shutdowns \in [Signals -> {"none", "importing", "draining", "redis", "database", "done"}]
  /\ drained \in [Signals -> 0..MaxLcBatches] /\ known \in [Signals -> 0..MaxLcBatches]

LcInit ==
  /\ boot = "connecting" /\ exitCode = NoExit
  /\ redis = FALSE /\ database = FALSE /\ accepting = FALSE
  /\ lcRunning = FALSE /\ pollTimer = FALSE /\ runwayTimer = FALSE
  /\ chained = 0 /\ ended = 0 /\ scheduledBatch = 0
  /\ shutdowns = [s \in Signals |-> "none"] /\ drained = [s \in Signals |-> 0]
  /\ known = [s \in Signals |-> 0] /\ lcTimedOut = {}

-----------------------------------------------------------------------------
(* startServer, one awaited step at a time. *)
ConnectDatabase ==
  /\ Alive /\ boot = "connecting"
  /\ \/ database' = TRUE /\ boot' = "redis" /\ UNCHANGED exitCode
     \/ exitCode' = "1" /\ UNCHANGED <<database, boot>>
  /\ UNCHANGED <<redis, accepting, lcRunning, pollTimer, runwayTimer, chained, ended,
                 scheduledBatch, shutdowns, drained, known, lcTimedOut>>

(* connectRedis never fails: without REDIS_URL, or when a connection cannot be
   made, the service stays in single-instance mode. *)
ConnectRedis ==
  /\ Alive /\ boot = "redis"
  /\ redis' \in BOOLEAN
  /\ boot' = "listening" /\ accepting' = TRUE
  /\ UNCHANGED <<exitCode, database, lcRunning, pollTimer, runwayTimer, chained, ended,
                 scheduledBatch, shutdowns, drained, known, lcTimedOut>>

(* runExclusive: the batch joins the end of the chain. *)
JoinsChain(batch) == /\ chained < MaxLcBatches
                     /\ batch = chained + 1
                     /\ chained' = chained + 1

(* startWorkers.  Without STREAM_CONTRACT_ID the event worker does not start. *)
StartWorkers ==
  /\ Alive /\ boot = "listening"
  /\ \/ /\ lcRunning' = TRUE /\ boot' = "polling"
        /\ \E b \in 1..MaxLcBatches : JoinsChain(b) /\ scheduledBatch' = b
        /\ UNCHANGED runwayTimer
     \/ /\ boot' = "up" /\ runwayTimer' = TRUE
        /\ UNCHANGED <<lcRunning, chained, scheduledBatch>>
  /\ UNCHANGED <<exitCode, redis, database, accepting, pollTimer, ended, shutdowns, drained, known, lcTimedOut>>

(* The first poll is over: the runway worker starts and the handlers of both
   signals are registered. *)
FirstPollDone ==
  /\ Alive /\ boot = "polling" /\ ended >= 1
  /\ boot' = "up" /\ runwayTimer' = TRUE
  /\ UNCHANGED <<exitCode, redis, database, accepting, lcRunning, pollTimer, chained, ended,
                 scheduledBatch, shutdowns, drained, known, lcTimedOut>>

-----------------------------------------------------------------------------
(* The worker's scheduling. *)
PollTimerFires ==
  /\ Alive /\ pollTimer /\ scheduledBatch = 0
  /\ pollTimer' = FALSE
  /\ \E b \in 1..MaxLcBatches : JoinsChain(b) /\ scheduledBatch' = b
  /\ UNCHANGED <<boot, exitCode, redis, database, accepting, lcRunning, runwayTimer, ended,
                 shutdowns, drained, known, lcTimedOut>>

(* A replay's triggerPoll, refused once the worker is stopped. *)
TriggerPoll ==
  /\ Alive /\ lcRunning
  /\ \E b \in 1..MaxLcBatches : JoinsChain(b)
  /\ UNCHANGED <<boot, exitCode, redis, database, accepting, lcRunning, pollTimer, runwayTimer,
                 ended, scheduledBatch, shutdowns, drained, known, lcTimedOut>>

(* scheduleNext sets the timer only while the worker runs. *)
ScheduleNext == lcRunning

(* The batch at the head of the chain settles; the scheduled poll re-arms. *)
BatchEnds ==
  /\ Alive /\ ended < chained
  /\ ended' = ended + 1
  /\ IF scheduledBatch = ended + 1
     THEN scheduledBatch' = 0 /\ pollTimer' = ScheduleNext
     ELSE UNCHANGED <<scheduledBatch, pollTimer>>
  /\ UNCHANGED <<boot, exitCode, redis, database, accepting, lcRunning, runwayTimer, chained,
                 shutdowns, drained, known, lcTimedOut>>

-----------------------------------------------------------------------------
(* shutdown, once per signal; the two calls interleave. *)
Signalled(s) ==
  /\ Alive /\ shutdowns[s] = "none"
  /\ IF boot = "up"
     THEN /\ shutdowns' = [shutdowns EXCEPT ![s] = "importing"]
          /\ accepting' = FALSE
          /\ lcRunning' = FALSE /\ pollTimer' = FALSE /\ runwayTimer' = FALSE
          /\ UNCHANGED exitCode
     ELSE (* no handler yet: the signal ends the process *)
          /\ exitCode' = "signal"
          /\ UNCHANGED <<shutdowns, accepting, lcRunning, pollTimer, runwayTimer>>
  /\ UNCHANGED <<boot, redis, database, chained, ended, scheduledBatch, drained, known, lcTimedOut>>

\* A variant: only the batch that is running is waited for.
DrainsOnlyRunning == IF ended < chained THEN ended + 1 ELSE 0

(* activeBatch is the gate of the batch that joined last, or null. *)
ActiveBatch == IF ended < chained THEN chained ELSE 0

WaitForDrain(s) ==
  /\ Alive /\ shutdowns[s] = "importing"
  /\ shutdowns' = [shutdowns EXCEPT ![s] = "draining"]
  /\ drained' = [drained EXCEPT ![s] = ActiveBatch]
  /\ known' = [known EXCEPT ![s] = chained]
  /\ UNCHANGED <<boot, exitCode, redis, database, accepting, lcRunning, pollTimer, runwayTimer,
                 chained, ended, scheduledBatch, lcTimedOut>>

\* A variant: the drain has no time-out.
DrainNeverTimesOut(s) ==
  /\ Alive /\ shutdowns[s] = "draining"
  /\ ended >= drained[s]
  /\ shutdowns' = [shutdowns EXCEPT ![s] = "redis"]
  /\ UNCHANGED <<boot, exitCode, redis, database, accepting, lcRunning, pollTimer, runwayTimer,
                 chained, ended, scheduledBatch, drained, known, lcTimedOut>>

(* The gate settles, or SHUTDOWN_TIMEOUT_MS passes first. *)
DrainOrTimeout(s) ==
  /\ Alive /\ shutdowns[s] = "draining"
  /\ shutdowns' = [shutdowns EXCEPT ![s] = "redis"]
  /\ lcTimedOut' = IF ended < drained[s] THEN lcTimedOut \cup {s} ELSE lcTimedOut
  /\ UNCHANGED <<boot, exitCode, redis, database, accepting, lcRunning, pollTimer, runwayTimer,
                 chained, ended, scheduledBatch, drained, known>>

(* quit() rejects when the connection is gone or quits twice; nobody catches the
   rejection, which ends the process. *)
DisconnectRedis(s) ==
  /\ Alive /\ shutdowns[s] = "redis"
  /\ \/ /\ redis' = FALSE
        /\ shutdowns' = [shutdowns EXCEPT ![s] = "database"]
        /\ UNCHANGED exitCode
     \/ redis /\ exitCode' = "1" /\ UNCHANGED <<redis, shutdowns>>
  /\ UNCHANGED <<boot, database, accepting, lcRunning, pollTimer, runwayTimer, chained, ended,
                 scheduledBatch, drained, known, lcTimedOut>>

(* $disconnect, then process.exit with 1 when this call's drain timed out. *)
Exit(s) ==
  /\ Alive /\ shutdowns[s] = "database"
  /\ database' = FALSE
  /\ shutdowns' = [shutdowns EXCEPT ![s] = "done"]
  /\ exitCode' = IF s \in lcTimedOut THEN "1" ELSE "0"
  /\ UNCHANGED <<boot, redis, accepting, lcRunning, pollTimer, runwayTimer, chained, ended,
                 scheduledBatch, drained, known, lcTimedOut>>

LcNext ==
  \/ ConnectDatabase \/ ConnectRedis \/ StartWorkers \/ FirstPollDone
  \/ PollTimerFires \/ TriggerPoll \/ BatchEnds
  \/ \E s \in Signals : Signalled(s) \/ WaitForDrain(s) \/ DrainOrTimeout(s)
                        \/ DisconnectRedis(s) \/ Exit(s)

(* The awaited steps of a shutdown are taken: the import resolves, the timer of
   the drain fires, quit and $disconnect settle.  Nothing is assumed of batches. *)
LcFairness ==
  \A s \in Signals : WF_lcVars(WaitForDrain(s) \/ DrainOrTimeout(s)
                                       \/ DisconnectRedis(s) \/ Exit(s))

LcSpec == LcInit /\ [][LcNext]_lcVars /\ LcFairness

-----------------------------------------------------------------------------
(* A shutdown that began ends the process, even while a batch hangs: the drain
   is raced against a timeout (index.ts:61). *)
LcShutdownEnds == \A s \in Signals : (shutdowns[s] = "importing") ~> ~Alive

(* A shutdown goes on to close Redis and the database only when every batch that
   was in the chain as it began to wait is over, or its drain timed out: waiting
   for the gate that joined last waits for all before it (waitForDrain,
   soroban-event-worker.ts:212). *)
LcDrainedBeforeClose ==
  \A s \in Signals :
    (shutdowns[s] \in {"redis", "database", "done"} /\ s \notin lcTimedOut) => ended >= known[s]

(* Once stopped, the worker arms no timer again, although the batch that was
   running when stop() cleared it re-schedules when it ends. *)
LcStopsForGood == (boot = "up" /\ ~accepting) => ~pollTimer /\ ~lcRunning

(* A shutdown closes nothing under a batch it knew of and leaves no timer behind. *)
ShutdownIsClean == LcDrainedBeforeClose /\ LcStopsForGood
=============================================================================
