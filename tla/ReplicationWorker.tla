-------------------------- MODULE ReplicationWorker -------------------------
(***************************************************************************)
(* The background worker that replicates a node's data every so often:     *)
(* StartReplicationWorker and StopReplicationWorker of                     *)
(* kademlia/kademlia.go, called by any number of goroutines, and the       *)
(* worker goroutines they start.                                           *)
(*                                                                         *)
(* A worker is named by the stop channel made for it; the channels are     *)
(* numbered in the order in which they are made.                           *)
(***************************************************************************)
EXTENDS Integers, FiniteSets

CONSTANTS
    Callers,        \* the goroutines that start and stop the worker
    NoCaller,
    MaxWorkers      \* bound: the number of workers ever started

ASSUME WorkerAssumption ==
    /\ IsFiniteSet(Callers)
    /\ NoCaller \notin Callers
    /\ MaxWorkers \in Nat

VARIABLES
    workerMu,       \* the caller that holds the mutex, or NoCaller
    caller,         \* where each caller is, and in which function
    stopReplication,\* the stop channel in the field, 0 for nil
    made,           \* the number of channels made
    closed,         \* the channels that were closed
    replicateWg,    \* the WaitGroup's counter
    worker,         \* where each worker is
    panicked        \* a closed channel was closed again

workerVars == <<workerMu, caller, stopReplication, made, closed, replicateWg, worker, panicked>>

Channels == 1..MaxWorkers

WorkerInit ==
    /\ workerMu = NoCaller
    /\ caller = [t \in Callers |-> "idle"]
    /\ stopReplication = 0
    /\ made = 0
    /\ closed = {}
    /\ replicateWg = 0
    /\ worker = [c \in Channels |-> "none"]
    /\ panicked = FALSE

-----------------------------------------------------------------------------
(* Start and Stop.  Each function is named by the step it is at: the lock, *)
(* the wait for the previous worker, and for Start the new worker.         *)

Call(t, function) ==
    /\ caller[t] = "idle"
    /\ caller' = [caller EXCEPT ![t] = function]
    /\ UNCHANGED <<workerMu, stopReplication, made, closed, replicateWg, worker, panicked>>

Lock(t) ==
    /\ caller[t] \in {"Start", "Stop"}
    /\ workerMu = NoCaller
    /\ workerMu' = t
    /\ caller' = [caller EXCEPT ![t] = IF @ = "Start" THEN "StartLocked" ELSE "StopLocked"]
    /\ UNCHANGED <<stopReplication, made, closed, replicateWg, worker, panicked>>

\* A worker is there: its channel is closed.
Close(t) ==
    /\ caller[t] \in {"StartLocked", "StopLocked"}
    /\ stopReplication # 0
    /\ panicked' = (panicked \/ stopReplication \in closed)
    /\ closed' = closed \cup {stopReplication}
    /\ caller' = [caller EXCEPT ![t] = IF @ = "StartLocked" THEN "StartWait" ELSE "StopWait"]
    /\ UNCHANGED <<workerMu, stopReplication, made, replicateWg, worker>>

\* Mutant: the caller does not wait for the worker to end.
WaitNot(t) ==
    /\ caller[t] \in {"StartWait", "StopWait"}
    /\ stopReplication' = 0
    /\ caller' = [caller EXCEPT ![t] = IF @ = "StartWait" THEN "StartLocked" ELSE "StopLocked"]
    /\ UNCHANGED <<workerMu, made, closed, replicateWg, worker, panicked>>

\* Mutant: the field is not set to nil after the wait.
WaitKeepsChannel(t) ==
    /\ caller[t] \in {"StartWait", "StopWait"}
    /\ replicateWg = 0
    /\ caller' = [caller EXCEPT ![t] = IF @ = "StartWait" THEN "StartLocked" ELSE "idle"]
    /\ workerMu' = IF caller[t] = "StopWait" THEN NoCaller ELSE workerMu
    /\ UNCHANGED <<stopReplication, made, closed, replicateWg, worker, panicked>>

Wait(t) ==
    /\ caller[t] \in {"StartWait", "StopWait"}
    /\ replicateWg = 0
    /\ stopReplication' = 0
    /\ caller' = [caller EXCEPT ![t] = IF @ = "StartWait" THEN "StartLocked" ELSE "StopLocked"]
    /\ UNCHANGED <<workerMu, made, closed, replicateWg, worker, panicked>>

\* No worker is there, or no longer: Start makes a channel and a worker.
Spawn(t) ==
    /\ caller[t] = "StartLocked"
    /\ stopReplication = 0
    /\ made' = made + 1
    /\ stopReplication' = made'
    /\ replicateWg' = replicateWg + 1
    /\ worker' = [worker EXCEPT ![made'] = "select"]
    /\ workerMu' = NoCaller
    /\ caller' = [caller EXCEPT ![t] = "idle"]
    /\ UNCHANGED <<closed, panicked>>

\* Stop returns.
Unlock(t) ==
    /\ caller[t] = "StopLocked"
    /\ stopReplication = 0
    /\ workerMu' = NoCaller
    /\ caller' = [caller EXCEPT ![t] = "idle"]
    /\ UNCHANGED <<stopReplication, made, closed, replicateWg, worker, panicked>>

-----------------------------------------------------------------------------
(* The worker: a select between its ticker and its channel.                *)

\* The ticker may have a tick also when the channel is closed.
Tick(c) ==
    /\ worker[c] = "select"
    /\ worker' = [worker EXCEPT ![c] = "replicate"]
    /\ UNCHANGED <<workerMu, caller, stopReplication, made, closed, replicateWg, panicked>>

\* Replicate returns: every STORE and lookup it waits for ends.
Replicated(c) ==
    /\ worker[c] = "replicate"
    /\ worker' = [worker EXCEPT ![c] = "select"]
    /\ UNCHANGED <<workerMu, caller, stopReplication, made, closed, replicateWg, panicked>>

\* Mutant: the worker returns without replicateWg.Done().
StoppedNotDone(c) ==
    /\ worker[c] = "select"
    /\ c \in closed
    /\ worker' = [worker EXCEPT ![c] = "ended"]
    /\ UNCHANGED <<workerMu, caller, stopReplication, made, closed, replicateWg, panicked>>

Stopped(c) ==
    /\ worker[c] = "select"
    /\ c \in closed
    /\ worker' = [worker EXCEPT ![c] = "ended"]
    /\ replicateWg' = replicateWg - 1
    /\ UNCHANGED <<workerMu, caller, stopReplication, made, closed, panicked>>

Starting == {t \in Callers : caller[t] \in {"Start", "StartLocked", "StartWait"}}

\* The bound: each call of Start makes a worker.
MayStart == made + Cardinality(Starting) < MaxWorkers

CallerStep(t) == Lock(t) \/ Close(t) \/ Wait(t) \/ Spawn(t) \/ Unlock(t)

WorkerNext ==
    \/ \E t \in Callers : Call(t, "Stop") \/ (MayStart /\ Call(t, "Start"))
    \/ \E t \in Callers : CallerStep(t)
    \/ \E c \in Channels : Tick(c) \/ Replicated(c) \/ Stopped(c)

WorkerSpec == WorkerInit /\ [][WorkerNext]_workerVars

(***************************************************************************)
(* Goroutines run; a mutex is not taken from a waiter for ever (Go's       *)
(* mutexes hand over after a millisecond of waiting); and a select with    *)
(* two ready cases chooses at random, so it does not prefer the ticker for *)
(* ever.                                                                   *)
(***************************************************************************)
WorkerFairSpec ==
    /\ WorkerSpec
    /\ \A t \in Callers : WF_workerVars(CallerStep(t)) /\ SF_workerVars(Lock(t))
    /\ \A c \in Channels : WF_workerVars(Replicated(c)) /\ SF_workerVars(Stopped(c))

-----------------------------------------------------------------------------
(* Properties *)

Places == {"idle", "Start", "StartLocked", "StartWait", "Stop", "StopLocked", "StopWait"}

Running(c) == worker[c] \in {"select", "replicate"}

\* The worker's state has its type; the WaitGroup counts at most one worker.
WorkerTypeOK ==
    /\ workerMu \in Callers \cup {NoCaller}
    /\ caller \in [Callers -> Places]
    /\ stopReplication \in 0..made
    /\ made \in 0..MaxWorkers
    /\ closed \subseteq 1..made
    /\ replicateWg \in {0, 1}
    /\ worker \in [Channels -> {"none", "select", "replicate", "ended"}]
    /\ panicked \in BOOLEAN

(***************************************************************************)
(* However Start and Stop are interleaved, at most one worker replicates   *)
(* at a time, and it is the one whose channel is in the field, so that it  *)
(* can be stopped; when the field is nil no worker is left behind.         *)
(***************************************************************************)
OneWorker ==
    \A c \in Channels : Running(c) => c = stopReplication

\* No stop channel is closed twice, which would end the process.
NoDoubleClose == ~panicked

(***************************************************************************)
(* Start and Stop return, though they hold the mutex while they wait for a *)
(* worker that may be in the middle of a replication.                      *)
(***************************************************************************)
CallsReturn ==
    \A t \in Callers : caller[t] # "idle" ~> caller[t] = "idle"

=============================================================================
