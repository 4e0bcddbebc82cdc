------------------------ MODULE MCReplicationWorker -------------------------
(* Callers race to start and stop the worker.                              *)
EXTENDS ReplicationWorker

CONSTANTS t1, t2, t3

=============================================================================
