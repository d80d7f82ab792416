-------------------------- MODULE MCWorkerLifecycle -------------------------
EXTENDS WorkerLifecycle
=============================================================================
