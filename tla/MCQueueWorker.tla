---------------------------- MODULE MCQueueWorker ----------------------------
(***************************************************************************)
(* A unit of time is 30 seconds: the lock lives for 2 and the delay takes  *)
(* 2 to 4, as in the code.  MaxStale (10 in the code) and MaxDefers (5)    *)
(* are scaled down so that few payloads reach them.                        *)
(***************************************************************************)
EXTENDS QueueWorker

CONSTANTS a, b, w1, w2
=============================================================================
