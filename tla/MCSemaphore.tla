---------------------------- MODULE MCSemaphore ----------------------------
(***************************************************************************)
(* Tasks that compete for different amounts of units.                      *)
(***************************************************************************)
EXTENDS Semaphore

CONSTANTS t1, t2, t3

MCTasks == {t1, t2, t3}
=============================================================================
