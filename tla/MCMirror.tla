------------------------------- MODULE MCMirror -------------------------------
(* The instance of Mirror for TLC: three threads.                            *)
EXTENDS Mirror

CONSTANTS t1, t2, t3

MCThreads == {t1, t2, t3}
==============================================================================
