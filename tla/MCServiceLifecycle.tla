-------------------------- MODULE MCServiceLifecycle --------------------------
(* Small instances of ServiceLifecycle.  With days of four ticks and a     *)
(* change at 6, the local clock of the second day reads 0, 1, 1, 2, 3.     *)
EXTENDS ServiceLifecycle

CONSTANTS c1

BackByOne == -1
=============================================================================
