---------------------------- MODULE MCDaemonLock ----------------------------
(* A small instance of DaemonLock.                                         *)
EXTENDS DaemonLock
CONSTANTS d1, d2
=============================================================================
