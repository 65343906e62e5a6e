----------------------------- MODULE MCSigCapture -----------------------------
(***************************************************************************)
(* An instance of SigCapture for TLC: six signals, one of which the system  *)
(* does not know.                                                           *)
(***************************************************************************)
EXTENDS SigCapture

MCSignals == <<"SIGINT", "SIGSEGV", "SIGTRAP", "SIGALRM", "SIGTERM",
               "SIGUSR1">>
MCInvalid == {"SIGTRAP"}
===============================================================================
