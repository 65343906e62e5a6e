--------------------------- MODULE MCForkingRunner ---------------------------
(***************************************************************************)
(* Instances of ForkingRunner for TLC: the sets the configurations choose   *)
(* from.                                                                    *)
(***************************************************************************)
EXTENDS ForkingRunner

AllSignals == {"catchable", "uncatchable"}
Kills == {"uncatchable"}

\* Every system call whose failure the code handles.
AllFaults == {"result", "hooks_pipe", "output_pipe", "fork", "poll",
              "read_hooks", "read_output", "wait", "malloc", "output_alloc",
              "failure_create"}
===============================================================================
