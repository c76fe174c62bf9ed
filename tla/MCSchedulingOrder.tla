-------------------------- MODULE MCSchedulingOrder --------------------------
(* One thread of each kind is watched. *)
EXTENDS SchedulingOrder, MCProcessManager

MCInit == OrderInit /\ watched \in {"thread_cutter", shell_main} \cup Spare

MCSpec == MCInit /\ [][OrderNext]_<<vars, history>>
=============================================================================
