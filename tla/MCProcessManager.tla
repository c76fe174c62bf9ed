-------------------------- MODULE MCProcessManager --------------------------
(***************************************************************************)
(* The process manager with two drivers, each with a main thread.          *)
(***************************************************************************)
EXTENDS ProcessManager, TLC

CONSTANTS fdd_main, shell_main

MCDrivers == <<"fdd", "shell">>
MCMain == "fdd" :> fdd_main @@ "shell" :> shell_main
Symmetry == Permutations(Spare)
=============================================================================
