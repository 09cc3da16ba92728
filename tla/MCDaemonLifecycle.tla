------------------------- MODULE MCDaemonLifecycle -------------------------
EXTENDS DaemonLifecycle, TLC
CONSTANTS d1, d2, d3, o1, c1, c2, c3, c4

\* The third daemon and the unrelated program get the PID of the first daemon.
MCPidOf == d1 :> 2 @@ d2 :> 3 @@ d3 :> 2 @@ o1 :> 2

\* Commands are interchangeable.
Symmetry == Permutations(Commands)
=============================================================================
