------------------------ MODULE MCLauncherProcesses ------------------------
EXTENDS LauncherProcesses, TLC

Symmetry == Permutations(Procs) \cup Permutations(Tasks)

=============================================================================
