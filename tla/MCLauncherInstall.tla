-------------------------- MODULE MCLauncherInstall --------------------------
(* LauncherInstall for TLC: the channels are interchangeable.              *)
EXTENDS LauncherInstall, TLC

Symmetry == Permutations(Channels)
=============================================================================
