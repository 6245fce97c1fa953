------------------------------ MODULE MCAccounts ------------------------------
(***************************************************************************)
(* Two launchers with two connections each: two registrations of one       *)
(* launcher may overlap, and a deleted number find its next holder.        *)
(***************************************************************************)
EXTENDS Accounts, TLC

\* The launchers, and the connections of a launcher, are alike.
Alike == Permutations(Launchers) \cup Permutations(Lines)

=============================================================================
