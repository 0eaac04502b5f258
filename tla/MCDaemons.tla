----------------------------- MODULE MCDaemons -----------------------------
(***************************************************************************)
(* Instances of Daemons for TLC.  Process ids are compared only for        *)
(* equality, so they and the runs of dkill are interchangeable.            *)
(***************************************************************************)
EXTENDS Daemons

Symmetry == Permutations(Pid) \cup Permutations(Killer)
=============================================================================
