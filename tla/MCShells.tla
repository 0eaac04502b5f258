------------------------------ MODULE MCShells ------------------------------
(***************************************************************************)
(* Instances of Shells for TLC: rc files with every kind of line, and      *)
(* interchangeable shells and inodes.                                      *)
(***************************************************************************)
EXTENDS Shells

MCRcFiles == {NoFile, <<"refused", "exit", "doc">>}
MCHomeFiles == {NoFile, <<"skip", "cd", "exit", "toomany">>}

Symmetry == Permutations(Shell) \cup Permutations(Inode)
=============================================================================
