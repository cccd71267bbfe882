------------------------------- MODULE MCVfs -------------------------------
EXTENDS Vfs, TLC

(* The names are interchangeable.                                           *)
NamesSymmetry == Permutations(Names)
=============================================================================
