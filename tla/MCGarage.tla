------------------------------ MODULE MCGarage ------------------------------
(* Small instances of Garage. *)
EXTENDS Garage, TLC

\* Nothing tells one user from another.
Interchangeable == Permutations(Users)
=============================================================================
