---------------------------- MODULE MCMigrations ----------------------------
(* Values for TLC's instances of Migrations. *)
EXTENDS Migrations

\* Orders are interchangeable: no definition names one of them.
RowSymmetry == Permutations(Order)
=============================================================================
