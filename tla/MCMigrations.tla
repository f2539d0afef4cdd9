---------------------------- MODULE MCMigrations ----------------------------
(***************************************************************************)
(* A small instance of Migrations for TLC.                                 *)
(***************************************************************************)
EXTENDS Migrations

CONSTANTS p1, p2, p3

ThreeProcs == {p1, p2, p3}

\* The last version erases the history, as 0007 does.
OnlyLast == {Last}
=============================================================================
