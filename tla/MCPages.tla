------------------------------ MODULE MCPages ------------------------------
(***************************************************************************)
(* A small instance of Pages for TLC.  A report has its workload or not.   *)
(***************************************************************************)
EXTENDS Pages

CONSTANTS w1

OneWorkload == {w1}
=============================================================================
