----------------------------- MODULE MCCadence -----------------------------
(***************************************************************************)
(* A small instance of Cadence for TLC.                                    *)
(***************************************************************************)
EXTENDS Cadence

CONSTANTS k1

OneKey == {k1}

RequiredThree == [k \in OneKey |-> 3]
=============================================================================
