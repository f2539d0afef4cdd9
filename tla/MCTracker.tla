----------------------------- MODULE MCTracker -----------------------------
(***************************************************************************)
(* A small instance of Tracker for TLC.                                    *)
(***************************************************************************)
EXTENDS Tracker

CONSTANTS k1

OneKey == {k1}

RequiredThree == [k \in OneKey |-> 3]
=============================================================================
