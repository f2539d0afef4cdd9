------------------------------ MODULE MCAudit ------------------------------
(***************************************************************************)
(* A small instance of Audit for TLC.                                      *)
(***************************************************************************)
EXTENDS Audit

CONSTANTS w1, w2

TwoWorkloads == {w1, w2}

\* In hundredths of a millicore: one workload wastes a quarter of a core, the other one
\* a quarter of a millicore.  A column ends at tenths of a millicore.
LargeAndSmallRequest == [w \in TwoWorkloads |-> IF w = w1 THEN 100000 ELSE 100]
LargeAndSmallUsage == [w \in TwoWorkloads |-> IF w = w1 THEN 75004 ELSE 75]
=============================================================================
