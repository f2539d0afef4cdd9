----------------------------- MODULE SchemaLog -----------------------------
(***************************************************************************)
(* What schema management promises, however many processes start at once:  *)
(* each version takes effect in one step, once and in order; the history   *)
(* is erased only by the versions that say so, when they take effect; and  *)
(* it is written only on the complete schema.  Module Migrations           *)
(* implements this.                                                        *)
(***************************************************************************)
EXTENDS Naturals

CONSTANTS
    Last,       \* number of versions
    Wipes       \* versions that erase the history

Versions == 1..Last

VARIABLES
    applied,    \* versions that took effect
    rows        \* size of the history

vars == <<applied, rows>>

Init ==
    /\ \E n \in 0..Last : applied = 1..n
    /\ rows \in Nat

Apply ==
    \E v \in Versions \ applied :
        /\ \A u \in Versions : u < v => u \in applied
        /\ applied' = applied \cup {v}
        /\ rows' = IF v \in Wipes THEN 0 ELSE rows

Write ==
    /\ applied = Versions
    /\ rows' = rows + 1
    /\ UNCHANGED applied

Next == Apply \/ Write

Spec == Init /\ [][Next]_vars
=============================================================================
