------------------------------ MODULE MCLocks ------------------------------
(***************************************************************************)
(* A small instance of Locks for TLC: the scraper, the consolidator, two   *)
(* requests and a process that starts.                                     *)
(***************************************************************************)
EXTENDS Locks

FiveSessions == {"scraper", "consolidator", "request1", "request2", "starting"}

EachItsOwn ==
    [s \in FiveSessions |->
        CASE s = "scraper" -> {"snapshot"}
          [] s = "consolidator" -> {"consolidation"}
          [] s = "request1" -> {"read", "details"}
          [] s = "request2" -> {"reset"}
          [] s = "starting" -> {"extend", "cpuMemory"}]
=============================================================================
