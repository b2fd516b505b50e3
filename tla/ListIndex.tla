------------------------------ MODULE ListIndex ------------------------------
(***************************************************************************)
(* The plugin with an operator who keeps what itsavar list printed last    *)
(* (main.cpp:445-454) and may pass one of its indexes to itsavar remove    *)
(* (471-489) after any number of packets and commands.                     *)
(***************************************************************************)
EXTENDS ItSavar

CONSTANT EraseBound    \* the erasures since the print are counted up to here

ASSUME EraseAssumption == EraseBound \in Nat \ {0}

VARIABLES
    shown,     \* the indexes that were printed, and whose entries they had
    erased     \* how many entries have been erased since

index_vars == <<shown, erased>>

Printed(k) == ddosiplist[k].is_banned /\ ~ddosiplist[k].flagged_removed

IndexInit == Init /\ shown = <<>> /\ erased = 0

IndexNext ==
    /\ Next
    /\ LET prints == pc = "listing" /\ pc' = "idle" IN
       /\ shown' = IF prints THEN [k \in {j \in DOMAIN ddosiplist : Printed(j)} |->
                                       ddosiplist[k].ip_address]
                   ELSE shown
       /\ erased' = IF prints \/ shown = <<>> THEN 0
                    ELSE IF Len(ddosiplist') < Len(ddosiplist) /\ erased < EraseBound
                    THEN erased + 1 ELSE erased

IndexSpec == IndexInit /\ [][IndexNext]_<<vars, index_vars>>
-----------------------------------------------------------------------------
\* An index that was printed stays good until a sweep erases an entry,
\* whatever is banned, renewed or removed meanwhile; and each erasure moves an
\* entry down by one position at most, also if it was itself erased and its
\* address is banned again (main.cpp:452, 482-489, ddoscontrol.cpp:97-104).
IndexStands ==
    \A k \in DOMAIN shown :
        /\ erased = 0 => k \in DOMAIN ddosiplist /\ ddosiplist[k].ip_address = shown[k]
        /\ erased < EraseBound =>
              \A j \in DOMAIN ddosiplist :
                  ddosiplist[j].ip_address = shown[k] => j >= k - erased
=============================================================================
