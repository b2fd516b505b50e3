------------------------------ MODULE ClockSet ------------------------------
(***************************************************************************)
(* The plugin on a machine whose wall clock is set back between calls.     *)
(* Every age the plugin computes is a difference of two readings of        *)
(* std::time, so that it may come out negative.  The variables remember    *)
(* by how much the clock was set back, and when, in seconds that really    *)
(* went by, bans and windows began.                                        *)
(***************************************************************************)
EXTENDS ItSavar

CONSTANT MaxTurned    \* bound: by how much the clock is set back in all

VARIABLES
    turned,    \* by how much it has been set back
    began      \* per owner of an entry, when its ban or window began

clock_vars == <<turned, began>>

Elapsed == clock + turned

SetBack ==
    /\ pc = "idle" /\ turned < MaxTurned /\ clock > 1
    /\ clock' = clock - 1
    /\ turned' = turned + 1
    /\ UNCHANGED <<ddosiplist, ntoa, opts, sweep, sweepnow, cvars, settings_vars,
                   config, pc, call, son_tarama_zamani, reply, began>>

Since(di) == <<di.is_banned, IF di.is_banned THEN di.bannedtime ELSE di.lastconnection>>

SinceOf(list, o) == {Since(list[k]) : k \in {j \in DOMAIN list : list[j].ip_address = o}}

ClockInit ==
    /\ Init
    /\ turned = 0
    /\ began = [o \in Addr \union {Shared} |-> 0]

ClockNext ==
    \/ SetBack
    \/ /\ Next
       /\ began' = [o \in DOMAIN began |->
                        IF SinceOf(ddosiplist', o) \in {{}, SinceOf(ddosiplist, o)}
                        THEN began[o] ELSE Elapsed]
       /\ UNCHANGED turned

ClockSpec == ClockInit /\ [][ClockNext]_<<vars, clock_vars>>
-----------------------------------------------------------------------------
\* Entries do not outstay their time: once a call is past its scan, the sweep
\* that kept an entry came less than a sweep period before the packet, so the
\* age of a ban is below a ban time, and the age of a window below a window,
\* plus the whole seconds less than that period, although only the arrival of
\* packets drives sweeps.  Setting the clock back adds those seconds and no
\* more: ages and the period of the sweep both start over from the earlier
\* time, but for the same seconds (main.cpp:327-332, ddoscontrol.cpp:67-107).
SinceSweep == IF cvarvalue.cleartime > 1 THEN cvarvalue.cleartime - 1 ELSE 0

OverstayBound ==
    pc = "decide" =>
        \A k \in DOMAIN ddosiplist :
            \E o \in Options :
                LET time == IF ddosiplist[k].is_banned
                            THEN o.e_ban_suresi ELSE o.e_paket_cache_suresi
                IN  call.now + turned - began[ddosiplist[k].ip_address]
                        < time + SinceSweep + turned

\* No ban is cut short by it: one that the operator did not remove is erased
\* only when its time has really gone by (ddoscontrol.cpp:81-104).
CutShortStep ==
    \A k \in DOMAIN ddosiplist :
        /\ ddosiplist[k].is_banned /\ ~ddosiplist[k].flagged_removed
        /\ \A j \in DOMAIN ddosiplist' : ddosiplist'[j].ip_address # ddosiplist[k].ip_address
        => Elapsed - began[ddosiplist[k].ip_address] >= opts.e_ban_suresi

NeverCutShort == [][CutShortStep]_<<vars, clock_vars>>
=============================================================================
