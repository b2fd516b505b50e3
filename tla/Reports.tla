------------------------------- MODULE Reports -------------------------------
(***************************************************************************)
(* What OnRecvFrom writes to the log about the packets it stops            *)
(* (main.cpp:295-326 and 350-402), by the log writer and on top of the     *)
(* whole plugin.  The same events go to the console and to the players,    *)
(* which have no state here.                                               *)
(*                                                                         *)
(* The five switches of the reports are copied with the other settings;    *)
(* the operator may set them at any time, so a copy may find any of them.  *)
(***************************************************************************)
EXTENDS ItSavar, LogWriter

CONSTANTS
    Flags,        \* the switches an operator may choose
    DayLength,    \* 86400 in the code
    QuietTime     \* 200 in the code

ASSUME ReportAssumptions ==
    /\ DayLength \in Nat \ {0} /\ QuietTime \in Nat
    /\ Flags \subseteq [log : BOOLEAN, log_packets : BOOLEAN,
                        warnserver : BOOLEAN, warnbannedpacket : BOOLEAN]

VARIABLES
    flags,                  \* cvarvalue_log, _log_packets, _warnserver, _warnbannedpacket
    son_banned_packtime,    \* when a packet of the banned list was last stopped
    packet_due              \* the line with the packet's bytes is still to be written

report_vars == <<vars, log_vars, flags, son_banned_packtime, packet_due>>

Today == clock \div DayLength

\* A line, with the time that OnRecvFrom read before it swept and judged.
Line(kind) == [kind |-> kind, about |-> call.addr, time |-> call.now]

Write(kind) == \E refused \in {FALSE, Failures} : writelog(Today, Line(kind), refused)

Log(kind) == IF flags.log THEN Write(kind) ELSE UNCHANGED log_vars
-----------------------------------------------------------------------------
ReportSettings ==
    /\ ReadSettings
    /\ flags' \in IF Throttled THEN {flags} ELSE Flags
    /\ UNCHANGED <<reply, log_vars, son_banned_packtime, packet_due>>

\* With its sender banned every report of a banned packet is one of a new
\* ban; without, only the first after a quiet time is told.
Announced ==
    /\ flags.warnbannedpacket
    /\ cvarvalue.banpacketip \/ call.now - son_banned_packtime > QuietTime

\* Mutant: the time of the banned packet is not recorded.
ReportMatch_Unrecorded ==
    /\ Match
    /\ \/ /\ BannedMatch /\ Announced
          /\ Log(IF cvarvalue.banpacketip THEN "ban" ELSE "block")
       \/ ~(BannedMatch /\ Announced) /\ UNCHANGED log_vars
    /\ UNCHANGED <<reply, flags, son_banned_packtime, packet_due>>

ReportMatch ==
    /\ Match
    /\ \/ /\ BannedMatch /\ Announced
          /\ Log(IF cvarvalue.banpacketip THEN "ban" ELSE "block")
       \/ ~(BannedMatch /\ Announced) /\ UNCHANGED log_vars
    /\ son_banned_packtime' = IF BannedMatch THEN call.now ELSE son_banned_packtime
    /\ UNCHANGED <<reply, flags, packet_due>>

\* get_banstatus has just banned the address, for too many different packets
\* or for one packet too often.
Flooded == ~call.stopit /\ Checked /\ ~call.ipbanned /\ pc' = "stopped"

SamePacket == \A k \in DOMAIN ddosiplist :
                 IsEntryOf(k, ntoa) => ~TotalFlood(ddosiplist[k])

\* The type told, stip, is only set where the console is told.
stip == SamePacket /\ flags.warnserver

ReportDecide ==
    /\ Decide
    /\ \/ Flooded /\ Log("doubt") /\ packet_due' = (flags.log /\ flags.log_packets /\ stip)
       \/ ~Flooded /\ UNCHANGED <<log_vars, packet_due>>
    /\ UNCHANGED <<reply, flags, son_banned_packtime>>

ReportPacket ==
    /\ pc = "stopped" /\ packet_due
    /\ Write("packet")
    /\ packet_due' = FALSE
    /\ UNCHANGED <<vars, flags, son_banned_packtime>>

ReportReturn ==
    /\ ~packet_due
    /\ Return
    /\ UNCHANGED <<reply, log_vars, flags, son_banned_packtime, packet_due>>

\* The steps that report nothing.
Silent ==
    /\ \/ Arrive \/ Console \/ ServerActivate_Post \/ SetCvar \/ Pass
       \/ (Filter \/ Lookup \/ Scan \/ Clearing) /\ UNCHANGED reply
    /\ UNCHANGED <<log_vars, flags, son_banned_packtime, packet_due>>

ReportInit ==
    /\ Init
    /\ log_writer = "open" /\ logfile = Null /\ lognamestr = NoName
    /\ streams = [s \in Stream |-> NoFile] /\ files = [d \in 0..MaxDay |-> <<>>]
    /\ flags \in Flags
    /\ son_banned_packtime = -QuietTime     \* 1970 in the code: long ago
    /\ packet_due = FALSE

ReportNext ==
    \/ ReportSettings \/ ReportMatch \/ ReportDecide \/ ReportPacket \/ ReportReturn
    \/ Silent

ReportSpec == ReportInit /\ [][ReportNext]_report_vars
-----------------------------------------------------------------------------
(* Correctness of the log.  A Place is a line of the log.                  *)

Places == UNION {{d} \X DOMAIN files[d] : d \in 0..MaxDay}
LineAt(p) == files[p[1]][p[2]]
Before(p, q) == p[1] < q[1] \/ (p[1] = q[1] /\ p[2] < q[2])

\* The log can be read from one day's file to the next: the times of its
\* lines never decrease, and none is in the file of a day before its own,
\* although a line carries a time read earlier in the call than the day its
\* file is named for (main.cpp:294, logwriter.cpp:61).
LogOrdered ==
    /\ \A p \in Places : LineAt(p).time \div DayLength <= p[1]
    /\ \A p, q \in Places : Before(p, q) => LineAt(p).time <= LineAt(q).time

\* An attack cannot fill the log: once a line says that an address is banned,
\* the next about that address comes a ban time later at the earliest, however
\* many packets it sends, as long as the operator removes no entry
\* (main.cpp:295, 343-350).
OneLinePerBan ==
    \A p, q \in Places :
        /\ Before(p, q) /\ LineAt(p).about = LineAt(q).about
        /\ LineAt(p).kind \in {"ban", "doubt"} /\ LineAt(q).kind # "packet"
        => \E o \in Options : LineAt(q).time - LineAt(p).time >= o.e_ban_suresi

\* Nor can one whose senders are not banned: such reports are more than a
\* quiet time apart, whoever sends the packets (main.cpp:303-304, 324).
QuietBetween ==
    \A p, q \in Places :
        Before(p, q) /\ LineAt(p).kind \in {"ban", "block"} /\ LineAt(q).kind = "block"
            => LineAt(q).time - LineAt(p).time > QuietTime
=============================================================================
