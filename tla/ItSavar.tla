------------------------------- MODULE ItSavar -------------------------------
(***************************************************************************)
(* The whole plugin at run time: OnRecvFrom, the console commands of       *)
(* SVR_ItSavar (main.cpp:426-507), the start of a map (ServerActivate_Post,*)
(* main.cpp:551-572), and an environment that changes the server variables *)
(* and lets time pass.  One thread runs everything but the clock: commands *)
(* and map changes happen between two calls of OnRecvFrom.                 *)
(***************************************************************************)
EXTENDS RecvHook

CONSTANTS
    Commands,      \* the console commands the operator uses
    MapChanges     \* whether maps start

ASSUME CommandAssumptions ==
    /\ Commands \subseteq {"list", "clear", "remove"}
    /\ MapChanges \in BOOLEAN

VARIABLES reply    \* what the console printed last, and about which address

vars == <<recv_vars, reply>>

Reply == [text : {"", "CMD_LIST_NOIP", "CMD_LIST_CONTENT", "CMD_CLEAR_OK",
                  "CMD_REMOVE_OK", "CMD_REMOVE_INVALID"},
          about : Addr \union {NoAddr}]

NoReply == [text |-> "", about |-> NoAddr]
Answer(text, a) == [text |-> text, about |-> a]

Elsewhere == UNCHANGED <<cvars, settings_vars, config, call, son_tarama_zamani>>
-----------------------------------------------------------------------------
(* Console commands.                                                       *)

\* itsavar list: sweeps first, then prints.
ListCommand ==
    /\ pc = "idle" /\ "list" \in Commands
    /\ ClearBegin
    /\ pc' = "listing"
    /\ reply' = NoReply
    /\ Elsewhere

\* Mutant: the command returns from inside the sweep's loop.
Listing_Early ==
    /\ pc = "listing"
    /\ ClearErase \/ ClearKeep \/ ClearEnd
    /\ pc' = "idle"
    /\ reply' = NoReply
    /\ Elsewhere

Listing ==
    /\ pc = "listing"
    /\ \/ (ClearErase \/ ClearKeep) /\ UNCHANGED <<pc, reply>>
       \/ /\ ClearEnd
          /\ pc' = "idle"
          /\ reply' = Answer(IF BlockedIPCount = 0 THEN "CMD_LIST_NOIP"
                                                    ELSE "CMD_LIST_CONTENT", NoAddr)
    /\ Elsewhere

\* itsavar clear
ClearCommand ==
    /\ pc = "idle" /\ "clear" \in Commands
    /\ \/ Clear
       \/ ddosiplist = <<>> /\ UNCHANGED control_vars
    /\ reply' = Answer("CMD_CLEAR_OK", NoAddr)
    /\ UNCHANGED pc
    /\ Elsewhere

\* itsavar remove index
RemoveIndexCommand(k) ==
    /\ pc = "idle" /\ "remove" \in Commands
    /\ \/ FlagRemoved(k) /\ reply' = Answer("CMD_REMOVE_OK", NoAddr)
       \/ /\ k \notin DOMAIN ddosiplist
          /\ reply' = Answer("CMD_REMOVE_INVALID", NoAddr)
          /\ UNCHANGED control_vars
    /\ UNCHANGED pc
    /\ Elsewhere

\* itsavar remove address: any text of five characters or more
RemoveAddrCommand(a) ==
    /\ pc = "idle" /\ "remove" \in Commands
    /\ \/ FlagRemovedAddr(a) /\ reply' = Answer("CMD_REMOVE_OK", a)
       \/ /\ ddosiplist = <<>>
          /\ reply' = Answer("CMD_REMOVE_INVALID", a)
          /\ UNCHANGED control_vars
    /\ UNCHANGED pc
    /\ Elsewhere
-----------------------------------------------------------------------------
(* The server's own events.                                                *)

\* The files of packets and addresses, as the operator has left them.
parse_config == config' \in Configs

\* A map starts: the lists are read again and itsavar.cfg is executed; the
\* ban list and the settings in force stay.
ServerActivate_Post ==
    /\ pc = "idle" /\ MapChanges
    /\ parse_config
    /\ cvars' \in CvarSettings
    /\ UNCHANGED <<control_vars, settings_vars, pc, call, son_tarama_zamani, reply>>

\* The operator sets a server variable.
SetCvar ==
    /\ pc = "idle"
    /\ cvars' \in CvarSettings \ {cvars}
    /\ UNCHANGED <<control_vars, settings_vars, config, pc, call, son_tarama_zamani, reply>>

Arrive == \E a \in Addr, p \in Packet \union {Empty} : Receive(a, p) /\ reply' = NoReply

HandleStep == Handle /\ UNCHANGED reply

Pass == Tick /\ UNCHANGED <<cvars, settings_vars, config, pc, call, son_tarama_zamani, reply>>

Console ==
    \/ ListCommand \/ Listing \/ ClearCommand
    \/ \E k \in 1..(Len(ddosiplist) + 1) : RemoveIndexCommand(k)
    \/ \E a \in Addr : RemoveAddrCommand(a)

Init == RecvInit /\ reply = NoReply

Next == Arrive \/ HandleStep \/ Console \/ ServerActivate_Post \/ SetCvar \/ Pass

Spec == Init /\ [][Next]_vars
-----------------------------------------------------------------------------
TypeOK ==
    /\ CvarsTypeOK
    /\ RecvTypeOK
    /\ reply \in Reply
-----------------------------------------------------------------------------
(* Correctness.  The handler's use of the ban list is also an instance of  *)
(* ControlSpec, so everything shown of the ban list holds here.            *)

\* A verdict rests on the ban list as it is, with one exception: whether the
\* address is banned was read before the sweep and is used after it
\* (main.cpp:291, 331, 343), so the two differ only in a call that swept.
VerdictFresh ==
    pc = "decide" /\ ~call.stopit /\ call.ipbanned # is_ipbanned(ntoa)
        => son_tarama_zamani = call.now

\* A running ban is never prolonged, whatever its address sends meanwhile:
\* AddIPBan renews any entry it finds (main.cpp:295-300, ddoscontrol.cpp:
\* 122-131), but OnRecvFrom never calls it for an address that is banned.
BanNotProlongedStep ==
    \A j \in DOMAIN ddosiplist, k \in DOMAIN ddosiplist' :
        /\ ddosiplist[j].is_banned
        /\ ddosiplist'[k].is_banned
        /\ ddosiplist'[k].ip_address = ddosiplist[j].ip_address
        => ddosiplist'[k].bannedtime = ddosiplist[j].bannedtime

BanNotProlonged == [][BanNotProlongedStep]_vars

\* A removal sticks: an entry the operator flagged loses the flag only to a
\* new ban for a banned packet, never to later traffic being counted
\* (main.cpp:489, ddoscontrol.cpp:124-130, 157).
RemovalSticksStep ==
    \A j \in DOMAIN ddosiplist, k \in DOMAIN ddosiplist' :
        /\ ddosiplist[j].flagged_removed
        /\ ~ddosiplist'[k].flagged_removed
        /\ ddosiplist'[k].ip_address = ddosiplist[j].ip_address
        => /\ ddosiplist'[k].is_banned /\ ddosiplist'[k].bannedtime = clock
           /\ call.pkt \in config.banned

RemovalSticks == [][RemovalSticksStep]_vars
-----------------------------------------------------------------------------
(* Liveness.  The hook runs to its end, time passes, and packets that are  *)
(* not exempt keep coming: a server with players always has traffic.  The  *)
(* last needs strong fairness, since other packets and commands may always *)
(* come first.                                                             *)

Guarded == \E a \in Addr, p \in Packet :
              /\ ~(cvarvalue.enable_allowedip /\ a \in config.ip) /\ p \notin config.allowed
              /\ Receive(a, p) /\ reply' = NoReply

FairSpec == /\ Spec
            /\ WF_vars(HandleStep) /\ WF_vars(Listing)
            /\ WF_vars(Pass) /\ SF_vars(Guarded)

\* Every call of the hook and every list command returns: the sweep's loop,
\* which steps back after it erases, ends (ddoscontrol.cpp:71-106).
CallsReturn == (pc # "idle") ~> (pc = "idle")

\* A ban ends: no entry keeps the ban that began at t for good, provided the
\* clock has room for the ban and a sweep period after it.
BanEndsBy(t) == \A o \in Options, c \in CvarSettings :
                    t + o.e_ban_suresi + c.ip_cleartime <= MaxTime

BansEnd ==
    \A t \in 1..MaxTime :
        BanEndsBy(t) =>
            <>[](\A k \in DOMAIN ddosiplist :
                    ~(ddosiplist[k].is_banned /\ ddosiplist[k].bannedtime = t))

\* A removal takes effect: an entry that is flagged while the clock has room
\* for a sweep period is erased, or banned anew (main.cpp:489, ddoscontrol.cpp:78).
Flagged(o) == \E k \in DOMAIN ddosiplist :
                  ddosiplist[k].ip_address = o /\ ddosiplist[k].flagged_removed

RemovalTakesEffect ==
    \A o \in Addr \union {Shared} :
        (Flagged(o) /\ \A c \in CvarSettings : clock + c.ip_cleartime <= MaxTime)
            ~> ~Flagged(o)
=============================================================================
