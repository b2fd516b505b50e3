------------------------------ MODULE RecvHook ------------------------------
(***************************************************************************)
(* OnRecvFrom (main.cpp:267-413): the detour that every recvfrom of the    *)
(* game server goes through.  It runs in steps, one for each part between  *)
(* two readings of the clock or two operations on the ban list, because    *)
(* the wall clock advances while it runs: what it read at the start, the   *)
(* time and whether the address is banned, is used at the end.             *)
(*                                                                         *)
(* A failed recvfrom returns -1, which as a size_t passes the test for an  *)
(* empty result (line 277); it appears here as a packet whose key is NoKey *)
(* from whatever address the caller's buffer holds.                        *)
(***************************************************************************)
EXTENDS ServerCvars

CONSTANTS
    Empty,      \* a recvfrom that returned 0
    Configs     \* the packet and address lists parse_config may load

ASSUME RecvAssumptions ==
    /\ Empty \notin Packet
    /\ Configs # {}
    /\ Configs \subseteq [banned : SUBSET Packet, allowed : SUBSET Packet,
                          control : SUBSET Packet, ip : SUBSET Addr]

VARIABLES
    config,              \* bannedpacket, allowedpacket, controlpacket, allowedIp
    pc,                  \* where the one thread is
    call,                \* arguments and locals of the running OnRecvFrom
    son_tarama_zamani    \* when OnRecvFrom last started clear_unactionip

recv_vars == <<control_vars, cvars, settings_vars, config, pc, call, son_tarama_zamani>>

\* "listing" is the console's sweep, see ItSavar.
Phase == {"idle", "settings", "filter", "lookup", "match", "scan", "clearing",
          "decide", "delivered", "stopped", "listing"}

Call == [addr : Addr \union {NoAddr}, pkt : Packet \union {Empty},
         now : Nat, ipbanned : BOOLEAN, stopit : BOOLEAN]

NoCall == [addr |-> NoAddr, pkt |-> Empty, now |-> 0, ipbanned |-> FALSE, stopit |-> FALSE]

\* The members that no step of OnRecvFrom changes.
UNCHANGED_env == UNCHANGED <<cvars, config>>
-----------------------------------------------------------------------------
\* recvfrom hands packet p of address a to the hook.
Receive(a, p) ==
    /\ pc = "idle"
    /\ pc' = "settings"
    /\ call' = [NoCall EXCEPT !.addr = a, !.pkt = p]
    /\ UNCHANGED <<control_vars, settings_vars, son_tarama_zamani>>
    /\ UNCHANGED_env

ReadSettings ==
    /\ pc = "settings"
    /\ SetCvarsValue
    /\ pc' = "filter"
    /\ UNCHANGED <<call, son_tarama_zamani>>
    /\ UNCHANGED_env

Bypass == secure_type = 0 \/ call.pkt = Empty

Exempt ==
    \/ cvarvalue.enable_allowedip /\ call.addr \in config.ip
    \/ call.pkt \in config.allowed

Filter ==
    /\ pc = "filter"
    /\ \/ Bypass /\ pc' = "delivered" /\ UNCHANGED control_vars
       \/ ~Bypass /\ Exempt /\ pc' = "delivered" /\ inet_ntoa(call.addr)
       \/ ~Bypass /\ ~Exempt /\ pc' = "lookup" /\ inet_ntoa(call.addr)
    /\ UNCHANGED <<settings_vars, call, son_tarama_zamani>>
    /\ UNCHANGED_env

Lookup ==
    /\ pc = "lookup"
    /\ call' = [call EXCEPT !.ipbanned = is_ipbanned(ntoa), !.now = clock]
    /\ pc' = "match"
    /\ UNCHANGED <<control_vars, settings_vars, son_tarama_zamani>>
    /\ UNCHANGED_env

\* Mutant: banned packets of banned addresses match as well.
BannedMatch_Always == call.pkt \in config.banned

BannedMatch == ~call.ipbanned /\ call.pkt \in config.banned

Match ==
    /\ pc = "match"
    /\ \/ BannedMatch /\ cvarvalue.banpacketip /\ AddIPBan
       \/ ~(BannedMatch /\ cvarvalue.banpacketip) /\ UNCHANGED control_vars
    /\ call' = [call EXCEPT !.stopit = BannedMatch]
    /\ pc' = "scan"
    /\ UNCHANGED <<settings_vars, son_tarama_zamani>>
    /\ UNCHANGED_env

\* Mutant: the sweep waits longer than its period.
SweepDue_Late == call.now - son_tarama_zamani > cvarvalue.cleartime

SweepDue == call.now - son_tarama_zamani >= cvarvalue.cleartime

\* Mutant: the time of the sweep is not recorded.
Scan_Unrecorded ==
    /\ pc = "scan"
    /\ \/ SweepDue /\ ClearBegin /\ pc' = "clearing"
       \/ ~SweepDue /\ pc' = "decide" /\ UNCHANGED control_vars
    /\ UNCHANGED <<settings_vars, call, son_tarama_zamani>>
    /\ UNCHANGED_env

Scan ==
    /\ pc = "scan"
    /\ \/ /\ SweepDue
          /\ son_tarama_zamani' = call.now
          /\ ClearBegin
          /\ pc' = "clearing"
       \/ /\ ~SweepDue
          /\ pc' = "decide"
          /\ UNCHANGED <<control_vars, son_tarama_zamani>>
    /\ UNCHANGED <<settings_vars, call>>
    /\ UNCHANGED_env

\* Mutant: the loop is left after its first iteration.
Clearing_Early ==
    /\ pc = "clearing"
    /\ ClearErase \/ ClearKeep \/ ClearEnd
    /\ pc' = "decide"
    /\ UNCHANGED <<settings_vars, call, son_tarama_zamani>>
    /\ UNCHANGED_env

Clearing ==
    /\ pc = "clearing"
    /\ \/ (ClearErase \/ ClearKeep) /\ UNCHANGED pc
       \/ ClearEnd /\ pc' = "decide"
    /\ UNCHANGED <<settings_vars, call, son_tarama_zamani>>
    /\ UNCHANGED_env

Checked == secure_type # 2 /\ call.pkt \in config.control

Decide ==
    /\ pc = "decide"
    /\ \/ /\ call.stopit
          /\ pc' = "stopped"
          /\ UNCHANGED control_vars
       \/ /\ ~call.stopit /\ ~Checked
          /\ pc' = "delivered"
          /\ UNCHANGED control_vars
       \/ /\ ~call.stopit /\ Checked /\ call.ipbanned
          /\ pc' = "stopped"
          /\ UNCHANGED control_vars
       \/ /\ ~call.stopit /\ Checked /\ ~call.ipbanned
          /\ \E reason \in Reason :
                /\ get_banstatus(call.pkt, reason)
                /\ pc' = IF reason = "nobanned" THEN "delivered" ELSE "stopped"
    /\ UNCHANGED <<settings_vars, call, son_tarama_zamani>>
    /\ UNCHANGED_env

\* The hook returns: the packet's length, or 1 after zeroing its first byte.
Return ==
    /\ pc \in {"delivered", "stopped"}
    /\ pc' = "idle"
    /\ call' = NoCall
    /\ UNCHANGED <<control_vars, settings_vars, son_tarama_zamani>>
    /\ UNCHANGED_env

Handle == \/ ReadSettings \/ Filter \/ Lookup \/ Match \/ Scan \/ Clearing
          \/ Decide \/ Return

RecvInit ==
    /\ ControlInit
    /\ CvarsInit
    /\ config \in Configs
    /\ pc = "idle"
    /\ call = NoCall
    /\ son_tarama_zamani = clock
-----------------------------------------------------------------------------
RecvTypeOK ==
    /\ config \in Configs
    /\ pc \in Phase
    /\ call \in Call
    /\ son_tarama_zamani \in Nat
=============================================================================
