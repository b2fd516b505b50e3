------------------------------- MODULE History -------------------------------
(***************************************************************************)
(* The plugin with variables that remember what has happened, which no     *)
(* action of ItSavar reads: they only serve to state properties.           *)
(***************************************************************************)
EXTENDS ItSavar

CONSTANT SentBound    \* the counters of packets stop here

ASSUME SentAssumption == SentBound \in Nat

VARIABLES
    sent,      \* per address, how many packets it sent since the plugin started
    suspects,  \* addresses that sent a packet on the banned or the checked list
    changed    \* when the server variables last changed

history_vars == <<sent, suspects, changed>>

HistoryInit ==
    /\ Init
    /\ sent = [a \in Addr |-> 0]
    /\ suspects = {}
    /\ changed = clock

HistoryNext ==
    /\ Next
    /\ LET arrives == pc = "idle" /\ pc' = "settings"
           a == call'.addr
       IN  /\ sent' = IF arrives /\ sent[a] < SentBound
                      THEN [sent EXCEPT ![a] = @ + 1] ELSE sent
           /\ suspects' = IF arrives /\ call'.pkt \in config.banned \union config.control
                          THEN suspects \union {a} ELSE suspects
    /\ changed' = IF cvars' # cvars THEN clock ELSE changed

HistorySpec == HistoryInit /\ [][HistoryNext]_<<vars, history_vars>>
-----------------------------------------------------------------------------
\* As long as senders of banned packets are not banned, the traffic of other
\* addresses never gets an address stopped: it sent enough packets itself to
\* reach a limit (main.cpp:341-403, ddoscontrol.cpp:139-211).
NoCollateral ==
    pc = "stopped" /\ ~call.stopit =>
        \E o \in Options : \/ sent[call.addr] >= o.e_teksefer_limit
                           \/ sent[call.addr] >= o.e_toplam_limit

\* Packets are judged by the server variables as they are, or as they were
\* until at most a second ago: the refresh is throttled, not lost
\* (main.cpp:213-214, 230).
SettingsFreshStep ==
    pc = "settings" /\ pc' = "filter" =>
        \/ /\ opts' = OptionsOf(cvars)
           /\ secure_type' = SecureTypeOf(cvars)
           /\ cvarvalue' = CvarvalueOf(cvars)
        \/ clock - changed <= 1

SettingsFresh == [][SettingsFreshStep]_<<vars, history_vars>>

\* What "itsavar list" prints are blocked addresses: each of them sent a
\* packet the plugin acts on (main.cpp:448-453).
Listed == {TextOf(ddosiplist[k]) :
              k \in {j \in DOMAIN ddosiplist :
                        ddosiplist[j].is_banned /\ ~ddosiplist[j].flagged_removed}}

ListedSuspects == reply.text = "CMD_LIST_CONTENT" => Listed \subseteq suspects
=============================================================================
