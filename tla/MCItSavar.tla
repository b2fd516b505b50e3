------------------------------ MODULE MCItSavar ------------------------------
(* Values for the constants of ItSavar.  The packets are named for the     *)
(* lists they match: chk is checked for floods, bad is banned, ok allowed, *)
(* any is on no list; err is a failed recvfrom that matches the check list.*)
EXTENDS ItSavar

CONSTANTS a1, a2, chk, bad, ok, any, err, k1, k2, k3, k4

MCKeyOf == [p \in Packet |->
    ((chk :> k1) @@ (bad :> k2) @@ (ok :> k3) @@ (any :> k4) @@ (err :> NoKey))[p]]

Lists(banned, allowed, control, ip) ==
    [banned |-> banned \cap Packet, allowed |-> allowed \cap Packet,
     control |-> control \cap Packet, ip |-> ip \cap Addr]

OneConfig == {Lists({bad}, {ok}, {chk, bad, err}, {})}

TwoConfigs == {Lists({bad}, {ok}, {chk}, {}), Lists({}, {}, {bad}, {a2})}

\* Nothing is exempt, and banned packets are not checked for floods.
PlainConfig == {Lists({bad}, {}, {chk}, {})}

\* Server variables: times, limits, then the switches.
Vars(ban, window, single, total, clear, type, banpacketip) ==
    [ban_time |-> ban, flood_time |-> window, flood_single |-> single,
     flood_max |-> total, check_single |-> 1, check_total |-> 1,
     securetype |-> type, ip_cleartime |-> clear,
     ban_bannedpacketip |-> banpacketip, enabled_allowed_ip |-> 1]

OneSetting == {Vars(2, 2, 2, 3, 1, 1, 1)}

\* Long bans and seldom sweeps, or short bans and a sweep with every packet.
TwoSettings == {Vars(2, 2, 2, 3, 2, 1, 1), Vars(1, 2, 2, 3, 0, 1, 1)}

\* The operator switches the limits and the check of single packets; senders
\* of banned packets are not banned.
QuietSettings == {Vars(2, 2, 2, 3, 1, 1, 0),
                  [Vars(1, 2, 3, 9, 2, 1, 0) EXCEPT !.check_single = 0]}

\* A short and a long period of the sweep, and none: every packet sweeps.  The
\* securetype of the last is out of range.
SweepSettings == {Vars(2, 1, 2, 3, 1, 1, 1), Vars(1, 2, 2, 3, 3, 1, 1),
                  Vars(2, 2, 3, 3, -1, 5, 1)}

MCOptions == {OptionsOf(c) : c \in CvarSettings}

R1_4 == <<1, 4>>
R2_4 == <<2, 4>>
R2_3 == <<2, 3>>
=============================================================================
