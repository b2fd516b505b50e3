-------------------------- MODULE DdosControlTable --------------------------
(***************************************************************************)
(* The ban list implements the table of BanTable: the entry of an owner is *)
(* the one entry of the vector that has the owner's ip_address.            *)
(***************************************************************************)
EXTENDS DdosControl

Owners == Addr \union {Shared}

Abstract(di) ==
    [state   |-> IF di.is_banned THEN "banned" ELSE "counting",
     since   |-> IF di.is_banned THEN di.bannedtime ELSE di.lastconnection,
     removed |-> di.flagged_removed]

Unowned == [state |-> "free", since |-> 0, removed |-> FALSE]

Has(list, o) == \E k \in DOMAIN list : list[k].ip_address = o

PositionOf(list, o) == CHOOSE k \in DOMAIN list : list[k].ip_address = o

TableFrom(list) ==
    [o \in Owners |-> IF Has(list, o) THEN Abstract(list[PositionOf(list, o)])
                                     ELSE Unowned]

TableOf == TableFrom(ddosiplist)

Table == INSTANCE BanTable WITH table <- TableOf

\* Whatever is called in whatever order, the ban list behaves like the table:
\* each sweep step forgets one entry whose time is over or changes nothing,
\* although an erase moves the entries behind it; a call touches the entry
\* that answers for its address and no other; windows are never extended
\* (ddoscontrol.cpp:15-245).
ImplementsTable == Table!TableSpec
=============================================================================
