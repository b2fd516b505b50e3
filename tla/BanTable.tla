------------------------------ MODULE BanTable ------------------------------
(***************************************************************************)
(* What the ban list promises its callers, without the vector, its order,  *)
(* the counting of packets, and the loop of the sweep: a table with at     *)
(* most one entry for each address and one more, the shared entry, that    *)
(* answers for every address that has none of its own.                     *)
(*                                                                         *)
(* An entry counts the packets of a window that opened at since, or is a   *)
(* ban that began at since.  An entry is forgotten only when its time is   *)
(* over or the operator has removed it.                                    *)
(***************************************************************************)
EXTENDS Integers

CONSTANTS
    Addr,       \* the addresses
    Shared,     \* the owner of the shared entry
    Options     \* the option records that may be in force

VARIABLES
    table,      \* the entry of each owner, or Free
    clock,      \* std::time(0)
    opts        \* the options in force

table_vars == <<table, clock, opts>>

Owner == Addr \union {Shared}

Free == [state |-> "free", since |-> 0, removed |-> FALSE]
Counting(t) == [state |-> "counting", since |-> t, removed |-> FALSE]
Banned(t) == [state |-> "banned", since |-> t, removed |-> FALSE]
Removed(e) == [state |-> e.state, since |-> e.since, removed |-> TRUE]

\* The owner of the entry that answers for an address.
Answering(a) == IF table[a] # Free THEN a ELSE Shared

Age(o) == clock - table[o].since

Over(o) ==
    \/ table[o].removed
    \/ table[o].state = "banned" /\ Age(o) >= opts.e_ban_suresi
    \/ table[o].state = "counting" /\ Age(o) >= opts.e_paket_cache_suresi
-----------------------------------------------------------------------------
\* A first packet opens a window for its address.
Open(a) ==
    /\ table[Answering(a)] = Free
    /\ table' = [table EXCEPT ![a] = Counting(clock)]
    /\ UNCHANGED <<clock, opts>>

\* The address reaches a limit within its window.
Flood(a) ==
    /\ table[a].state = "counting"
    /\ ~Over(a)
    /\ table' = [table EXCEPT ![a] = Banned(clock)]
    /\ UNCHANGED <<clock, opts>>

\* The address is banned, or banned anew, for a packet of the banned list.
Ban(a) ==
    /\ table' = [table EXCEPT ![Answering(a)] = Banned(clock)]
    /\ UNCHANGED <<clock, opts>>

\* The operator removes an entry.
Remove(o) ==
    /\ table[o] # Free
    /\ table' = [table EXCEPT ![o] = Removed(@)]
    /\ UNCHANGED <<clock, opts>>

Forget(o) ==
    /\ table[o] # Free
    /\ Over(o)
    /\ table' = [table EXCEPT ![o] = Free]
    /\ UNCHANGED <<clock, opts>>

Configure ==
    /\ opts' \in Options
    /\ UNCHANGED <<table, clock>>

Pass ==
    /\ clock' = clock + 1
    /\ UNCHANGED <<table, opts>>

TableInit ==
    /\ table = [o \in Owner |-> Free]
    /\ clock = 1
    /\ opts \in Options

TableNext ==
    \/ Configure
    \/ Pass
    \/ \E a \in Addr : Open(a) \/ Flood(a) \/ Ban(a)
    \/ \E o \in Owner : Remove(o) \/ Forget(o)

TableSpec == TableInit /\ [][TableNext]_table_vars
=============================================================================
