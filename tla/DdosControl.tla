----------------------------- MODULE DdosControl -----------------------------
(***************************************************************************)
(* The ban list: class ddoscontrol (msvc/ddoscontrol.cpp) and the entries  *)
(* it keeps, class ddositem (msvc/ddositem.cpp).                           *)
(*                                                                         *)
(* Every public operation that the program calls is an action.  The one    *)
(* loop that erases while it iterates, clear_unactionip, takes a step per  *)
(* iteration, so that its index arithmetic is part of what is checked.     *)
(*                                                                         *)
(* An entry made by get_banstatus owns a copy of the address text; an      *)
(* entry made by AddIPBan keeps the caller's pointer, which is always the  *)
(* static buffer of inet_ntoa (main.cpp:279, 299).  Such an entry has      *)
(* ip_address = Shared and reads as whatever address was spelled last.     *)
(***************************************************************************)
EXTENDS Integers, SequencesExt

CONSTANTS
    Addr,         \* the IPv4 addresses that send packets
    Packet,       \* what one recvfrom leaves behind: buffer contents and length
    Key,          \* the first min(length, 25) bytes of a packet, with their number
    NoKey,        \* a length that is not positive as an int (recvfrom failed)
    KeyOf,        \* the key of each packet
    Options,      \* the option records SetCvarsValue may store
    MaxRequests,  \* 25 in the code: requests remembered per entry
    EvictBatch,   \* 5 in the code: oldest requests dropped when it is full
    Shared,       \* ip_address of an entry that points at inet_ntoa's buffer
    NoAddr,       \* inet_ntoa's buffer before its first call
    MaxTime       \* bound: the clock stops here

\* A member of a ddositem that its constructor leaves uninitialised.
Undef == -1

\* The durations are positive (main.cpp:215-216 clamps them to 30..3600 and
\* 1..30) and both limits exceed one packet (clamped to 3..300 and 5..3000).
OptionsAssumption ==
    \A o \in Options :
        /\ o \in [e_ban_suresi : Nat, e_paket_cache_suresi : Nat,
                  e_teksefer_limit : Nat, e_toplam_limit : Nat,
                  check_total_flood : BOOLEAN, check_single_flood : BOOLEAN]
        /\ o.e_ban_suresi > 0 /\ o.e_paket_cache_suresi > 0
        /\ o.e_teksefer_limit > 1 /\ o.e_toplam_limit > 1

ASSUME ControlAssumptions ==
    /\ Shared \notin Addr /\ NoAddr \notin Addr /\ NoKey \notin Key
    /\ Shared # NoAddr
    /\ KeyOf \in [Packet -> Key \union {NoKey}]
    /\ Options # {} /\ OptionsAssumption
    /\ EvictBatch \in Nat \ {0} /\ MaxRequests \in Nat /\ EvictBatch <= MaxRequests
    /\ MaxTime \in Nat \ {0}

VARIABLES
    ddosiplist,   \* the vector of entries, in order of insertion
    ntoa,         \* the address inet_ntoa's buffer spells
    clock,        \* std::time(0)
    opts,         \* the six option members of ddoscontrol
    sweep,        \* loop index of a running clear_unactionip, 0 if none runs
    sweepnow      \* its local now

control_vars == <<ddosiplist, ntoa, clock, opts, sweep, sweepnow>>
-----------------------------------------------------------------------------
(* ddositem: the requests remembered for one address.  request_list,       *)
(* request_length and request_count always change together.                *)

Request == [key : Key, count : Nat]

Entry == [ip_address : Addr \union {Shared},
          is_banned : BOOLEAN,
          flagged_removed : BOOLEAN,
          bannedtime : Nat \union {Undef},
          lastconnection : Nat,
          total_ddoscount : Nat \union {Undef},
          requests : Seq(Request)]

\* request_index(m) = r: the first remembered request with the packet's key.
IsRequest(r, requests, m) ==
    /\ KeyOf[m] # NoKey
    /\ requests[r].key = KeyOf[m]
    /\ \A q \in 1..(r - 1) : requests[q].key # KeyOf[m]

\* Mutant: the list of requests grows one past its capacity.
add_request_OffByOne(requests, m) ==
    IF KeyOf[m] = NoKey
    THEN requests
    ELSE Append(IF Len(requests) > MaxRequests
                THEN SubSeq(requests, EvictBatch + 1, Len(requests))
                ELSE requests,
                [key |-> KeyOf[m], count |-> 1])

add_request(requests, m) ==
    IF KeyOf[m] = NoKey
    THEN requests
    ELSE Append(IF Len(requests) >= MaxRequests
                THEN SubSeq(requests, EvictBatch + 1, Len(requests))
                ELSE requests,
                [key |-> KeyOf[m], count |-> 1])
-----------------------------------------------------------------------------
(* Look-ups: a linear search for the first entry whose text is the address. *)

TextOf(di) == IF di.ip_address = Shared THEN ntoa ELSE di.ip_address

IsEntryOf(k, a) ==
    /\ TextOf(ddosiplist[k]) = a
    /\ \A j \in 1..(k - 1) : TextOf(ddosiplist[j]) # a

Unlisted(a) == \A k \in DOMAIN ddosiplist : TextOf(ddosiplist[k]) # a

is_ipbanned(a) ==
    \E k \in DOMAIN ddosiplist : IsEntryOf(k, a) /\ ddosiplist[k].is_banned

BlockedIPCount ==
    Cardinality({k \in DOMAIN ddosiplist :
                    ddosiplist[k].is_banned /\ ~ddosiplist[k].flagged_removed})
-----------------------------------------------------------------------------
(* AddIPBan(ipaddr), called with the pointer inet_ntoa returned.            *)

\* Mutant: the new ban is not dated.
SharedBan_Undated == [ip_address |-> Shared, is_banned |-> TRUE,
                      flagged_removed |-> FALSE, bannedtime |-> Undef,
                      lastconnection |-> clock, total_ddoscount |-> Undef,
                      requests |-> <<>>]

SharedBan == [ip_address |-> Shared, is_banned |-> TRUE,
              flagged_removed |-> FALSE, bannedtime |-> clock,
              lastconnection |-> clock, total_ddoscount |-> Undef,
              requests |-> <<>>]

\* Mutant: the renewed ban keeps its old date.
RenewedBan_Undated(di) == [di EXCEPT !.flagged_removed = FALSE, !.is_banned = TRUE,
                                     !.lastconnection = clock]

RenewedBan(di) == [di EXCEPT !.flagged_removed = FALSE, !.is_banned = TRUE,
                             !.lastconnection = clock, !.bannedtime = clock]

\* Mutant: the new ban is put in front.
AddIPBan_Front ==
    /\ \/ \E k \in DOMAIN ddosiplist :
            /\ IsEntryOf(k, ntoa)
            /\ ddosiplist' = [ddosiplist EXCEPT ![k] = RenewedBan(@)]
       \/ /\ Unlisted(ntoa)
          /\ ddosiplist' = <<SharedBan>> \o ddosiplist
    /\ UNCHANGED <<ntoa, clock, opts, sweep, sweepnow>>

\* Mutant: the ban is added without a search for the address's entry.
AddIPBan_NoSearch ==
    /\ ddosiplist' = Append(ddosiplist, SharedBan)
    /\ UNCHANGED <<ntoa, clock, opts, sweep, sweepnow>>

AddIPBan ==
    /\ \/ \E k \in DOMAIN ddosiplist :
            /\ IsEntryOf(k, ntoa)
            /\ ddosiplist' = [ddosiplist EXCEPT ![k] = RenewedBan(@)]
       \/ /\ Unlisted(ntoa)
          /\ ddosiplist' = Append(ddosiplist, SharedBan)
    /\ UNCHANGED <<ntoa, clock, opts, sweep, sweepnow>>
-----------------------------------------------------------------------------
(* get_banstatus(ipaddr, message, length), with ipaddr the same pointer.    *)

Reason == {"nobanned", "banned_allpacket", "banned_differpacket"}

\* Mutant: the caller's pointer is kept, the address text is not copied.
NewEntry_NoCopy(m) == [ip_address |-> Shared, is_banned |-> FALSE,
                       flagged_removed |-> FALSE, bannedtime |-> Undef,
                       lastconnection |-> clock, total_ddoscount |-> 1,
                       requests |-> add_request(<<>>, m)]

NewEntry(m) == [ip_address |-> ntoa, is_banned |-> FALSE,
                flagged_removed |-> FALSE, bannedtime |-> Undef,
                lastconnection |-> clock, total_ddoscount |-> 1,
                requests |-> add_request(<<>>, m)]

\* The entries whose packets are counted: the window opens with the first
\* packet (lastconnection is never refreshed) and closes for good.
Counted(di) ==
    /\ ~di.flagged_removed
    /\ ~di.is_banned
    /\ clock - di.lastconnection < opts.e_paket_cache_suresi

\* Mutant: the limit itself is still let through.
TotalFlood_OffByOne(di) ==
    /\ opts.check_total_flood
    /\ di.total_ddoscount + 1 > opts.e_toplam_limit

TotalFlood(di) ==
    /\ opts.check_total_flood
    /\ di.total_ddoscount + 1 >= opts.e_toplam_limit

SingleFlood(di, m) ==
    /\ opts.check_single_flood
    /\ \E r \in DOMAIN di.requests :
          /\ IsRequest(r, di.requests, m)
          /\ di.requests[r].count + 1 >= opts.e_teksefer_limit

BannedEntry(di) == [di EXCEPT !.bannedtime = clock, !.is_banned = TRUE,
                              !.total_ddoscount = 0, !.requests = <<>>]

CountRequest(requests, m) ==
    IF ~opts.check_single_flood THEN requests
    ELSE IF \E r \in DOMAIN requests : IsRequest(r, requests, m)
    THEN [r \in DOMAIN requests |->
            IF IsRequest(r, requests, m)
            THEN [requests[r] EXCEPT !.count = @ + 1]
            ELSE requests[r]]
    ELSE add_request(requests, m)

\* Mutant: every packet extends the window.
CountedEntry_Extends(di, m) == [di EXCEPT !.total_ddoscount = @ + 1,
                                          !.requests = CountRequest(@, m),
                                          !.lastconnection = clock]

CountedEntry(di, m) == [di EXCEPT !.total_ddoscount = @ + 1,
                                  !.requests = CountRequest(@, m)]

get_banstatus(m, reason) ==
    /\ \/ /\ Unlisted(ntoa)
          /\ reason = "nobanned"
          /\ ddosiplist' = Append(ddosiplist, NewEntry(m))
       \/ \E k \in DOMAIN ddosiplist :
            /\ IsEntryOf(k, ntoa)
            /\ LET di == ddosiplist[k] IN
               \/ /\ ~Counted(di)
                  /\ reason = "nobanned"
                  /\ UNCHANGED ddosiplist
               \/ /\ Counted(di) /\ TotalFlood(di)
                  /\ reason = "banned_allpacket"
                  /\ ddosiplist' = [ddosiplist EXCEPT ![k] = BannedEntry(@)]
               \/ /\ Counted(di) /\ ~TotalFlood(di) /\ SingleFlood(di, m)
                  /\ reason = "banned_differpacket"
                  /\ ddosiplist' = [ddosiplist EXCEPT ![k] = BannedEntry(@)]
               \/ /\ Counted(di) /\ ~TotalFlood(di) /\ ~SingleFlood(di, m)
                  /\ reason = "nobanned"
                  /\ ddosiplist' = [ddosiplist EXCEPT ![k] = CountedEntry(@, m)]
    /\ UNCHANGED <<ntoa, clock, opts, sweep, sweepnow>>
-----------------------------------------------------------------------------
(* clear_unactionip(): one step to enter it, one per iteration, one to     *)
(* leave.  "Expired" is what the loop calls silbunu.                       *)

\* Mutants: a ban ages from its first packet; a ban never expires; the flag
\* is ignored.
Expired_ByConnection(di) ==
    \/ di.flagged_removed
    \/ di.is_banned /\ sweepnow - di.lastconnection >= opts.e_ban_suresi
    \/ ~di.is_banned /\ sweepnow - di.lastconnection >= opts.e_paket_cache_suresi

Expired_NeverBans(di) ==
    \/ di.flagged_removed
    \/ ~di.is_banned /\ sweepnow - di.lastconnection >= opts.e_paket_cache_suresi

Expired_NoFlag(di) ==
    \/ di.is_banned /\ sweepnow - di.bannedtime >= opts.e_ban_suresi
    \/ ~di.is_banned /\ sweepnow - di.lastconnection >= opts.e_paket_cache_suresi

\* Mutant: times are unsigned, so that a negative age is a long one.
Expired_Unsigned(di) ==
    \/ di.flagged_removed
    \/ di.is_banned /\ (sweepnow - di.bannedtime) \notin 0..(opts.e_ban_suresi - 1)
    \/ ~di.is_banned /\ sweepnow - di.lastconnection >= opts.e_paket_cache_suresi

Expired(di) ==
    \/ di.flagged_removed
    \/ di.is_banned /\ sweepnow - di.bannedtime >= opts.e_ban_suresi
    \/ ~di.is_banned /\ sweepnow - di.lastconnection >= opts.e_paket_cache_suresi

ClearBegin ==
    /\ sweep' = 1
    /\ sweepnow' = clock
    /\ UNCHANGED <<ddosiplist, ntoa, clock, opts>>

\* Mutant: the index does not step back after the erase.
ClearErase_NoStepBack ==
    /\ sweep \in DOMAIN ddosiplist
    /\ Expired(ddosiplist[sweep])
    /\ ddosiplist' = RemoveAt(ddosiplist, sweep)
    /\ sweep' = sweep + 1
    /\ UNCHANGED <<ntoa, clock, opts, sweepnow>>

ClearErase ==
    /\ sweep \in DOMAIN ddosiplist
    /\ Expired(ddosiplist[sweep])
    /\ ddosiplist' = RemoveAt(ddosiplist, sweep)
    /\ UNCHANGED <<ntoa, clock, opts, sweep, sweepnow>>

\* Mutants: an expired entry may be passed over; the index stays.
ClearKeep_Any ==
    /\ sweep \in DOMAIN ddosiplist
    /\ sweep' = sweep + 1
    /\ UNCHANGED <<ddosiplist, ntoa, clock, opts, sweepnow>>

ClearKeep_Stays ==
    /\ sweep \in DOMAIN ddosiplist
    /\ ~Expired(ddosiplist[sweep])
    /\ UNCHANGED control_vars

ClearKeep ==
    /\ sweep \in DOMAIN ddosiplist
    /\ ~Expired(ddosiplist[sweep])
    /\ sweep' = sweep + 1
    /\ UNCHANGED <<ddosiplist, ntoa, clock, opts, sweepnow>>

ClearEnd ==
    /\ sweep > Len(ddosiplist)
    /\ sweep' = 0
    /\ sweepnow' = 0
    /\ UNCHANGED <<ddosiplist, ntoa, clock, opts>>
-----------------------------------------------------------------------------
(* The operations of the console commands, which pass flagonly = true.      *)

\* RemoveAt(index, true), for an index inside the list
FlagRemoved(k) ==
    /\ k \in DOMAIN ddosiplist
    /\ ddosiplist' = [ddosiplist EXCEPT ![k].flagged_removed = TRUE]
    /\ UNCHANGED <<ntoa, clock, opts, sweep, sweepnow>>

\* RemoveAt(GetIdByAddr(a), true): GetIdByAddr answers NULL, the first
\* index, for an address that is not listed.
FlagRemovedAddr(a) ==
    \/ \E k \in DOMAIN ddosiplist : IsEntryOf(k, a) /\ FlagRemoved(k)
    \/ Unlisted(a) /\ FlagRemoved(1)

\* Clear(true): its loop runs over i but flags ddosiplist[0] every time.
Clear == FlagRemoved(1)
-----------------------------------------------------------------------------
(* What the callers and the environment change: the wall clock, the buffer *)
(* of inet_ntoa and the options.                                           *)

Tick ==
    /\ clock < MaxTime
    /\ clock' = clock + 1
    /\ UNCHANGED <<ddosiplist, ntoa, opts, sweep, sweepnow>>

inet_ntoa(a) ==
    /\ ntoa' = a
    /\ UNCHANGED <<ddosiplist, clock, opts, sweep, sweepnow>>

SetOptions(o) ==
    /\ opts' = o
    /\ UNCHANGED <<ddosiplist, ntoa, clock, sweep, sweepnow>>

ControlInit ==
    /\ ddosiplist = <<>>
    /\ ntoa = NoAddr
    /\ clock = 1
    /\ opts \in Options
    /\ sweep = 0
    /\ sweepnow = 0

ClearStep == ClearErase \/ ClearKeep \/ ClearEnd

\* One thread calls the operations, so none starts while a sweep runs.
ControlNext ==
    \/ Tick
    \/ sweep > 0 /\ ClearStep
    \/ /\ sweep = 0
       /\ \/ ClearBegin
          \/ Clear
          \/ \E k \in DOMAIN ddosiplist : FlagRemoved(k)
          \/ \E a \in Addr : FlagRemovedAddr(a) \/ inet_ntoa(a)
          \/ \E o \in Options : SetOptions(o)
          \/ ntoa \in Addr /\ AddIPBan
          \/ ntoa \in Addr /\ \E m \in Packet, reason \in Reason : get_banstatus(m, reason)

ControlSpec == ControlInit /\ [][ControlNext]_control_vars
-----------------------------------------------------------------------------
(* Correctness of the ban list.                                            *)

\* Every variable and every member of an entry stays in its range, and the
\* loop index of clear_unactionip never runs past the end of the vector by
\* more than one (ddoscontrol.cpp:67-107).
ControlTypeOK ==
    /\ ddosiplist \in Seq(Entry)
    /\ ntoa \in Addr \union {NoAddr}
    /\ clock \in Nat
    /\ opts \in Options
    /\ sweep \in 0..(Len(ddosiplist) + 1)
    /\ sweepnow \in Nat

\* No address owns two entries, and at most one entry points at inet_ntoa's
\* buffer; that one is the last of the vector, so that a search meets an
\* address's own entry before it.  Nothing in ddoscontrol.cpp enforces this
\* directly: it follows from searching before every push_back (lines
\* 122-137, 141-154) and from every text matching the shared entry.
OneEntryPerOwner ==
    \A j, k \in DOMAIN ddosiplist :
        /\ ddosiplist[j].ip_address = ddosiplist[k].ip_address => j = k
        /\ ddosiplist[k].ip_address = Shared => j <= k

\* The members that ddositem's constructor leaves uninitialised are never
\* read before they are set: is_banned guards bannedtime, its negation
\* total_ddoscount (ddoscontrol.cpp:76-96, 158-177; ddositem.cpp:62-65).
ReadSafe(di) == IF di.is_banned THEN di.bannedtime # Undef
                                ELSE di.total_ddoscount # Undef

NoUnsetRead == \A k \in DOMAIN ddosiplist : ReadSafe(ddosiplist[k])

\* The memory of requests (ddositem.cpp:5-53) never exceeds its capacity,
\* never holds a request twice, although eviction forgets some of them, and
\* no request was seen more often than its address sent packets.
ConsistentEntry(di) ==
    /\ Len(di.requests) <= MaxRequests
    /\ \A q, r \in DOMAIN di.requests :
          di.requests[q].key = di.requests[r].key => q = r
    /\ \A r \in DOMAIN di.requests : di.requests[r].count <= di.total_ddoscount

RequestsConsistent == \A k \in DOMAIN ddosiplist : ConsistentEntry(ddosiplist[k])

\* An address that is not banned has not yet reached the limits: no request
\* has been counted up to every single-flood limit the server has used, and
\* as long as the total check is never switched off, its packets have not
\* been counted up to every total limit (ddoscontrol.cpp:176-207).
BelowLimit(di) ==
    ~di.is_banned =>
        /\ \A r \in DOMAIN di.requests :
              \E o \in Options : di.requests[r].count < o.e_teksefer_limit
        /\ (\A o \in Options : o.check_total_flood) =>
              \E o \in Options : di.total_ddoscount < o.e_toplam_limit

BelowLimits == \A k \in DOMAIN ddosiplist : BelowLimit(ddosiplist[k])

\* clear_unactionip erases inside its loop and steps back (i--, vsize--): it
\* must not skip the entry that slid into the gap (ddoscontrol.cpp:97-104).
SweepClean ==
    \A k \in 1..(sweep - 1) : ~Expired(ddosiplist[k])

\* A ban in force holds: as long as it is neither expired nor flagged by an
\* operator, no step drops the entry, unbans it, or dates it back.
InForce(di) ==
    /\ di.is_banned
    /\ ~di.flagged_removed
    /\ clock - di.bannedtime < opts.e_ban_suresi

BanHoldsStep ==
    \A j \in DOMAIN ddosiplist :
        InForce(ddosiplist[j]) =>
            \E k \in DOMAIN ddosiplist' :
                /\ ddosiplist'[k].ip_address = ddosiplist[j].ip_address
                /\ ddosiplist'[k].is_banned
                /\ ddosiplist'[k].bannedtime >= ddosiplist[j].bannedtime

BanHolds == [][BanHoldsStep]_control_vars
=============================================================================
