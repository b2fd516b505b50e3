----------------------- MODULE DdosControlTableProofs -----------------------
(* The ban list implements the table, for every value of the constants.    *)
EXTENDS DdosControlTable, DdosControlProofs

-----------------------------------------------------------------------------
(* How the table follows the vector.                                       *)

Unique(list) == \A j, k \in DOMAIN list : list[j].ip_address = list[k].ip_address => j = k

\* The entry of an owner that has one.
LEMMA TableAt ==
    ASSUME NEW list \in Seq(Entry), Unique(list), NEW k \in DOMAIN list
    PROVE  /\ list[k].ip_address \in Owners
           /\ TableFrom(list)[list[k].ip_address] = Abstract(list[k])
<1>1. list[k] \in Entry
  BY LenProperties, ElementOfSeq
<1>2. list[k].ip_address \in Owners
  BY <1>1 DEF Entry, Owners
<1>3. Has(list, list[k].ip_address)
  BY DEF Has
<1>4. PositionOf(list, list[k].ip_address) = k
  BY DEF PositionOf, Unique
<1>5. QED
  BY <1>2, <1>3, <1>4 DEF TableFrom

LEMMA TableFree ==
    ASSUME NEW list, NEW o \in Owners, ~Has(list, o)
    PROVE  TableFrom(list)[o] = Unowned
BY DEF TableFrom

\* The table with one entry changed.
Updated(t, o, e) == [t EXCEPT ![o] = e]

\* Two tables that agree on every other owner.
LEMMA SameTable ==
    ASSUME NEW list, NEW old, NEW o \in Owners,
           \A p \in Owners : p # o => TableFrom(list)[p] = TableFrom(old)[p]
    PROVE  TableFrom(list) = Updated(TableFrom(old), o, TableFrom(list)[o])
<1>1. DOMAIN TableFrom(list) = Owners /\ DOMAIN TableFrom(old) = Owners
  BY DEF TableFrom
<1>2. TableFrom(list) = [p \in Owners |-> TableFrom(list)[p]]
  BY DEF TableFrom
<1>3. [TableFrom(old) EXCEPT ![o] = TableFrom(list)[o]] =
        [p \in Owners |-> IF p = o THEN TableFrom(list)[o] ELSE TableFrom(old)[p]]
  BY <1>1
<1>4. QED
  BY <1>2, <1>3 DEF Updated

\* An entry is replaced by one of the same owner.
LEMMA TableReplace ==
    ASSUME NEW list \in Seq(Entry), Unique(list), NEW k \in DOMAIN list,
           NEW e \in Entry, e.ip_address = list[k].ip_address
    PROVE  TableFrom([list EXCEPT ![k] = e])
             = Updated(TableFrom(list), list[k].ip_address, Abstract(e))
<1> DEFINE new == [list EXCEPT ![k] = e]
           o == list[k].ip_address
<1>1. /\ new \in Seq(Entry) /\ DOMAIN new = DOMAIN list
      /\ \A j \in DOMAIN list : new[j] = IF j = k THEN e ELSE list[j]
  <2>1. DOMAIN list = 1..Len(list) /\ Len(list) \in Nat
    BY LenProperties
  <2>2. \A j \in 1..Len(list) : list[j] \in Entry
    BY ElementOfSeq
  <2>3. new \in [1..Len(list) -> Entry]
    BY <2>1, <2>2
  <2>4. QED
    BY <2>1, <2>3
<1>2. \A j \in DOMAIN list : new[j].ip_address = list[j].ip_address
  BY <1>1
<1> HIDE DEF new
<1>3. Unique(new)
  BY <1>1, <1>2 DEF Unique
<1>4. o \in Owners /\ TableFrom(new)[o] = Abstract(e)
  BY <1>1, <1>2, <1>3, TableAt
<1>5. ASSUME NEW p \in Owners, p # o
      PROVE  TableFrom(new)[p] = TableFrom(list)[p]
  <2>1. CASE Has(list, p)
    <3>1. PICK j \in DOMAIN list : list[j].ip_address = p
      BY <2>1 DEF Has
    <3>2. j # k /\ new[j] = list[j]
      BY <1>1, <1>5, <3>1
    <3>3. /\ TableFrom(list)[list[j].ip_address] = Abstract(list[j])
          /\ TableFrom(new)[new[j].ip_address] = Abstract(new[j])
      BY <1>1, <1>3, TableAt
    <3>4. QED
      BY <3>1, <3>2, <3>3
  <2>2. CASE ~Has(list, p)
    <3>1. ~Has(new, p)
      BY <1>1, <1>2, <2>2 DEF Has
    <3>2. QED
      BY <2>2, <3>1, TableFree
  <2>3. QED
    BY <2>1, <2>2
<1>6. TableFrom(new) = Updated(TableFrom(list), o, Abstract(e))
  <2> HIDE DEF o
  <2>1. \A p \in Owners : p # o => TableFrom(new)[p] = TableFrom(list)[p]
    BY <1>5
  <2>2. TableFrom(new) = Updated(TableFrom(list), o, TableFrom(new)[o])
    BY <1>4, <2>1, SameTable
  <2>3. QED
    BY <1>4, <2>2
<1>7. QED
  BY <1>6 DEF new

\* A first entry of an owner is appended.
LEMMA TableAppend ==
    ASSUME NEW list \in Seq(Entry), Unique(list), NEW e \in Entry,
           ~Has(list, e.ip_address)
    PROVE  TableFrom(Append(list, e))
             = Updated(TableFrom(list), e.ip_address, Abstract(e))
<1> DEFINE new == Append(list, e)
           o == e.ip_address
<1>1. /\ DOMAIN list = 1..Len(list) /\ Len(list) \in Nat
      /\ new \in Seq(Entry) /\ DOMAIN new = 1..(Len(list) + 1)
      /\ \A j \in 1..Len(list) : new[j] = list[j]
      /\ new[Len(list) + 1] = e
  BY AppendProperties, LenProperties
<1> HIDE DEF new
<1>2. \A j \in DOMAIN list : list[j].ip_address # o
  BY DEF Has
<1>3. Unique(new)
  <2>1. SUFFICES ASSUME NEW j \in DOMAIN new, NEW k \in DOMAIN new,
                        new[j].ip_address = new[k].ip_address
                 PROVE  j = k
    BY DEF Unique
  <2>2. (j \in DOMAIN list \/ j = Len(list) + 1) /\ (k \in DOMAIN list \/ k = Len(list) + 1)
    BY <1>1
  <2>3. QED
    BY <1>1, <1>2, <2>1, <2>2 DEF Unique
<1>4. o \in Owners /\ TableFrom(new)[o] = Abstract(e)
  <2>1. Len(list) + 1 \in DOMAIN new
    BY <1>1
  <2>2. QED
    BY <1>1, <1>3, <2>1, TableAt
<1>5. ASSUME NEW p \in Owners, p # o
      PROVE  TableFrom(new)[p] = TableFrom(list)[p]
  <2>1. CASE Has(list, p)
    <3>1. PICK j \in DOMAIN list : list[j].ip_address = p
      BY <2>1 DEF Has
    <3>2. j \in DOMAIN new /\ new[j] = list[j]
      BY <1>1
    <3>3. /\ TableFrom(list)[list[j].ip_address] = Abstract(list[j])
          /\ TableFrom(new)[new[j].ip_address] = Abstract(new[j])
      BY <1>1, <1>3, <3>2, TableAt
    <3>4. QED
      BY <3>1, <3>2, <3>3
  <2>2. CASE ~Has(list, p)
    <3>1. ~Has(new, p)
      BY <1>1, <1>5, <2>2 DEF Has
    <3>2. QED
      BY <2>2, <3>1, TableFree
  <2>3. QED
    BY <2>1, <2>2
<1>6. TableFrom(new) = Updated(TableFrom(list), o, Abstract(e))
  <2> HIDE DEF o
  <2>1. \A p \in Owners : p # o => TableFrom(new)[p] = TableFrom(list)[p]
    BY <1>5
  <2>2. TableFrom(new) = Updated(TableFrom(list), o, TableFrom(new)[o])
    BY <1>4, <2>1, SameTable
  <2>3. QED
    BY <1>4, <2>2
<1>7. QED
  BY <1>6 DEF new

\* An entry is erased, and the ones behind it move down.
LEMMA TableErase ==
    ASSUME NEW list \in Seq(Entry), Unique(list), NEW n \in DOMAIN list
    PROVE  TableFrom(RemoveAt(list, n))
             = Updated(TableFrom(list), list[n].ip_address, Unowned)
<1> DEFINE new == RemoveAt(list, n)
           o == list[n].ip_address
           old(j) == IF j < n THEN j ELSE j + 1
<1>1. DOMAIN list = 1..Len(list) /\ Len(list) \in Nat
  BY LenProperties
<1>2. /\ new \in Seq(Entry)
      /\ Len(new) = Len(list) - 1
      /\ \A j \in 1..(Len(list) - 1) : new[j] = IF j < n THEN list[j] ELSE list[j + 1]
  BY <1>1, RemoveAtFacts
<1>3. DOMAIN new = 1..(Len(list) - 1)
  BY <1>2, LenProperties
<1> HIDE DEF new
<1>4. ASSUME NEW j \in DOMAIN new
      PROVE  old(j) \in DOMAIN list /\ old(j) # n /\ new[j] = list[old(j)]
  BY <1>1, <1>2, <1>3
<1>5. ASSUME NEW i \in DOMAIN list, i # n
      PROVE  \E j \in DOMAIN new : old(j) = i
  <2>1. CASE i < n
    <3>1. i \in DOMAIN new /\ old(i) = i
      BY <1>1, <1>3, <2>1
    <3>2. QED
      BY <3>1
  <2>2. CASE i > n
    <3>1. i - 1 \in DOMAIN new /\ old(i - 1) = i
      BY <1>1, <1>3, <2>2
    <3>2. QED
      BY <3>1
  <2>3. QED
    BY <1>1, <1>5, <2>1, <2>2
<1>6. ASSUME NEW j \in DOMAIN new, NEW k \in DOMAIN new, old(j) = old(k)
      PROVE  j = k
  BY <1>1, <1>3, <1>6
<1> HIDE DEF old
<1>7. Unique(new)
  BY <1>4, <1>6 DEF Unique
<1>8. ~Has(new, o)
  BY <1>4 DEF Has, Unique
<1>9. o \in Owners
  BY TableAt
<1>10. TableFrom(new)[o] = Unowned
  BY <1>8, <1>9, TableFree
<1>11. ASSUME NEW p \in Owners, p # o
       PROVE  TableFrom(new)[p] = TableFrom(list)[p]
  <2>1. CASE Has(list, p)
    <3>1. PICK i \in DOMAIN list : list[i].ip_address = p
      BY <2>1 DEF Has
    <3>2. PICK j \in DOMAIN new : new[j] = list[i]
      BY <1>4, <1>5, <1>11, <3>1
    <3>3. /\ TableFrom(list)[list[i].ip_address] = Abstract(list[i])
          /\ TableFrom(new)[new[j].ip_address] = Abstract(new[j])
      BY <1>2, <1>7, TableAt
    <3>4. QED
      BY <3>1, <3>2, <3>3
  <2>2. CASE ~Has(list, p)
    <3>1. ~Has(new, p)
      BY <1>4, <2>2 DEF Has
    <3>2. QED
      BY <2>2, <3>1, TableFree
  <2>3. QED
    BY <2>1, <2>2
<1>12. TableFrom(new) = Updated(TableFrom(list), o, Unowned)
  <2> HIDE DEF o
  <2>1. \A p \in Owners : p # o => TableFrom(new)[p] = TableFrom(list)[p]
    BY <1>11
  <2>2. TableFrom(new) = Updated(TableFrom(list), o, TableFrom(new)[o])
    BY <1>9, <2>1, SameTable
  <2>3. QED
    BY <1>10, <2>2
<1>13. QED
  BY <1>12 DEF new

-----------------------------------------------------------------------------
(* Every step of the ban list is a step of the table, or none.             *)

\* The shared entry is never merely counted.
SharedAreBans ==
    \A k \in DOMAIN ddosiplist :
        ddosiplist[k].ip_address = Shared => ddosiplist[k].is_banned

TableInv == ControlInv /\ SharedAreBans

TableStep == [Table!TableNext]_(Table!table_vars)

LEMMA ListFacts ==
    ASSUME ControlInv
    PROVE  /\ ddosiplist \in Seq(Entry) /\ Unique(ddosiplist)
           /\ \A k \in DOMAIN ddosiplist : ddosiplist[k] \in Entry /\ ddosiplist[k] \in GoodEntry
           /\ clock \in Nat
<1>1. ddosiplist \in Seq(Entry) /\ clock \in Nat
  BY DEF ControlInv, ControlTypeOK
<1>2. Unique(ddosiplist)
  BY DEF ControlInv, GoodList, OneEntryPerOwner, Unique
<1>3. QED
  BY <1>1, <1>2, ListDomain DEF ControlInv, GoodEntry

\* The entry a search for the buffer's address finds is the one that answers.
LEMMA FoundAnswers ==
    ASSUME ControlInv, ntoa \in Addr, NEW k \in DOMAIN ddosiplist, IsEntryOf(k, ntoa)
    PROVE  ddosiplist[k].ip_address = Table!Answering(ntoa)
<1> DEFINE di == ddosiplist[k]
<1>1. di \in Entry /\ ddosiplist \in Seq(Entry) /\ Unique(ddosiplist)
  BY ListFacts
<1>2. TableOf[di.ip_address] = Abstract(di)
  BY <1>1, TableAt DEF TableOf
<1>3. Abstract(di) # Table!Free
  BY DEF Abstract, Table!Free
<1>4. CASE di.ip_address = ntoa
  BY <1>2, <1>3, <1>4 DEF Table!Answering
<1>5. CASE di.ip_address = Shared
  <2>1. ASSUME NEW j \in DOMAIN ddosiplist, ddosiplist[j].ip_address = ntoa PROVE FALSE
    <3>1. j <= k /\ j # k
      BY <1>5, <2>1, ControlAssumptions DEF ControlInv, GoodList, OneEntryPerOwner
    <3>2. j \in 1..(k - 1)
      BY <1>1, <3>1, LenProperties
    <3>3. TextOf(ddosiplist[j]) = ntoa
      BY <2>1 DEF TextOf
    <3>4. QED
      BY <3>2, <3>3 DEF IsEntryOf
  <2>2. ~Has(ddosiplist, ntoa)
    BY <2>1 DEF Has
  <2>3. TableOf[ntoa] = Table!Free
    BY <2>2, TableFree DEF TableOf, Owners, Unowned, Table!Free
  <2>4. QED
    BY <1>5, <2>3 DEF Table!Answering
<1>6. QED
  BY <1>4, <1>5 DEF IsEntryOf, TextOf

\* Nothing answers for an address whose search fails.
LEMMA UnlistedFree ==
    ASSUME ntoa \in Addr, Unlisted(ntoa)
    PROVE  /\ ~Has(ddosiplist, ntoa) /\ ~Has(ddosiplist, Shared)
           /\ TableOf[ntoa] = Table!Free /\ TableOf[Shared] = Table!Free
           /\ Table!Answering(ntoa) = Shared
<1>1. ~Has(ddosiplist, ntoa) /\ ~Has(ddosiplist, Shared)
  BY DEF Unlisted, TextOf, Has
<1>2. TableOf[ntoa] = Table!Free /\ TableOf[Shared] = Table!Free
  BY <1>1, TableFree DEF TableOf, Owners, Unowned, Table!Free
<1>3. QED
  BY <1>1, <1>2 DEF Table!Answering

\* An entry is replaced: the table changes at its owner, the shared entry
\* stays a ban if the new entry is one or the old one was not.
LEMMA ReplaceTable ==
    ASSUME TableInv, NEW k \in DOMAIN ddosiplist, NEW e \in Entry,
           e.ip_address = ddosiplist[k].ip_address,
           e.is_banned \/ ~ddosiplist[k].is_banned,
           ddosiplist' = [ddosiplist EXCEPT ![k] = e]
    PROVE  /\ SharedAreBans'
           /\ TableOf' = Updated(TableOf, ddosiplist[k].ip_address, Abstract(e))
<1>1. ddosiplist \in Seq(Entry) /\ Unique(ddosiplist)
  BY ListFacts DEF TableInv
<1>2. TableOf' = TableFrom(ddosiplist') /\ TableOf = TableFrom(ddosiplist)
  BY DEF TableOf
<1>3. TableOf' = Updated(TableOf, ddosiplist[k].ip_address, Abstract(e))
  BY <1>1, <1>2, TableReplace
<1>4. SharedAreBans'
  BY DEF TableInv, SharedAreBans
<1>5. QED
  BY <1>3, <1>4

LEMMA AppendTable ==
    ASSUME TableInv, NEW e \in Entry, ~Has(ddosiplist, e.ip_address),
           e.ip_address = Shared => e.is_banned,
           ddosiplist' = Append(ddosiplist, e)
    PROVE  /\ SharedAreBans'
           /\ TableOf' = Updated(TableOf, e.ip_address, Abstract(e))
<1>1. ddosiplist \in Seq(Entry) /\ Unique(ddosiplist)
  BY ListFacts DEF TableInv
<1>2. TableOf' = TableFrom(ddosiplist') /\ TableOf = TableFrom(ddosiplist)
  BY DEF TableOf
<1>3. TableOf' = Updated(TableOf, e.ip_address, Abstract(e))
  BY <1>1, <1>2, TableAppend
<1>4. SharedAreBans'
  <2>1. /\ DOMAIN ddosiplist = 1..Len(ddosiplist)
        /\ DOMAIN ddosiplist' = 1..(Len(ddosiplist) + 1)
        /\ \A j \in 1..Len(ddosiplist) : ddosiplist'[j] = ddosiplist[j]
        /\ ddosiplist'[Len(ddosiplist) + 1] = e /\ Len(ddosiplist) \in Nat
    BY <1>1, AppendProperties, LenProperties
  <2>2. QED
    BY <2>1 DEF TableInv, SharedAreBans
<1>5. QED
  BY <1>3, <1>4

LEMMA AddIPBanTable ==
    ASSUME TableInv, ntoa \in Addr, AddIPBan
    PROVE  SharedAreBans' /\ TableStep
<1>1. UNCHANGED <<clock, opts>>
  BY DEF AddIPBan
<1>2. TableOf' = Updated(TableOf, Table!Answering(ntoa), Table!Banned(clock)) /\ SharedAreBans'
  <2>1. ASSUME NEW k \in DOMAIN ddosiplist, IsEntryOf(k, ntoa),
               ddosiplist' = [ddosiplist EXCEPT ![k] = RenewedBan(@)]
        PROVE  TableOf' = Updated(TableOf, Table!Answering(ntoa), Table!Banned(clock))
               /\ SharedAreBans'
    <3> DEFINE e == RenewedBan(ddosiplist[k])
    <3>1. ddosiplist[k] \in Entry /\ ddosiplist[k] \in GoodEntry /\ clock \in Nat
      BY ListFacts DEF TableInv
    <3>2. e \in Entry
      BY <3>1, RenewedBanGood DEF GoodEntry
    <3>3. /\ e.ip_address = ddosiplist[k].ip_address /\ e.is_banned
          /\ Abstract(e) = Table!Banned(clock)
      BY <3>1 DEF RenewedBan, Entry, Abstract, Table!Banned
    <3>4. ddosiplist' = [ddosiplist EXCEPT ![k] = e]
      BY <2>1
    <3>5. ddosiplist[k].ip_address = Table!Answering(ntoa)
      BY <2>1, FoundAnswers DEF TableInv
    <3> HIDE DEF e
    <3>6. QED
      BY <3>2, <3>3, <3>4, <3>5, ReplaceTable
  <2>2. CASE Unlisted(ntoa) /\ ddosiplist' = Append(ddosiplist, SharedBan)
    <3>1. clock \in Nat
      BY ListFacts DEF TableInv
    <3>2. SharedBan \in Entry
      BY <3>1, SharedBanGood DEF GoodEntry
    <3>3. /\ SharedBan.ip_address = Shared /\ SharedBan.is_banned
          /\ Abstract(SharedBan) = Table!Banned(clock)
      BY DEF SharedBan, Abstract, Table!Banned
    <3>4. ~Has(ddosiplist, Shared) /\ Table!Answering(ntoa) = Shared
      BY <2>2, UnlistedFree
    <3>5. QED
      BY <2>2, <3>2, <3>3, <3>4, AppendTable
  <2>3. QED
    BY <2>1, <2>2 DEF AddIPBan
<1>3. Table!Ban(ntoa)
  BY <1>1, <1>2 DEF Table!Ban, Updated
<1>4. QED
  BY <1>2, <1>3 DEF TableStep, Table!TableNext

LEMMA GetBanstatusTable ==
    ASSUME TableInv, ntoa \in Addr, NEW m \in Packet, NEW reason \in Reason,
           get_banstatus(m, reason)
    PROVE  SharedAreBans' /\ TableStep
<1>1. UNCHANGED <<clock, opts>> /\ clock \in Nat /\ opts \in Options
  BY DEF get_banstatus, TableInv, ControlInv, ControlTypeOK
<1>2. CASE Unlisted(ntoa) /\ ddosiplist' = Append(ddosiplist, NewEntry(m))
  <2>1. NewEntry(m) \in Entry
    BY <1>1, NewEntryGood DEF GoodEntry
  <2>2. /\ NewEntry(m).ip_address = ntoa /\ ntoa # Shared
        /\ Abstract(NewEntry(m)) = Table!Counting(clock)
    BY ControlAssumptions DEF NewEntry, Abstract, Table!Counting
  <2>3. /\ ~Has(ddosiplist, ntoa) /\ Table!Answering(ntoa) = Shared
        /\ TableOf[Shared] = Table!Free
    BY <1>2, UnlistedFree
  <2>4. SharedAreBans' /\ TableOf' = Updated(TableOf, ntoa, Table!Counting(clock))
    BY <1>2, <2>1, <2>2, <2>3, AppendTable
  <2>5. Table!Open(ntoa)
    BY <1>1, <2>3, <2>4 DEF Table!Open, Updated
  <2>6. QED
    BY <2>4, <2>5 DEF TableStep, Table!TableNext
<1>3. CASE UNCHANGED ddosiplist
  <2>1. UNCHANGED TableOf
    BY <1>3 DEF TableOf
  <2>2. QED
    BY <1>1, <1>3, <2>1 DEF TableInv, SharedAreBans, TableStep, Table!table_vars
<1>4. ASSUME NEW k \in DOMAIN ddosiplist, IsEntryOf(k, ntoa), Counted(ddosiplist[k]),
             ddosiplist' = [ddosiplist EXCEPT ![k] = BannedEntry(@)]
      PROVE  SharedAreBans' /\ TableStep
  <2> DEFINE e == BannedEntry(ddosiplist[k])
  <2>1. ddosiplist[k] \in Entry /\ ddosiplist[k] \in GoodEntry
    BY ListFacts DEF TableInv
  <2>2. e \in Entry
    BY <1>1, <2>1, BannedEntryGood DEF GoodEntry
  <2>3. /\ e.ip_address = ddosiplist[k].ip_address /\ e.is_banned
    BY <2>1 DEF BannedEntry, Entry
  <2>4. Abstract(e) = Table!Banned(clock)
    BY <1>4, <2>1 DEF BannedEntry, Entry, Abstract, Table!Banned, Counted
  <2>5. ddosiplist[k].ip_address = ntoa
    BY <1>4 DEF IsEntryOf, TextOf, TableInv, SharedAreBans, Counted
  <2>6. TableOf[ntoa] = Abstract(ddosiplist[k])
    BY <2>5, ListFacts, TableAt DEF TableOf, TableInv
  <2>7. TableOf[ntoa].state = "counting" /\ ~Table!Over(ntoa)
    <3>1. /\ ~TableOf[ntoa].removed /\ TableOf[ntoa].state = "counting"
          /\ TableOf[ntoa].since = ddosiplist[k].lastconnection
      BY <1>4, <2>6 DEF Abstract, Counted
    <3>2. /\ clock - ddosiplist[k].lastconnection < opts.e_paket_cache_suresi
          /\ opts.e_paket_cache_suresi \in Nat /\ ddosiplist[k].lastconnection \in Nat
      BY <1>1, <1>4, <2>1, ControlAssumptions DEF Counted, OptionsAssumption, Entry
    <3>3. ~(Table!Age(ntoa) >= opts.e_paket_cache_suresi)
      BY <1>1, <3>1, <3>2 DEF Table!Age
    <3>4. QED
      BY <3>1, <3>3 DEF Table!Over
  <2>8. ddosiplist' = [ddosiplist EXCEPT ![k] = e]
    BY <1>4
  <2> HIDE DEF e
  <2>9. SharedAreBans' /\ TableOf' = Updated(TableOf, ntoa, Table!Banned(clock))
    BY <2>2, <2>3, <2>4, <2>5, <2>8, ReplaceTable
  <2>10. Table!Flood(ntoa)
    BY <1>1, <2>7, <2>9 DEF Table!Flood, Updated
  <2>11. QED
    BY <2>9, <2>10 DEF TableStep, Table!TableNext
<1>5. ASSUME NEW k \in DOMAIN ddosiplist, Counted(ddosiplist[k]),
             ~TotalFlood(ddosiplist[k]), ~SingleFlood(ddosiplist[k], m),
             ddosiplist' = [ddosiplist EXCEPT ![k] = CountedEntry(@, m)]
      PROVE  SharedAreBans' /\ TableStep
  <2> DEFINE e == CountedEntry(ddosiplist[k], m)
             o == ddosiplist[k].ip_address
  <2>1. ddosiplist[k] \in Entry /\ ddosiplist[k] \in GoodEntry
    BY ListFacts DEF TableInv
  <2>2. e \in Entry
    BY <1>1, <1>5, <2>1, CountedEntryGood DEF GoodEntry
  <2>3. /\ e.ip_address = o /\ ~ddosiplist[k].is_banned
        /\ Abstract(e) = Abstract(ddosiplist[k])
    BY <1>5, <2>1 DEF CountedEntry, Entry, Abstract, Counted
  <2>4. o \in Owners /\ TableOf[o] = Abstract(ddosiplist[k])
    BY ListFacts, TableAt DEF TableOf, TableInv
  <2>5. ddosiplist' = [ddosiplist EXCEPT ![k] = e]
    BY <1>5
  <2> HIDE DEF e, o
  <2>6. SharedAreBans' /\ TableOf' = Updated(TableOf, o, Abstract(e))
    BY <2>2, <2>3, <2>5, ReplaceTable DEF o
  <2>7. Updated(TableOf, o, Abstract(e)) = TableOf
    BY <2>3, <2>4 DEF Updated, TableOf, TableFrom
  <2>8. QED
    BY <1>1, <2>6, <2>7 DEF TableStep, Table!table_vars
<1>6. QED
  BY <1>2, <1>3, <1>4, <1>5 DEF get_banstatus

LEMMA FlagRemovedTable ==
    ASSUME TableInv, NEW k \in DOMAIN ddosiplist, FlagRemoved(k)
    PROVE  SharedAreBans' /\ TableStep
<1> DEFINE di == ddosiplist[k]
           e == [di EXCEPT !.flagged_removed = TRUE]
           o == di.ip_address
<1>1. di \in Entry /\ di \in GoodEntry
  BY ListFacts DEF TableInv
<1>2. e \in Entry
  BY <1>1, FlaggedEntryGood DEF GoodEntry
<1>3. /\ e.ip_address = o /\ e.is_banned = di.is_banned
      /\ e.bannedtime = di.bannedtime /\ e.lastconnection = di.lastconnection
      /\ e.flagged_removed = TRUE
  BY <1>1 DEF Entry
<1>4. o \in Owners /\ TableOf[o] = Abstract(di)
  BY ListFacts, TableAt DEF TableOf, TableInv
<1>5. TableOf[o] # Table!Free
  BY <1>4 DEF Abstract, Table!Free
<1>6. ddosiplist' = [ddosiplist EXCEPT ![k] = e] /\ UNCHANGED <<clock, opts>>
  BY DEF FlagRemoved
<1> HIDE DEF e
<1>7. SharedAreBans' /\ TableOf' = Updated(TableOf, o, Abstract(e))
  <2>1. e.is_banned \/ ~di.is_banned
    BY <1>1, <1>3 DEF Entry
  <2>2. QED
    BY <1>2, <1>3, <1>6, <2>1, ReplaceTable
<1>8. Abstract(e) = Table!Removed(TableOf[o])
  <2>1. /\ TableOf[o].state = IF di.is_banned THEN "banned" ELSE "counting"
        /\ TableOf[o].since = IF di.is_banned THEN di.bannedtime ELSE di.lastconnection
    BY <1>4 DEF Abstract
  <2>2. Abstract(e) = [state |-> IF di.is_banned THEN "banned" ELSE "counting",
                       since |-> IF di.is_banned THEN di.bannedtime
                                                 ELSE di.lastconnection,
                       removed |-> TRUE]
    BY <1>3 DEF Abstract
  <2>3. QED
    BY <2>1, <2>2, Zenon DEF Table!Removed
<1>9. Table!Remove(o)
  BY <1>5, <1>6, <1>7, <1>8 DEF Table!Remove, Updated
<1>10. QED
  BY <1>4, <1>7, <1>9 DEF TableStep, Table!TableNext, Table!Owner, Owners

LEMMA ClearEraseTable ==
    ASSUME TableInv, ClearErase
    PROVE  SharedAreBans' /\ TableStep
<1> DEFINE di == ddosiplist[sweep]
           o == di.ip_address
<1>1. /\ sweep \in DOMAIN ddosiplist /\ Expired(di)
      /\ ddosiplist' = RemoveAt(ddosiplist, sweep)
      /\ UNCHANGED <<clock, opts>>
  BY DEF ClearErase
<1>2. /\ di \in Entry /\ di \in GoodEntry /\ clock \in Nat
      /\ ddosiplist \in Seq(Entry) /\ Unique(ddosiplist)
  BY <1>1, ListFacts DEF TableInv
<1>3. o \in Owners /\ TableOf[o] = Abstract(di)
  BY <1>1, <1>2, TableAt DEF TableOf
<1>4. TableOf[o] # Table!Free
  BY <1>3 DEF Abstract, Table!Free
<1>5. TableOf' = Updated(TableOf, o, Unowned)
  BY <1>1, <1>2, TableErase DEF TableOf
<1>6. Table!Over(o)
  <2>1. /\ sweepnow \in Nat /\ sweepnow <= clock /\ opts.e_ban_suresi \in Nat
        /\ opts.e_paket_cache_suresi \in Nat
    BY <1>1, ControlAssumptions
       DEF TableInv, ControlInv, ControlTypeOK, TimesPast, OptionsAssumption
  <2>2. /\ di.lastconnection \in Nat /\ di.is_banned \in BOOLEAN
        /\ di.flagged_removed \in BOOLEAN
        /\ di.is_banned => di.bannedtime \in Nat
    BY <1>2 DEF GoodEntry, Entry, ReadSafe
  <2>3. CASE di.flagged_removed
    BY <1>3, <2>3 DEF Table!Over, Abstract
  <2>4. CASE di.is_banned /\ sweepnow - di.bannedtime >= opts.e_ban_suresi
    <3>1. TableOf[o].state = "banned" /\ TableOf[o].since = di.bannedtime
      BY <1>3, <2>4 DEF Abstract
    <3>2. clock - di.bannedtime >= opts.e_ban_suresi
      BY <1>2, <2>1, <2>2, <2>4
    <3>3. QED
      BY <3>1, <3>2 DEF Table!Over, Table!Age
  <2>5. CASE ~di.is_banned /\ sweepnow - di.lastconnection >= opts.e_paket_cache_suresi
    <3>1. TableOf[o].state = "counting" /\ TableOf[o].since = di.lastconnection
      BY <1>3, <2>5 DEF Abstract
    <3>2. clock - di.lastconnection >= opts.e_paket_cache_suresi
      BY <1>2, <2>1, <2>2, <2>5
    <3>3. QED
      BY <3>1, <3>2 DEF Table!Over, Table!Age
  <2>6. QED
    BY <1>1, <2>3, <2>4, <2>5 DEF Expired
<1>7. Table!Forget(o)
  BY <1>1, <1>4, <1>5, <1>6 DEF Table!Forget, Updated, Unowned, Table!Free
<1>8. SharedAreBans'
  <2>1. /\ DOMAIN ddosiplist = 1..Len(ddosiplist) /\ Len(ddosiplist) \in Nat
        /\ DOMAIN ddosiplist' = 1..(Len(ddosiplist) - 1)
        /\ \A j \in 1..(Len(ddosiplist) - 1) :
              ddosiplist'[j] = IF j < sweep THEN ddosiplist[j] ELSE ddosiplist[j + 1]
    <3>1. DOMAIN ddosiplist = 1..Len(ddosiplist) /\ Len(ddosiplist) \in Nat
      BY <1>2, LenProperties
    <3>2. sweep \in 1..Len(ddosiplist)
      BY <1>1, <3>1
    <3>3. /\ ddosiplist' \in Seq(Entry) /\ Len(ddosiplist') = Len(ddosiplist) - 1
          /\ \A j \in 1..(Len(ddosiplist) - 1) :
                ddosiplist'[j] = IF j < sweep THEN ddosiplist[j] ELSE ddosiplist[j + 1]
      BY <1>1, <1>2, <3>2, RemoveAtFacts
    <3>4. DOMAIN ddosiplist' = 1..Len(ddosiplist')
      BY <3>3, LenProperties
    <3>5. QED
      BY <3>1, <3>3, <3>4
  <2>2. ASSUME NEW j \in DOMAIN ddosiplist'
        PROVE  \E i \in DOMAIN ddosiplist : ddosiplist'[j] = ddosiplist[i]
    BY <2>1
  <2>3. QED
    BY <2>2 DEF TableInv, SharedAreBans
<1>9. QED
  BY <1>3, <1>7, <1>8 DEF TableStep, Table!TableNext, Table!Owner, Owners

\* The steps that leave the list alone.
LEMMA OtherTable ==
    ASSUME TableInv,
           \/ Tick \/ ClearKeep \/ ClearEnd \/ ClearBegin
           \/ \E a \in Addr : inet_ntoa(a)
           \/ \E o \in Options : SetOptions(o)
           \/ UNCHANGED control_vars
    PROVE  SharedAreBans' /\ TableStep
<1>1. UNCHANGED ddosiplist
  BY DEF Tick, ClearKeep, ClearEnd, ClearBegin, inet_ntoa, SetOptions, control_vars
<1>2. SharedAreBans' /\ UNCHANGED TableOf
  BY <1>1 DEF TableInv, SharedAreBans, TableOf
<1>3. CASE Tick
  BY <1>2, <1>3 DEF Tick, TableStep, Table!TableNext, Table!Pass
<1>4. CASE \E o \in Options : SetOptions(o)
  BY <1>2, <1>4 DEF SetOptions, TableStep, Table!TableNext, Table!Configure
<1>5. CASE ~Tick /\ ~\E o \in Options : SetOptions(o)
  <2>1. UNCHANGED <<clock, opts>>
    BY <1>5 DEF ClearKeep, ClearEnd, ClearBegin, inet_ntoa, control_vars
  <2>2. QED
    BY <1>2, <2>1 DEF TableStep, Table!table_vars
<1>6. QED
  BY <1>2, <1>3, <1>4, <1>5

LEMMA NextTable ==
    TableInv /\ [ControlNext]_control_vars => SharedAreBans' /\ TableStep
<1> SUFFICES ASSUME TableInv, [ControlNext]_control_vars
             PROVE  SharedAreBans' /\ TableStep
  OBVIOUS
<1>1. CASE ntoa \in Addr /\ AddIPBan
  BY <1>1, AddIPBanTable
<1>2. ASSUME ntoa \in Addr, NEW m \in Packet, NEW reason \in Reason,
             get_banstatus(m, reason)
      PROVE  SharedAreBans' /\ TableStep
  BY <1>2, GetBanstatusTable
<1>3. ASSUME NEW k \in DOMAIN ddosiplist, FlagRemoved(k)
      PROVE  SharedAreBans' /\ TableStep
  BY <1>3, FlagRemovedTable
<1>4. CASE Clear \/ \E a \in Addr : FlagRemovedAddr(a)
  BY <1>3, <1>4 DEF Clear, FlagRemovedAddr, FlagRemoved
<1>5. CASE ClearErase
  BY <1>5, ClearEraseTable
<1>6. CASE \/ Tick \/ ClearKeep \/ ClearEnd \/ ClearBegin
           \/ \E a \in Addr : inet_ntoa(a)
           \/ \E o \in Options : SetOptions(o)
           \/ UNCHANGED control_vars
  BY <1>6, OtherTable
<1>7. QED
  BY <1>1, <1>2, <1>3, <1>4, <1>5, <1>6 DEF ControlNext, ClearStep

-----------------------------------------------------------------------------
\* The ban list implements the table: with any number of addresses, packets and
\* options, each call and each step of a sweep is a step of the table or
\* changes nothing of it (ddoscontrol.cpp:15-245).
THEOREM ControlImplementsTable == ControlSpec => ImplementsTable
<1>1. ControlInit => TableInv /\ Table!TableInit
  <2> SUFFICES ASSUME ControlInit PROVE TableInv /\ Table!TableInit
    OBVIOUS
  <2>1. ddosiplist = <<>> /\ DOMAIN ddosiplist = {} /\ clock = 1 /\ opts \in Options
    BY EmptySeq DEF ControlInit
  <2>2. TableInv
    BY <2>1, InitInv DEF TableInv, SharedAreBans
  <2>3. TableOf = [o \in Owners |-> Unowned]
    BY <2>1 DEF TableOf, TableFrom, Has
  <2>4. QED
    BY <2>1, <2>2, <2>3 DEF Table!TableInit, Table!Owner, Owners, Unowned, Table!Free
<1>2. TableInv /\ [ControlNext]_control_vars => TableInv' /\ TableStep
  BY NextTable, NextInv DEF TableInv
<1>3. QED
  BY <1>1, <1>2, PTL DEF ControlSpec, ImplementsTable, Table!TableSpec, TableStep
=============================================================================
