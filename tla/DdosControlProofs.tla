-------------------------- MODULE DdosControlProofs --------------------------
(* Theorems about the ban list, for every value of the constants.          *)
EXTENDS DdosControl, SequenceTheorems, TLAPS

-----------------------------------------------------------------------------
(* Facts about sequences.                                                  *)

\* What is left of a sequence when its first n elements are dropped.
LEMMA SuffixFacts ==
    ASSUME NEW S, NEW s \in Seq(S), NEW n \in 0..Len(s)
    PROVE  /\ SubSeq(s, n + 1, Len(s)) \in Seq(S)
           /\ Len(SubSeq(s, n + 1, Len(s))) = Len(s) - n
           /\ \A j \in 1..(Len(s) - n) : SubSeq(s, n + 1, Len(s))[j] = s[n + j]
<1>1. \A j \in (n + 1)..Len(s) : s[j] \in S
  BY ElementOfSeq
<1>2. QED
  BY <1>1, SubSeqProperties

\* RemoveAt, the vector's erase: later elements move down by one.
LEMMA RemoveAtFacts ==
    ASSUME NEW S, NEW s \in Seq(S), NEW n \in 1..Len(s)
    PROVE  /\ RemoveAt(s, n) \in Seq(S)
           /\ Len(RemoveAt(s, n)) = Len(s) - 1
           /\ \A j \in 1..(Len(s) - 1) :
                RemoveAt(s, n)[j] = IF j < n THEN s[j] ELSE s[j + 1]
<1> DEFINE front == SubSeq(s, 1, n - 1)
           back == SubSeq(s, n + 1, Len(s))
<1>1. front \in Seq(S) /\ Len(front) = n - 1 /\ \A j \in 1..(n - 1) : front[j] = s[j]
  <2>1. \A j \in 1..(n - 1) : s[j] \in S
    BY ElementOfSeq
  <2>2. QED
    BY <2>1, SubSeqProperties
<1>2. /\ back \in Seq(S) /\ Len(back) = Len(s) - n
      /\ \A j \in 1..(Len(s) - n) : back[j] = s[n + j]
  BY SuffixFacts
<1>3. RemoveAt(s, n) = front \o back
  BY DEF RemoveAt
<1> HIDE DEF front, back
<1>4. Len(s) \in Nat /\ n \in Nat /\ 1 <= n /\ n <= Len(s)
  BY LenProperties
<1>5. /\ front \o back \in Seq(S)
      /\ Len(front \o back) = Len(front) + Len(back)
      /\ \A j \in 1..(Len(front) + Len(back)) :
            (front \o back)[j] = IF j <= Len(front) THEN front[j] ELSE back[j - Len(front)]
  <2>1. front \in Seq(S) /\ back \in Seq(S)
    BY <1>1, <1>2
  <2>2. QED
    BY <2>1, ConcatProperties, Zenon
<1>6. Len(front) + Len(back) = Len(s) - 1
  BY <1>1, <1>2, <1>4
<1>7. ASSUME NEW j \in 1..(Len(s) - 1)
      PROVE  (front \o back)[j] = IF j < n THEN s[j] ELSE s[j + 1]
  <2>1. CASE j < n
    BY <2>1, <1>1, <1>4, <1>5, <1>6
  <2>2. CASE j >= n
    <3>1. (front \o back)[j] = back[j - (n - 1)]
      BY <2>2, <1>1, <1>4, <1>5, <1>6
    <3>2. j - (n - 1) \in 1..(Len(s) - n) /\ n + (j - (n - 1)) = j + 1
      BY <2>2, <1>4
    <3>3. back[j - (n - 1)] = s[j + 1]
      BY <3>2, <1>2
    <3>4. ~(j < n)
      BY <2>2, <1>4
    <3>5. QED
      BY <3>1, <3>3, <3>4
  <2>3. j < n \/ j >= n
    BY <1>4
  <2>4. QED
    BY <2>1, <2>2, <2>3, Zenon
<1>8. QED
  BY <1>3, <1>5, <1>6, <1>7

-----------------------------------------------------------------------------
(* Entries.  Every operation stores only entries that are well formed.     *)

GoodEntry == {di \in Entry : ReadSafe(di) /\ ConsistentEntry(di) /\ BelowLimit(di)}

LEMMA SharedBanGood ==
    ASSUME clock \in Nat PROVE SharedBan \in GoodEntry
<1>1. <<>> \in Seq(Request) /\ Len(<<>>) = 0 /\ DOMAIN <<>> = {}
  BY EmptySeq
<1>2. SharedBan \in Entry
  BY <1>1 DEF SharedBan, Entry, Undef
<1>3. ReadSafe(SharedBan) /\ ConsistentEntry(SharedBan) /\ BelowLimit(SharedBan)
  BY <1>1, ControlAssumptions
     DEF SharedBan, ReadSafe, ConsistentEntry, BelowLimit, Undef
<1>4. QED
  BY <1>2, <1>3 DEF GoodEntry

LEMMA RenewedBanGood ==
    ASSUME clock \in Nat, NEW di \in GoodEntry PROVE RenewedBan(di) \in GoodEntry
<1>1. di \in Entry /\ ReadSafe(di) /\ ConsistentEntry(di) /\ BelowLimit(di)
  BY DEF GoodEntry
<1>2. RenewedBan(di) \in Entry
  BY <1>1 DEF RenewedBan, Entry
<1>3. ReadSafe(RenewedBan(di)) /\ ConsistentEntry(RenewedBan(di)) /\ BelowLimit(RenewedBan(di))
  BY <1>1 DEF RenewedBan, Entry, ReadSafe, ConsistentEntry, BelowLimit, Undef
<1>4. QED
  BY <1>2, <1>3 DEF GoodEntry

LEMMA BannedEntryGood ==
    ASSUME clock \in Nat, NEW di \in GoodEntry PROVE BannedEntry(di) \in GoodEntry
<1>0. <<>> \in Seq(Request) /\ Len(<<>>) = 0 /\ DOMAIN <<>> = {}
  BY EmptySeq
<1>1. di \in Entry
  BY DEF GoodEntry
<1>2. BannedEntry(di) \in Entry
  BY <1>0, <1>1 DEF BannedEntry, Entry
<1>3. /\ BannedEntry(di).is_banned /\ BannedEntry(di).bannedtime = clock
      /\ BannedEntry(di).requests = <<>>
  BY <1>1 DEF BannedEntry, Entry
<1>4. ReadSafe(BannedEntry(di)) /\ ConsistentEntry(BannedEntry(di)) /\ BelowLimit(BannedEntry(di))
  BY <1>0, <1>3, ControlAssumptions DEF ReadSafe, ConsistentEntry, BelowLimit, Undef
<1>5. QED
  BY <1>2, <1>4 DEF GoodEntry

LEMMA FlaggedEntryGood ==
    ASSUME NEW di \in GoodEntry
    PROVE  [di EXCEPT !.flagged_removed = TRUE] \in GoodEntry
BY DEF GoodEntry, Entry, ReadSafe, ConsistentEntry, BelowLimit

LEMMA AddRequestFacts ==
    ASSUME NEW requests \in Seq(Request), NEW m \in Packet,
           Len(requests) <= MaxRequests,
           \A q, r \in DOMAIN requests : requests[q].key = requests[r].key => q = r,
           \A r \in DOMAIN requests : ~IsRequest(r, requests, m)
    PROVE  LET new == add_request(requests, m) IN
           /\ new \in Seq(Request)
           /\ Len(new) <= MaxRequests
           /\ \A q, r \in DOMAIN new : new[q].key = new[r].key => q = r
           /\ \A r \in DOMAIN new :
                 \/ new[r].count = 1
                 \/ \E q \in DOMAIN requests : new[r].count = requests[q].count
<1> DEFINE kept == IF Len(requests) >= MaxRequests
                   THEN SubSeq(requests, EvictBatch + 1, Len(requests))
                   ELSE requests
           last == [key |-> KeyOf[m], count |-> 1]
           shift == IF Len(requests) >= MaxRequests THEN EvictBatch ELSE 0
           new == Append(kept, last)
<1>1. CASE KeyOf[m] = NoKey
  BY <1>1 DEF add_request
<1>2. CASE KeyOf[m] # NoKey
  <2>1. /\ Len(requests) \in Nat /\ DOMAIN requests = 1..Len(requests)
        /\ \A r \in DOMAIN requests : requests[r] \in Request
    BY LenProperties, ElementOfSeq
  <2>2. ASSUME NEW r \in DOMAIN requests, requests[r].key = KeyOf[m]
        PROVE FALSE
    <3>1. \A q \in 1..(r - 1) : q \in DOMAIN requests /\ q # r
      BY <2>1
    <3>2. \A q \in 1..(r - 1) : requests[q].key # KeyOf[m]
      BY <3>1, <2>2
    <3>3. IsRequest(r, requests, m)
      BY <3>2, <2>2, <1>2 DEF IsRequest
    <3>4. QED
      BY <3>3
  <2>3. shift \in Nat /\ shift <= Len(requests) /\ Len(requests) - shift < MaxRequests
    BY <2>1, ControlAssumptions
  <2>4. /\ kept \in Seq(Request)
        /\ Len(kept) = Len(requests) - shift
        /\ \A r \in 1..Len(kept) : kept[r] = requests[r + shift]
    <3>1. CASE Len(requests) >= MaxRequests
      <4>1. kept = SubSeq(requests, EvictBatch + 1, Len(requests)) /\ shift = EvictBatch
        BY <3>1
      <4>2. EvictBatch \in 0..Len(requests)
        BY <3>1, <2>1, ControlAssumptions
      <4> HIDE DEF kept, shift
      <4>3. /\ kept \in Seq(Request)
            /\ Len(kept) = Len(requests) - EvictBatch
            /\ \A r \in 1..(Len(requests) - EvictBatch) : kept[r] = requests[EvictBatch + r]
        BY <4>1, <4>2, SuffixFacts, Zenon
      <4>4. QED
        <5>1. EvictBatch \in Nat /\ Len(requests) \in Nat
          BY <4>2, <2>1
        <5>2. QED
          BY <4>1, <4>3, <5>1
    <3>2. CASE ~(Len(requests) >= MaxRequests)
      BY <3>2, <2>1
    <3>3. QED
      BY <3>1, <3>2
  <2>5. last \in Request
    BY <1>2, ControlAssumptions DEF Request
  <2>6. add_request(requests, m) = new
    BY <1>2 DEF add_request
  <2> HIDE DEF kept, last, shift
  <2>7. /\ new \in Seq(Request) /\ Len(new) = Len(kept) + 1
        /\ \A r \in 1..Len(kept) : new[r] = kept[r]
        /\ new[Len(kept) + 1] = last
    BY <2>4, <2>5, AppendProperties
  <2>8. DOMAIN new = 1..(Len(kept) + 1) /\ Len(kept) \in Nat
    BY <2>4, <2>7, LenProperties
  <2> HIDE DEF new
  <2>9. Len(new) <= MaxRequests
    BY <2>1, <2>3, <2>4, <2>7, <2>8, ControlAssumptions
  <2>10. ASSUME NEW r \in 1..Len(kept)
         PROVE  r + shift \in DOMAIN requests /\ new[r] = requests[r + shift]
    BY <2>1, <2>3, <2>4, <2>7, <2>8
  <2>11. last.key = KeyOf[m] /\ last.count = 1
    BY DEF last
  <2>12. ASSUME NEW q \in DOMAIN new, NEW r \in DOMAIN new, new[q].key = new[r].key
         PROVE  q = r
    <3>1. CASE q \in 1..Len(kept) /\ r \in 1..Len(kept)
      <4>1. q + shift = r + shift
        BY <3>1, <2>10, <2>12
      <4>2. QED
        BY <4>1, <3>1, <2>3, <2>8
    <3>2. CASE q \in 1..Len(kept) /\ r = Len(kept) + 1
      BY <3>2, <2>2, <2>7, <2>10, <2>11, <2>12
    <3>3. CASE q = Len(kept) + 1 /\ r \in 1..Len(kept)
      BY <3>3, <2>2, <2>7, <2>10, <2>11, <2>12
    <3>4. QED
      BY <3>1, <3>2, <3>3, <2>8
  <2>13. ASSUME NEW r \in DOMAIN new
         PROVE  \/ new[r].count = 1
                \/ \E q \in DOMAIN requests : new[r].count = requests[q].count
    <3>1. CASE r \in 1..Len(kept)
      BY <3>1, <2>10
    <3>2. CASE r = Len(kept) + 1
      BY <3>2, <2>7, <2>11
    <3>3. QED
      BY <3>1, <3>2, <2>8
  <2>14. QED
    BY <2>6, <2>7, <2>9, <2>12, <2>13
<1>3. QED
  BY <1>1, <1>2

\* The memory of requests after a packet that stays below the limits.
LEMMA CountRequestFacts ==
    ASSUME NEW requests \in Seq(Request), NEW m \in Packet,
           Len(requests) <= MaxRequests,
           \A q, r \in DOMAIN requests : requests[q].key = requests[r].key => q = r
    PROVE  LET new == CountRequest(requests, m) IN
           /\ new \in Seq(Request)
           /\ Len(new) <= MaxRequests
           /\ \A q, r \in DOMAIN new : new[q].key = new[r].key => q = r
           /\ \A r \in DOMAIN new :
                 \/ opts.check_single_flood /\ new[r].count = 1
                 \/ \E q \in DOMAIN requests : new[r].count = requests[q].count
                 \/ \E q \in DOMAIN requests :
                       /\ opts.check_single_flood
                       /\ IsRequest(q, requests, m)
                       /\ new[r].count = requests[q].count + 1
<1>1. CASE ~opts.check_single_flood
  BY <1>1 DEF CountRequest
<1>2. CASE opts.check_single_flood /\ \E r \in DOMAIN requests : IsRequest(r, requests, m)
  <2> DEFINE new == [r \in DOMAIN requests |->
                        IF IsRequest(r, requests, m)
                        THEN [requests[r] EXCEPT !.count = @ + 1]
                        ELSE requests[r]]
  <2>1. CountRequest(requests, m) = new
    BY <1>2 DEF CountRequest
  <2>2. /\ Len(requests) \in Nat /\ DOMAIN requests = 1..Len(requests)
        /\ \A r \in DOMAIN requests : requests[r] \in Request
    BY LenProperties, ElementOfSeq
  <2>3. ASSUME NEW r \in DOMAIN requests
        PROVE  /\ new[r] \in Request
               /\ new[r].key = requests[r].key
               /\ \/ new[r].count = requests[r].count
                  \/ IsRequest(r, requests, m) /\ new[r].count = requests[r].count + 1
    BY <2>2 DEF Request
  <2>4. DOMAIN new = DOMAIN requests
    OBVIOUS
  <2>5. new \in [1..Len(requests) -> Request]
    BY <2>2, <2>3
  <2>6. new \in Seq(Request) /\ Len(new) = Len(requests)
    BY <2>2, <2>5
  <2> HIDE DEF new
  <2>7. QED
    BY <1>2, <2>1, <2>3, <2>4, <2>6
<1>3. CASE opts.check_single_flood /\ ~\E r \in DOMAIN requests : IsRequest(r, requests, m)
  <2>1. CountRequest(requests, m) = add_request(requests, m)
    BY <1>3 DEF CountRequest
  <2>2. QED
    BY <1>3, <2>1, AddRequestFacts
<1>4. QED
  BY <1>1, <1>2, <1>3

LEMMA CountedEntryGood ==
    ASSUME NEW di \in GoodEntry, NEW m \in Packet, opts \in Options,
           Counted(di), ~TotalFlood(di), ~SingleFlood(di, m)
    PROVE  CountedEntry(di, m) \in GoodEntry
<1> DEFINE new == CountRequest(di.requests, m)
           ci == CountedEntry(di, m)
<1>1. /\ di \in Entry /\ ReadSafe(di) /\ ConsistentEntry(di) /\ BelowLimit(di)
      /\ ~di.is_banned
  BY DEF GoodEntry, Counted
<1>2. di.requests \in Seq(Request) /\ di.total_ddoscount \in Nat
  BY <1>1 DEF Entry, ReadSafe
<1>3. /\ new \in Seq(Request)
      /\ Len(new) <= MaxRequests
      /\ \A q, r \in DOMAIN new : new[q].key = new[r].key => q = r
      /\ \A r \in DOMAIN new :
            \/ opts.check_single_flood /\ new[r].count = 1
            \/ \E q \in DOMAIN di.requests : new[r].count = di.requests[q].count
            \/ \E q \in DOMAIN di.requests :
                  /\ opts.check_single_flood
                  /\ IsRequest(q, di.requests, m)
                  /\ new[r].count = di.requests[q].count + 1
  BY <1>1, <1>2, CountRequestFacts DEF ConsistentEntry
<1>4. ci = [di EXCEPT !.total_ddoscount = @ + 1, !.requests = new]
  BY DEF CountedEntry
<1> HIDE DEF new, ci
<1>5. /\ ci \in Entry /\ ~ci.is_banned /\ ci.requests = new
      /\ ci.total_ddoscount = di.total_ddoscount + 1
  <2>1. di.total_ddoscount + 1 \in Nat /\ new \in Seq(Request)
    BY <1>2, <1>3
  <2>2. ci \in Entry
    BY <1>1, <1>4, <2>1 DEF Entry
  <2>3. QED
    BY <1>1, <1>4, <2>2 DEF Entry
<1>6. \A q \in DOMAIN di.requests : di.requests[q].count \in Nat
  <2>1. \A q \in DOMAIN di.requests : di.requests[q] \in Request
    BY <1>2, LenProperties, ElementOfSeq
  <2>2. QED
    BY <2>1 DEF Request
<1>7. ReadSafe(ci)
  BY <1>2, <1>5 DEF ReadSafe, Undef
<1>8. ConsistentEntry(ci)
  BY SMTT(30), <1>1, <1>2, <1>3, <1>5, <1>6 DEF ConsistentEntry
<1>9. ASSUME NEW r \in DOMAIN new
      PROVE  \E o \in Options : new[r].count < o.e_teksefer_limit
  <2>1. CASE new[r].count = 1
    BY <2>1, ControlAssumptions DEF OptionsAssumption
  <2>2. CASE \E q \in DOMAIN di.requests : new[r].count = di.requests[q].count
    BY <2>2, <1>1 DEF BelowLimit
  <2>3. CASE \E q \in DOMAIN di.requests :
                  /\ opts.check_single_flood
                  /\ IsRequest(q, di.requests, m)
                  /\ new[r].count = di.requests[q].count + 1
    <3>1. new[r].count \in Nat /\ opts.e_teksefer_limit \in Nat
      BY <2>3, <1>6, ControlAssumptions DEF OptionsAssumption
    <3>2. ~(new[r].count >= opts.e_teksefer_limit)
      BY <2>3 DEF SingleFlood
    <3>3. QED
      BY <3>1, <3>2
  <2>4. QED
    BY <1>3, <2>1, <2>2, <2>3
<1>10. (\A o \in Options : o.check_total_flood) =>
          \E o \in Options : ci.total_ddoscount < o.e_toplam_limit
  <2>1. opts.e_toplam_limit \in Nat
    BY ControlAssumptions DEF OptionsAssumption
  <2>2. QED
    BY <2>1, <1>2, <1>5 DEF TotalFlood
<1>11. BelowLimit(ci)
  BY <1>5, <1>9, <1>10 DEF BelowLimit
<1>12. QED
  BY <1>5, <1>7, <1>8, <1>11 DEF GoodEntry, ci

LEMMA NewEntryGood ==
    ASSUME NEW m \in Packet, ntoa \in Addr, clock \in Nat
    PROVE  NewEntry(m) \in GoodEntry
<1> DEFINE new == add_request(<<>>, m)
           ni == NewEntry(m)
<1>1. <<>> \in Seq(Request) /\ Len(<<>>) = 0 /\ DOMAIN <<>> = {}
  BY EmptySeq
<1>2. /\ new \in Seq(Request)
      /\ Len(new) <= MaxRequests
      /\ \A q, r \in DOMAIN new : new[q].key = new[r].key => q = r
      /\ \A r \in DOMAIN new : new[r].count = 1
  <2>1. \A r \in DOMAIN <<>> : FALSE
    BY <1>1
  <2>2. Len(<<>>) <= MaxRequests
    BY <1>1, ControlAssumptions
  <2>3. /\ \A q, r \in DOMAIN <<>> : <<>>[q].key = <<>>[r].key => q = r
        /\ \A r \in DOMAIN <<>> : ~IsRequest(r, <<>>, m)
    BY <2>1
  <2>4. /\ new \in Seq(Request)
        /\ Len(new) <= MaxRequests
        /\ \A q, r \in DOMAIN new : new[q].key = new[r].key => q = r
        /\ \A r \in DOMAIN new :
              \/ new[r].count = 1
              \/ \E q \in DOMAIN <<>> : new[r].count = <<>>[q].count
    BY <1>1, <2>2, <2>3, AddRequestFacts
  <2>5. QED
    BY <2>1, <2>4
<1>3. /\ ni.requests = new /\ ni.total_ddoscount = 1 /\ ~ni.is_banned
  BY DEF NewEntry
<1> HIDE DEF new
<1>4. ni \in Entry
  BY <1>2 DEF NewEntry, Entry, Undef, new
<1> HIDE DEF ni
<1>5. ReadSafe(ni) /\ ConsistentEntry(ni)
  BY <1>2, <1>3 DEF ReadSafe, ConsistentEntry, Undef
<1>6. BelowLimit(ni)
  BY <1>2, <1>3, ControlAssumptions DEF BelowLimit, OptionsAssumption
<1>7. QED
  BY <1>4, <1>5, <1>6 DEF GoodEntry, ni

-----------------------------------------------------------------------------
(* The three ways an operation changes the list.                           *)

GoodList == ddosiplist \in Seq(GoodEntry) /\ OneEntryPerOwner

LEMMA ListDomain ==
    ASSUME GoodList
    PROVE  /\ Len(ddosiplist) \in Nat
           /\ DOMAIN ddosiplist = 1..Len(ddosiplist)
           /\ \A k \in DOMAIN ddosiplist : ddosiplist[k] \in GoodEntry
BY LenProperties, ElementOfSeq DEF GoodList

LEMMA ReplaceGood ==
    ASSUME GoodList, NEW k \in DOMAIN ddosiplist, NEW e \in GoodEntry,
           e.ip_address = ddosiplist[k].ip_address,
           ddosiplist' = [ddosiplist EXCEPT ![k] = e]
    PROVE  /\ GoodList' /\ Len(ddosiplist') = Len(ddosiplist)
           /\ \A j \in DOMAIN ddosiplist :
                 ddosiplist'[j] = IF j = k THEN e ELSE ddosiplist[j]
<1>1. /\ DOMAIN ddosiplist = 1..Len(ddosiplist)
      /\ DOMAIN ddosiplist' = 1..Len(ddosiplist')
      /\ ddosiplist' \in Seq(GoodEntry) /\ Len(ddosiplist') = Len(ddosiplist)
      /\ \A j \in 1..Len(ddosiplist) :
            ddosiplist'[j] = IF j = k THEN e ELSE ddosiplist[j]
  BY ListDomain, ExceptSeq, LenProperties DEF GoodList
<1>2. \A j \in DOMAIN ddosiplist' : ddosiplist'[j].ip_address = ddosiplist[j].ip_address
  BY <1>1
<1>3. OneEntryPerOwner'
  BY <1>1, <1>2 DEF OneEntryPerOwner, GoodList
<1>4. QED
  BY <1>1, <1>3 DEF GoodList

LEMMA AppendGood ==
    ASSUME GoodList, NEW e \in GoodEntry,
           \A k \in DOMAIN ddosiplist :
              /\ ddosiplist[k].ip_address # e.ip_address
              /\ ddosiplist[k].ip_address # Shared,
           ddosiplist' = Append(ddosiplist, e)
    PROVE  /\ GoodList' /\ Len(ddosiplist') = Len(ddosiplist) + 1
           /\ \A j \in DOMAIN ddosiplist : ddosiplist'[j] = ddosiplist[j]
           /\ ddosiplist'[Len(ddosiplist) + 1] = e
<1>1. /\ Len(ddosiplist) \in Nat
      /\ DOMAIN ddosiplist = 1..Len(ddosiplist)
      /\ ddosiplist' \in Seq(GoodEntry) /\ Len(ddosiplist') = Len(ddosiplist) + 1
      /\ \A j \in 1..Len(ddosiplist) : ddosiplist'[j] = ddosiplist[j]
      /\ ddosiplist'[Len(ddosiplist) + 1] = e
  BY ListDomain, AppendProperties DEF GoodList
<1>2. DOMAIN ddosiplist' = 1..(Len(ddosiplist) + 1)
  BY <1>1, LenProperties
<1>3. OneEntryPerOwner'
  BY <1>1, <1>2 DEF OneEntryPerOwner, GoodList
<1>4. QED
  BY <1>1, <1>3 DEF GoodList

LEMMA EraseGood ==
    ASSUME GoodList, NEW n \in DOMAIN ddosiplist,
           ddosiplist' = RemoveAt(ddosiplist, n)
    PROVE  /\ GoodList' /\ Len(ddosiplist') = Len(ddosiplist) - 1
           /\ DOMAIN ddosiplist' = 1..(Len(ddosiplist) - 1)
           /\ \A j \in 1..(Len(ddosiplist) - 1) :
                 ddosiplist'[j] = IF j < n THEN ddosiplist[j] ELSE ddosiplist[j + 1]
<1> DEFINE from == [j \in 1..(Len(ddosiplist) - 1) |-> IF j < n THEN j ELSE j + 1]
<1>1. /\ Len(ddosiplist) \in Nat
      /\ DOMAIN ddosiplist = 1..Len(ddosiplist)
      /\ ddosiplist' \in Seq(GoodEntry) /\ Len(ddosiplist') = Len(ddosiplist) - 1
      /\ \A j \in 1..(Len(ddosiplist) - 1) :
            ddosiplist'[j] = IF j < n THEN ddosiplist[j] ELSE ddosiplist[j + 1]
  BY ListDomain, RemoveAtFacts DEF GoodList
<1>2. DOMAIN ddosiplist' = 1..(Len(ddosiplist) - 1)
  BY <1>1, LenProperties
<1>3. ASSUME NEW j \in DOMAIN ddosiplist'
      PROVE  from[j] \in DOMAIN ddosiplist /\ ddosiplist'[j] = ddosiplist[from[j]]
  BY <1>1, <1>2
<1>4. \A i, j \in DOMAIN ddosiplist' :
         /\ from[i] = from[j] => i = j
         /\ from[i] <= from[j] => i <= j
  BY <1>1, <1>2
<1> HIDE DEF from
<1>5. OneEntryPerOwner'
  BY <1>3, <1>4 DEF OneEntryPerOwner, GoodList
<1>6. QED
  BY <1>1, <1>2, <1>5 DEF GoodList

-----------------------------------------------------------------------------
(* The inductive invariant.                                                *)

\* No ban begins, and no sweep looks, later than now.
TimesPast ==
    /\ \A k \in DOMAIN ddosiplist :
          ddosiplist[k].is_banned => ddosiplist[k].bannedtime <= clock
    /\ sweepnow <= clock

ControlInv == ControlTypeOK /\ GoodList /\ SweepClean /\ TimesPast

LEMMA GoodListTypes == GoodList => ddosiplist \in Seq(Entry)
<1>1. GoodEntry \subseteq Entry
  BY DEF GoodEntry
<1>2. QED
  BY <1>1, SeqMonotonic DEF GoodList

\* What remains to check of a step that replaces an entry: its owner stays,
\* a ban it makes begins by now, and a ban in force is kept.
LEMMA ReplaceStep ==
    ASSUME ControlInv, sweep = 0,
           NEW k \in DOMAIN ddosiplist, NEW e \in GoodEntry,
           e.ip_address = ddosiplist[k].ip_address,
           e.is_banned => e.bannedtime <= clock,
           InForce(ddosiplist[k]) =>
              e.is_banned /\ e.bannedtime >= ddosiplist[k].bannedtime,
           ddosiplist' = [ddosiplist EXCEPT ![k] = e],
           UNCHANGED <<ntoa, clock, opts, sweep, sweepnow>>
    PROVE  ControlInv' /\ BanHoldsStep
<1>1. /\ GoodList' /\ Len(ddosiplist') = Len(ddosiplist)
      /\ \A j \in DOMAIN ddosiplist :
            ddosiplist'[j] = IF j = k THEN e ELSE ddosiplist[j]
  BY ReplaceGood DEF ControlInv
<1>2. DOMAIN ddosiplist' = DOMAIN ddosiplist
  BY <1>1, ListDomain DEF ControlInv, GoodList
<1>3. ControlTypeOK'
  <2>1. (ddosiplist \in Seq(Entry))'
    BY <1>1, GoodListTypes, PTL
  <2>2. QED
    BY <1>1, <2>1 DEF ControlInv, ControlTypeOK
<1>4. SweepClean'
  BY DEF SweepClean
<1>5. TimesPast'
  BY <1>1, <1>2 DEF ControlInv, TimesPast
<1>6. BanHoldsStep
  <2>1. SUFFICES ASSUME NEW j \in DOMAIN ddosiplist, InForce(ddosiplist[j])
                 PROVE  /\ ddosiplist'[j].ip_address = ddosiplist[j].ip_address
                        /\ ddosiplist'[j].is_banned
                        /\ ddosiplist'[j].bannedtime >= ddosiplist[j].bannedtime
    BY <1>2 DEF BanHoldsStep
  <2>2. CASE j = k
    BY <1>1, <2>1, <2>2
  <2>3. CASE j # k
    <3>1. ddosiplist[j] \in GoodEntry /\ ddosiplist[j].is_banned
      BY <2>1, ListDomain DEF ControlInv, InForce
    <3>2. ddosiplist[j].bannedtime \in Nat
      BY <3>1 DEF GoodEntry, Entry, ReadSafe
    <3>3. ddosiplist'[j] = ddosiplist[j]
      BY <1>1, <2>3
    <3>4. QED
      BY <3>1, <3>2, <3>3
  <2>4. QED
    BY <2>2, <2>3
<1>7. QED
  BY <1>1, <1>3, <1>4, <1>5, <1>6 DEF ControlInv

\* The same for a step that appends an entry of a new owner.
LEMMA AppendStep ==
    ASSUME ControlInv, sweep = 0, NEW e \in GoodEntry,
           \A k \in DOMAIN ddosiplist :
              /\ ddosiplist[k].ip_address # e.ip_address
              /\ ddosiplist[k].ip_address # Shared,
           e.is_banned => e.bannedtime <= clock,
           ddosiplist' = Append(ddosiplist, e),
           UNCHANGED <<ntoa, clock, opts, sweep, sweepnow>>
    PROVE  ControlInv' /\ BanHoldsStep
<1>1. /\ GoodList' /\ Len(ddosiplist') = Len(ddosiplist) + 1
      /\ \A j \in DOMAIN ddosiplist : ddosiplist'[j] = ddosiplist[j]
      /\ ddosiplist'[Len(ddosiplist) + 1] = e
  BY AppendGood DEF ControlInv
<1>2. /\ DOMAIN ddosiplist = 1..Len(ddosiplist) /\ Len(ddosiplist) \in Nat
      /\ DOMAIN ddosiplist' = 1..(Len(ddosiplist) + 1)
  BY <1>1, ListDomain, LenProperties DEF ControlInv, GoodList
<1>3. ControlTypeOK'
  <2>1. (ddosiplist \in Seq(Entry))'
    BY <1>1, GoodListTypes, PTL
  <2>2. QED
    BY <1>1, <1>2, <2>1 DEF ControlInv, ControlTypeOK
<1>4. SweepClean'
  BY DEF SweepClean
<1>5. TimesPast'
  BY <1>1, <1>2 DEF ControlInv, TimesPast
<1>6. BanHoldsStep
  <2>1. SUFFICES ASSUME NEW j \in DOMAIN ddosiplist, InForce(ddosiplist[j])
                 PROVE  ddosiplist[j].bannedtime >= ddosiplist[j].bannedtime
    BY <1>1, <1>2 DEF BanHoldsStep, InForce
  <2>2. ddosiplist[j] \in GoodEntry /\ ddosiplist[j].is_banned
    BY <2>1, ListDomain DEF ControlInv, InForce
  <2>3. ddosiplist[j].bannedtime \in Nat
    BY <2>2 DEF GoodEntry, Entry, ReadSafe
  <2>4. QED
    BY <2>3
<1>7. QED
  BY <1>1, <1>3, <1>4, <1>5, <1>6 DEF ControlInv

\* The same for a step that leaves the list alone.
LEMMA SameListStep ==
    ASSUME ControlInv, UNCHANGED ddosiplist
    PROVE  GoodList' /\ (ddosiplist \in Seq(Entry))' /\ BanHoldsStep
<1>1. GoodList'
  BY DEF ControlInv, GoodList, OneEntryPerOwner
<1>2. (ddosiplist \in Seq(Entry))'
  BY DEF ControlInv, ControlTypeOK
<1>3. BanHoldsStep
  <2>1. SUFFICES ASSUME NEW j \in DOMAIN ddosiplist, InForce(ddosiplist[j])
                 PROVE  ddosiplist[j].bannedtime >= ddosiplist[j].bannedtime
    BY DEF BanHoldsStep, InForce
  <2>2. ddosiplist[j] \in GoodEntry /\ ddosiplist[j].is_banned
    BY <2>1, ListDomain DEF ControlInv, InForce
  <2>3. ddosiplist[j].bannedtime \in Nat
    BY <2>2 DEF GoodEntry, Entry, ReadSafe
  <2>4. QED
    BY <2>3
<1>4. QED
  BY <1>1, <1>2, <1>3

-----------------------------------------------------------------------------
(* One lemma per operation.                                                *)

LEMMA AddIPBanStep ==
    ASSUME ControlInv, sweep = 0, ntoa \in Addr, AddIPBan
    PROVE  ControlInv' /\ BanHoldsStep
<1>1. clock \in Nat /\ clock <= clock
  BY DEF ControlInv, ControlTypeOK
<1>2. ASSUME NEW k \in DOMAIN ddosiplist,
             ddosiplist' = [ddosiplist EXCEPT ![k] = RenewedBan(@)]
      PROVE  ControlInv' /\ BanHoldsStep
  <2> DEFINE di == ddosiplist[k]
             e == RenewedBan(di)
  <2>1. di \in GoodEntry /\ di \in Entry
    BY ListDomain DEF ControlInv, GoodEntry
  <2>2. e \in GoodEntry
    BY <1>1, <2>1, RenewedBanGood
  <2>3. e.ip_address = di.ip_address /\ e.is_banned /\ e.bannedtime = clock
    BY <2>1 DEF RenewedBan, Entry
  <2>4. di.is_banned => di.bannedtime <= clock
    BY DEF ControlInv, TimesPast
  <2>5. InForce(di) => e.bannedtime >= di.bannedtime
    <3>1. di.is_banned => di.bannedtime \in Nat
      BY <2>1 DEF GoodEntry, Entry, ReadSafe
    <3>2. QED
      BY <1>1, <2>3, <2>4, <3>1 DEF InForce
  <2>6. ddosiplist' = [ddosiplist EXCEPT ![k] = e]
    BY <1>2
  <2>7. UNCHANGED <<ntoa, clock, opts, sweep, sweepnow>>
    BY DEF AddIPBan
  <2> HIDE DEF e
  <2>8. QED
    BY <1>1, <2>2, <2>3, <2>5, <2>6, <2>7, ReplaceStep
<1>3. CASE Unlisted(ntoa) /\ ddosiplist' = Append(ddosiplist, SharedBan)
  <2>1. \A k \in DOMAIN ddosiplist : ddosiplist[k].ip_address # Shared
    BY <1>3 DEF Unlisted, TextOf
  <2>2. SharedBan \in GoodEntry
    BY <1>1, SharedBanGood
  <2>3. SharedBan.ip_address = Shared /\ SharedBan.bannedtime = clock
    BY DEF SharedBan
  <2>4. UNCHANGED <<ntoa, clock, opts, sweep, sweepnow>>
    BY DEF AddIPBan
  <2>5. QED
    BY <1>1, <1>3, <2>1, <2>2, <2>3, <2>4, AppendStep
<1>4. QED
  BY <1>2, <1>3 DEF AddIPBan

LEMMA GetBanstatusStep ==
    ASSUME ControlInv, sweep = 0, ntoa \in Addr,
           NEW m \in Packet, NEW reason \in Reason, get_banstatus(m, reason)
    PROVE  ControlInv' /\ BanHoldsStep
<1>1. /\ clock \in Nat /\ clock <= clock /\ opts \in Options
      /\ UNCHANGED <<ntoa, clock, opts, sweep, sweepnow>>
  BY DEF ControlInv, ControlTypeOK, get_banstatus
<1>2. CASE Unlisted(ntoa) /\ ddosiplist' = Append(ddosiplist, NewEntry(m))
  <2>1. \A k \in DOMAIN ddosiplist :
           ddosiplist[k].ip_address # ntoa /\ ddosiplist[k].ip_address # Shared
    BY <1>2 DEF Unlisted, TextOf
  <2>2. NewEntry(m) \in GoodEntry
    BY <1>1, NewEntryGood
  <2>3. NewEntry(m).ip_address = ntoa /\ ~NewEntry(m).is_banned
    BY DEF NewEntry
  <2>4. QED
    BY <1>1, <1>2, <2>1, <2>2, <2>3, AppendStep
<1>3. CASE UNCHANGED ddosiplist
  <2>1. GoodList' /\ (ddosiplist \in Seq(Entry))' /\ BanHoldsStep
    BY <1>3, SameListStep
  <2>2. ControlTypeOK'
    BY <1>1, <1>3 DEF ControlInv, ControlTypeOK
  <2>3. SweepClean' /\ TimesPast'
    BY <1>1, <1>3 DEF ControlInv, SweepClean, TimesPast
  <2>4. QED
    BY <2>1, <2>2, <2>3 DEF ControlInv
<1>4. ASSUME NEW k \in DOMAIN ddosiplist, Counted(ddosiplist[k]),
             ddosiplist' = [ddosiplist EXCEPT ![k] = BannedEntry(@)]
      PROVE  ControlInv' /\ BanHoldsStep
  <2> DEFINE di == ddosiplist[k]
             e == BannedEntry(di)
  <2>1. di \in GoodEntry /\ di \in Entry
    BY ListDomain DEF ControlInv, GoodEntry
  <2>2. e \in GoodEntry
    BY <1>1, <2>1, BannedEntryGood
  <2>3. e.ip_address = di.ip_address /\ e.is_banned /\ e.bannedtime = clock
    BY <2>1 DEF BannedEntry, Entry
  <2>4. ~InForce(di)
    BY <1>4 DEF InForce, Counted
  <2>5. ddosiplist' = [ddosiplist EXCEPT ![k] = e]
    BY <1>4
  <2> HIDE DEF e
  <2>6. QED
    BY <1>1, <2>2, <2>3, <2>4, <2>5, ReplaceStep
<1>5. ASSUME NEW k \in DOMAIN ddosiplist, Counted(ddosiplist[k]),
             ~TotalFlood(ddosiplist[k]), ~SingleFlood(ddosiplist[k], m),
             ddosiplist' = [ddosiplist EXCEPT ![k] = CountedEntry(@, m)]
      PROVE  ControlInv' /\ BanHoldsStep
  <2> DEFINE di == ddosiplist[k]
             e == CountedEntry(di, m)
  <2>1. di \in GoodEntry /\ di \in Entry
    BY ListDomain DEF ControlInv, GoodEntry
  <2>2. e \in GoodEntry
    BY <1>1, <1>5, <2>1, CountedEntryGood
  <2>3. e.ip_address = di.ip_address /\ e.is_banned = di.is_banned
    BY <2>1 DEF CountedEntry, Entry
  <2>4. ~di.is_banned
    BY <1>5 DEF Counted
  <2>5. ddosiplist' = [ddosiplist EXCEPT ![k] = e]
    BY <1>5
  <2> HIDE DEF e
  <2>6. QED
    BY <1>1, <2>2, <2>3, <2>4, <2>5, ReplaceStep DEF InForce
<1>6. QED
  BY <1>2, <1>3, <1>4, <1>5 DEF get_banstatus

LEMMA FlagRemovedStep ==
    ASSUME ControlInv, sweep = 0, NEW k \in DOMAIN ddosiplist, FlagRemoved(k)
    PROVE  ControlInv' /\ BanHoldsStep
<1> DEFINE di == ddosiplist[k]
           e == [di EXCEPT !.flagged_removed = TRUE]
<1>1. di \in GoodEntry /\ di \in Entry
  BY ListDomain DEF ControlInv, GoodEntry
<1>2. e \in GoodEntry
  BY <1>1, FlaggedEntryGood
<1>3. /\ e.ip_address = di.ip_address /\ e.is_banned = di.is_banned
      /\ e.bannedtime = di.bannedtime
  BY <1>1 DEF Entry
<1>4. e.is_banned => e.bannedtime <= clock
  BY <1>3 DEF ControlInv, TimesPast
<1>5. InForce(di) => e.is_banned /\ e.bannedtime >= di.bannedtime
  <2>1. di.is_banned => di.bannedtime \in Nat
    BY <1>1 DEF GoodEntry, Entry, ReadSafe
  <2>2. QED
    BY <1>3, <2>1 DEF InForce
<1>6. /\ ddosiplist' = [ddosiplist EXCEPT ![k] = e]
      /\ UNCHANGED <<ntoa, clock, opts, sweep, sweepnow>>
  BY DEF FlagRemoved
<1> HIDE DEF e
<1>7. QED
  BY <1>2, <1>3, <1>4, <1>5, <1>6, ReplaceStep

LEMMA ClearEraseStep ==
    ASSUME ControlInv, ClearErase
    PROVE  ControlInv' /\ BanHoldsStep
<1>1. /\ sweep \in DOMAIN ddosiplist /\ Expired(ddosiplist[sweep])
      /\ ddosiplist' = RemoveAt(ddosiplist, sweep)
      /\ UNCHANGED <<ntoa, clock, opts, sweep, sweepnow>>
  BY DEF ClearErase
<1>2. /\ GoodList' /\ Len(ddosiplist') = Len(ddosiplist) - 1
      /\ DOMAIN ddosiplist' = 1..(Len(ddosiplist) - 1)
      /\ \A j \in 1..(Len(ddosiplist) - 1) :
            ddosiplist'[j] = IF j < sweep THEN ddosiplist[j] ELSE ddosiplist[j + 1]
  BY <1>1, EraseGood DEF ControlInv
<1>3. /\ DOMAIN ddosiplist = 1..Len(ddosiplist) /\ Len(ddosiplist) \in Nat
      /\ \A j \in DOMAIN ddosiplist : ddosiplist[j] \in GoodEntry
  BY ListDomain DEF ControlInv
<1>4. ControlTypeOK'
  <2>1. (ddosiplist \in Seq(Entry))'
    BY <1>2, GoodListTypes, PTL
  <2>2. QED
    BY <1>1, <1>2, <1>3, <2>1 DEF ControlInv, ControlTypeOK
<1>5. SweepClean'
  <2>1. SUFFICES ASSUME NEW j \in 1..(sweep - 1)
                 PROVE  ~Expired(ddosiplist[j])' /\ ddosiplist'[j] = ddosiplist[j]
    BY <1>1 DEF SweepClean, Expired
  <2>2. ddosiplist'[j] = ddosiplist[j]
    BY <1>1, <1>2, <1>3
  <2>3. ~Expired(ddosiplist[j])
    BY DEF ControlInv, SweepClean
  <2>4. QED
    BY <1>1, <2>2, <2>3 DEF Expired
<1>6. TimesPast'
  <2>1. ASSUME NEW k \in DOMAIN ddosiplist'
        PROVE  \E j \in DOMAIN ddosiplist : ddosiplist'[k] = ddosiplist[j]
    BY <1>2, <1>3
  <2>2. QED
    BY <1>1, <2>1 DEF ControlInv, TimesPast
<1>7. BanHoldsStep
  <2>1. SUFFICES ASSUME NEW j \in DOMAIN ddosiplist, InForce(ddosiplist[j])
                 PROVE  \E k \in DOMAIN ddosiplist' :
                           /\ ddosiplist'[k].ip_address = ddosiplist[j].ip_address
                           /\ ddosiplist'[k].is_banned
                           /\ ddosiplist'[k].bannedtime >= ddosiplist[j].bannedtime
    BY DEF BanHoldsStep
  <2>2. ddosiplist[j].is_banned /\ ddosiplist[j].bannedtime \in Nat
    BY <1>3, <2>1 DEF InForce, GoodEntry, Entry, ReadSafe
  <2>3. j # sweep
    <3>1. SUFFICES ASSUME j = sweep PROVE FALSE
      OBVIOUS
    <3>2. sweepnow - ddosiplist[j].bannedtime >= opts.e_ban_suresi
      BY <1>1, <2>1, <3>1 DEF Expired, InForce
    <3>3. /\ clock - ddosiplist[j].bannedtime < opts.e_ban_suresi
          /\ clock \in Nat /\ sweepnow \in Nat /\ sweepnow <= clock
          /\ opts.e_ban_suresi \in Nat
      BY <2>1, ControlAssumptions
         DEF InForce, ControlInv, ControlTypeOK, TimesPast, OptionsAssumption
    <3>4. QED
      BY <2>2, <3>2, <3>3
  <2>4. CASE j < sweep
    <3>1. j \in DOMAIN ddosiplist' /\ ddosiplist'[j] = ddosiplist[j]
      BY <1>1, <1>2, <1>3, <2>4
    <3>2. QED
      BY <2>2, <3>1
  <2>5. CASE j > sweep
    <3>1. j - 1 \in DOMAIN ddosiplist' /\ ddosiplist'[j - 1] = ddosiplist[j]
      BY <1>1, <1>2, <1>3, <2>5
    <3>2. QED
      BY <2>2, <3>1
  <2>6. QED
    BY <1>1, <1>3, <2>3, <2>4, <2>5
<1>8. QED
  BY <1>2, <1>4, <1>5, <1>6, <1>7 DEF ControlInv

\* The steps that leave the list alone.
LEMMA OtherStep ==
    ASSUME ControlInv,
           \/ Tick \/ ClearKeep \/ ClearEnd
           \/ sweep = 0 /\ ClearBegin
           \/ sweep = 0 /\ \E a \in Addr : inet_ntoa(a)
           \/ sweep = 0 /\ \E o \in Options : SetOptions(o)
           \/ UNCHANGED control_vars
    PROVE  ControlInv' /\ BanHoldsStep
<1>1. UNCHANGED ddosiplist
  BY DEF Tick, ClearKeep, ClearEnd, ClearBegin, inet_ntoa, SetOptions, control_vars
<1>2. GoodList' /\ (ddosiplist \in Seq(Entry))' /\ BanHoldsStep
  BY <1>1, SameListStep
<1>3. /\ DOMAIN ddosiplist = 1..Len(ddosiplist) /\ Len(ddosiplist) \in Nat
      /\ \A j \in DOMAIN ddosiplist : ddosiplist[j] \in GoodEntry
  BY ListDomain DEF ControlInv
<1>4. ControlTypeOK'
  <2>1. /\ ntoa' \in Addr \union {NoAddr} /\ clock' \in Nat /\ opts' \in Options
        /\ sweepnow' \in Nat
    BY ControlAssumptions
       DEF ControlInv, ControlTypeOK, Tick, ClearKeep, ClearEnd, ClearBegin, inet_ntoa,
           SetOptions, control_vars
  <2>2. sweep' \in 0..(Len(ddosiplist) + 1)
    BY <1>3
       DEF ControlInv, ControlTypeOK, Tick, ClearKeep, ClearEnd, ClearBegin, inet_ntoa,
           SetOptions, control_vars
  <2>3. QED
    BY <1>1, <1>2, <2>1, <2>2 DEF ControlTypeOK
<1>5. SweepClean'
  <2>1. CASE sweep' = 0 \/ sweep' = 1
    BY <2>1 DEF SweepClean
  <2>2. CASE ClearKeep
    <3>1. sweep \in Nat /\ sweep' = sweep + 1 /\ ~Expired(ddosiplist[sweep])
      BY <1>3, <2>2 DEF ClearKeep
    <3>2. ASSUME NEW j \in 1..(sweep' - 1) PROVE ~Expired(ddosiplist[j])
      <4>1. j = sweep \/ j \in 1..(sweep - 1)
        BY <3>1
      <4>2. QED
        BY <3>1, <4>1 DEF ControlInv, SweepClean
    <3>3. QED
      BY <1>1, <2>2, <3>2 DEF SweepClean, ClearKeep, Expired
  <2>3. CASE (Tick \/ UNCHANGED control_vars) /\ sweep' # 0
    BY <1>1, <2>3 DEF ControlInv, SweepClean, Tick, Expired, control_vars
  <2>4. QED
    BY <2>1, <2>2, <2>3 DEF ClearEnd, ClearBegin, inet_ntoa, SetOptions
<1>6. TimesPast'
  <2>1. clock' >= clock /\ clock \in Nat /\ clock' \in Nat
        /\ (sweepnow' <= sweepnow \/ sweepnow' <= clock) /\ sweepnow \in Nat /\ sweepnow' \in Nat
    BY DEF ControlInv, ControlTypeOK, Tick, ClearKeep, ClearEnd, ClearBegin, inet_ntoa,
           SetOptions, control_vars
  <2>2. \A k \in DOMAIN ddosiplist :
           ddosiplist[k].is_banned => ddosiplist[k].bannedtime \in Nat
    BY <1>3 DEF GoodEntry, Entry, ReadSafe
  <2>3. QED
    BY <1>1, <2>1, <2>2 DEF ControlInv, TimesPast
<1>7. QED
  BY <1>2, <1>4, <1>5, <1>6 DEF ControlInv

-----------------------------------------------------------------------------
(* The theorems.                                                           *)

LEMMA InitInv == ControlInit => ControlInv
<1> SUFFICES ASSUME ControlInit PROVE ControlInv
  OBVIOUS
<1>1. /\ ddosiplist = <<>> /\ DOMAIN ddosiplist = {} /\ Len(ddosiplist) = 0
      /\ ddosiplist \in Seq(Entry) /\ ddosiplist \in Seq(GoodEntry)
  BY EmptySeq DEF ControlInit
<1>2. ControlTypeOK
  BY <1>1 DEF ControlInit, ControlTypeOK
<1>3. GoodList /\ SweepClean /\ TimesPast
  BY <1>1 DEF ControlInit, GoodList, OneEntryPerOwner, SweepClean, TimesPast
<1>4. QED
  BY <1>2, <1>3 DEF ControlInv

LEMMA NextInv ==
    ControlInv /\ [ControlNext]_control_vars => ControlInv' /\ BanHoldsStep
<1> SUFFICES ASSUME ControlInv, [ControlNext]_control_vars
             PROVE  ControlInv' /\ BanHoldsStep
  OBVIOUS
<1>1. CASE sweep = 0 /\ ntoa \in Addr /\ AddIPBan
  BY <1>1, AddIPBanStep
<1>2. ASSUME sweep = 0, ntoa \in Addr, NEW m \in Packet, NEW reason \in Reason,
             get_banstatus(m, reason)
      PROVE  ControlInv' /\ BanHoldsStep
  BY <1>2, GetBanstatusStep
<1>3. ASSUME sweep = 0, NEW k \in DOMAIN ddosiplist, FlagRemoved(k)
      PROVE  ControlInv' /\ BanHoldsStep
  BY <1>3, FlagRemovedStep
<1>4. CASE sweep = 0 /\ Clear
  BY <1>3, <1>4 DEF Clear, FlagRemoved
<1>5. ASSUME sweep = 0, NEW a \in Addr, FlagRemovedAddr(a)
      PROVE  ControlInv' /\ BanHoldsStep
  BY <1>3, <1>5 DEF FlagRemovedAddr, FlagRemoved
<1>6. CASE ClearErase
  BY <1>6, ClearEraseStep
<1>7. CASE \/ Tick \/ ClearKeep \/ ClearEnd
           \/ sweep = 0 /\ ClearBegin
           \/ sweep = 0 /\ \E a \in Addr : inet_ntoa(a)
           \/ sweep = 0 /\ \E o \in Options : SetOptions(o)
           \/ UNCHANGED control_vars
  BY <1>7, OtherStep
<1>8. QED
  BY <1>1, <1>2, <1>3, <1>4, <1>5, <1>6, <1>7 DEF ControlNext, ClearStep

\* The inductive invariant holds in every reachable state.
THEOREM ControlInvariant == ControlSpec => []ControlInv
<1>1. ControlInv /\ [ControlNext]_control_vars => ControlInv'
  BY NextInv
<1>2. QED
  BY InitInv, <1>1, PTL DEF ControlSpec

\* Every variable and every member of an entry keeps its type, and the sweep's
\* index never leaves the vector (ddoscontrol.cpp:67-107).
THEOREM TypeCorrect == ControlSpec => []ControlTypeOK
<1>1. ControlInv => ControlTypeOK
  BY DEF ControlInv
<1>2. QED
  BY <1>1, ControlInvariant, PTL

\* No address ever owns two entries of the vector (ddoscontrol.cpp:120-154).
THEOREM EntriesUnique == ControlSpec => []OneEntryPerOwner
<1>1. ControlInv => OneEntryPerOwner
  BY DEF ControlInv, GoodList
<1>2. QED
  BY <1>1, ControlInvariant, PTL

\* No operation reads a member that was never set (ddoscontrol.cpp:76-177).
THEOREM ReadsSet == ControlSpec => []NoUnsetRead
<1>1. ControlInv => NoUnsetRead
  BY ListDomain DEF ControlInv, GoodEntry, NoUnsetRead
<1>2. QED
  BY <1>1, ControlInvariant, PTL

\* The memory of requests stays within its capacity, without repetition, and
\* below the packet count, whatever MaxRequests and EvictBatch are
\* (ddositem.cpp:5-53).
THEOREM MemoryConsistent == ControlSpec => []RequestsConsistent
<1>1. ControlInv => RequestsConsistent
  BY ListDomain DEF ControlInv, GoodEntry, RequestsConsistent
<1>2. QED
  BY <1>1, ControlInvariant, PTL

\* An address that is not banned is below the flood limits, even when the
\* limits change under it (ddoscontrol.cpp:176-207).
THEOREM UnbannedBelowLimits == ControlSpec => []BelowLimits
<1>1. ControlInv => BelowLimits
  BY ListDomain DEF ControlInv, GoodEntry, BelowLimits
<1>2. QED
  BY <1>1, ControlInvariant, PTL

\* The sweep leaves no expired entry behind its index, although it erases
\* inside its loop (ddoscontrol.cpp:97-104).
THEOREM SweepMissesNothing == ControlSpec => []SweepClean
<1>1. ControlInv => SweepClean
  BY DEF ControlInv
<1>2. QED
  BY <1>1, ControlInvariant, PTL

\* A ban in force survives every step with its owner and its start.
THEOREM BansHold == ControlSpec => BanHolds
<1>1. ControlInv /\ [ControlNext]_control_vars => [BanHoldsStep]_control_vars
  BY NextInv
<1>2. QED
  BY <1>1, ControlInvariant, PTL DEF ControlSpec, BanHolds
=============================================================================
