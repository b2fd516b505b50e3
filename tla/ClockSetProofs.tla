--------------------------- MODULE ClockSetProofs ---------------------------
(* Theorems about the plugin on a machine whose clock is set back: by how  *)
(* much an entry may outstay its time, and that no ban is cut short.       *)
(*                                                                         *)
(* Times no longer lie in the past here, so ControlInv does not hold.  The *)
(* invariants that do are PluginInv and the shape of the list, GoodList.   *)
EXTENDS ClockSet, ItSavarProofs

-----------------------------------------------------------------------------
(* The inductive invariant.                                                *)

\* Seconds that went by only grow, and nothing began after now.
Owner == Addr \union {Shared}

ClockTypeOK ==
    /\ turned \in Nat
    /\ began \in [Owner -> Nat]
    /\ \A o \in Owner : began[o] <= Elapsed

\* The sweep's now and the call's now have been read from the clock as it is.
Read ==
    /\ sweep # 0 => sweepnow \in Nat /\ sweepnow <= clock
    /\ pc \in {"match", "scan", "clearing", "decide"} => call.now <= clock
    /\ pc = "clearing" => call.now <= sweepnow
    /\ son_tarama_zamani <= Elapsed

\* What an entry says of its beginning is wrong by the turns of the clock only.
SinceTime(di) == IF di.is_banned THEN di.bannedtime ELSE di.lastconnection

Dated(di) ==
    /\ SinceTime(di) <= began[di.ip_address]
    /\ began[di.ip_address] <= SinceTime(di) + turned

TimeOf(di, o) == IF di.is_banned THEN o.e_ban_suresi ELSE o.e_paket_cache_suresi

\* The last sweep of a call left only entries whose time was not over.
KeptAt(di) ==
    \E o \in Options : son_tarama_zamani - began[di.ip_address] < TimeOf(di, o)

SweptKept ==
    \A k \in DOMAIN ddosiplist :
        (pc = "clearing" => k < sweep) => KeptAt(ddosiplist[k])

Judged == pc = "decide" => call.now - son_tarama_zamani <= SinceSweep

ClockInv ==
    /\ PluginInv /\ GoodList /\ opts \in Options
    /\ ClockTypeOK /\ Read
    /\ \A k \in DOMAIN ddosiplist : Dated(ddosiplist[k])
    /\ SweptKept /\ Judged

-----------------------------------------------------------------------------
(* The initial state.                                                      *)

LEMMA ClockInitInv == ClockInit => ClockInv
<1> SUFFICES ASSUME ClockInit PROVE ClockInv
  OBVIOUS
<1> USE DEF ClockInit, Init, RecvInit, ControlInit
<1>1. PluginInv
  BY InitPlugin
<1>2. ControlInv
  BY RefinesInit, InitInv
<1>3. ddosiplist = <<>> /\ DOMAIN ddosiplist = {}
  BY EmptySeq
<1>4. ClockTypeOK /\ Read
  BY DEF ClockTypeOK, Read, Elapsed, Owner
<1>5. QED
  BY <1>1, <1>2, <1>3, <1>4
     DEF ClockInv, ControlInv, ControlTypeOK, SweptKept, Judged

-----------------------------------------------------------------------------
(* Setting the clock back.                                                 *)

LEMMA SetBackPlugin ==
    ASSUME PluginInv, SetBack
    PROVE  PluginInv'
<1>1. /\ UNCHANGED <<ddosiplist, ntoa, sweep, cvars, settings_vars, config, pc, call,
                     son_tarama_zamani, reply>>
      /\ pc = "idle" /\ clock' \in Nat
  BY DEF SetBack, PluginInv
<1>2. TypeOK'
  BY <1>1, Typed DEF PluginInv, TypeOK, RecvTypeOK
<1>3. SweepPhase' /\ SenderSpelled' /\ BanRead'
  BY <1>1 DEF PluginInv, SweepPhase, SenderSpelled, InCall, BanRead, VerdictFresh
<1>4. QED
  BY <1>1, <1>2, <1>3 DEF PluginInv

LEMMA SetBackStep ==
    ASSUME ClockInv, SetBack
    PROVE  ClockInv'
<1>1. /\ UNCHANGED <<ddosiplist, opts, sweep, sweepnow, pc, call, son_tarama_zamani,
                     cvarvalue, began>>
      /\ pc = "idle" /\ clock \in Nat /\ clock' = clock - 1 /\ turned' = turned + 1
      /\ turned \in Nat
  BY DEF SetBack, ClockInv, PluginInv, ClockTypeOK, settings_vars
<1>2. PluginInv' /\ GoodList' /\ opts' \in Options
  BY <1>1, SetBackPlugin DEF ClockInv, GoodList, OneEntryPerOwner
<1>3. Elapsed' = Elapsed /\ sweep = 0
  BY <1>1 DEF Elapsed, ClockInv, PluginInv, SweepPhase
<1>4. ClockTypeOK' /\ Read'
  BY <1>1, <1>3 DEF ClockInv, ClockTypeOK, Read
<1>5. ASSUME NEW k \in DOMAIN ddosiplist'
      PROVE  Dated(ddosiplist[k])'
  <2> DEFINE di == ddosiplist[k]
  <2>1. di \in GoodEntry /\ k \in DOMAIN ddosiplist /\ Dated(di)
    BY <1>1, <1>5, ListDomain DEF ClockInv
  <2>2. SinceTime(di) \in Nat /\ began[di.ip_address] \in Nat
    BY <2>1 DEF GoodEntry, Entry, ReadSafe, SinceTime, ClockInv, ClockTypeOK, Owner
  <2>3. began[di.ip_address] <= SinceTime(di) + turned'
    BY <1>1, <2>1, <2>2 DEF Dated
  <2>4. QED
    BY <1>1, <2>1, <2>3 DEF Dated, SinceTime
<1>6. SweptKept'
  BY <1>1 DEF ClockInv, SweptKept, KeptAt, TimeOf
<1>7. Judged'
  BY <1>1 DEF Judged
<1>8. QED
  BY <1>2, <1>4, <1>5, <1>6, <1>7 DEF ClockInv

-----------------------------------------------------------------------------
(* A step of the plugin: when its entries began.                           *)

\* An entry continues one of its owner, or begins now.
LEMMA SinceChange ==
    ASSUME PluginInv, GoodList, opts \in Options, [Next]_vars, NEW n \in DOMAIN ddosiplist'
    PROVE  \/ \E j \in DOMAIN ddosiplist :
                 /\ ddosiplist[j].ip_address = ddosiplist'[n].ip_address
                 /\ ddosiplist[j].is_banned = ddosiplist'[n].is_banned
                 /\ Since(ddosiplist[j]) = Since(ddosiplist'[n])
           \/ Since(ddosiplist'[n]) = <<ddosiplist'[n].is_banned, clock>>
<1>1. /\ DOMAIN ddosiplist = 1..Len(ddosiplist) /\ Len(ddosiplist) \in Nat
      /\ \A k \in DOMAIN ddosiplist : ddosiplist[k] \in Entry
  BY ListDomain DEF GoodEntry
<1>2. ASSUME NEW j \in DOMAIN ddosiplist, ddosiplist'[n] = ddosiplist[j]
      PROVE  /\ ddosiplist[j].ip_address = ddosiplist'[n].ip_address
             /\ ddosiplist[j].is_banned = ddosiplist'[n].is_banned
             /\ Since(ddosiplist[j]) = Since(ddosiplist'[n])
  BY <1>2
<1>3. CASE UNCHANGED ddosiplist
  BY <1>2, <1>3
<1>4. CASE Erases
  <2>1. PICK j \in DOMAIN ddosiplist : ddosiplist'[n] = ddosiplist[j]
    BY <1>1, <1>4 DEF Erases, Shrunk
  <2>2. QED
    BY <1>2, <2>1
<1>5. ASSUME NEW e, Grown(e), Since(e) = <<e.is_banned, clock>>
      PROVE  \/ \E j \in DOMAIN ddosiplist : ddosiplist'[n] = ddosiplist[j]
             \/ Since(ddosiplist'[n]) = <<ddosiplist'[n].is_banned, clock>>
  BY <1>1, <1>5 DEF Grown
<1>6. CASE Shares
  <2>1. Since(SharedBan) = <<SharedBan.is_banned, clock>>
    BY DEF Since, SharedBan
  <2>2. QED
    BY <1>2, <1>5, <1>6, <2>1 DEF Shares
<1>7. CASE Opens
  <2>1. Since(NewEntry(call.pkt)) = <<NewEntry(call.pkt).is_banned, clock>>
    BY DEF Since, NewEntry
  <2>2. QED
    BY <1>2, <1>5, <1>7, <2>1 DEF Opens
<1>8. ASSUME NEW k \in DOMAIN ddosiplist, NEW e, Replaced(k, e),
             \/ Since(e) = <<e.is_banned, clock>>
             \/ /\ e.ip_address = ddosiplist[k].ip_address
                /\ e.is_banned = ddosiplist[k].is_banned
                /\ Since(e) = Since(ddosiplist[k])
      PROVE  \/ \E j \in DOMAIN ddosiplist :
                   /\ ddosiplist[j].ip_address = ddosiplist'[n].ip_address
                   /\ ddosiplist[j].is_banned = ddosiplist'[n].is_banned
                   /\ Since(ddosiplist[j]) = Since(ddosiplist'[n])
             \/ Since(ddosiplist'[n]) = <<ddosiplist'[n].is_banned, clock>>
  <2>1. n \in DOMAIN ddosiplist
    BY <1>8 DEF Replaced
  <2>2. CASE n = k
    <3>1. ddosiplist'[n] = e
      BY <1>8, <2>1, <2>2 DEF Replaced
    <3>2. QED
      BY <1>8, <3>1
  <2>3. CASE n # k
    <3>1. ddosiplist'[n] = ddosiplist[n]
      BY <1>8, <2>1, <2>3 DEF Replaced
    <3>2. QED
      BY <1>2, <2>1, <3>1
  <2>4. QED
    BY <2>2, <2>3
<1>9. ASSUME NEW k \in DOMAIN ddosiplist, Renews(k)
      PROVE  \E e : Replaced(k, e) /\ Since(e) = <<e.is_banned, clock>>
  <2>1. Replaced(k, RenewedBan(ddosiplist[k]))
    BY <1>9 DEF Renews
  <2>2. QED
    BY <1>1, <2>1, RenewedFields DEF Since
<1>10. ASSUME NEW k \in DOMAIN ddosiplist, Floods(k)
       PROVE  \E e : Replaced(k, e) /\ Since(e) = <<e.is_banned, clock>>
  <2>1. Replaced(k, BannedEntry(ddosiplist[k]))
    BY <1>10 DEF Floods
  <2>2. QED
    BY <1>1, <2>1, BannedFields DEF Since
<1>11. ASSUME NEW k \in DOMAIN ddosiplist, Counts(k) \/ Removes(k)
       PROVE  \E e : /\ Replaced(k, e)
                     /\ e.ip_address = ddosiplist[k].ip_address
                     /\ e.is_banned = ddosiplist[k].is_banned
                     /\ Since(e) = Since(ddosiplist[k])
  <2>1. CASE Counts(k)
    <3>1. Replaced(k, CountedEntry(ddosiplist[k], call.pkt))
      BY <2>1 DEF Counts
    <3>2. QED
      BY <1>1, <3>1, CountedFields DEF Since
  <2>2. CASE Removes(k)
    <3> DEFINE e == [ddosiplist[k] EXCEPT !.flagged_removed = TRUE]
    <3>1. Replaced(k, e)
      BY <2>2 DEF Removes
    <3>2. /\ e.ip_address = ddosiplist[k].ip_address /\ e.is_banned = ddosiplist[k].is_banned
          /\ e.bannedtime = ddosiplist[k].bannedtime
          /\ e.lastconnection = ddosiplist[k].lastconnection
      BY <1>1, FlaggedFields
    <3> HIDE DEF e
    <3>3. QED
      BY <3>1, <3>2 DEF Since
  <2>3. QED
    BY <1>11, <2>1, <2>2
<1>12. QED
  BY <1>3, <1>4, <1>6, <1>7, <1>8, <1>9, <1>10, <1>11, ListChange

\* The step of began.
BeganStep ==
    began' = [o \in DOMAIN began |->
                 IF SinceOf(ddosiplist', o) \in {{}, SinceOf(ddosiplist, o)}
                 THEN began[o] ELSE Elapsed]

\* What the beginning of an entry becomes: it stays, or is now.
LEMMA BeganChange ==
    ASSUME ClockInv, [Next]_vars, GoodList', BeganStep, NEW n \in DOMAIN ddosiplist'
    PROVE  LET o == ddosiplist'[n].ip_address IN
           \/ /\ began'[o] = began[o]
              /\ \E j \in DOMAIN ddosiplist :
                    /\ ddosiplist[j].ip_address = o
                    /\ ddosiplist[j].is_banned = ddosiplist'[n].is_banned
                    /\ Since(ddosiplist[j]) = Since(ddosiplist'[n])
           \/ /\ began'[o] = Elapsed
              /\ Since(ddosiplist'[n]) = <<ddosiplist'[n].is_banned, clock>>
<1> DEFINE o == ddosiplist'[n].ip_address
<1>1. o \in DOMAIN began
  <2>1. ddosiplist'[n] \in GoodEntry
    <3>1. (GoodList => \A k \in DOMAIN ddosiplist : ddosiplist[k] \in GoodEntry)'
      BY ListDomain, PTL
    <3>2. \A k \in DOMAIN ddosiplist' : ddosiplist'[k] \in GoodEntry'
      BY <3>1
    <3>3. ddosiplist'[n] \in Entry
      BY <3>2 DEF GoodEntry
    <3>4. QED
      BY <3>2, <3>3 DEF GoodEntry, ReadSafe, ConsistentEntry, BelowLimit
  <2>2. QED
    BY <2>1 DEF GoodEntry, Entry, ClockInv, ClockTypeOK, Owner
<1>2. SinceOf(ddosiplist', o) = {Since(ddosiplist'[n])}
  <2>1. \A j \in DOMAIN ddosiplist' : ddosiplist'[j].ip_address = o => j = n
    BY DEF GoodList, OneEntryPerOwner
  <2>2. QED
    BY <2>1 DEF SinceOf
<1>3. ASSUME NEW j \in DOMAIN ddosiplist, ddosiplist[j].ip_address = o
      PROVE  SinceOf(ddosiplist, o) = {Since(ddosiplist[j])}
  <2>1. \A i \in DOMAIN ddosiplist : ddosiplist[i].ip_address = o => i = j
    BY <1>3 DEF ClockInv, GoodList, OneEntryPerOwner
  <2>2. QED
    BY <1>3, <2>1 DEF SinceOf
<1>4. began'[o] = IF SinceOf(ddosiplist', o) = SinceOf(ddosiplist, o)
                  THEN began[o] ELSE Elapsed
  BY <1>1, <1>2 DEF BeganStep
<1>5. CASE \E j \in DOMAIN ddosiplist :
              /\ ddosiplist[j].ip_address = o
              /\ ddosiplist[j].is_banned = ddosiplist'[n].is_banned
              /\ Since(ddosiplist[j]) = Since(ddosiplist'[n])
  BY <1>2, <1>3, <1>4, <1>5
<1>6. CASE Since(ddosiplist'[n]) = <<ddosiplist'[n].is_banned, clock>>
  <2>1. CASE SinceOf(ddosiplist', o) # SinceOf(ddosiplist, o)
    BY <1>4, <1>6, <2>1
  <2>2. CASE SinceOf(ddosiplist', o) = SinceOf(ddosiplist, o)
    <3>1. PICK j \in DOMAIN ddosiplist :
             ddosiplist[j].ip_address = o /\ Since(ddosiplist[j]) = Since(ddosiplist'[n])
      BY <1>2, <2>2 DEF SinceOf
    <3>2. ddosiplist[j].is_banned = ddosiplist'[n].is_banned
      BY <3>1 DEF Since
    <3>3. QED
      BY <1>5, <3>1, <3>2
  <2>3. QED
    BY <2>1, <2>2
<1>7. QED
  BY <1>5, <1>6, SinceChange DEF ClockInv

-----------------------------------------------------------------------------
(* A step of the plugin: what it reads, and what is left of the entries.   *)

\* What a step does to the clock, the readings of it, and the sweep.
LEMMA ReadStep ==
    ASSUME ClockInv, [Next]_vars, UNCHANGED turned
    PROVE  Read' /\ clock' \in Nat /\ clock' >= clock /\ Elapsed' >= Elapsed
<1> USE DEF Read, SweepPhase
<1>1. /\ clock \in Nat /\ turned \in Nat /\ sweep \in Nat /\ SweepPhase
      /\ call \in Call /\ call.now \in Nat /\ son_tarama_zamani \in Nat /\ Read
  BY DEF ClockInv, ClockTypeOK, PluginInv, TypeOK, RecvTypeOK, Call
<1>2. CASE Lookup
  <2>1. call'.now = clock
    BY <1>1, <1>2 DEF Lookup, Call
  <2>2. QED
    BY <1>1, <1>2, <2>1 DEF Lookup, control_vars, Elapsed
<1>3. CASE Match
  <2>1. call'.now = call.now
    BY <1>1, <1>3 DEF Match, Call
  <2>2. QED
    BY <1>1, <1>3, <2>1 DEF Match, AddIPBan, control_vars, Elapsed
<1>4. CASE Scan
  BY <1>1, <1>4 DEF Scan, ClearBegin, control_vars, Elapsed
<1>5. CASE Clearing
  BY <1>1, <1>5 DEF Clearing, ClearErase, ClearKeep, ClearEnd, Elapsed
<1>6. CASE Decide
  BY <1>1, <1>6 DEF Decide, get_banstatus, control_vars, Elapsed
<1>7. CASE ReadSettings \/ Filter \/ Return
  BY <1>1, <1>7
     DEF ReadSettings, SetCvarsValue, SetOptions, Filter, inet_ntoa, Return, control_vars, Elapsed
<1>8. CASE ListCommand \/ Listing
  BY <1>1, <1>8
     DEF ListCommand, ClearBegin, Listing, ClearErase, ClearKeep, ClearEnd, Elsewhere, Elapsed
<1>9. CASE ClearCommand \/ \E k \in 1..(Len(ddosiplist) + 1) : RemoveIndexCommand(k)
  BY <1>1, <1>9
     DEF ClearCommand, Clear, RemoveIndexCommand, FlagRemoved, Elsewhere, control_vars, Elapsed
<1>10. CASE \E a \in Addr : RemoveAddrCommand(a)
  BY <1>1, <1>10
     DEF RemoveAddrCommand, FlagRemovedAddr, FlagRemoved, Elsewhere, control_vars, Elapsed
<1>11. CASE Arrive \/ ServerActivate_Post \/ SetCvar \/ Pass \/ UNCHANGED vars
  <2>1. /\ clock' = clock \/ clock' = clock + 1
        /\ UNCHANGED <<sweep, sweepnow, son_tarama_zamani>>
        /\ UNCHANGED <<pc, call>> \/ pc' = "settings"
    BY <1>11
       DEF Arrive, Receive, ServerActivate_Post, SetCvar, Pass, Tick, vars, recv_vars,
           control_vars
  <2>2. /\ clock' \in Nat /\ clock' >= clock
        /\ Elapsed \in Nat /\ Elapsed' \in Nat /\ Elapsed' >= Elapsed
    BY <1>1, <2>1 DEF Elapsed
  <2>3. sweep' # 0 => sweepnow' \in Nat /\ sweepnow' <= clock'
    BY <1>1, <2>1, <2>2
  <2>4. son_tarama_zamani' <= Elapsed'
    BY <1>1, <2>1, <2>2
  <2>5. /\ pc' \in {"match", "scan", "clearing", "decide"} => call'.now <= clock'
        /\ pc' = "clearing" => call'.now <= sweepnow'
    BY <1>1, <2>1, <2>2
  <2>6. QED
    BY <2>2, <2>3, <2>4, <2>5
<1>12. QED
  BY <1>2, <1>3, <1>4, <1>5, <1>6, <1>7, <1>8, <1>9, <1>10, <1>11
     DEF Next, HandleStep, Handle, Console

LEMMA BeganTypes ==
    ASSUME ClockInv, [Next]_vars, BeganStep, UNCHANGED turned
    PROVE  ClockTypeOK' /\ (UNCHANGED ddosiplist => began' = began)
<1>1. Elapsed' >= Elapsed /\ Elapsed \in Nat /\ Elapsed' \in Nat
  BY ReadStep DEF ClockInv, ClockTypeOK, PluginInv, Elapsed
<1>2. began \in [Owner -> Nat]
  BY DEF ClockInv, ClockTypeOK
<1>3. \A o \in Owner : began'[o] \in {began[o], Elapsed}
  BY <1>2 DEF BeganStep
<1>4. began' \in [Owner -> Nat]
  BY <1>1, <1>2 DEF BeganStep
<1>5. \A o \in Owner : began'[o] <= Elapsed'
  BY <1>1, <1>2, <1>3 DEF ClockInv, ClockTypeOK
<1>6. UNCHANGED ddosiplist => began' = began
  BY <1>2 DEF BeganStep
<1>7. QED
  BY <1>4, <1>5, <1>6 DEF ClockInv, ClockTypeOK

LEMMA DatedStep ==
    ASSUME ClockInv, [Next]_vars, GoodList', BeganStep, UNCHANGED turned,
           NEW n \in DOMAIN ddosiplist'
    PROVE  Dated(ddosiplist[n])'
<1> DEFINE o == ddosiplist'[n].ip_address
<1>1. clock \in Nat /\ turned \in Nat /\ Elapsed = clock + turned
  BY DEF ClockInv, PluginInv, ClockTypeOK, Elapsed
<1>2. CASE began'[o] = Elapsed /\ Since(ddosiplist'[n]) = <<ddosiplist'[n].is_banned, clock>>
  <2>1. SinceTime(ddosiplist'[n]) = clock
    BY <1>2 DEF Since, SinceTime
  <2>2. SinceTime(ddosiplist'[n]) <= began'[o] /\ began'[o] <= SinceTime(ddosiplist'[n]) + turned'
    BY <1>1, <1>2, <2>1
  <2>3. QED
    BY <2>2 DEF Dated, SinceTime
<1>3. ASSUME began'[o] = began[o],
             NEW j \in DOMAIN ddosiplist, ddosiplist[j].ip_address = o,
             Since(ddosiplist[j]) = Since(ddosiplist'[n])
      PROVE  Dated(ddosiplist[n])'
  <2>1. SinceTime(ddosiplist'[n]) = SinceTime(ddosiplist[j])
    BY <1>3 DEF Since, SinceTime
  <2>2. /\ SinceTime(ddosiplist[j]) <= began[ddosiplist[j].ip_address]
        /\ began[ddosiplist[j].ip_address] <= SinceTime(ddosiplist[j]) + turned
    BY DEF ClockInv, Dated
  <2>3. SinceTime(ddosiplist'[n]) <= began'[o] /\ began'[o] <= SinceTime(ddosiplist'[n]) + turned'
    BY <1>3, <2>1, <2>2
  <2>4. QED
    BY <2>3 DEF Dated, SinceTime
<1>4. QED
  BY <1>2, <1>3, BeganChange

\* An entry whose owner's entry was kept by the last sweep, or that is new.
LEMMA KeptStep ==
    ASSUME ClockInv, [Next]_vars, GoodList', BeganStep, UNCHANGED son_tarama_zamani,
           NEW n \in DOMAIN ddosiplist',
           \A j \in DOMAIN ddosiplist :
              ddosiplist[j].ip_address = ddosiplist'[n].ip_address => KeptAt(ddosiplist[j])
    PROVE  KeptAt(ddosiplist[n])'
<1> DEFINE o == ddosiplist'[n].ip_address
           di == ddosiplist'[n]
<1>1. CASE began'[o] = Elapsed
  <2>1. PICK p \in Options : TRUE
    BY DEF ClockInv
  <2>2. TimeOf(di, p) \in Nat /\ TimeOf(di, p) > 0
    BY ControlAssumptions DEF OptionsAssumption, TimeOf
  <2>3. son_tarama_zamani <= Elapsed /\ son_tarama_zamani \in Nat /\ Elapsed \in Nat
    BY DEF ClockInv, Read, PluginInv, TypeOK, RecvTypeOK, ClockTypeOK, Elapsed
  <2>4. son_tarama_zamani' - began'[o] < TimeOf(di, p)
    BY <1>1, <2>2, <2>3
  <2>5. QED
    BY <2>4 DEF KeptAt, TimeOf
<1>2. ASSUME began'[o] = began[o],
             NEW j \in DOMAIN ddosiplist, ddosiplist[j].ip_address = o,
             ddosiplist[j].is_banned = ddosiplist'[n].is_banned
      PROVE  KeptAt(ddosiplist[n])'
  <2>1. PICK p \in Options :
           son_tarama_zamani - began[ddosiplist[j].ip_address] < TimeOf(ddosiplist[j], p)
    BY <1>2 DEF KeptAt
  <2>2. son_tarama_zamani' - began'[o] < TimeOf(di, p)
    BY <1>2, <2>1 DEF TimeOf
  <2>3. QED
    BY <2>2 DEF KeptAt, TimeOf
<1>3. QED
  BY <1>1, <1>2, BeganChange

\* The sweep keeps an entry: its time was not over when the sweep started, so
\* that it was not when the packet was read either.
LEMMA PassedOver ==
    ASSUME ClockInv, pc = "clearing", ClearKeep, UNCHANGED son_tarama_zamani
    PROVE  KeptAt(ddosiplist[sweep])
<1> DEFINE di == ddosiplist[sweep]
<1>1. /\ sweep \in DOMAIN ddosiplist /\ ~Expired(di)
      /\ di \in GoodEntry /\ Dated(di)
  BY ListDomain DEF ClearKeep, ClockInv
<1>2. /\ di \in Entry /\ ReadSafe(di)
      /\ SinceTime(di) \in Nat /\ began[di.ip_address] \in Nat
      /\ di.is_banned \in BOOLEAN
  BY <1>1 DEF GoodEntry, Entry, ReadSafe, SinceTime, ClockInv, ClockTypeOK, Owner
<1>3. /\ son_tarama_zamani = call.now /\ call.now \in Nat /\ call.now <= sweepnow
      /\ sweepnow \in Nat
  BY DEF ClockInv, PluginInv, BanRead, Read, SweepPhase, TypeOK, RecvTypeOK, Call
<1>4. sweepnow - SinceTime(di) < TimeOf(di, opts)
  <2>1. opts.e_ban_suresi \in Nat /\ opts.e_paket_cache_suresi \in Nat
    BY ControlAssumptions DEF ClockInv, OptionsAssumption
  <2>2. QED
    BY <1>1, <1>2, <1>3, <2>1 DEF Expired, SinceTime, TimeOf
<1>5. TimeOf(di, opts) \in Nat
  BY ControlAssumptions DEF ClockInv, OptionsAssumption, TimeOf
<1>6. son_tarama_zamani - began[di.ip_address] < TimeOf(di, opts)
  BY <1>1, <1>2, <1>3, <1>4, <1>5 DEF Dated
<1>7. QED
  BY <1>6 DEF KeptAt, ClockInv

LEMMA OptionsStep ==
    ASSUME PluginInv, opts \in Options, [Next]_vars
    PROVE  opts' \in Options
<1>1. UNCHANGED opts \/ opts' = OptionsOf(cvars)
  BY DEF Next, Arrive, Receive, HandleStep, Handle, ReadSettings, SetCvarsValue, SetOptions,
         Filter, inet_ntoa, Lookup, Match, AddIPBan, Scan, Clearing, ClearBegin, ClearErase,
         ClearKeep, ClearEnd, Decide, get_banstatus, Return, Console, ListCommand, Listing,
         ClearCommand, Clear, RemoveIndexCommand, RemoveAddrCommand, FlagRemovedAddr,
         FlagRemoved, ServerActivate_Post, SetCvar, Pass, Tick, vars, recv_vars, control_vars
<1>2. QED
  BY <1>1, CopiedTypes DEF PluginInv, TypeOK, CvarsTypeOK

LEMMA SweptStep ==
    ASSUME ClockInv, [Next]_vars, GoodList', BeganStep, UNCHANGED turned
    PROVE  SweptKept'
<1> SUFFICES ASSUME NEW n \in DOMAIN ddosiplist', pc' = "clearing" => n < sweep'
             PROVE  KeptAt(ddosiplist[n])'
  BY DEF SweptKept
<1>1. /\ DOMAIN ddosiplist = 1..Len(ddosiplist) /\ Len(ddosiplist) \in Nat
      /\ sweep \in Nat /\ SweepPhase /\ OneEntryPerOwner
  BY ListDomain DEF ClockInv, PluginInv, GoodList
<1>2. CASE Scan
  <2>1. CASE pc' = "clearing"
    <3>1. sweep' = 1 /\ ddosiplist' = ddosiplist
      BY <1>2, <2>1 DEF Scan, ClearBegin
    <3>2. QED
      BY <1>1, <2>1, <3>1
  <2>2. CASE pc' # "clearing"
    <3>1. /\ UNCHANGED <<ddosiplist, son_tarama_zamani>> /\ pc = "scan"
      BY <1>2, <2>2 DEF Scan, control_vars
    <3>2. \A j \in DOMAIN ddosiplist : KeptAt(ddosiplist[j])
      BY <3>1 DEF ClockInv, SweptKept
    <3>3. QED
      BY <3>1, <3>2, KeptStep
  <2>3. QED
    BY <2>1, <2>2
<1>3. ASSUME pc # "clearing", UNCHANGED son_tarama_zamani
      PROVE  KeptAt(ddosiplist[n])'
  <2>1. \A j \in DOMAIN ddosiplist : KeptAt(ddosiplist[j])
    BY <1>3 DEF ClockInv, SweptKept
  <2>2. QED
    BY <1>3, <2>1, KeptStep
<1>4. CASE pc = "clearing" /\ Clearing
  <2>1. ASSUME ClearErase PROVE n < sweep /\ n \in DOMAIN ddosiplist /\ ddosiplist'[n] = ddosiplist[n]
    <3>1. /\ sweep \in DOMAIN ddosiplist /\ ddosiplist' = RemoveAt(ddosiplist, sweep)
          /\ sweep' = sweep /\ pc' = "clearing"
      BY <1>4, <2>1 DEF ClearErase, Clearing, ClearEnd
    <3>2. /\ DOMAIN ddosiplist' = 1..(Len(ddosiplist) - 1)
          /\ \A j \in 1..(Len(ddosiplist) - 1) :
                ddosiplist'[j] = IF j < sweep THEN ddosiplist[j] ELSE ddosiplist[j + 1]
      BY <3>1, EraseGood DEF ClockInv
    <3>3. n \in DOMAIN ddosiplist /\ n < sweep /\ ddosiplist'[n] = ddosiplist[n]
      BY <1>1, <3>1, <3>2
    <3>4. QED
      BY <3>3
  <2>2. ASSUME ClearKeep PROVE (n < sweep \/ n = sweep) /\ ddosiplist' = ddosiplist
    <3>1. ddosiplist' = ddosiplist /\ sweep' = sweep + 1 /\ pc' = "clearing"
      BY <1>1, <1>4, <2>2 DEF ClearKeep, Clearing, ClearEnd
    <3>2. n < sweep \/ n = sweep
      BY <1>1, <3>1
    <3>3. QED
      BY <2>2, <3>1, <3>2
  <2>3. ASSUME ClearEnd PROVE n < sweep /\ ddosiplist' = ddosiplist
    <3>1. ddosiplist' = ddosiplist /\ sweep > Len(ddosiplist)
      BY <2>3 DEF ClearEnd
    <3>2. QED
      BY <1>1, <3>1
  <2>4. PICK i \in DOMAIN ddosiplist :
           (i < sweep \/ (ClearKeep /\ i = sweep)) /\ ddosiplist'[n] = ddosiplist[i]
    <3>1. CASE ClearErase
      BY <2>1, <3>1
    <3>2. CASE ClearKeep
      BY <2>2, <3>2
    <3>3. CASE ClearEnd
      BY <2>3, <3>3
    <3>4. QED
      BY <1>4, <3>1, <3>2, <3>3 DEF Clearing
  <2>5. UNCHANGED son_tarama_zamani
    BY <1>4 DEF Clearing
  <2>6. KeptAt(ddosiplist[i])
    BY <1>4, <2>4, <2>5, PassedOver DEF ClockInv, SweptKept
  <2>7. \A j \in DOMAIN ddosiplist :
           ddosiplist[j].ip_address = ddosiplist'[n].ip_address => j = i
    BY <1>1, <2>4 DEF OneEntryPerOwner
  <2>8. QED
    BY <2>5, <2>6, <2>7, KeptStep
<1>5. CASE pc = "clearing" /\ (Pass \/ UNCHANGED vars)
  <2>1. UNCHANGED <<ddosiplist, sweep, pc, son_tarama_zamani>>
    BY <1>5 DEF Pass, Tick, vars, recv_vars, control_vars
  <2>2. KeptAt(ddosiplist[n])
    BY <1>5, <2>1 DEF ClockInv, SweptKept
  <2>3. \A j \in DOMAIN ddosiplist :
           ddosiplist[j].ip_address = ddosiplist'[n].ip_address => j = n
    BY <1>1, <2>1 DEF OneEntryPerOwner
  <2>4. QED
    BY <2>1, <2>2, <2>3, KeptStep
<1>6. Scan \/ UNCHANGED son_tarama_zamani
  BY DEF Next, Arrive, Receive, HandleStep, Handle, ReadSettings, Filter, Lookup, Match,
         Clearing, Decide, Return, Console, ListCommand, Listing, ClearCommand,
         RemoveIndexCommand, RemoveAddrCommand, Elsewhere, ServerActivate_Post, SetCvar, Pass,
         vars, recv_vars
<1>7. pc = "clearing" => Clearing \/ Pass \/ UNCHANGED vars
  BY DEF Next, Arrive, Receive, HandleStep, Handle, ReadSettings, Filter, Lookup, Match, Scan,
         Decide, Return, Console, ListCommand, Listing, ClearCommand, RemoveIndexCommand,
         RemoveAddrCommand, ServerActivate_Post, SetCvar
<1>8. QED
  BY <1>2, <1>3, <1>4, <1>5, <1>6, <1>7

\* A call that is past its scan came less than a sweep period after the sweep.
LEMMA JudgedStep ==
    ASSUME ClockInv, [Next]_vars
    PROVE  Judged'
<1> SUFFICES ASSUME pc' = "decide" PROVE call'.now - son_tarama_zamani' <= SinceSweep'
  BY DEF Judged
<1>1. cvarvalue.cleartime \in Int
  <2>1. PICK c \in CvarSettings : cvarvalue = CvarvalueOf(c)
    BY DEF ClockInv, PluginInv, TypeOK, CvarsTypeOK
  <2>2. QED
    BY <2>1, CvarAssumptions DEF CvarvalueOf, Setting
<1>2. call.now \in Nat /\ son_tarama_zamani \in Nat
  BY DEF ClockInv, PluginInv, TypeOK, RecvTypeOK, Call
<1>3. /\ UNCHANGED <<call, son_tarama_zamani, cvarvalue>>
      /\ pc = "decide" \/ pc = "clearing" \/ ~SweepDue
  BY DEF Next, Arrive, Receive, HandleStep, Handle, ReadSettings, Filter, Lookup, Match, Scan,
         Clearing, Decide, Return, Console, ListCommand, Listing, ClearCommand,
         RemoveIndexCommand, RemoveAddrCommand, Elsewhere, ServerActivate_Post, SetCvar, Pass,
         vars, recv_vars, settings_vars
<1>4. CASE pc = "decide"
  BY <1>3, <1>4 DEF ClockInv, Judged, SinceSweep
<1>5. CASE pc = "clearing"
  <2>1. son_tarama_zamani = call.now
    BY <1>5 DEF ClockInv, PluginInv, BanRead
  <2>2. QED
    BY <1>1, <1>2, <1>3, <2>1 DEF SinceSweep
<1>6. CASE ~SweepDue
  BY <1>1, <1>2, <1>3, <1>6 DEF SweepDue, SinceSweep
<1>7. QED
  BY <1>3, <1>4, <1>5, <1>6

LEMMA ClockStep ==
    ClockInv /\ [ClockNext]_<<vars, clock_vars>> => ClockInv'
<1> SUFFICES ASSUME ClockInv, [ClockNext]_<<vars, clock_vars>> PROVE ClockInv'
  OBVIOUS
<1>1. CASE SetBack
  BY <1>1, SetBackStep
<1>2. ASSUME [Next]_vars, BeganStep, UNCHANGED turned
      PROVE  ClockInv'
  <2>1. PluginInv'
    BY <1>2, NextPlugin DEF ClockInv
  <2>2. GoodList'
    BY <1>2, ListChange DEF ClockInv
  <2>3. opts' \in Options
    BY <1>2, OptionsStep DEF ClockInv
  <2>4. Read' /\ ClockTypeOK'
    BY <1>2, ReadStep, BeganTypes
  <2>5. \A k \in DOMAIN ddosiplist' : Dated(ddosiplist[k])'
    BY <1>2, <2>2, DatedStep
  <2>6. SweptKept' /\ Judged'
    BY <1>2, <2>2, SweptStep, JudgedStep
  <2>7. QED
    BY <2>1, <2>2, <2>3, <2>4, <2>5, <2>6 DEF ClockInv
<1>3. CASE UNCHANGED <<vars, clock_vars>>
  <2>1. UNCHANGED ddosiplist /\ UNCHANGED vars /\ UNCHANGED turned /\ began' = began
    BY <1>3 DEF clock_vars, vars, recv_vars, control_vars
  <2>2. BeganStep
    <3>1. \A o \in DOMAIN began : SinceOf(ddosiplist', o) \in {{}, SinceOf(ddosiplist, o)}
      BY <2>1
    <3>2. began = [o \in DOMAIN began |-> began[o]]
      BY DEF ClockInv, ClockTypeOK
    <3>3. QED
      BY <2>1, <3>1, <3>2 DEF BeganStep
  <2>3. QED
    BY <1>2, <2>1, <2>2
<1>4. QED
  BY <1>1, <1>2, <1>3 DEF ClockNext, BeganStep

\* Only the sweep drops an entry, and a ban only when its time is over.
LEMMA CutShort ==
    ASSUME ClockInv, [ClockNext]_<<vars, clock_vars>>
    PROVE  CutShortStep
<1> SUFFICES ASSUME NEW k \in DOMAIN ddosiplist,
                    ddosiplist[k].is_banned, ~ddosiplist[k].flagged_removed,
                    \A j \in DOMAIN ddosiplist' :
                       ddosiplist'[j].ip_address # ddosiplist[k].ip_address
             PROVE  Elapsed - began[ddosiplist[k].ip_address] >= opts.e_ban_suresi
  BY DEF CutShortStep
<1>1. /\ DOMAIN ddosiplist = 1..Len(ddosiplist) /\ Len(ddosiplist) \in Nat
      /\ \A j \in DOMAIN ddosiplist : ddosiplist[j] \in GoodEntry /\ ddosiplist[j] \in Entry
  BY ListDomain DEF ClockInv, GoodEntry
<1>2. ~UNCHANGED ddosiplist
  OBVIOUS
<1>3. [Next]_vars
  BY <1>2 DEF ClockNext, SetBack, vars, recv_vars, control_vars
<1>4. ASSUME NEW n \in DOMAIN ddosiplist, NEW e,
             Replaced(n, e), e.ip_address = ddosiplist[n].ip_address
      PROVE  FALSE
  BY <1>4 DEF Replaced
<1>5. ~(Shares \/ Opens)
  BY <1>1 DEF Shares, Opens, Grown
<1>6. ASSUME NEW n \in DOMAIN ddosiplist
      PROVE  ~(Renews(n) \/ Floods(n) \/ Counts(n) \/ Removes(n))
  <2>1. ~Renews(n)
    BY <1>1, <1>4, RenewedFields DEF Renews
  <2>2. ~Floods(n)
    BY <1>1, <1>4, BannedFields DEF Floods
  <2>3. ~Counts(n)
    BY <1>1, <1>4, CountedFields DEF Counts
  <2>4. ~Removes(n)
    BY <1>1, <1>4, FlaggedFields DEF Removes
  <2>5. QED
    BY <2>1, <2>2, <2>3, <2>4
<1>7. Erases
  BY <1>2, <1>3, <1>5, <1>6, ListChange DEF ClockInv
<1>8. k = sweep
  <2>1. sweep \in DOMAIN ddosiplist
    BY <1>7 DEF Erases
  <2>2. CASE k < sweep
    <3>1. k \in DOMAIN ddosiplist' /\ ddosiplist'[k] = ddosiplist[k]
      BY <1>1, <1>7, <2>1, <2>2 DEF Erases, Shrunk
    <3>2. QED
      BY <3>1
  <2>3. CASE k > sweep
    <3>1. k - 1 \in DOMAIN ddosiplist' /\ ddosiplist'[k - 1] = ddosiplist[k]
      BY <1>1, <1>7, <2>1, <2>3 DEF Erases, Shrunk
    <3>2. QED
      BY <3>1
  <2>4. QED
    BY <1>1, <2>1, <2>2, <2>3
<1> DEFINE di == ddosiplist[k]
<1>9. sweepnow - di.bannedtime >= opts.e_ban_suresi
  BY <1>7, <1>8 DEF Erases, ClearErase, Expired
<1>10. /\ sweepnow \in Nat /\ sweepnow <= clock /\ clock \in Nat /\ turned \in Nat
       /\ di.bannedtime \in Nat /\ began[di.ip_address] \in Nat
       /\ opts.e_ban_suresi \in Nat
  <2>1. sweepnow \in Nat /\ sweepnow <= clock /\ clock \in Nat /\ turned \in Nat
    BY <1>1, <1>8 DEF ClockInv, Read, PluginInv, ClockTypeOK
  <2>2. di.bannedtime \in Nat /\ began[di.ip_address] \in Nat
    BY <1>1 DEF GoodEntry, Entry, ReadSafe, ClockInv, ClockTypeOK, Owner
  <2>3. opts.e_ban_suresi \in Nat
    BY ControlAssumptions DEF ClockInv, OptionsAssumption
  <2>4. QED
    BY <2>1, <2>2, <2>3
<1>11. began[di.ip_address] <= di.bannedtime + turned
  BY DEF ClockInv, Dated, SinceTime
<1>12. QED
  BY <1>9, <1>10, <1>11 DEF Elapsed

-----------------------------------------------------------------------------
(* The theorems.                                                           *)

\* The inductive invariant holds in every reachable state.
THEOREM ClockInvariant == ClockSpec => []ClockInv
BY ClockInitInv, ClockStep, PTL DEF ClockSpec

\* Entries do not outstay their time by more than the period of the sweep and
\* the turns of the clock, whatever those are (main.cpp:327-332,
\* ddoscontrol.cpp:67-107).
THEOREM NoOverstay == ClockSpec => []OverstayBound
<1>1. ClockInv => OverstayBound
  <2> SUFFICES ASSUME ClockInv, pc = "decide", NEW k \in DOMAIN ddosiplist
               PROVE  \E o \in Options :
                         call.now + turned - began[ddosiplist[k].ip_address]
                            < (IF ddosiplist[k].is_banned
                               THEN o.e_ban_suresi ELSE o.e_paket_cache_suresi)
                              + SinceSweep + turned
    BY DEF OverstayBound
  <2> DEFINE di == ddosiplist[k]
             b == began[di.ip_address]
  <2>1. PICK o \in Options : son_tarama_zamani - b < TimeOf(di, o)
    BY DEF ClockInv, SweptKept, KeptAt
  <2>2. /\ call.now - son_tarama_zamani <= SinceSweep
        /\ call.now \in Nat /\ son_tarama_zamani \in Nat /\ turned \in Nat
    BY DEF ClockInv, Judged, PluginInv, TypeOK, RecvTypeOK, Call, ClockTypeOK
  <2>3. b \in Nat /\ TimeOf(di, o) \in Nat /\ SinceSweep \in Int
    <3>1. di \in Entry
      BY ListDomain DEF ClockInv, GoodEntry
    <3>2. b \in Nat
      BY <3>1 DEF Entry, ClockInv, ClockTypeOK, Owner
    <3>3. TimeOf(di, o) \in Nat
      BY ControlAssumptions DEF OptionsAssumption, TimeOf
    <3>4. PICK c \in CvarSettings : cvarvalue = CvarvalueOf(c)
      BY DEF ClockInv, PluginInv, TypeOK, CvarsTypeOK
    <3>5. SinceSweep \in Int
      BY <3>4, CvarAssumptions DEF SinceSweep, CvarvalueOf, Setting
    <3>6. QED
      BY <3>2, <3>3, <3>5
  <2>4. call.now + turned - b < TimeOf(di, o) + SinceSweep + turned
    BY <2>1, <2>2, <2>3
  <2>5. QED
    BY <2>4 DEF TimeOf
<1>2. QED
  BY <1>1, ClockInvariant, PTL

\* No ban is cut short by setting the clock back: the sweep erases it only
\* when its time has really gone by (ddoscontrol.cpp:81-104).
THEOREM BansNotCutShort == ClockSpec => NeverCutShort
<1>1. ClockInv /\ [ClockNext]_<<vars, clock_vars>> => [CutShortStep]_<<vars, clock_vars>>
  BY CutShort
<1>2. QED
  BY <1>1, ClockInvariant, PTL DEF ClockSpec, NeverCutShort
=============================================================================
