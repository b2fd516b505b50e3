---------------------------- MODULE ReportsProofs ----------------------------
(* Theorems about the log: the order of its lines, and how often an attack *)
(* can write one.                                                          *)
EXTENDS Reports, ItSavarProofs

-----------------------------------------------------------------------------
(* The inductive invariant.                                                *)

\* The operator removes no entry.  The theorem about the bans needs it.
NothingRemoved == Commands \cap {"clear", "remove"} = {}

LogLine == [kind : {"ban", "block", "doubt", "packet"},
            about : Addr, time : Nat]

Reporting == {"match", "scan", "clearing", "decide", "stopped"}

\* The log writer has been attached, and a file that is open has its file's
\* name, which is never the text of a day.
WriterOpen ==
    /\ log_writer = "open"
    /\ logfile # Null => \E d \in Nat : lognamestr = FileName(d)
    /\ files \in [0..MaxDay -> Seq(LogLine)]
    /\ son_banned_packtime \in Int
    /\ pc \in Reporting => call.now <= clock

\* The entry that answers for the address is a ban of that time, or a later one.
BannedSince(a, t) ==
    \E k \in DOMAIN ddosiplist :
        /\ ddosiplist[k].is_banned /\ ddosiplist[k].bannedtime >= t
        /\ \/ ddosiplist[k].ip_address = a
           \/ /\ ddosiplist[k].ip_address = Shared
              /\ \A j \in DOMAIN ddosiplist : ddosiplist[j].ip_address # a

\* A ban of that time is over at the other.
BanOver(t, u) == \E o \in Options : u - t >= o.e_ban_suresi

\* The call may report the address: the lookup found it not banned.
MayReport == ~call.ipbanned /\ (pc = "match" \/ (pc \in Reporting \ {"stopped"} /\ ~call.stopit))

\* What a line says of the state.
LineGood(l) ==
    /\ l.time <= clock
    /\ pc \in Reporting => l.time <= call.now
    /\ l.kind \in {"ban", "block"} => l.time <= son_banned_packtime
    /\ NothingRemoved /\ l.kind \in {"ban", "doubt"} =>
          /\ BanOver(l.time, clock) \/ BannedSince(l.about, l.time)
          /\ MayReport /\ call.addr = l.about => BanOver(l.time, call.now)

Lines == {LineAt(p) : p \in Places}

\* What two lines say of each other.
InOrder(l, m) ==
    /\ l.time <= m.time
    /\ NothingRemoved /\ l.about = m.about
       /\ l.kind \in {"ban", "doubt"} /\ m.kind # "packet"
          => BanOver(l.time, m.time)
    /\ l.kind \in {"ban", "block"} /\ m.kind = "block" => m.time - l.time > QuietTime

PlacesGood ==
    /\ \A p \in Places : p[1] <= Today /\ LineAt(p).time \div DayLength <= p[1]
    /\ \A p, q \in Places : Before(p, q) => InOrder(LineAt(p), LineAt(q))

\* The entry that points at the buffer of inet_ntoa is always a ban, and
\* without an operator who removes entries none is flagged.
EntriesPlain ==
    \A k \in DOMAIN ddosiplist :
        /\ ddosiplist[k].ip_address = Shared => ddosiplist[k].is_banned
        /\ NothingRemoved => ~ddosiplist[k].flagged_removed

LogInv ==
    /\ BaseInv /\ WriterOpen /\ EntriesPlain
    /\ \A l \in Lines : LineGood(l)
    /\ PlacesGood

-----------------------------------------------------------------------------
(* The initial state.                                                      *)

LEMMA LogInitInv == ReportInit => LogInv
<1> SUFFICES ASSUME ReportInit PROVE LogInv
  OBVIOUS
<1>1. BaseInv
  BY BaseInit DEF ReportInit
<1>2. ddosiplist = <<>> /\ DOMAIN ddosiplist = {} /\ pc = "idle"
  BY EmptySeq DEF ReportInit, Init, RecvInit, ControlInit
<1>3. <<>> \in Seq(LogLine) /\ DOMAIN <<>> = {} /\ \A d \in 0..MaxDay : files[d] = <<>>
  BY EmptySeq DEF ReportInit
<1>4. Places = {} /\ Lines = {}
  BY <1>3 DEF Places, Lines
<1>5. WriterOpen
  BY <1>2, <1>3, ReportAssumptions DEF ReportInit, WriterOpen, Reporting
<1>6. EntriesPlain
  BY <1>2 DEF EntriesPlain
<1>7. QED
  BY <1>1, <1>4, <1>5, <1>6 DEF LogInv, PlacesGood

-----------------------------------------------------------------------------
(* Writing a line.                                                         *)

\* A later time is on the same day or on a later one.
LEMMA DivMonotone ==
    ASSUME NEW a \in Nat, NEW b \in Nat, NEW n \in Nat \ {0}, a <= b
    PROVE  a \div n \in Nat /\ b \div n \in Nat /\ a \div n <= b \div n
OBVIOUS

\* The line is added to the file of the day, if the model has one.
Writes(l) ==
    /\ Today \in 0..MaxDay
    /\ files' = [files EXCEPT ![Today] = Append(@, l)]

\* The name of an open file is never the text of the day, so that it is closed
\* and the day's file opened for every line (logwriter.cpp:64).
LEMMA WriteChange ==
    ASSUME WriterOpen, BaseInv, NEW l \in LogLine, NEW refused, writelog(Today, l, refused)
    PROVE  /\ UNCHANGED files \/ Writes(l)
           /\ log_writer' = "open"
           /\ logfile' # Null => \E d \in Nat : lognamestr' = FileName(d)
<1>1. Today \in Nat
  BY ReportAssumptions DEF Today, BaseInv, PluginInv
<1>2. logfile # Null => Stale(Today)
  BY DEF WriterOpen, Stale, FileName, DayStr
<1>3. /\ lognamestr' = FileName(Today) /\ log_writer' = "open"
      /\ UNCHANGED files \/ files' = [files EXCEPT ![Today] = Append(@, l)]
  BY <1>2 DEF writelog, WriterOpen
<1>4. CASE Today \in 0..MaxDay
  BY <1>1, <1>3, <1>4 DEF Writes
<1>5. CASE Today \notin 0..MaxDay
  <2>1. UNCHANGED files
    BY <1>3, <1>5 DEF WriterOpen
  <2>2. QED
    BY <1>1, <1>3, <2>1
<1>6. QED
  BY <1>4, <1>5

LEMMA PlacesFacts ==
    ASSUME NEW p, NEW f
    PROVE  /\ p \in UNION {{d} \X DOMAIN f[d] : d \in 0..MaxDay}
              => p[1] \in 0..MaxDay /\ p[2] \in DOMAIN f[p[1]] /\ p = <<p[1], p[2]>>
           /\ \A d \in 0..MaxDay : \A i \in DOMAIN f[d] :
                 <<d, i>> \in UNION {{e} \X DOMAIN f[e] : e \in 0..MaxDay}
<1>1. ASSUME p \in UNION {{d} \X DOMAIN f[d] : d \in 0..MaxDay}
      PROVE  p[1] \in 0..MaxDay /\ p[2] \in DOMAIN f[p[1]] /\ p = <<p[1], p[2]>>
  <2>1. PICK d \in 0..MaxDay : p \in {d} \X DOMAIN f[d]
    BY <1>1
  <2>2. QED
    BY <2>1
<1>2. ASSUME NEW d \in 0..MaxDay, NEW i \in DOMAIN f[d]
      PROVE  <<d, i>> \in UNION {{e} \X DOMAIN f[e] : e \in 0..MaxDay}
  <2>1. <<d, i>> \in {d} \X DOMAIN f[d]
    OBVIOUS
  <2>2. {d} \X DOMAIN f[d] \in {{e} \X DOMAIN f[e] : e \in 0..MaxDay}
    OBVIOUS
  <2>3. QED
    BY <2>1, <2>2
<1>3. QED
  BY <1>1, <1>2

\* The places after a line is written: the new one is the last.
LEMMA WrittenPlaces ==
    ASSUME WriterOpen, NEW l \in LogLine, Writes(l),
           \A p \in Places : p[1] <= Today
    PROVE  /\ files' \in [0..MaxDay -> Seq(LogLine)]
           /\ \A p \in Places' :
                 \/ p \in Places /\ LineAt(p)' = LineAt(p)
                 \/ p[1] = Today /\ LineAt(p)' = l
           /\ \A p, q \in Places' :
                 Before(p, q) => p \in Places /\ LineAt(p)' = LineAt(p)
<1> DEFINE t == Today
           n == Len(files[t])
<1>1. t \in 0..MaxDay /\ files' = [files EXCEPT ![t] = Append(files[t], l)]
  BY DEF Writes
<1>2. files \in [0..MaxDay -> Seq(LogLine)]
  BY DEF WriterOpen
<1> HIDE DEF t
<1>3. files[t] \in Seq(LogLine)
  BY <1>1, <1>2
<1>4. /\ Append(files[t], l) \in Seq(LogLine) /\ Len(Append(files[t], l)) = n + 1
      /\ \A i \in 1..n : Append(files[t], l)[i] = files[t][i]
      /\ Append(files[t], l)[n + 1] = l
      /\ n \in Nat /\ DOMAIN files[t] = 1..n
  BY <1>3, AppendProperties, LenProperties
<1>5. DOMAIN Append(files[t], l) = 1..(n + 1)
  BY <1>4, LenProperties
<1>6. files' \in [0..MaxDay -> Seq(LogLine)]
  BY <1>1, <1>2, <1>4
<1>7. /\ files'[t] = Append(files[t], l)
      /\ \A d \in 0..MaxDay \ {t} : files'[d] = files[d]
  BY <1>1, <1>2
<1>8. ASSUME NEW p \in Places'
      PROVE  /\ p[1] \in 0..MaxDay
             /\ \/ p \in Places /\ files'[p[1]][p[2]] = files[p[1]][p[2]]
                   /\ (p[1] = t => p[2] \in 1..n)
                \/ p[1] = t /\ p[2] = n + 1 /\ files'[p[1]][p[2]] = l
  <2>1. p[1] \in 0..MaxDay /\ p[2] \in DOMAIN files'[p[1]] /\ p = <<p[1], p[2]>>
    BY <1>8, PlacesFacts DEF Places
  <2>2. CASE p[1] # t
    <3>1. files'[p[1]] = files[p[1]]
      BY <1>7, <2>1, <2>2
    <3>2. <<p[1], p[2]>> \in Places
      BY <2>1, <3>1, PlacesFacts DEF Places
    <3>3. QED
      BY <2>1, <2>2, <3>1, <3>2
  <2>3. CASE p[1] = t /\ p[2] \in 1..n
    <3>1. files'[p[1]][p[2]] = files[p[1]][p[2]]
      BY <1>4, <1>7, <2>3
    <3>2. <<p[1], p[2]>> \in Places
      BY <1>4, <2>1, <2>3, PlacesFacts DEF Places
    <3>3. QED
      BY <2>1, <2>3, <3>1, <3>2
  <2>4. CASE p[1] = t /\ p[2] \notin 1..n
    <3>1. p[2] = n + 1
      BY <1>4, <1>5, <1>7, <2>1, <2>4
    <3>2. QED
      BY <1>4, <1>7, <2>1, <2>4, <3>1
  <2>5. QED
    BY <2>2, <2>3, <2>4
<1>9. ASSUME NEW p \in Places', NEW q \in Places', Before(p, q)
      PROVE  p \in Places /\ LineAt(p)' = LineAt(p)
  <2>1. CASE p \in Places /\ files'[p[1]][p[2]] = files[p[1]][p[2]]
    BY <2>1 DEF LineAt
  <2>2. CASE p[1] = t /\ p[2] = n + 1
    <3>1. q[1] <= t
      BY <1>8 DEF t
    <3>2. q[1] = t => q[2] \in 1..(n + 1)
      BY <1>4, <1>8
    <3>3. q[1] \in Nat /\ t \in Nat
      BY <1>1, <1>8
    <3>4. QED
      BY <1>4, <1>9, <2>2, <3>1, <3>2, <3>3 DEF Before
  <2>3. QED
    BY <1>8, <2>1, <2>2
<1>10. QED
  BY <1>6, <1>8, <1>9 DEF LineAt, t

-----------------------------------------------------------------------------
(* What a step reports.                                                    *)

LEMMA LineType ==
    ASSUME BaseInv, pc \in InCall, NEW kind \in {"ban", "block", "doubt", "packet"}
    PROVE  /\ Line(kind) \in LogLine
           /\ Line(kind).kind = kind /\ Line(kind).about = call.addr
           /\ Line(kind).time = call.now
BY DEF Line, LogLine, BaseInv, PluginInv, SenderSpelled, TypeOK, RecvTypeOK, Call

LEMMA ReportChange ==
    ASSUME BaseInv, WriterOpen, [ReportNext]_report_vars
    PROVE  /\ [Next]_vars
           /\ log_writer' = "open"
           /\ logfile' # Null => \E d \in Nat : lognamestr' = FileName(d)
           /\ \/ UNCHANGED <<files, son_banned_packtime>>
              \/ /\ Match /\ BannedMatch /\ cvarvalue.banpacketip
                 /\ son_banned_packtime' = call.now
                 /\ Writes(Line("ban")) \/ UNCHANGED files
              \/ /\ Match /\ BannedMatch /\ ~cvarvalue.banpacketip
                 /\ son_banned_packtime' = call.now
                 /\ \/ UNCHANGED files
                    \/ Writes(Line("block")) /\ call.now - son_banned_packtime > QuietTime
              \/ /\ Decide /\ Flooded /\ Writes(Line("doubt")) /\ UNCHANGED son_banned_packtime
              \/ /\ pc = "stopped" /\ UNCHANGED <<vars, son_banned_packtime>>
                 /\ Writes(Line("packet"))
<1>1. /\ log_writer = "open"
      /\ logfile # Null => \E d \in Nat : lognamestr = FileName(d)
  BY DEF WriterOpen
<1>2. ASSUME NEW kind \in {"ban", "block", "doubt", "packet"}, Log(kind), pc \in InCall
      PROVE  /\ UNCHANGED files \/ Writes(Line(kind))
             /\ log_writer' = "open"
             /\ logfile' # Null => \E d \in Nat : lognamestr' = FileName(d)
  <2>1. CASE UNCHANGED log_vars
    BY <1>1, <2>1 DEF log_vars
  <2>2. CASE Write(kind)
    BY <1>2, <2>2, LineType, WriteChange DEF Write
  <2>3. QED
    BY <1>2, <2>1, <2>2 DEF Log
<1>3. CASE ReportSettings \/ ReportReturn \/ Silent
  <2>1. [Next]_vars
    BY <1>3 DEF ReportSettings, ReportReturn, Silent, Next, HandleStep, Handle
  <2>2. UNCHANGED <<log_vars, son_banned_packtime>>
    BY <1>3 DEF ReportSettings, ReportReturn, Silent
  <2>3. QED
    BY <1>1, <2>1, <2>2 DEF log_vars
<1>4. CASE ReportMatch
  <2>1. [Next]_vars
    BY <1>4 DEF ReportMatch, Next, HandleStep, Handle
  <2>2. CASE ~BannedMatch
    <3>1. UNCHANGED <<log_vars, son_banned_packtime>>
      BY <1>4, <2>2 DEF ReportMatch
    <3>2. QED
      BY <1>1, <2>1, <3>1 DEF log_vars
  <2>3. CASE BannedMatch /\ ~Announced
    <3>1. Match /\ UNCHANGED log_vars /\ son_banned_packtime' = call.now
      BY <1>4, <2>3 DEF ReportMatch
    <3>2. QED
      BY <1>1, <2>1, <2>3, <3>1 DEF log_vars
  <2>4. CASE BannedMatch /\ Announced
    <3>1. Match /\ son_banned_packtime' = call.now
      BY <1>4, <2>4 DEF ReportMatch
    <3>2. CASE cvarvalue.banpacketip
      <4>1. Log("ban")
        BY <1>4, <2>4, <3>2 DEF ReportMatch
      <4>2. QED
        BY <1>2, <2>1, <2>4, <3>1, <3>2, <4>1 DEF Match, InCall
    <3>3. CASE ~cvarvalue.banpacketip
      <4>1. Log("block") /\ call.now - son_banned_packtime > QuietTime
        BY <1>4, <2>4, <3>3 DEF ReportMatch, Announced
      <4>2. QED
        BY <1>2, <2>1, <2>4, <3>1, <3>3, <4>1 DEF Match, InCall
    <3>4. QED
      BY <3>2, <3>3
  <2>5. QED
    BY <2>2, <2>3, <2>4
<1>5. CASE ReportDecide
  <2>1. [Next]_vars /\ Decide /\ UNCHANGED son_banned_packtime
    BY <1>5 DEF ReportDecide, Next, HandleStep, Handle
  <2>2. CASE Flooded
    <3>1. Log("doubt")
      BY <1>5, <2>2 DEF ReportDecide
    <3>2. QED
      BY <1>2, <2>1, <2>2, <3>1 DEF Decide, InCall
  <2>3. CASE ~Flooded
    <3>1. UNCHANGED log_vars
      BY <1>5, <2>3 DEF ReportDecide
    <3>2. QED
      BY <1>1, <2>1, <3>1 DEF log_vars
  <2>4. QED
    BY <2>2, <2>3
<1>6. CASE ReportPacket
  <2>1. pc = "stopped" /\ UNCHANGED <<vars, son_banned_packtime>>
    BY <1>6 DEF ReportPacket
  <2>2. Write("packet")
    BY <1>6 DEF ReportPacket
  <2>3. QED
    BY <2>1, <2>2, LineType, WriteChange DEF Write, InCall
<1>7. CASE UNCHANGED report_vars
  BY <1>1, <1>7 DEF report_vars, log_vars
<1>8. QED
  BY <1>3, <1>4, <1>5, <1>6, <1>7 DEF ReportNext

-----------------------------------------------------------------------------
(* Bans and their times.                                                   *)

\* The facts about the list that the proofs below use.
LEMMA LogList ==
    ASSUME BaseInv
    PROVE  /\ DOMAIN ddosiplist = 1..Len(ddosiplist) /\ Len(ddosiplist) \in Nat
           /\ \A k \in DOMAIN ddosiplist : ddosiplist[k] \in Entry /\ ReadSafe(ddosiplist[k])
           /\ GoodList /\ OneEntryPerOwner
           /\ clock \in Nat /\ opts \in Options
           /\ \A o \in Options : o.e_ban_suresi \in Nat
<1>1. GoodList /\ ControlTypeOK
  BY DEF BaseInv, ControlInv
<1>2. QED
  BY <1>1, ListDomain, ControlAssumptions
     DEF GoodList, GoodEntry, ControlTypeOK, OptionsAssumption

LEMMA ClockForward ==
    ASSUME BaseInv, [Next]_vars
    PROVE  clock' \in Nat /\ clock' >= clock /\ Today' \in Nat /\ Today' >= Today
<1>1. clock \in Nat
  BY LogList
<1>2. clock' = clock \/ clock' = clock + 1
  BY DEF Next, Arrive, Receive, HandleStep, Handle, ReadSettings, SetCvarsValue, SetOptions,
         Filter, inet_ntoa, Lookup, Match, AddIPBan, Scan, Clearing, ClearBegin, ClearErase,
         ClearKeep, ClearEnd, Decide, get_banstatus, Return, Console, ListCommand, Listing,
         ClearCommand, Clear, RemoveIndexCommand, RemoveAddrCommand, FlagRemovedAddr,
         FlagRemoved, ServerActivate_Post, SetCvar, Pass, Tick, vars, recv_vars, control_vars
<1>3. QED
  BY <1>1, <1>2, DivMonotone, ReportAssumptions DEF Today

\* An address with a ban that lasts is found banned.
LEMMA BannedFound ==
    ASSUME BaseInv, ntoa \in Addr, NEW t, BannedSince(ntoa, t)
    PROVE  is_ipbanned(ntoa)
<1>1. PICK k \in DOMAIN ddosiplist :
         /\ ddosiplist[k].is_banned
         /\ \/ ddosiplist[k].ip_address = ntoa
            \/ /\ ddosiplist[k].ip_address = Shared
               /\ \A j \in DOMAIN ddosiplist : ddosiplist[j].ip_address # ntoa
  BY DEF BannedSince
<1>2. TextOf(ddosiplist[k]) = ntoa
  BY <1>1 DEF TextOf
<1>3. ASSUME NEW j \in 1..(k - 1) PROVE TextOf(ddosiplist[j]) # ntoa
  <2>1. j \in DOMAIN ddosiplist /\ j < k
    BY LogList
  <2>2. ddosiplist[j].ip_address # ddosiplist[k].ip_address
    BY <2>1, LogList DEF OneEntryPerOwner
  <2>3. ddosiplist[j].ip_address # Shared
    BY <2>1, LogList DEF OneEntryPerOwner
  <2>4. QED
    BY <1>1, <2>1, <2>2, <2>3 DEF TextOf
<1>4. QED
  BY <1>1, <1>2, <1>3 DEF is_ipbanned, IsEntryOf

\* Replacing an entry keeps the owners.
LEMMA ReplacedBan ==
    ASSUME NEW k \in DOMAIN ddosiplist, NEW e, Replaced(k, e),
           e.ip_address = ddosiplist[k].ip_address,
           ~ddosiplist[k].is_banned, NEW a, NEW t, BannedSince(a, t)
    PROVE  BannedSince(a, t)'
BY DEF BannedSince, Replaced

\* A ban lasts until its time is over.
LEMMA BanLasts ==
    ASSUME BaseInv, EntriesPlain, NothingRemoved, [Next]_vars,
           NEW a \in Addr, NEW t \in Nat, BannedSince(a, t)
    PROVE  BanOver(t, clock) \/ BannedSince(a, t)'
<1>1. CASE UNCHANGED ddosiplist
  BY <1>1 DEF BannedSince
<1>2. ASSUME NEW k \in DOMAIN ddosiplist, Renews(k) \/ Floods(k) \/ Counts(k)
      PROVE  BannedSince(a, t)'
  <2>1. ddosiplist[k] \in Entry
    BY LogList
  <2>2. CASE Renews(k)
    <3>1. Replaced(k, RenewedBan(ddosiplist[k])) /\ ~ddosiplist[k].is_banned
      BY <2>2 DEF Renews
    <3>2. QED
      BY <2>1, <3>1, RenewedFields, ReplacedBan
  <2>3. CASE Floods(k)
    <3>1. Replaced(k, BannedEntry(ddosiplist[k])) /\ ~ddosiplist[k].is_banned
      BY <2>3 DEF Floods, Counted
    <3>2. QED
      BY <2>1, <3>1, BannedFields, ReplacedBan
  <2>4. CASE Counts(k)
    <3>1. Replaced(k, CountedEntry(ddosiplist[k], call.pkt)) /\ ~ddosiplist[k].is_banned
      BY <2>4 DEF Counts, Counted
    <3>2. QED
      BY <2>1, <3>1, CountedFields, ReplacedBan
  <2>5. QED
    BY <1>2, <2>2, <2>3, <2>4
<1>3. \A k \in DOMAIN ddosiplist : ~Removes(k)
  BY DEF Removes, NothingRemoved
<1>4. CASE Shares \/ Opens
  <2>1. Unlisted(ntoa) /\ \E e : Grown(e)
    BY <1>4 DEF Shares, Opens
  <2>2. PICK k \in DOMAIN ddosiplist :
           /\ ddosiplist[k].is_banned /\ ddosiplist[k].bannedtime >= t
           /\ \/ ddosiplist[k].ip_address = a
              \/ /\ ddosiplist[k].ip_address = Shared
                 /\ \A j \in DOMAIN ddosiplist : ddosiplist[j].ip_address # a
    BY DEF BannedSince
  <2>3. ddosiplist[k].ip_address = a
    BY <2>1, <2>2 DEF Unlisted, TextOf
  <2>4. k \in DOMAIN ddosiplist' /\ ddosiplist'[k] = ddosiplist[k]
    BY <2>1, LogList DEF Grown
  <2>5. QED
    BY <2>2, <2>3, <2>4 DEF BannedSince
<1>5. CASE Erases
  <2>1. PICK k \in DOMAIN ddosiplist :
           /\ ddosiplist[k].is_banned /\ ddosiplist[k].bannedtime >= t
           /\ \/ ddosiplist[k].ip_address = a
              \/ /\ ddosiplist[k].ip_address = Shared
                 /\ \A j \in DOMAIN ddosiplist : ddosiplist[j].ip_address # a
    BY DEF BannedSince
  <2>2. CASE k = sweep
    <3>1. Expired(ddosiplist[k]) /\ ~ddosiplist[k].flagged_removed
      BY <1>5, <2>2 DEF Erases, ClearErase, EntriesPlain
    <3>2. sweepnow - ddosiplist[k].bannedtime >= opts.e_ban_suresi
      BY <2>1, <3>1 DEF Expired
    <3>3. /\ sweepnow \in Nat /\ sweepnow <= clock /\ clock \in Nat
          /\ opts \in Options /\ opts.e_ban_suresi \in Nat
          /\ ddosiplist[k].bannedtime \in Nat
      <4>1. sweepnow \in Nat /\ sweepnow <= clock
        BY DEF BaseInv, ControlInv, ControlTypeOK, TimesPast
      <4>2. ddosiplist[k].bannedtime \in Nat
        BY <2>1, LogList DEF Entry, ReadSafe
      <4>3. QED
        BY <4>1, <4>2, LogList
    <3>4. clock - t >= opts.e_ban_suresi
      BY <2>1, <3>2, <3>3
    <3>5. QED
      BY <3>3, <3>4 DEF BanOver
  <2>3. CASE k # sweep
    <3>1. sweep \in DOMAIN ddosiplist /\ Shrunk(sweep)
      BY <1>5 DEF Erases
    <3>2. PICK n \in DOMAIN ddosiplist' : ddosiplist'[n] = ddosiplist[k]
      <4>1. CASE k < sweep
        <5>1. k \in DOMAIN ddosiplist' /\ ddosiplist'[k] = ddosiplist[k]
          BY <3>1, <4>1, LogList DEF Shrunk
        <5>2. QED
          BY <5>1
      <4>2. CASE k > sweep
        <5>1. k - 1 \in DOMAIN ddosiplist' /\ ddosiplist'[k - 1] = ddosiplist[k]
          BY <3>1, <4>2, LogList DEF Shrunk
        <5>2. QED
          BY <5>1
      <4>3. QED
        BY <2>3, <3>1, <4>1, <4>2, LogList
    <3>3. \A j \in DOMAIN ddosiplist' : \E i \in DOMAIN ddosiplist :
             ddosiplist'[j] = ddosiplist[i]
      <4> SUFFICES ASSUME NEW j \in DOMAIN ddosiplist'
                   PROVE  \E i \in DOMAIN ddosiplist : ddosiplist'[j] = ddosiplist[i]
        OBVIOUS
      <4>1. CASE j < sweep
        <5>1. j \in DOMAIN ddosiplist /\ ddosiplist'[j] = ddosiplist[j]
          BY <3>1, <4>1, LogList DEF Shrunk
        <5>2. QED
          BY <5>1
      <4>2. CASE ~(j < sweep)
        <5>1. j + 1 \in DOMAIN ddosiplist /\ ddosiplist'[j] = ddosiplist[j + 1]
          BY <3>1, <4>2, LogList DEF Shrunk
        <5>2. QED
          BY <5>1
      <4>3. QED
        BY <4>1, <4>2
    <3>4. QED
      BY <2>1, <3>2, <3>3 DEF BannedSince
  <2>4. QED
    BY <2>2, <2>3
<1>6. QED
  BY <1>1, <1>2, <1>3, <1>4, <1>5, ListChange, LogList DEF BaseInv

\* A ban is dated with the time it was made at, and answers for its address.
LEMMA NewBan ==
    ASSUME BaseInv, EntriesPlain, NEW a \in Addr, a = ntoa, NEW t \in Nat, t <= clock,
           Shares \/ \E k \in DOMAIN ddosiplist : Renews(k) \/ Floods(k)
    PROVE  BannedSince(a, t)'
<1>1. CASE Shares
  <2> DEFINE n == Len(ddosiplist) + 1
  <2>1. /\ Grown(SharedBan) /\ Unlisted(ntoa)
        /\ n \in DOMAIN ddosiplist' /\ ddosiplist'[n] = SharedBan
    BY <1>1, LogList DEF Shares, Grown
  <2>2. SharedBan.is_banned /\ SharedBan.bannedtime = clock /\ SharedBan.ip_address = Shared
    BY DEF SharedBan
  <2>3. \A j \in DOMAIN ddosiplist : ddosiplist[j].ip_address # a
    BY <2>1, ControlAssumptions DEF Unlisted, TextOf
  <2>4. \A j \in DOMAIN ddosiplist' : ddosiplist'[j].ip_address # a
    BY <2>1, <2>2, <2>3, ControlAssumptions DEF Grown
  <2>5. QED
    BY <2>1, <2>2, <2>4, LogList DEF BannedSince
<1>2. ASSUME NEW k \in DOMAIN ddosiplist, Renews(k) \/ Floods(k)
      PROVE  BannedSince(a, t)'
  <2>1. ddosiplist[k] \in Entry /\ IsEntryOf(k, ntoa) /\ ~ddosiplist[k].is_banned
    BY <1>2, LogList DEF Renews, Floods, Counted
  <2>2. ddosiplist[k].ip_address = a
    BY <2>1 DEF EntriesPlain, IsEntryOf, TextOf
  <2>3. PICK e : Replaced(k, e) /\ e.is_banned /\ e.bannedtime = clock /\ e.ip_address = a
    <3>1. CASE Renews(k)
      <4>1. Replaced(k, RenewedBan(ddosiplist[k]))
        BY <3>1 DEF Renews
      <4>2. QED
        BY <2>1, <2>2, <4>1, RenewedFields
    <3>2. CASE Floods(k)
      <4>1. Replaced(k, BannedEntry(ddosiplist[k]))
        BY <3>2 DEF Floods
      <4>2. QED
        BY <2>1, <2>2, <4>1, BannedFields
    <3>3. QED
      BY <1>2, <3>1, <3>2
  <2>4. k \in DOMAIN ddosiplist' /\ ddosiplist'[k] = e
    BY <2>3 DEF Replaced
  <2>5. QED
    BY <2>3, <2>4, LogList DEF BannedSince
<1>3. QED
  BY <1>1, <1>2

LEMMA PlainStep ==
    ASSUME BaseInv, EntriesPlain, [Next]_vars
    PROVE  EntriesPlain'
<1> SUFFICES ASSUME NEW n \in DOMAIN ddosiplist'
             PROVE  /\ ddosiplist'[n].ip_address = Shared => ddosiplist'[n].is_banned
                    /\ NothingRemoved => ~ddosiplist'[n].flagged_removed
  BY DEF EntriesPlain
<1> DEFINE Plain(e) == /\ e.ip_address = Shared => e.is_banned
                       /\ NothingRemoved => ~e.flagged_removed
<1>1. \A j \in DOMAIN ddosiplist : Plain(ddosiplist[j])
  BY DEF EntriesPlain
<1>2. CASE UNCHANGED ddosiplist
  BY <1>1, <1>2
<1>3. CASE Erases
  <2>1. PICK i \in DOMAIN ddosiplist : ddosiplist'[n] = ddosiplist[i]
    BY <1>3, LogList, ErasedFrom
  <2>2. QED
    BY <1>1, <2>1
<1>4. ASSUME NEW e, Grown(e), Plain(e) PROVE Plain(ddosiplist'[n])
  BY <1>1, <1>4, LogList DEF Grown
<1>5. CASE Shares
  <2>1. Plain(SharedBan)
    BY DEF SharedBan
  <2>2. QED
    BY <1>4, <1>5, <2>1 DEF Shares
<1>6. CASE Opens
  <2>1. ntoa \in Addr
    BY <1>6 DEF Opens, Judging, Decide, BaseInv, PluginInv, SenderSpelled, InCall
  <2>2. Plain(NewEntry(call.pkt))
    BY <2>1, ControlAssumptions DEF NewEntry
  <2>3. QED
    BY <1>4, <1>6, <2>2 DEF Opens
<1>7. ASSUME NEW k \in DOMAIN ddosiplist, NEW e, Replaced(k, e), Plain(e)
      PROVE  Plain(ddosiplist'[n])
  BY <1>1, <1>7 DEF Replaced
<1>8. ASSUME NEW k \in DOMAIN ddosiplist, Renews(k) \/ Floods(k) \/ Counts(k) \/ Removes(k)
      PROVE  Plain(ddosiplist'[n])
  <2>1. ddosiplist[k] \in Entry /\ Plain(ddosiplist[k])
    BY <1>1, LogList
  <2>2. CASE Renews(k)
    <3>1. Replaced(k, RenewedBan(ddosiplist[k]))
      BY <2>2 DEF Renews
    <3>2. QED
      BY <1>7, <2>1, <3>1, RenewedFields
  <2>3. CASE Floods(k)
    <3>1. Replaced(k, BannedEntry(ddosiplist[k]))
      BY <2>3 DEF Floods
    <3>2. QED
      BY <1>7, <2>1, <3>1, BannedFields
  <2>4. CASE Counts(k)
    <3>1. Replaced(k, CountedEntry(ddosiplist[k], call.pkt))
      BY <2>4 DEF Counts
    <3>2. QED
      BY <1>7, <2>1, <3>1, CountedFields
  <2>5. CASE Removes(k)
    <3> DEFINE e == [ddosiplist[k] EXCEPT !.flagged_removed = TRUE]
    <3>1. Replaced(k, e) /\ ~NothingRemoved
      BY <2>5 DEF Removes, NothingRemoved
    <3>2. e.ip_address = ddosiplist[k].ip_address /\ e.is_banned = ddosiplist[k].is_banned
      BY <2>1, FlaggedFields
    <3> HIDE DEF e
    <3>3. QED
      BY <1>7, <2>1, <3>1, <3>2
  <2>6. QED
    BY <1>8, <2>2, <2>3, <2>4, <2>5
<1>9. QED
  BY <1>2, <1>3, <1>5, <1>6, <1>8, ListChange, LogList DEF BaseInv

-----------------------------------------------------------------------------
(* The lines from one step to the next.                                    *)

\* What a step does to the call that may be reported.
LEMMA CallStep ==
    ASSUME BaseInv, WriterOpen, [Next]_vars, pc' \in Reporting
    PROVE  /\ call'.now <= clock'
           /\ \/ /\ Lookup /\ ntoa = call.addr /\ ntoa \in Addr
                 /\ call'.addr = ntoa /\ call'.now = clock /\ UNCHANGED clock
                 /\ call'.ipbanned = is_ipbanned(ntoa)
              \/ /\ pc \in Reporting
                 /\ call'.now = call.now /\ call'.addr = call.addr
                 /\ MayReport' => MayReport
<1>0. /\ clock \in Nat /\ clock' >= clock /\ clock' \in Nat
      /\ call \in Call /\ call.now \in Nat /\ (pc \in Reporting => call.now <= clock)
  BY ClockForward, LogList DEF WriterOpen, BaseInv, PluginInv, TypeOK, RecvTypeOK, Call
<1>1. CASE Lookup
  <2>1. /\ call'.now = clock /\ call'.addr = call.addr
        /\ call'.ipbanned = is_ipbanned(ntoa)
    BY <1>0, <1>1 DEF Lookup, Call
  <2>2. ntoa = call.addr /\ ntoa \in Addr /\ UNCHANGED clock
    BY <1>1 DEF Lookup, BaseInv, PluginInv, SenderSpelled, InCall, control_vars
  <2>3. QED
    BY <1>0, <1>1, <2>1, <2>2
<1>2. CASE Match
  <2>1. /\ call'.now = call.now /\ call'.addr = call.addr /\ call'.ipbanned = call.ipbanned
        /\ pc = "match"
    BY <1>0, <1>2 DEF Match, Call
  <2>2. QED
    BY <1>0, <2>1 DEF MayReport, Reporting
<1>3. CASE /\ UNCHANGED call /\ pc \in Reporting
           /\ pc' = pc \/ pc' = "stopped" \/ (pc \in {"scan", "clearing"} /\ pc' # "match")
  <2>1. call'.now = call.now /\ call'.addr = call.addr /\ call'.now <= clock'
    BY <1>0, <1>3
  <2>2. CASE pc' = pc
    BY <1>3, <2>1, <2>2 DEF MayReport
  <2>3. CASE pc' = "stopped"
    BY <1>3, <2>1, <2>3 DEF MayReport
  <2>4. CASE pc \in {"scan", "clearing"} /\ pc' # "match"
    BY <1>3, <2>1, <2>4 DEF MayReport, Reporting
  <2>5. QED
    BY <1>3, <2>2, <2>3, <2>4
<1>4. \/ Lookup \/ Match
      \/ /\ UNCHANGED call /\ pc \in Reporting
         /\ pc' = pc \/ pc' = "stopped" \/ (pc \in {"scan", "clearing"} /\ pc' # "match")
  BY DEF Next, Arrive, Receive, HandleStep, Handle, ReadSettings, Filter, Scan, Clearing,
         Decide, Return, Console, ListCommand, Listing, ClearCommand, RemoveIndexCommand,
         RemoveAddrCommand, Elsewhere, ServerActivate_Post, SetCvar, Pass, vars, recv_vars,
         Reporting
<1>5. QED
  BY <1>1, <1>2, <1>3, <1>4

\* What was good of a line stays good.
LEMMA LineStays ==
    ASSUME LogInv, [Next]_vars, NEW l \in LogLine, LineGood(l),
           \/ UNCHANGED son_banned_packtime
           \/ pc = "match" /\ son_banned_packtime' = call.now
    PROVE  LineGood(l)'
<1>1. /\ BaseInv /\ WriterOpen /\ EntriesPlain
      /\ l.time \in Nat /\ l.about \in Addr
  BY DEF LogInv, LogLine
<1>2. clock \in Nat /\ clock' \in Nat /\ clock' >= clock
  BY <1>1, ClockForward, LogList
<1>3. l.time <= clock'
  BY <1>1, <1>2 DEF LineGood
<1>4. pc' \in Reporting => l.time <= call'.now
  <2>1. CASE pc' \in Reporting
    BY <1>1, <2>1, CallStep DEF LineGood
  <2>2. QED
    BY <2>1
<1>5. l.kind \in {"ban", "block"} => l.time <= son_banned_packtime'
  BY DEF LineGood, Reporting
<1>6. ASSUME NothingRemoved, l.kind \in {"ban", "doubt"}
      PROVE  /\ BanOver(l.time, clock') \/ BannedSince(l.about, l.time)'
             /\ MayReport' /\ call'.addr = l.about => BanOver(l.time, call'.now)
  <2>1. BanOver(l.time, clock) => BanOver(l.time, clock')
    BY <1>1, <1>2, LogList DEF BanOver
  <2>2. BanOver(l.time, clock') \/ BannedSince(l.about, l.time)'
    BY <1>1, <1>6, <2>1, BanLasts DEF LineGood
  <2>3. ASSUME MayReport', call'.addr = l.about
        PROVE  BanOver(l.time, call'.now)
    <3>1. pc' \in Reporting /\ ~call'.ipbanned
      BY <2>3 DEF MayReport, Reporting
    <3>2. CASE /\ ntoa \in Addr /\ call'.addr = ntoa /\ call'.now = clock
               /\ call'.ipbanned = is_ipbanned(ntoa)
      <4>1. ~BannedSince(l.about, l.time)
        BY <1>1, <2>3, <3>1, <3>2, BannedFound
      <4>2. QED
        BY <1>6, <3>2, <4>1 DEF LineGood
    <3>3. CASE call'.now = call.now /\ call'.addr = call.addr /\ MayReport
      BY <1>6, <2>3, <3>3 DEF LineGood
    <3>4. QED
      BY <1>1, <2>3, <3>1, <3>2, <3>3, CallStep
  <2>4. QED
    BY <2>2, <2>3
<1>7. QED
  BY <1>3, <1>4, <1>5, <1>6 DEF LineGood, BanOver

\* A ban that is reported has just been made.
LEMMA ReportedBan ==
    ASSUME LogInv, [Next]_vars, NEW a, a = call.addr, NEW t, t = call.now,
           \/ Match /\ BannedMatch /\ cvarvalue.banpacketip
           \/ Decide /\ Flooded
    PROVE  BannedSince(a, t)'
<1>1. /\ BaseInv /\ PluginInv /\ GoodList /\ opts \in Options /\ EntriesPlain
      /\ ntoa = call.addr /\ ntoa \in Addr
      /\ call.now \in Nat /\ call.now <= clock
  BY LogList
     DEF LogInv, BaseInv, PluginInv, SenderSpelled, InCall, Match, Decide, WriterOpen, Reporting,
         TypeOK, RecvTypeOK, Call
<1>2. Shares \/ \E k \in DOMAIN ddosiplist : Renews(k) \/ Floods(k)
  <2>1. CASE Match /\ BannedMatch /\ cvarvalue.banpacketip
    <3>1. AddIPBan
      BY <2>1 DEF Match
    <3>2. ~is_ipbanned(ntoa)
      BY <1>1, <2>1 DEF PluginInv, BanRead, Match, BannedMatch
    <3>3. ASSUME NEW k \in DOMAIN ddosiplist, IsEntryOf(k, ntoa),
                 ddosiplist' = [ddosiplist EXCEPT ![k] = RenewedBan(@)]
          PROVE  ~UNCHANGED ddosiplist
      <4>1. ~ddosiplist[k].is_banned
        BY <3>2, <3>3 DEF is_ipbanned
      <4>2. ddosiplist'[k] = RenewedBan(ddosiplist[k])
        BY <3>3
      <4>3. ddosiplist[k] \in Entry
        BY <1>1, LogList
      <4>4. ddosiplist'[k].is_banned
        BY <4>2, <4>3, RenewedFields
      <4>5. QED
        BY <4>1, <4>4
    <3>4. ASSUME ddosiplist' = Append(ddosiplist, SharedBan)
          PROVE  ~UNCHANGED ddosiplist
      <4>1. ddosiplist \in Seq(GoodEntry) /\ SharedBan \in GoodEntry /\ Len(ddosiplist) \in Nat
        BY <1>1, LogList, SharedBanGood DEF GoodList
      <4>2. Len(ddosiplist') = Len(ddosiplist) + 1
        BY <3>4, <4>1, AppendProperties
      <4>3. QED
        BY <4>1, <4>2
    <3>5. QED
      BY <1>1, <2>1, <3>1, <3>3, <3>4, MatchChange DEF AddIPBan
  <2>2. CASE Decide /\ Flooded
    BY <1>1, <2>2, StoppedHow DEF Flooded, Decide
  <2>3. QED
    BY <2>1, <2>2
<1>3. QED
  BY <1>1, <1>2, NewBan

\* The steps that write a line.
Telling(l) ==
    /\ l \in LogLine /\ l.about = call.addr /\ l.time = call.now
    /\ \/ /\ l.kind = "ban" /\ Match /\ BannedMatch /\ cvarvalue.banpacketip
          /\ son_banned_packtime' = call.now
       \/ /\ l.kind = "block" /\ Match /\ BannedMatch
          /\ son_banned_packtime' = call.now /\ call.now - son_banned_packtime > QuietTime
       \/ l.kind = "doubt" /\ Decide /\ Flooded
       \/ l.kind = "packet" /\ pc = "stopped" /\ UNCHANGED vars

LEMMA TellingCall ==
    ASSUME LogInv, NEW l, Telling(l)
    PROVE  /\ pc \in Reporting /\ call.now \in Nat /\ call.now <= clock /\ clock \in Nat
           /\ l.about \in Addr /\ l.time \in Nat
           /\ UNCHANGED <<clock, call>> \/ (Match /\ BannedMatch /\ UNCHANGED clock)
<1>1. pc \in Reporting
  BY DEF Telling, Match, Decide, Reporting
<1>2. UNCHANGED <<clock, call>> \/ (Match /\ BannedMatch /\ UNCHANGED clock)
  BY DEF Telling, Match, AddIPBan, Decide, get_banstatus, vars, recv_vars, control_vars
<1>3. QED
  BY <1>1, <1>2, LogList DEF Telling, LogInv, WriterOpen, LogLine

\* A line is good when it is written.
LEMMA NewLine ==
    ASSUME LogInv, [Next]_vars, NEW l, Telling(l)
    PROVE  LineGood(l)'
<1>1. /\ pc \in Reporting /\ call.now \in Nat /\ call.now <= clock /\ l.time = call.now
      /\ call \in Call
  BY TellingCall DEF Telling, LogInv, BaseInv, PluginInv, TypeOK, RecvTypeOK
<1>2. clock' = clock /\ call'.now = call.now
  BY <1>1, TellingCall DEF Match, Call
<1>3. l.kind \in {"ban", "block"} => l.time <= son_banned_packtime'
  BY <1>1 DEF Telling
<1>4. CASE l.kind \notin {"ban", "doubt"}
  BY <1>1, <1>2, <1>3, <1>4 DEF LineGood
<1>5. CASE l.kind \in {"ban", "doubt"}
  <2>1. \/ Match /\ BannedMatch /\ cvarvalue.banpacketip
        \/ Decide /\ Flooded
    BY <1>5 DEF Telling
  <2>2. BannedSince(l.about, l.time)'
    BY <2>1, ReportedBan DEF Telling
  <2>3. ~MayReport'
    <3>1. CASE Match /\ BannedMatch
      <4>1. pc' = "scan" /\ call'.stopit
        BY <1>1, <3>1 DEF Match, Call
      <4>2. QED
        BY <4>1 DEF MayReport
    <3>2. CASE Flooded
      BY <3>2 DEF Flooded, MayReport
    <3>3. QED
      BY <2>1, <3>1, <3>2
  <2>4. QED
    BY <1>1, <1>2, <1>3, <2>2, <2>3 DEF LineGood
<1>6. QED
  BY <1>4, <1>5

\* A new line is in order with every line there is.
LEMMA NewInOrder ==
    ASSUME LogInv, NEW l, Telling(l), NEW m \in LogLine, LineGood(m)
    PROVE  InOrder(m, l)
<1>1. pc \in Reporting /\ call.now \in Nat /\ m.time \in Nat
  BY TellingCall DEF LogLine
<1>2. m.time <= call.now
  BY <1>1 DEF LineGood
<1>3. l.kind # "packet" => MayReport
  BY DEF Telling, MayReport, Match, BannedMatch, Decide, Flooded, Reporting
<1>4. ASSUME m.kind \in {"ban", "block"}, l.kind = "block"
      PROVE  call.now - m.time > QuietTime
  <2>1. m.time <= son_banned_packtime /\ call.now - son_banned_packtime > QuietTime
    BY <1>4 DEF LineGood, Telling
  <2>2. son_banned_packtime \in Int /\ QuietTime \in Nat
    BY ReportAssumptions DEF LogInv, WriterOpen
  <2>3. QED
    BY <1>1, <2>1, <2>2
<1>5. QED
  BY <1>2, <1>3, <1>4 DEF InOrder, LineGood, Telling

\* The lines are those of the type.
LEMMA LineTypes ==
    ASSUME WriterOpen, NEW p \in Places
    PROVE  LineAt(p) \in LogLine /\ LineAt(p) \in Lines /\ p[1] \in 0..MaxDay
<1>1. p[1] \in 0..MaxDay /\ p[2] \in DOMAIN files[p[1]]
  BY PlacesFacts DEF Places
<1>2. files[p[1]] \in Seq(LogLine)
  BY <1>1 DEF WriterOpen
<1>3. files[p[1]][p[2]] \in LogLine
  BY <1>1, <1>2, ElementOfSeq, LenProperties
<1>4. QED
  BY <1>1, <1>3 DEF LineAt, Lines

-----------------------------------------------------------------------------
(* Every step keeps the invariant.                                         *)

LEMMA LogStep == LogInv /\ [ReportNext]_report_vars => LogInv'
<1> SUFFICES ASSUME LogInv, [ReportNext]_report_vars PROVE LogInv'
  OBVIOUS
<1>1. BaseInv /\ WriterOpen /\ EntriesPlain /\ PlacesGood /\ \A l \in Lines : LineGood(l)
  BY DEF LogInv
<1>2. [Next]_vars
  BY <1>1, ReportChange
<1>3. BaseInv' /\ EntriesPlain'
  BY <1>1, <1>2, BaseNext, PlainStep
<1>4. /\ clock \in Nat /\ clock' \in Nat /\ clock' >= clock
      /\ Today \in Nat /\ Today' \in Nat /\ Today' >= Today
  BY <1>1, <1>2, ClockForward, LogList, DivMonotone, ReportAssumptions DEF Today
<1>5. \/ UNCHANGED files
      \/ \E l : Telling(l) /\ Writes(l)
  <2>1. CASE Match /\ BannedMatch /\ cvarvalue.banpacketip /\ son_banned_packtime' = call.now
             /\ Writes(Line("ban"))
    <3>1. Telling(Line("ban"))
      BY <1>1, <2>1, LineType DEF Telling, Match, InCall
    <3>2. QED
      BY <2>1, <3>1
  <2>2. CASE Match /\ BannedMatch /\ son_banned_packtime' = call.now
             /\ Writes(Line("block")) /\ call.now - son_banned_packtime > QuietTime
    <3>1. Telling(Line("block"))
      BY <1>1, <2>2, LineType DEF Telling, Match, InCall
    <3>2. QED
      BY <2>2, <3>1
  <2>3. CASE Decide /\ Flooded /\ Writes(Line("doubt"))
    <3>1. Telling(Line("doubt"))
      BY <1>1, <2>3, LineType DEF Telling, Decide, InCall
    <3>2. QED
      BY <2>3, <3>1
  <2>4. CASE pc = "stopped" /\ UNCHANGED vars /\ Writes(Line("packet"))
    <3>1. Telling(Line("packet"))
      BY <1>1, <2>4, LineType DEF Telling, InCall
    <3>2. QED
      BY <2>4, <3>1
  <2>5. QED
    BY <1>1, <2>1, <2>2, <2>3, <2>4, ReportChange
<1>6. UNCHANGED son_banned_packtime \/ (pc = "match" /\ son_banned_packtime' = call.now)
  BY <1>1, ReportChange DEF Match
<1>7. ASSUME NEW l \in Lines PROVE LineGood(l)' /\ l \in LogLine
  <2>1. l \in LogLine
    BY <1>1, <1>7, LineTypes DEF Lines
  <2>2. QED
    BY <1>1, <1>2, <1>6, <1>7, <2>1, LineStays
<1>8. ASSUME files' \in [0..MaxDay -> Seq(LogLine)] PROVE WriterOpen'
  <2>1. /\ log_writer' = "open"
        /\ logfile' # Null => \E d \in Nat : lognamestr' = FileName(d)
    BY <1>1, ReportChange
  <2>2. pc' \in Reporting => call'.now <= clock'
    BY <1>1, <1>2, CallStep
  <2>3. son_banned_packtime' \in Int
    <3>1. call.now \in Nat /\ son_banned_packtime \in Int
      BY <1>1 DEF BaseInv, PluginInv, TypeOK, RecvTypeOK, Call, WriterOpen
    <3>2. QED
      BY <1>6, <3>1
  <2>4. QED
    BY <1>8, <2>1, <2>2, <2>3 DEF WriterOpen
<1>9. CASE UNCHANGED files
  <2>1. Places' = Places /\ Lines' = Lines
    BY <1>9 DEF Places, Lines, LineAt
  <2>2. WriterOpen'
    BY <1>1, <1>8, <1>9 DEF WriterOpen
  <2>3. \A l \in Lines' : LineGood(l)'
    BY <1>7, <2>1
  <2>4. PlacesGood'
    <3>1. ASSUME NEW p \in Places
          PROVE  p[1] <= Today' /\ LineAt(p)' = LineAt(p)
      <4>1. p[1] \in 0..MaxDay
        BY <1>1, LineTypes
      <4>2. p[1] <= Today
        BY <1>1 DEF PlacesGood
      <4>3. QED
        BY <1>4, <1>9, <4>1, <4>2 DEF LineAt
    <3>2. QED
      BY <1>1, <2>1, <3>1 DEF PlacesGood, InOrder
  <2>5. QED
    BY <1>3, <2>2, <2>3, <2>4 DEF LogInv
<1>10. ASSUME NEW l, Telling(l), Writes(l) PROVE LogInv'
  <2>1. l \in LogLine /\ \A p \in Places : p[1] <= Today
    BY <1>1, <1>10 DEF Telling, PlacesGood
  <2>2. /\ files' \in [0..MaxDay -> Seq(LogLine)]
        /\ \A p \in Places' :
              \/ p \in Places /\ LineAt(p)' = LineAt(p)
              \/ p[1] = Today /\ LineAt(p)' = l
        /\ \A p, q \in Places' :
              Before(p, q) => p \in Places /\ LineAt(p)' = LineAt(p)
    BY <1>1, <1>10, <2>1, WrittenPlaces
  <2>3. WriterOpen'
    BY <1>8, <2>2
  <2>4. \A m \in Lines' : LineGood(m)'
    <3>1. LineGood(l)'
      BY <1>2, <1>10, NewLine
    <3>2. \A m \in Lines' : m = l \/ m \in Lines
      BY <1>1, <2>2, LineTypes DEF Lines
    <3>3. QED
      BY <1>7, <3>1, <3>2
  <2>5. PlacesGood'
    <3>1. ASSUME NEW p \in Places'
          PROVE  p[1] <= Today' /\ LineAt(p)'.time \div DayLength <= p[1]
      <4>1. CASE p \in Places /\ LineAt(p)' = LineAt(p)
        <5>1. p[1] \in 0..MaxDay
          BY <1>1, <4>1, LineTypes
        <5>2. p[1] <= Today /\ LineAt(p).time \div DayLength <= p[1]
          BY <1>1, <4>1 DEF PlacesGood
        <5>3. QED
          BY <1>4, <4>1, <5>1, <5>2
      <4>2. CASE p[1] = Today /\ LineAt(p)' = l
        <5>1. l.time \in Nat /\ l.time <= clock
          BY <1>10, TellingCall DEF Telling
        <5>2. l.time \div DayLength <= Today
          BY <1>4, <5>1, DivMonotone, ReportAssumptions DEF Today
        <5>3. QED
          BY <1>4, <4>2, <5>2
      <4>3. QED
        BY <2>2, <4>1, <4>2
    <3>2. ASSUME NEW p \in Places', NEW q \in Places', Before(p, q)
          PROVE  InOrder(LineAt(p)', LineAt(q)')
      <4>1. p \in Places /\ LineAt(p)' = LineAt(p)
        BY <2>2, <3>2
      <4>2. CASE q \in Places /\ LineAt(q)' = LineAt(q)
        BY <1>1, <3>2, <4>1, <4>2 DEF PlacesGood
      <4>3. CASE LineAt(q)' = l
        <5>1. \A m \in Lines : InOrder(m, l)
          BY <1>1, <1>7, <1>10, NewInOrder
        <5>2. QED
          BY <1>1, <4>1, <4>3, <5>1, LineTypes
      <4>4. QED
        BY <2>2, <4>2, <4>3
    <3>3. QED
      BY <3>1, <3>2 DEF PlacesGood, InOrder
  <2>6. QED
    BY <1>3, <2>3, <2>4, <2>5 DEF LogInv
<1>11. QED
  BY <1>5, <1>9, <1>10

-----------------------------------------------------------------------------
(* The theorems.                                                           *)

\* The invariant: what every line of the log says of the state it was written
\* in and of the lines that follow it (main.cpp:291-326, 343-402,
\* logwriter.cpp:56-90).
THEOREM LogInvariant == ReportSpec => []LogInv
BY LogInitInv, LogStep, PTL DEF ReportSpec

\* The log can be read from one day's file to the next, whatever the length of
\* a day and wherever midnight falls in a call: OnRecvFrom reads the time of a
\* line before it judges, the writer the day after (main.cpp:294,
\* logwriter.cpp:61).
THEOREM LogInOrder == ReportSpec => []LogOrdered
<1>1. LogInv => LogOrdered
  BY DEF LogInv, PlacesGood, InOrder, LogOrdered
<1>2. QED
  BY <1>1, LogInvariant, PTL

\* Reports of packets whose senders are not banned are more than a quiet time
\* apart, whoever sends them, and from the last ban of a banned packet
\* (main.cpp:303-304, 324).
THEOREM AnnouncedApart == ReportSpec => []QuietBetween
<1>1. LogInv => QuietBetween
  BY DEF LogInv, PlacesGood, InOrder, QuietBetween
<1>2. QED
  BY <1>1, LogInvariant, PTL

\* Without an operator who removes entries, a banned address is reported again
\* a ban time later at the earliest, for every length of the attack: while the
\* entry lasts, the lookup finds it and no report is made (main.cpp:291-295,
\* 343-350).
THEOREM BannedOnce ==
    ASSUME NothingRemoved
    PROVE  ReportSpec => []OneLinePerBan
<1>1. LogInv => OneLinePerBan
  BY DEF LogInv, PlacesGood, InOrder, BanOver, OneLinePerBan
<1>2. QED
  BY <1>1, LogInvariant, PTL
=============================================================================
