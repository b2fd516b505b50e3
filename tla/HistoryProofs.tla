---------------------------- MODULE HistoryProofs ----------------------------
(* Theorems about what the plugin has done so far: with the variables of   *)
(* History, and with the operator's memory of ListIndex.                   *)
EXTENDS History, ListIndex, ItSavarProofs

-----------------------------------------------------------------------------
(* What a step does to the call, the settings and the clock.               *)

\* A call whose packet has not been judged yet.
Unjudged == InCall \ {"delivered", "stopped"}

LEMMA CallChange ==
    ASSUME PluginInv, [Next]_vars
    PROVE  \/ /\ pc = "idle" /\ pc' = "settings" /\ UNCHANGED <<config, ddosiplist>>
              /\ call'.addr \in Addr /\ ~call'.ipbanned
           \/ /\ pc \in Unjudged /\ pc' \in InCall \ {"settings"}
              /\ call'.addr = call.addr /\ call'.pkt = call.pkt
              /\ call'.ipbanned \in {call.ipbanned, is_ipbanned(ntoa)}
              /\ is_ipbanned(ntoa) /\ call'.ipbanned # call.ipbanned => ntoa = call.addr
              /\ UNCHANGED config
           \/ UNCHANGED <<pc, call, config>>
           \/ pc' \in {"idle", "listing"}
<1> USE DEF InCall, Unjudged
<1>1. CASE Arrive
  <2>1. PICK a \in Addr, p \in Packet \union {Empty} : Receive(a, p)
    BY <1>1 DEF Arrive
  <2>2. call'.addr = a /\ ~call'.ipbanned
    BY <2>1 DEF Receive, NoCall
  <2>3. QED
    BY <2>1, <2>2 DEF Receive, UNCHANGED_env, control_vars
<1>2. CASE HandleStep
  <2>1. CASE Lookup
    <3>1. /\ call'.addr = call.addr /\ call'.pkt = call.pkt
          /\ call'.ipbanned = is_ipbanned(ntoa)
      BY <2>1 DEF Lookup, PluginInv, TypeOK, RecvTypeOK, Call
    <3>2. ntoa = call.addr
      BY <2>1 DEF Lookup, PluginInv, SenderSpelled
    <3>3. QED
      BY <2>1, <3>1, <3>2 DEF Lookup, UNCHANGED_env
  <2>2. CASE Match
    <3>1. /\ call'.addr = call.addr /\ call'.pkt = call.pkt
          /\ call'.ipbanned = call.ipbanned
      BY <2>2 DEF Match, PluginInv, TypeOK, RecvTypeOK, Call
    <3>2. QED
      BY <2>2, <3>1 DEF Match, UNCHANGED_env
  <2>3. CASE ReadSettings \/ Filter \/ Scan \/ Clearing
    BY <2>3 DEF ReadSettings, Filter, Scan, Clearing, UNCHANGED_env
  <2>4. CASE Decide
    BY <2>4 DEF Decide, UNCHANGED_env
  <2>5. CASE Return
    BY <2>5 DEF Return
  <2>6. QED
    BY <1>2, <2>1, <2>2, <2>3, <2>4, <2>5 DEF HandleStep, Handle
<1>3. CASE Console
  BY <1>3
     DEF Console, ListCommand, Listing, ClearCommand, RemoveIndexCommand, RemoveAddrCommand,
         Elsewhere
<1>4. CASE ServerActivate_Post \/ SetCvar \/ Pass \/ UNCHANGED vars
  BY <1>4 DEF ServerActivate_Post, SetCvar, Pass, vars, recv_vars
<1>5. QED
  BY <1>1, <1>2, <1>3, <1>4 DEF Next

\* Only ReadSettings changes the settings in force, only a map start and the
\* operator the server variables, and the clock goes forward.
LEMMA SettingsChange ==
    ASSUME PluginInv, [Next]_vars
    PROVE  /\ \/ ReadSettings /\ UNCHANGED <<clock, cvars>>
              \/ UNCHANGED <<opts, settings_vars>> /\ ~(pc = "settings" /\ pc' = "filter")
           /\ clock' \in Nat /\ clock' >= clock
<1> USE DEF PluginInv
<1>1. CASE ReadSettings
  BY <1>1 DEF ReadSettings, SetCvarsValue, SetOptions, UNCHANGED_env, control_vars
<1>2. CASE Arrive
  BY <1>2 DEF Arrive, Receive, control_vars
<1>3. CASE Filter \/ Lookup \/ Scan \/ Clearing \/ Return
  BY <1>3
     DEF Filter, inet_ntoa, Lookup, Scan, ClearBegin, Clearing, ClearErase, ClearKeep,
         ClearEnd, Return, control_vars
<1>4. CASE Match
  BY <1>4 DEF Match, AddIPBan, control_vars
<1>5. CASE Decide
  BY <1>5 DEF Decide, get_banstatus, control_vars
<1>6. CASE Console
  BY <1>6
     DEF Console, ListCommand, ClearBegin, Listing, ClearErase, ClearKeep, ClearEnd,
         ClearCommand, Clear, RemoveIndexCommand, RemoveAddrCommand, FlagRemovedAddr,
         FlagRemoved, Elsewhere, control_vars
<1>7. CASE ServerActivate_Post \/ SetCvar
  BY <1>7 DEF ServerActivate_Post, SetCvar, control_vars
<1>8. CASE Pass
  BY <1>8 DEF Pass, Tick
<1>9. CASE UNCHANGED vars
  BY <1>9 DEF vars, recv_vars, control_vars
<1>10. QED
  BY <1>1, <1>2, <1>3, <1>4, <1>5, <1>6, <1>7, <1>8, <1>9 DEF Next, HandleStep, Handle

-----------------------------------------------------------------------------
(* The plugin's own invariants hold with the variables added.              *)

LEMMA HistoryBase == HistorySpec => []BaseInv
<1>1. HistoryInit => BaseInv
  BY BaseInit DEF HistoryInit
<1>2. BaseInv /\ [HistoryNext]_<<vars, history_vars>> => BaseInv'
  BY BaseNext DEF HistoryNext
<1>3. QED
  BY <1>1, <1>2, PTL DEF HistorySpec

LEMMA IndexBase == IndexSpec => []BaseInv
<1>1. IndexInit => BaseInv
  BY BaseInit DEF IndexInit
<1>2. BaseInv /\ [IndexNext]_<<vars, index_vars>> => BaseInv'
  BY BaseNext DEF IndexNext
<1>3. QED
  BY <1>1, <1>2, PTL DEF IndexSpec

-----------------------------------------------------------------------------
(* The settings in force.                                                  *)

\* They are those of the server variables, or older than the last change.
Copied == /\ opts = OptionsOf(cvars)
          /\ secure_type = SecureTypeOf(cvars)
          /\ cvarvalue = CvarvalueOf(cvars)

SettingsInv == /\ changed \in Nat /\ changed <= clock /\ lastTime <= clock
               /\ Copied \/ lastTime <= changed

LEMMA SettingsInit == HistoryInit => SettingsInv
BY DEF HistoryInit, Init, RecvInit, ControlInit, CvarsInit, SettingsInv, Copied

LEMMA SettingsStep ==
    ASSUME BaseInv, SettingsInv, [HistoryNext]_<<vars, history_vars>>
    PROVE  SettingsInv' /\ SettingsFreshStep
<1>1. /\ PluginInv /\ clock \in Nat /\ lastTime \in Nat /\ [Next]_vars
  BY DEF BaseInv, PluginInv, TypeOK, CvarsTypeOK, HistoryNext
<1>2. /\ changed' = IF cvars' # cvars THEN clock ELSE changed
  BY DEF HistoryNext, history_vars, vars, recv_vars
<1>3. clock' \in Nat /\ clock' >= clock
  BY <1>1, SettingsChange
<1>4. CASE ReadSettings /\ UNCHANGED <<clock, cvars>>
  <2>1. changed' = changed
    BY <1>2, <1>4
  <2>2. CASE Throttled /\ UNCHANGED <<opts, settings_vars>>
    <3>1. clock - lastTime <= 1
      BY <2>2 DEF Throttled
    <3>2. Copied => /\ opts' = OptionsOf(cvars) /\ secure_type' = SecureTypeOf(cvars)
                    /\ cvarvalue' = CvarvalueOf(cvars)
      BY <2>2 DEF Copied, settings_vars
    <3>3. SettingsInv'
      BY <1>1, <1>4, <2>1, <2>2, <3>2 DEF SettingsInv, Copied, settings_vars
    <3>4. SettingsFreshStep
      BY <1>1, <3>1, <3>2 DEF SettingsInv, SettingsFreshStep
    <3>5. QED
      BY <3>3, <3>4
  <2>3. CASE /\ opts' = OptionsOf(cvars) /\ secure_type' = SecureTypeOf(cvars)
             /\ cvarvalue' = CvarvalueOf(cvars) /\ lastTime' = clock
    BY <1>1, <1>4, <2>1, <2>3 DEF SettingsInv, Copied, SettingsFreshStep
  <2>4. QED
    BY <1>4, <2>2, <2>3 DEF ReadSettings, SetCvarsValue, SetOptions, control_vars
<1>5. CASE UNCHANGED <<opts, settings_vars>> /\ ~(pc = "settings" /\ pc' = "filter")
  <2>1. SettingsFreshStep
    BY <1>5 DEF SettingsFreshStep
  <2>2. SettingsInv'
    BY <1>1, <1>2, <1>3, <1>5 DEF SettingsInv, Copied, settings_vars
  <2>3. QED
    BY <2>1, <2>2
<1>6. QED
  BY <1>1, <1>4, <1>5, SettingsChange

-----------------------------------------------------------------------------
(* Who is on the list, and why, while senders of banned packets are not    *)
(* banned.                                                                 *)

SendersSpared == \A c \in CvarSettings : ~CvarvalueOf(c).banpacketip

\* No entry points at the buffer of inet_ntoa, and the owner of an entry sent
\* a packet that the plugin acts on.
SuspectInv ==
    /\ \A k \in DOMAIN ddosiplist :
          ddosiplist[k].ip_address # Shared /\ ddosiplist[k].ip_address \in suspects
    /\ pc \in InCall /\ call.pkt \in config.banned \union config.control
          => call.addr \in suspects

LEMMA SuspectsGrow ==
    ASSUME [HistoryNext]_<<vars, history_vars>>
    PROVE  suspects \subseteq suspects'
BY DEF HistoryNext, history_vars

LEMMA NoneShared ==
    ASSUME SendersSpared, PluginInv
    PROVE  ~Shares /\ \A k : ~Renews(k)
<1>1. ~cvarvalue.banpacketip
  BY DEF SendersSpared, PluginInv, TypeOK, CvarsTypeOK
<1>2. QED
  BY <1>1 DEF Shares, Renews

\* An entry that is replaced keeps its owner.
LEMMA ReplacedOwner ==
    ASSUME NEW k \in DOMAIN ddosiplist, ddosiplist[k] \in Entry,
           Renews(k) \/ Floods(k) \/ Counts(k) \/ Removes(k)
    PROVE  \E e : Replaced(k, e) /\ e.ip_address = ddosiplist[k].ip_address
<1>1. CASE Renews(k)
  <2>1. Replaced(k, RenewedBan(ddosiplist[k]))
    BY <1>1 DEF Renews
  <2>2. QED
    BY <2>1, RenewedFields
<1>2. CASE Floods(k)
  <2>1. Replaced(k, BannedEntry(ddosiplist[k]))
    BY <1>2 DEF Floods
  <2>2. QED
    BY <2>1, BannedFields
<1>3. CASE Counts(k)
  <2>1. Replaced(k, CountedEntry(ddosiplist[k], call.pkt))
    BY <1>3 DEF Counts
  <2>2. QED
    BY <2>1, CountedFields
<1>4. CASE Removes(k)
  <2>1. Replaced(k, [ddosiplist[k] EXCEPT !.flagged_removed = TRUE])
    BY <1>4 DEF Removes
  <2>2. QED
    BY <2>1, FlaggedFields
<1>5. QED
  BY <1>1, <1>2, <1>3, <1>4

\* An entry after a step has the owner of one before it, or is new.
LEMMA OwnersKept ==
    ASSUME BaseInv, [Next]_vars, NEW n \in DOMAIN ddosiplist'
    PROVE  \/ \E i \in DOMAIN ddosiplist :
                 ddosiplist'[n].ip_address = ddosiplist[i].ip_address
           \/ Shares
           \/ Opens /\ ddosiplist'[n] = NewEntry(call.pkt)
<1>1. PluginInv /\ GoodList /\ opts \in Options
  BY DEF BaseInv, ControlInv, ControlTypeOK
<1>2. /\ DOMAIN ddosiplist = 1..Len(ddosiplist) /\ Len(ddosiplist) \in Nat
      /\ \A k \in DOMAIN ddosiplist : ddosiplist[k] \in Entry
  BY <1>1, ListDomain DEF GoodEntry
<1>3. CASE UNCHANGED ddosiplist
  BY <1>3
<1>4. ASSUME NEW k \in DOMAIN ddosiplist, NEW e, Replaced(k, e),
             e.ip_address = ddosiplist[k].ip_address
      PROVE  \E i \in DOMAIN ddosiplist :
                ddosiplist'[n].ip_address = ddosiplist[i].ip_address
  <2>1. n \in DOMAIN ddosiplist /\ ddosiplist'[n].ip_address = ddosiplist[n].ip_address
    BY <1>4 DEF Replaced
  <2>2. QED
    BY <2>1
<1>5. ASSUME NEW k \in DOMAIN ddosiplist,
             Renews(k) \/ Floods(k) \/ Counts(k) \/ Removes(k)
      PROVE  \E e : Replaced(k, e) /\ e.ip_address = ddosiplist[k].ip_address
  BY <1>2, <1>5, ReplacedOwner
<1>6. CASE Opens
  BY <1>2, <1>6 DEF Opens, Grown
<1>7. CASE Erases
  BY <1>2, <1>7 DEF Erases, Shrunk
<1>8. QED
  BY <1>1, <1>3, <1>4, <1>5, <1>6, <1>7, ListChange

LEMMA SuspectStep ==
    ASSUME SendersSpared, BaseInv, SuspectInv, [HistoryNext]_<<vars, history_vars>>
    PROVE  SuspectInv'
<1>1. PluginInv /\ [Next]_vars
  BY DEF BaseInv, HistoryNext
<1>2. suspects \subseteq suspects'
  BY SuspectsGrow
<1>3. ASSUME NEW n \in DOMAIN ddosiplist'
      PROVE  ddosiplist'[n].ip_address # Shared /\ ddosiplist'[n].ip_address \in suspects'
  <2>1. CASE \E i \in DOMAIN ddosiplist :
                 ddosiplist'[n].ip_address = ddosiplist[i].ip_address
    BY <1>2, <2>1 DEF SuspectInv
  <2>2. CASE Opens /\ ddosiplist'[n] = NewEntry(call.pkt)
    <3>1. /\ pc = "decide" /\ call.pkt \in config.control
      BY <2>2 DEF Opens, Judging, Decide, Checked
    <3>2. call.addr \in suspects /\ ntoa = call.addr /\ ntoa \in Addr
      BY <1>1, <3>1 DEF SuspectInv, InCall, PluginInv, SenderSpelled
    <3>3. QED
      BY <1>2, <2>2, <3>2, ControlAssumptions DEF NewEntry
  <2>3. QED
    BY <1>1, <2>1, <2>2, OwnersKept, NoneShared DEF BaseInv
<1>4. ASSUME pc' \in InCall, call'.pkt \in config'.banned \union config'.control
      PROVE  call'.addr \in suspects'
  <2>1. CASE pc = "idle" /\ pc' = "settings" /\ UNCHANGED config
    BY <1>4, <2>1 DEF HistoryNext, vars, recv_vars
  <2>2. CASE /\ pc \in InCall /\ call'.addr = call.addr /\ call'.pkt = call.pkt
             /\ UNCHANGED config
    BY <1>2, <1>4, <2>2 DEF SuspectInv
  <2>3. CASE UNCHANGED <<pc, call, config>>
    BY <1>2, <1>4, <2>3 DEF SuspectInv
  <2>4. QED
    BY <1>1, <1>4, <2>1, <2>2, <2>3, CallChange DEF InCall, Unjudged
<1>5. QED
  BY <1>3, <1>4 DEF SuspectInv

-----------------------------------------------------------------------------
(* What was counted was sent.                                              *)

\* The counter of packets reaches one of the limits before it stops.
SentEnough == \E o \in Options : SentBound >= o.e_teksefer_limit \/ SentBound >= o.e_toplam_limit

Reached(a) == \E o \in Options : sent[a] >= o.e_teksefer_limit \/ sent[a] >= o.e_toplam_limit

\* The packet of the running call is sent, but not yet counted.
Uncounted(a) ==
    IF pc \in Unjudged /\ call.addr = a THEN 1 ELSE 0

SentInv ==
    /\ sent \in [Addr -> Nat]
    /\ \A a \in Addr : Reached(a) \/ Uncounted(a) <= sent[a]
    /\ \A k \in DOMAIN ddosiplist :
          \/ Reached(ddosiplist[k].ip_address)
          \/ /\ ~ddosiplist[k].is_banned
             /\ ddosiplist[k].total_ddoscount + Uncounted(ddosiplist[k].ip_address)
                    <= sent[ddosiplist[k].ip_address]
    /\ pc \in InCall /\ call.ipbanned => Reached(call.addr)
    /\ NoCollateral

\* What a step does to the counters: it raises none without counting the packet
\* of the call, and a limit that was reached stays reached.
LEMMA SentChange ==
    ASSUME BaseInv, SentEnough, sent \in [Addr -> Nat], [HistoryNext]_<<vars, history_vars>>
    PROVE  /\ sent' \in [Addr -> Nat]
           /\ \A a \in Addr : /\ sent'[a] >= sent[a]
                              /\ Reached(a) => Reached(a)'
                              /\ \/ Reached(a)'
                                 \/ Uncounted(a)' + sent[a] <= Uncounted(a) + sent'[a]
<1>1. PluginInv /\ [Next]_vars
  BY DEF BaseInv, HistoryNext
<1>2. \/ UNCHANGED sent
      \/ /\ pc = "idle" /\ pc' = "settings" /\ sent[call'.addr] < SentBound
         /\ sent' = [sent EXCEPT ![call'.addr] = @ + 1]
  BY DEF HistoryNext, history_vars
<1>3. sent' \in [Addr -> Nat] /\ \A a \in Addr : sent'[a] >= sent[a]
  BY <1>2
<1>4. ASSUME NEW a \in Addr, Reached(a)
      PROVE  Reached(a)'
  BY <1>3, <1>4, ControlAssumptions DEF Reached, OptionsAssumption
<1>5. ASSUME NEW a \in Addr
      PROVE  Reached(a)' \/ Uncounted(a)' + sent[a] <= Uncounted(a) + sent'[a]
  <2>1. CASE pc = "idle" /\ pc' = "settings"
    <3>1. Uncounted(a) = 0 /\ Uncounted(a)' = IF call'.addr = a THEN 1 ELSE 0
      BY <2>1 DEF Uncounted, Unjudged, InCall
    <3>2. CASE call'.addr = a /\ sent[a] < SentBound
      <4>1. sent'[a] = sent[a] + 1
        BY <2>1, <3>2, <1>1 DEF HistoryNext, vars, recv_vars
      <4>2. QED
        BY <3>1, <3>2, <4>1
    <3>3. CASE call'.addr = a /\ ~(sent[a] < SentBound)
      <4>1. sent'[a] >= SentBound
        BY <1>3, <3>3, SentAssumption
      <4>2. QED
        BY <1>3, <4>1, SentAssumption, ControlAssumptions
           DEF SentEnough, Reached, OptionsAssumption
    <3>4. CASE call'.addr # a
      BY <1>3, <3>1, <3>4
    <3>5. QED
      BY <3>2, <3>3, <3>4
  <2>2. CASE ~(pc = "idle" /\ pc' = "settings")
    <3>1. Uncounted(a)' <= Uncounted(a) /\ Uncounted(a) \in 0..1 /\ Uncounted(a)' \in 0..1
      <4>1. pc' \in Unjudged => pc \in Unjudged /\ call'.addr = call.addr
        BY <1>1, <2>2, CallChange DEF Unjudged, InCall
      <4>2. QED
        BY <4>1 DEF Uncounted
    <3>2. QED
      BY <1>3, <3>1
  <2>3. QED
    BY <2>1, <2>2
<1>6. QED
  BY <1>3, <1>4, <1>5

\* What SentInv says of an entry.
Accounted(di) ==
    \/ Reached(di.ip_address)
    \/ ~di.is_banned /\ di.total_ddoscount + Uncounted(di.ip_address) <= sent[di.ip_address]

\* An entry that says no more of the packets than one before the step.
LEMMA AccountedKept ==
    ASSUME BaseInv, SentEnough, SentInv, [HistoryNext]_<<vars, history_vars>>,
           NEW k \in DOMAIN ddosiplist, ddosiplist[k].ip_address \in Addr,
           NEW n \in DOMAIN ddosiplist',
           ddosiplist'[n].ip_address = ddosiplist[k].ip_address,
           ddosiplist'[n].is_banned => ddosiplist[k].is_banned,
           ddosiplist'[n].total_ddoscount = ddosiplist[k].total_ddoscount
    PROVE  Accounted(ddosiplist[n])'
<1> DEFINE a == ddosiplist[k].ip_address
           total == ddosiplist[k].total_ddoscount
<1>1. /\ sent' \in [Addr -> Nat] /\ sent \in [Addr -> Nat]
      /\ \A b \in Addr : /\ sent'[b] >= sent[b]
                         /\ Reached(b) => Reached(b)'
                         /\ Reached(b)' \/ Uncounted(b)' + sent[b] <= Uncounted(b) + sent'[b]
  BY SentChange DEF SentInv
<1>2. \/ Reached(ddosiplist[k].ip_address)
      \/ /\ ~ddosiplist[k].is_banned
         /\ ddosiplist[k].total_ddoscount + Uncounted(ddosiplist[k].ip_address)
               <= sent[ddosiplist[k].ip_address]
  BY DEF SentInv
<1>3. ~ddosiplist[k].is_banned => total \in Nat
  <2>1. ddosiplist[k] \in GoodEntry
    BY ListDomain DEF BaseInv, ControlInv
  <2>2. QED
    BY <2>1 DEF GoodEntry, Entry, ReadSafe
<1>4. \A b \in Addr : Uncounted(b) \in 0..1 /\ Uncounted(b)' \in 0..1
  BY DEF Uncounted
<1>5. \/ \E o \in Options : sent'[a] >= o.e_teksefer_limit \/ sent'[a] >= o.e_toplam_limit
      \/ /\ ~ddosiplist[k].is_banned
         /\ total + (IF pc' \in Unjudged /\ call'.addr = a THEN 1 ELSE 0) <= sent'[a]
  BY <1>1, <1>2, <1>3, <1>4 DEF Reached, Uncounted
<1>6. QED
  BY <1>5 DEF Accounted, Reached, Uncounted

\* The packet of a call is judged on an entry of its sender.
LEMMA JudgedSender ==
    ASSUME BaseInv, SuspectInv, Judging
    PROVE  /\ ntoa = call.addr /\ ntoa \in Addr /\ call.pkt \in Packet
           /\ Uncounted(ntoa) = 1
           /\ \A a \in Addr : (pc' # "decide" => Uncounted(a)' = 0)
           /\ \A k \in DOMAIN ddosiplist :
                 IsEntryOf(k, ntoa) => ddosiplist[k].ip_address = ntoa
<1>1. pc = "decide" /\ pc' \in {"stopped", "delivered"}
  BY DEF Judging, Decide
<1>2. ntoa = call.addr /\ ntoa \in Addr /\ call.pkt \in Packet
  BY <1>1 DEF BaseInv, PluginInv, SenderSpelled, InCall
<1>3. Uncounted(ntoa) = 1 /\ \A a \in Addr : Uncounted(a)' = 0
  BY <1>1, <1>2 DEF Uncounted, Unjudged, InCall
<1>4. \A k \in DOMAIN ddosiplist : IsEntryOf(k, ntoa) => ddosiplist[k].ip_address = ntoa
  BY DEF SuspectInv, IsEntryOf, TextOf
<1>5. QED
  BY <1>2, <1>3, <1>4

\* A flood has been sent by the address that is banned for it.
LEMMA FloodReached ==
    ASSUME BaseInv, SuspectInv, SentInv, NEW k \in DOMAIN ddosiplist, Floods(k)
    PROVE  Reached(ntoa)
<1> DEFINE di == ddosiplist[k]
<1>1. /\ Judging /\ IsEntryOf(k, ntoa) /\ Counted(di)
      /\ TotalFlood(di) \/ SingleFlood(di, call.pkt)
  BY DEF Floods
<1>2. /\ ntoa \in Addr /\ di.ip_address = ntoa /\ Uncounted(ntoa) = 1
  BY <1>1, JudgedSender
<1>3. /\ di \in Entry /\ ~di.is_banned /\ ReadSafe(di) /\ ConsistentEntry(di)
      /\ opts \in Options
  BY <1>1, ListDomain DEF BaseInv, ControlInv, ControlTypeOK, GoodEntry, Counted
<1>4. /\ di.total_ddoscount \in Nat /\ sent[ntoa] \in Nat
      /\ opts.e_toplam_limit \in Nat /\ opts.e_teksefer_limit \in Nat
  BY <1>2, <1>3, ControlAssumptions DEF Entry, ReadSafe, SentInv, OptionsAssumption
<1>5. Reached(ntoa) \/ di.total_ddoscount + 1 <= sent[ntoa]
  BY <1>2, <1>3 DEF SentInv
<1>6. CASE TotalFlood(di)
  BY <1>3, <1>4, <1>5, <1>6 DEF TotalFlood, Reached
<1>7. CASE SingleFlood(di, call.pkt)
  <2>1. PICK r \in DOMAIN di.requests : di.requests[r].count + 1 >= opts.e_teksefer_limit
    BY <1>7 DEF SingleFlood
  <2>2. di.requests[r].count \in Nat
    <3>1. di.requests \in Seq(Request)
      BY <1>3 DEF Entry
    <3>2. di.requests[r] \in Request
      BY <3>1, LenProperties, ElementOfSeq
    <3>3. QED
      BY <3>2 DEF Request
  <2>3. di.requests[r].count <= di.total_ddoscount
    BY <1>3 DEF ConsistentEntry
  <2>4. QED
    BY <1>3, <1>4, <1>5, <2>1, <2>2, <2>3 DEF Reached
<1>8. QED
  BY <1>1, <1>6, <1>7

LEMMA AccountedStep ==
    ASSUME SendersSpared, SentEnough, BaseInv, SuspectInv, SentInv,
           [HistoryNext]_<<vars, history_vars>>, NEW n \in DOMAIN ddosiplist'
    PROVE  Accounted(ddosiplist[n])'
<1>1. /\ PluginInv /\ GoodList /\ opts \in Options /\ [Next]_vars
  BY DEF BaseInv, ControlInv, ControlTypeOK, HistoryNext
<1>2. /\ DOMAIN ddosiplist = 1..Len(ddosiplist) /\ Len(ddosiplist) \in Nat
      /\ \A k \in DOMAIN ddosiplist : /\ ddosiplist[k] \in Entry /\ ReadSafe(ddosiplist[k])
                                      /\ ddosiplist[k].ip_address \in Addr
  BY <1>1, ListDomain DEF GoodEntry, Entry, SuspectInv
<1>3. ASSUME NEW i \in DOMAIN ddosiplist, ddosiplist'[n] = ddosiplist[i]
      PROVE  Accounted(ddosiplist[n])'
  BY <1>2, <1>3, AccountedKept
<1>4. /\ sent' \in [Addr -> Nat] /\ sent \in [Addr -> Nat]
      /\ \A a \in Addr : sent'[a] >= sent[a] /\ (Reached(a) => Reached(a)')
  BY SentChange DEF SentInv
<1>5. CASE UNCHANGED ddosiplist
  BY <1>3, <1>5
<1>6. CASE Erases
  <2>1. PICK i \in DOMAIN ddosiplist : ddosiplist'[n] = ddosiplist[i]
    BY <1>2, <1>6 DEF Erases, Shrunk
  <2>2. QED
    BY <1>3, <2>1
<1>7. ASSUME NEW k \in DOMAIN ddosiplist, Removes(k)
      PROVE  Accounted(ddosiplist[n])'
  <2> DEFINE e == [ddosiplist[k] EXCEPT !.flagged_removed = TRUE]
  <2>1. Replaced(k, e) /\ n \in DOMAIN ddosiplist
    BY <1>7 DEF Removes, Replaced
  <2>2. CASE n # k
    BY <1>3, <2>1, <2>2 DEF Replaced
  <2>3. CASE n = k
    <3>1. ddosiplist'[n] = e
      BY <2>1, <2>3 DEF Replaced
    <3>2. /\ ddosiplist'[n].ip_address = ddosiplist[k].ip_address
          /\ ddosiplist'[n].is_banned = ddosiplist[k].is_banned
          /\ ddosiplist'[n].total_ddoscount = ddosiplist[k].total_ddoscount
      BY <1>2, <3>1, FlaggedFields
    <3>3. QED
      BY <1>2, <3>2, AccountedKept
  <2>4. QED
    BY <2>2, <2>3
<1>8. CASE Opens
  <2>1. Grown(NewEntry(call.pkt)) /\ Judging /\ pc' = "delivered"
    BY <1>8 DEF Opens
  <2>2. CASE n \in DOMAIN ddosiplist
    BY <1>3, <2>1, <2>2 DEF Grown
  <2>3. CASE n \notin DOMAIN ddosiplist
    <3>1. ddosiplist'[n] = NewEntry(call.pkt)
      BY <1>2, <2>1, <2>3 DEF Grown
    <3>2. /\ ddosiplist'[n].ip_address = ntoa /\ ~ddosiplist'[n].is_banned
          /\ ddosiplist'[n].total_ddoscount = 1
      BY <3>1 DEF NewEntry
    <3>3. ntoa \in Addr /\ Uncounted(ntoa) = 1
      BY <2>1, JudgedSender
    <3>4. Reached(ntoa) \/ 1 <= sent[ntoa]
      BY <3>3 DEF SentInv
    <3>5. QED
      BY <1>4, <2>1, <3>2, <3>3, <3>4 DEF Accounted, Reached, Uncounted, Unjudged, InCall
  <2>4. QED
    BY <2>2, <2>3
<1>9. ASSUME NEW k \in DOMAIN ddosiplist, Floods(k)
      PROVE  Accounted(ddosiplist[n])'
  <2>1. Replaced(k, BannedEntry(ddosiplist[k])) /\ n \in DOMAIN ddosiplist
    BY <1>9 DEF Floods, Replaced
  <2>2. CASE n # k
    BY <1>3, <2>1, <2>2 DEF Replaced
  <2>3. CASE n = k
    <3>1. ddosiplist'[n].ip_address = ddosiplist[k].ip_address
      BY <1>2, <2>1, <2>3, BannedFields DEF Replaced
    <3>2. ddosiplist[k].ip_address = ntoa /\ ntoa \in Addr
      BY <1>9, JudgedSender DEF Floods
    <3>3. Reached(ntoa)
      BY <1>9, FloodReached
    <3>4. QED
      BY <1>4, <3>1, <3>2, <3>3 DEF Accounted, Reached
  <2>4. QED
    BY <2>2, <2>3
<1>10. ASSUME NEW k \in DOMAIN ddosiplist, Counts(k)
       PROVE  Accounted(ddosiplist[n])'
  <2>1. Replaced(k, CountedEntry(ddosiplist[k], call.pkt)) /\ n \in DOMAIN ddosiplist
    BY <1>10 DEF Counts, Replaced
  <2>2. CASE n # k
    BY <1>3, <2>1, <2>2 DEF Replaced
  <2>3. CASE n = k
    <3>1. /\ ddosiplist'[n].ip_address = ddosiplist[k].ip_address
          /\ ddosiplist'[n].is_banned = ddosiplist[k].is_banned
          /\ ddosiplist'[n].total_ddoscount = ddosiplist[k].total_ddoscount + 1
      BY <1>2, <2>1, <2>3, CountedFields DEF Replaced
    <3>2. /\ ddosiplist[k].ip_address = ntoa /\ ntoa \in Addr /\ Uncounted(ntoa) = 1
          /\ ~ddosiplist[k].is_banned /\ ddosiplist[k].total_ddoscount \in Nat
      BY <1>2, <1>10, JudgedSender DEF Counts, Counted, ReadSafe, Entry
    <3>3. pc' = "delivered"
      BY <1>10 DEF Counts
    <3>4. Reached(ntoa) \/ ddosiplist[k].total_ddoscount + 1 <= sent[ntoa]
      BY <3>2 DEF SentInv
    <3>5. QED
      BY <1>4, <3>1, <3>2, <3>3, <3>4 DEF Accounted, Reached, Uncounted, Unjudged, InCall
  <2>4. QED
    BY <2>2, <2>3
<1>11. QED
  BY <1>1, <1>5, <1>6, <1>7, <1>8, <1>9, <1>10, ListChange, NoneShared

LEMMA SentStep ==
    ASSUME SendersSpared, SentEnough, BaseInv, SuspectInv, SentInv,
           [HistoryNext]_<<vars, history_vars>>
    PROVE  SentInv'
<1>1. /\ PluginInv /\ GoodList /\ opts \in Options /\ [Next]_vars
  BY DEF BaseInv, ControlInv, ControlTypeOK, HistoryNext
<1>2. /\ sent' \in [Addr -> Nat] /\ sent \in [Addr -> Nat]
      /\ \A a \in Addr : /\ sent'[a] >= sent[a]
                         /\ Reached(a) => Reached(a)'
                         /\ Reached(a)' \/ Uncounted(a)' + sent[a] <= Uncounted(a) + sent'[a]
  BY SentChange DEF SentInv
<1>3. ASSUME NEW a \in Addr
      PROVE  Reached(a)' \/ Uncounted(a)' <= sent'[a]
  <2>1. Reached(a) \/ Uncounted(a) <= sent[a]
    BY DEF SentInv
  <2>2. Uncounted(a) \in 0..1 /\ Uncounted(a)' \in 0..1
    BY DEF Uncounted
  <2>3. QED
    BY <1>2, <2>1, <2>2
<1>4. (\A k \in DOMAIN ddosiplist : Accounted(ddosiplist[k]))'
  BY AccountedStep
\* A ban that the call found, at the lookup, is of its own sender.
<1>5. ASSUME pc' \in InCall, call'.ipbanned
      PROVE  Reached(call.addr)'
  <2>1. CASE /\ pc \in Unjudged /\ call'.addr = call.addr
             /\ call'.ipbanned \in {call.ipbanned, is_ipbanned(ntoa)}
             /\ is_ipbanned(ntoa) /\ call'.ipbanned # call.ipbanned => ntoa = call.addr
    <3>1. call.addr \in Addr
      BY <1>1, <2>1 DEF PluginInv, SenderSpelled, Unjudged
    <3>2. CASE call.ipbanned
      BY <1>2, <2>1, <3>1, <3>2 DEF SentInv, Unjudged, Reached
    <3>3. CASE ~call.ipbanned
      <4>1. ntoa = call.addr /\ is_ipbanned(ntoa)
        BY <1>5, <2>1, <3>3
      <4>2. PICK k \in DOMAIN ddosiplist : IsEntryOf(k, ntoa) /\ ddosiplist[k].is_banned
        BY <4>1 DEF is_ipbanned
      <4>3. ddosiplist[k].ip_address = ntoa
        BY <4>2 DEF SuspectInv, IsEntryOf, TextOf
      <4>4. Reached(call.addr)
        BY <4>1, <4>2, <4>3 DEF SentInv
      <4>5. QED
        BY <1>2, <2>1, <3>1, <4>4 DEF Reached
    <3>4. QED
      BY <3>2, <3>3
  <2>2. CASE UNCHANGED <<pc, call>>
    <3>1. Reached(call.addr) /\ call.addr \in Addr
      BY <1>1, <1>5, <2>2 DEF SentInv, PluginInv, SenderSpelled
    <3>2. QED
      BY <1>2, <2>2, <3>1 DEF Reached
  <2>3. QED
    BY <1>1, <1>5, <2>1, <2>2, CallChange DEF InCall
<1>6. ASSUME pc' = "stopped", ~call'.stopit
      PROVE  Reached(call.addr)'
  <2>1. CASE pc = "decide"
    <3>1. Decide /\ (call.stopit \/ call.ipbanned \/ \E k \in DOMAIN ddosiplist : Floods(k))
      BY <1>1, <1>6, <2>1, StoppedHow
    <3>2. call' = call /\ call.addr \in Addr /\ ntoa = call.addr
      BY <1>1, <3>1 DEF Decide, PluginInv, SenderSpelled, InCall
    <3>3. Reached(call.addr)
      <4>1. CASE call.ipbanned
        BY <2>1, <4>1 DEF SentInv, InCall
      <4>2. ASSUME NEW k \in DOMAIN ddosiplist, Floods(k) PROVE Reached(ntoa)
        BY <4>2, FloodReached
      <4>3. QED
        BY <1>6, <3>1, <3>2, <4>1, <4>2
    <3>4. QED
      BY <1>2, <3>2, <3>3 DEF Reached
  <2>2. CASE pc = "stopped" /\ UNCHANGED <<pc, call>>
    <3>1. Reached(call.addr) /\ call.addr \in Addr
      BY <1>1, <1>6, <2>2 DEF SentInv, NoCollateral, Reached, PluginInv, SenderSpelled, InCall
    <3>2. QED
      BY <1>2, <2>2, <3>1 DEF Reached
  <2>3. pc = "decide" \/ (pc = "stopped" /\ UNCHANGED <<pc, call>>)
    BY <1>1, <1>6
       DEF Next, Arrive, Receive, HandleStep, Handle, ReadSettings, Filter, Lookup, Match, Scan,
           Clearing, Decide, Return, Console, ListCommand, Listing, ClearCommand,
           RemoveIndexCommand, RemoveAddrCommand, Elsewhere, ServerActivate_Post, SetCvar, Pass,
           vars, recv_vars
  <2>4. QED
    BY <2>1, <2>2, <2>3
<1>7. NoCollateral'
  BY <1>6 DEF NoCollateral, Reached
<1>8. QED
  BY <1>2, <1>3, <1>4, <1>5, <1>7 DEF SentInv, Accounted

-----------------------------------------------------------------------------
(* Printed indexes.                                                        *)

\* Besides the property: a printed index cannot lie beyond the end of the list
\* by more than was erased.
IndexInv ==
    /\ IndexStands
    /\ erased \in Nat /\ DOMAIN shown \subseteq Nat
    /\ \A k \in DOMAIN shown : erased < EraseBound => Len(ddosiplist) + erased >= k

LEMMA IndexInitInv == IndexInit => IndexInv
<1> SUFFICES ASSUME IndexInit PROVE IndexInv
  OBVIOUS
<1>1. shown = <<>> /\ DOMAIN shown = {} /\ erased = 0
  BY EmptySeq DEF IndexInit
<1>2. QED
  BY <1>1 DEF IndexInv, IndexStands

\* A print: it happens when no entry is left to sweep.
LEMMA PrintStep ==
    ASSUME BaseInv, IndexNext, pc = "listing", pc' = "idle"
    PROVE  IndexInv'
<1>1. UNCHANGED ddosiplist
  BY DEF IndexNext, Next, Arrive, Receive, HandleStep, Handle, ReadSettings, Filter, Lookup,
         Match, Scan, Clearing, Decide, Return, Console, ListCommand, Listing, ClearEnd,
         ClearCommand, RemoveIndexCommand, RemoveAddrCommand, ServerActivate_Post, SetCvar, Pass
<1>2. /\ shown' = [k \in {j \in DOMAIN ddosiplist : Printed(j)} |-> ddosiplist[k].ip_address]
      /\ erased' = 0
  BY DEF IndexNext
<1>3. /\ DOMAIN ddosiplist = 1..Len(ddosiplist) /\ Len(ddosiplist) \in Nat
      /\ OneEntryPerOwner
  BY ListDomain DEF BaseInv, ControlInv, GoodList
<1>4. /\ DOMAIN shown' \subseteq DOMAIN ddosiplist
      /\ \A k \in DOMAIN shown' : shown'[k] = ddosiplist[k].ip_address
  BY <1>2
<1>5. ASSUME NEW k \in DOMAIN shown', NEW j \in DOMAIN ddosiplist,
             ddosiplist[j].ip_address = shown'[k]
      PROVE  j = k
  BY <1>3, <1>4, <1>5 DEF OneEntryPerOwner
<1>6. IndexStands'
  BY <1>1, <1>2, <1>3, <1>4, <1>5 DEF IndexStands
<1>7. QED
  BY <1>1, <1>2, <1>3, <1>4, <1>6 DEF IndexInv

\* A step that erases nothing: each entry keeps its place.
LEMMA KeptStep ==
    ASSUME BaseInv, IndexInv, UNCHANGED shown, erased' = erased,
           DOMAIN ddosiplist \subseteq DOMAIN ddosiplist',
           Len(ddosiplist') \in Nat, Len(ddosiplist') >= Len(ddosiplist),
           \A n \in DOMAIN ddosiplist' :
              \/ /\ n \in DOMAIN ddosiplist
                 /\ ddosiplist'[n].ip_address = ddosiplist[n].ip_address
              \/ n = Len(ddosiplist) + 1
    PROVE  IndexInv'
<1>1. DOMAIN ddosiplist = 1..Len(ddosiplist) /\ Len(ddosiplist) \in Nat
  BY ListDomain DEF BaseInv, ControlInv
<1>2. ASSUME NEW k \in DOMAIN shown, erased = 0
      PROVE  k \in DOMAIN ddosiplist' /\ ddosiplist'[k].ip_address = shown[k]
  BY <1>1, <1>2 DEF IndexInv, IndexStands
<1>3. ASSUME NEW k \in DOMAIN shown, erased < EraseBound,
             NEW j \in DOMAIN ddosiplist', ddosiplist'[j].ip_address = shown[k]
      PROVE  j >= k - erased
  <2>1. CASE j \in DOMAIN ddosiplist /\ ddosiplist[j].ip_address = shown[k]
    BY <1>3, <2>1 DEF IndexInv, IndexStands
  <2>2. CASE j = Len(ddosiplist) + 1
    <3>1. Len(ddosiplist) + erased >= k /\ k \in Nat /\ erased \in Nat
      BY <1>3 DEF IndexInv
    <3>2. QED
      BY <1>1, <2>2, <3>1
  <2>3. QED
    BY <1>3, <2>1, <2>2
<1>4. ASSUME NEW k \in DOMAIN shown, erased < EraseBound
      PROVE  Len(ddosiplist') + erased >= k
  BY <1>1, <1>4 DEF IndexInv
<1>5. QED
  BY <1>2, <1>3, <1>4 DEF IndexInv, IndexStands

LEMMA ErasedStep ==
    ASSUME BaseInv, IndexInv, UNCHANGED shown, Erases,
           erased' = IF erased < EraseBound THEN erased + 1 ELSE erased
    PROVE  IndexInv'
<1>1. /\ DOMAIN ddosiplist = 1..Len(ddosiplist) /\ Len(ddosiplist) \in Nat
      /\ sweep \in DOMAIN ddosiplist
      /\ Len(ddosiplist') = Len(ddosiplist) - 1
      /\ DOMAIN ddosiplist' = 1..(Len(ddosiplist) - 1)
      /\ \A j \in 1..(Len(ddosiplist) - 1) :
            ddosiplist'[j] = IF j < sweep THEN ddosiplist[j] ELSE ddosiplist[j + 1]
  <2>1. GoodList
    BY DEF BaseInv, ControlInv
  <2>2. sweep \in DOMAIN ddosiplist /\ ddosiplist' = RemoveAt(ddosiplist, sweep)
    BY DEF Erases, ClearErase
  <2>3. QED
    BY <2>1, <2>2, EraseGood, ListDomain
<1>2. erased \in Nat /\ EraseBound \in Nat /\ EraseBound > 0 /\ DOMAIN shown \subseteq Nat
  BY EraseAssumption DEF IndexInv
<1>3. erased' \in Nat /\ erased' # 0 /\ (erased' < EraseBound => erased' = erased + 1)
  BY <1>2
<1>4. ASSUME NEW k \in DOMAIN shown, erased' < EraseBound
      PROVE  /\ Len(ddosiplist') + erased' >= k
             /\ \A j \in DOMAIN ddosiplist' :
                   ddosiplist'[j].ip_address = shown[k] => j >= k - erased'
  <2>1. erased' = erased + 1 /\ erased < EraseBound /\ k \in Nat
    BY <1>2, <1>3, <1>4
  <2>2. Len(ddosiplist) + erased >= k
    BY <2>1 DEF IndexInv
  <2>3. ASSUME NEW j \in DOMAIN ddosiplist', ddosiplist'[j].ip_address = shown[k]
        PROVE  j >= k - erased'
    <3>1. PICK i \in DOMAIN ddosiplist : i <= j + 1 /\ ddosiplist[i].ip_address = shown[k]
      BY <1>1, <2>3
    <3>2. i >= k - erased
      BY <2>1, <3>1 DEF IndexInv, IndexStands
    <3>3. QED
      BY <1>1, <1>2, <2>1, <3>1, <3>2
  <2>4. QED
    BY <1>1, <1>2, <2>1, <2>2, <2>3
<1>5. QED
  BY <1>2, <1>3, <1>4 DEF IndexInv, IndexStands

LEMMA IndexStep ==
    ASSUME BaseInv, IndexInv, [IndexNext]_<<vars, index_vars>>
    PROVE  IndexInv'
<1>1. /\ PluginInv /\ GoodList /\ opts \in Options
      /\ DOMAIN ddosiplist = 1..Len(ddosiplist) /\ Len(ddosiplist) \in Nat
      /\ \A k \in DOMAIN ddosiplist : ddosiplist[k] \in Entry
  BY ListDomain DEF BaseInv, ControlInv, ControlTypeOK, GoodEntry
<1>2. CASE IndexNext /\ pc = "listing" /\ pc' = "idle"
  BY <1>2, PrintStep
<1>3. CASE IndexNext /\ ~(pc = "listing" /\ pc' = "idle") /\ shown = <<>>
  <2>1. shown' = <<>> /\ DOMAIN shown' = {} /\ erased' = 0
    BY <1>3, EmptySeq DEF IndexNext
  <2>2. QED
    BY <2>1 DEF IndexInv, IndexStands
<1>4. CASE IndexNext /\ ~(pc = "listing" /\ pc' = "idle") /\ shown # <<>>
  <2>1. /\ [Next]_vars /\ UNCHANGED shown
        /\ erased' = IF Len(ddosiplist') < Len(ddosiplist) /\ erased < EraseBound
                     THEN erased + 1 ELSE erased
    BY <1>4 DEF IndexNext
  <2>2. Len(ddosiplist') \in Nat /\ DOMAIN ddosiplist' = 1..Len(ddosiplist')
    <3>1. BaseInv'
      BY <2>1, BaseNext
    <3>2. (GoodList => Len(ddosiplist) \in Nat /\ DOMAIN ddosiplist = 1..Len(ddosiplist))'
      BY ListDomain, PTL
    <3>3. QED
      BY <3>1, <3>2 DEF BaseInv, ControlInv
  <2>3. CASE Erases
    <3>1. Len(ddosiplist') < Len(ddosiplist)
      BY <1>1, <2>2, <2>3 DEF Erases, Shrunk
    <3>2. QED
      BY <2>1, <2>3, <3>1, ErasedStep
  <2>4. CASE ~Erases
    <3>1. /\ DOMAIN ddosiplist \subseteq DOMAIN ddosiplist'
          /\ \A n \in DOMAIN ddosiplist' :
                \/ /\ n \in DOMAIN ddosiplist
                   /\ ddosiplist'[n].ip_address = ddosiplist[n].ip_address
                \/ n = Len(ddosiplist) + 1
      <4>1. CASE UNCHANGED ddosiplist
        BY <4>1
      <4>2. CASE Shares \/ Opens
        BY <1>1, <4>2 DEF Shares, Opens, Grown
      <4>3. ASSUME NEW k \in DOMAIN ddosiplist,
                   Renews(k) \/ Floods(k) \/ Counts(k) \/ Removes(k)
            PROVE  /\ DOMAIN ddosiplist' = DOMAIN ddosiplist
                   /\ \A n \in DOMAIN ddosiplist :
                         ddosiplist'[n].ip_address = ddosiplist[n].ip_address
        <5>1. PICK e : Replaced(k, e) /\ e.ip_address = ddosiplist[k].ip_address
          BY <1>1, <4>3, ReplacedOwner
        <5>2. QED
          BY <5>1 DEF Replaced
      <4>4. QED
        BY <1>1, <2>1, <2>4, <4>1, <4>2, <4>3, ListChange
    <3>2. Len(ddosiplist') >= Len(ddosiplist)
      BY <1>1, <2>2, <3>1
    <3>3. erased' = erased
      BY <1>1, <2>1, <2>2, <3>2
    <3>4. QED
      BY <2>1, <2>2, <3>1, <3>2, <3>3, KeptStep
  <2>5. QED
    BY <2>3, <2>4
<1>5. CASE UNCHANGED <<vars, index_vars>>
  BY <1>5 DEF vars, recv_vars, control_vars, index_vars, IndexInv, IndexStands
<1>6. QED
  BY <1>2, <1>3, <1>4, <1>5

-----------------------------------------------------------------------------
(* The theorems.                                                           *)

\* Packets are judged by the server variables as they are or were until at most
\* a second ago, whatever the operator sets and when (main.cpp:213-214, 230).
THEOREM SettingsStayFresh == HistorySpec => SettingsFresh
<1>1. SettingsInv /\ BaseInv /\ [HistoryNext]_<<vars, history_vars>>
         => SettingsInv' /\ [SettingsFreshStep]_<<vars, history_vars>>
  BY SettingsStep
<1>2. QED
  BY <1>1, SettingsInit, HistoryBase, PTL DEF HistorySpec, SettingsFresh

\* With senders of banned packets not banned, every entry, and so every line of
\* itsavar list, is of an address that sent a packet the plugin acts on
\* (main.cpp:448-453; the switch is read at main.cpp:231, 299).
THEOREM ListShowsSuspects ==
    ASSUME SendersSpared PROVE HistorySpec => []ListedSuspects
<1>1. HistoryInit => SuspectInv
  BY EmptySeq DEF HistoryInit, Init, RecvInit, ControlInit, SuspectInv, InCall
<1>2. BaseInv /\ SuspectInv /\ [HistoryNext]_<<vars, history_vars>> => SuspectInv'
  BY SuspectStep
<1>3. SuspectInv => ListedSuspects
  BY DEF SuspectInv, ListedSuspects, Listed, TextOf
<1>4. QED
  BY <1>1, <1>2, <1>3, HistoryBase, PTL DEF HistorySpec

\* With them not banned, no address is stopped for the traffic of others: with
\* any number of addresses, packets and limits, one that is stopped by the list
\* sent enough packets itself (main.cpp:341-403, ddoscontrol.cpp:139-211).
THEOREM NoneSuffersForOthers ==
    ASSUME SendersSpared, SentEnough PROVE HistorySpec => []NoCollateral
<1>1. HistoryInit => SuspectInv
  BY EmptySeq DEF HistoryInit, Init, RecvInit, ControlInit, SuspectInv, InCall
<1>2. BaseInv /\ SuspectInv /\ [HistoryNext]_<<vars, history_vars>> => SuspectInv'
  BY SuspectStep
<1>3. HistoryInit => SentInv
  <2> SUFFICES ASSUME HistoryInit PROVE SentInv
    OBVIOUS
  <2>1. ddosiplist = <<>> /\ DOMAIN ddosiplist = {} /\ pc = "idle" /\ sent = [a \in Addr |-> 0]
    BY EmptySeq DEF HistoryInit, Init, RecvInit, ControlInit
  <2>2. QED
    BY <2>1 DEF SentInv, Uncounted, Unjudged, InCall, NoCollateral
<1>4. BaseInv /\ SuspectInv /\ SentInv /\ [HistoryNext]_<<vars, history_vars>> => SentInv'
  BY SentStep
<1>5. SentInv => NoCollateral
  BY DEF SentInv
<1>6. QED
  BY <1>1, <1>2, <1>3, <1>4, <1>5, HistoryBase, PTL DEF HistorySpec

\* A printed index stays good until a sweep erases an entry, and each erasure
\* moves an entry down by one at most (main.cpp:452, 482-489,
\* ddoscontrol.cpp:97-104).
THEOREM IndexesStand == IndexSpec => []IndexStands
<1>1. BaseInv /\ IndexInv /\ [IndexNext]_<<vars, index_vars>> => IndexInv'
  BY IndexStep
<1>2. IndexInv => IndexStands
  BY DEF IndexInv
<1>3. QED
  BY <1>1, <1>2, IndexInitInv, IndexBase, PTL DEF IndexSpec
=============================================================================
