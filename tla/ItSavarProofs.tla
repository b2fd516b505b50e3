---------------------------- MODULE ItSavarProofs ----------------------------
(* Theorems about the whole plugin.  The first shows that it uses the ban  *)
(* list only as ControlSpec allows, so that every theorem of               *)
(* DdosControlProofs holds of it too.                                      *)
EXTENDS ItSavar, DdosControlProofs

-----------------------------------------------------------------------------
(* The inductive invariant: where the thread is says what the ban list and *)
(* the locals of the running call are.                                     *)

InCall == {"settings", "filter", "lookup", "match", "scan", "clearing", "decide",
           "delivered", "stopped"}

\* A sweep runs in the two phases that run it and in no other.
SweepPhase == sweep # 0 <=> pc \in {"clearing", "listing"}

\* inet_ntoa's buffer spells the sender of a packet from the filter to the verdict.
SenderSpelled ==
    /\ pc \in InCall => call.addr \in Addr
    /\ pc \in {"lookup", "match", "scan", "clearing", "decide"} =>
         ntoa = call.addr /\ call.pkt \in Packet

\* What became of the answer of is_ipbanned.
BanRead ==
    /\ pc = "match" => call.ipbanned = is_ipbanned(ntoa)
    /\ pc = "scan" /\ ~call.stopit => call.ipbanned = is_ipbanned(ntoa)
    /\ pc = "clearing" => son_tarama_zamani = call.now
    /\ VerdictFresh

PluginInv == /\ TypeOK
             /\ clock \in Nat /\ sweep \in Nat
             /\ SweepPhase /\ SenderSpelled /\ BanRead

\* SetCvarsValue stores values of the right types, and a secure type in range.
LEMMA CopiedTypes ==
    ASSUME NEW c \in CvarSettings
    PROVE  /\ OptionsOf(c) \in Options
           /\ SecureTypeOf(c) \in 0..2
           /\ CvarvalueOf(c) \in {CvarvalueOf(d) : d \in CvarSettings}
<1>1. c.securetype \in Int
  BY CvarAssumptions DEF Setting
<1>2. SecureTypeOf(c) = IF c.securetype < 0 THEN 0
                        ELSE IF c.securetype > 2 THEN 2 ELSE c.securetype
  BY DEF SecureTypeOf, clampf
<1>3. SecureTypeOf(c) \in 0..2
  BY <1>1, <1>2
<1>4. QED
  BY <1>3, CvarAssumptions

LEMMA InitPlugin == Init => PluginInv
<1> SUFFICES ASSUME Init PROVE PluginInv
  OBVIOUS
<1> USE DEF Init, RecvInit, ControlInit, CvarsInit
<1>1. TypeOK
  <2>1. CvarsTypeOK
    BY CopiedTypes DEF CvarsTypeOK
  <2>2. RecvTypeOK
    BY DEF RecvTypeOK, Phase, Call, NoCall
  <2>3. QED
    BY <2>1, <2>2 DEF TypeOK, Reply, NoReply
<1>2. /\ clock \in Nat /\ sweep \in Nat
      /\ SweepPhase /\ SenderSpelled /\ BanRead
  BY DEF SweepPhase, SenderSpelled, InCall, BanRead, VerdictFresh
<1>3. QED
  BY <1>1, <1>2 DEF PluginInv

\* The answer of is_ipbanned depends on the list and on the buffer only.
LEMMA SameAnswer ==
    ASSUME UNCHANGED <<ddosiplist, ntoa>>
    PROVE  is_ipbanned(ntoa)' = is_ipbanned(ntoa)
BY DEF is_ipbanned, IsEntryOf, TextOf

-----------------------------------------------------------------------------
(* The steps.                                                              *)

\* A step that keeps the settings has only four variables to type.
LEMMA Typed ==
    ASSUME TypeOK, UNCHANGED <<cvars, config, settings_vars>>,
           pc' \in Phase, call' \in Call, son_tarama_zamani' \in Nat, reply' \in Reply
    PROVE  TypeOK'
<1>1. CvarsTypeOK'
  BY DEF TypeOK, CvarsTypeOK, settings_vars
<1>2. RecvTypeOK'
  BY DEF TypeOK, RecvTypeOK
<1>3. QED
  BY <1>1, <1>2 DEF TypeOK

LEMMA ArriveTypes ==
    ASSUME TypeOK, Arrive
    PROVE  TypeOK'
<1>1. PICK a \in Addr, p \in Packet \union {Empty} : Receive(a, p) /\ reply' = NoReply
  BY DEF Arrive
<1>2. call' = [addr |-> a, pkt |-> p, now |-> 0, ipbanned |-> FALSE, stopit |-> FALSE]
  BY <1>1 DEF Receive, NoCall
<1>3. call' \in Call /\ pc' \in Phase /\ reply' \in Reply
  <2>1. call' \in Call
    BY <1>2 DEF Call
  <2>2. pc' \in Phase
    BY <1>1 DEF Receive, Phase
  <2>3. reply' \in Reply
    BY <1>1 DEF Reply, NoReply
  <2>4. QED
    BY <2>1, <2>2, <2>3
<1>4. son_tarama_zamani' \in Nat /\ UNCHANGED <<cvars, config, settings_vars>>
  BY <1>1 DEF Receive, UNCHANGED_env, TypeOK, RecvTypeOK
<1>5. QED
  BY <1>3, <1>4, Typed

LEMMA HandleTypes ==
    ASSUME TypeOK, clock \in Nat, HandleStep
    PROVE  TypeOK'
<1>1. pc' \in Phase
  BY DEF HandleStep, Handle, ReadSettings, Filter, Lookup, Match, Scan, Clearing, Decide,
         Return, Phase
<1>2. call' \in Call
  <2>1. call \in Call
    BY DEF TypeOK, RecvTypeOK
  <2>2. CASE UNCHANGED call \/ call' = NoCall
    <3>1. NoCall \in Call
      BY DEF Call, NoCall
    <3>2. QED
      BY <2>1, <2>2, <3>1
  <2>3. CASE Lookup
    BY <2>1, <2>3 DEF Lookup, Call, is_ipbanned
  <2>4. CASE Match
    BY <2>1, <2>4 DEF Match, Call, BannedMatch
  <2>5. QED
    BY <2>2, <2>3, <2>4
       DEF HandleStep, Handle, ReadSettings, Filter, Scan, Clearing, Decide, Return
<1>3. son_tarama_zamani' \in Nat
  <2>1. call.now \in Nat /\ son_tarama_zamani \in Nat
    BY DEF TypeOK, RecvTypeOK, Call
  <2>2. son_tarama_zamani' = son_tarama_zamani \/ son_tarama_zamani' = call.now
    BY DEF HandleStep, Handle, ReadSettings, Filter, Lookup, Match, Scan, Clearing, Decide,
           Return
  <2>3. QED
    BY <2>1, <2>2
<1>4. reply' \in Reply
  BY DEF HandleStep, TypeOK
<1>5. CASE UNCHANGED settings_vars
  <2>1. UNCHANGED <<cvars, config, settings_vars>>
    BY <1>5
       DEF HandleStep, Handle, ReadSettings, Filter, Lookup, Match, Scan, Clearing, Decide,
           Return, UNCHANGED_env
  <2>2. QED
    BY <1>1, <1>2, <1>3, <1>4, <2>1, Typed
<1>6. CASE ReadSettings /\ ~UNCHANGED settings_vars
  <2>1. /\ secure_type' = SecureTypeOf(cvars) /\ cvarvalue' = CvarvalueOf(cvars)
        /\ lastTime' = clock /\ UNCHANGED <<cvars, config>>
    BY <1>6 DEF ReadSettings, SetCvarsValue, UNCHANGED_env, settings_vars
  <2>2. cvars \in CvarSettings
    BY DEF TypeOK, CvarsTypeOK
  <2>3. CvarsTypeOK'
    BY <2>1, <2>2, CopiedTypes DEF CvarsTypeOK
  <2>4. RecvTypeOK'
    BY <1>1, <1>2, <1>3, <2>1 DEF TypeOK, RecvTypeOK
  <2>5. QED
    BY <1>4, <2>3, <2>4 DEF TypeOK
<1>7. QED
  BY <1>5, <1>6
     DEF HandleStep, Handle, Filter, Lookup, Match, Scan, Clearing, Decide, Return

LEMMA ConsoleTypes ==
    ASSUME TypeOK, Console
    PROVE  TypeOK'
<1>1. pc' \in Phase /\ reply' \in Reply
  <2>1. CASE ListCommand
    BY <2>1 DEF ListCommand, Phase, Reply, NoReply
  <2>2. CASE Listing /\ ClearEnd /\ pc' = "idle"
    <3>1. \/ reply' = [text |-> "CMD_LIST_NOIP", about |-> NoAddr]
          \/ reply' = [text |-> "CMD_LIST_CONTENT", about |-> NoAddr]
          \/ UNCHANGED reply
      BY <2>2 DEF Listing, Answer
    <3>2. pc' \in Phase
      BY <2>2 DEF Phase
    <3>3. reply' \in Reply
      <4>1. CASE reply' = [text |-> "CMD_LIST_NOIP", about |-> NoAddr]
        BY <4>1 DEF Reply
      <4>2. CASE reply' = [text |-> "CMD_LIST_CONTENT", about |-> NoAddr]
        BY <4>2 DEF Reply
      <4>3. CASE UNCHANGED reply
        BY <4>3 DEF TypeOK
      <4>4. QED
        BY <3>1, <4>1, <4>2, <4>3
    <3>4. QED
      BY <3>2, <3>3
  <2>3. CASE UNCHANGED <<pc, reply>>
    BY <2>3 DEF TypeOK, RecvTypeOK
  <2>4. CASE ClearCommand
    BY <2>4 DEF ClearCommand, TypeOK, RecvTypeOK, Reply, Answer
  <2>5. ASSUME NEW k \in 1..(Len(ddosiplist) + 1), RemoveIndexCommand(k)
        PROVE  pc' \in Phase /\ reply' \in Reply
    <3>1. /\ \/ reply' = [text |-> "CMD_REMOVE_OK", about |-> NoAddr]
             \/ reply' = [text |-> "CMD_REMOVE_INVALID", about |-> NoAddr]
          /\ UNCHANGED pc
      BY <2>5, Zenon DEF RemoveIndexCommand, Answer
    <3>2. CASE reply' = [text |-> "CMD_REMOVE_OK", about |-> NoAddr]
      BY <3>1, <3>2 DEF TypeOK, RecvTypeOK, Reply
    <3>3. CASE reply' = [text |-> "CMD_REMOVE_INVALID", about |-> NoAddr]
      BY <3>1, <3>3 DEF TypeOK, RecvTypeOK, Reply
    <3>4. QED
      BY <3>1, <3>2, <3>3
  <2>6. ASSUME NEW a \in Addr, RemoveAddrCommand(a)
        PROVE  pc' \in Phase /\ reply' \in Reply
    <3>1. /\ \/ reply' = [text |-> "CMD_REMOVE_OK", about |-> a]
             \/ reply' = [text |-> "CMD_REMOVE_INVALID", about |-> a]
          /\ UNCHANGED pc
      BY <2>6, Zenon DEF RemoveAddrCommand, Answer
    <3>2. CASE reply' = [text |-> "CMD_REMOVE_OK", about |-> a]
      BY <3>1, <3>2 DEF TypeOK, RecvTypeOK, Reply
    <3>3. CASE reply' = [text |-> "CMD_REMOVE_INVALID", about |-> a]
      BY <3>1, <3>3 DEF TypeOK, RecvTypeOK, Reply
    <3>4. QED
      BY <3>1, <3>2, <3>3
  <2>7. QED
    BY <2>1, <2>2, <2>3, <2>4, <2>5, <2>6 DEF Console, Listing
<1>3. UNCHANGED <<cvars, config, settings_vars, call, son_tarama_zamani>>
  BY DEF Console, ListCommand, Listing, ClearCommand, RemoveIndexCommand, RemoveAddrCommand,
         Elsewhere
<1>4. call' \in Call /\ son_tarama_zamani' \in Nat
  BY <1>3 DEF TypeOK, RecvTypeOK
<1>5. QED
  BY <1>1, <1>3, <1>4, Typed

LEMMA TypeStep ==
    ASSUME TypeOK, clock \in Nat, Next
    PROVE  TypeOK'
<1>1. CASE ServerActivate_Post \/ SetCvar
  <2>1. /\ cvars' \in CvarSettings /\ config' \in Configs
        /\ UNCHANGED <<settings_vars, pc, call, son_tarama_zamani, reply>>
    BY <1>1 DEF ServerActivate_Post, parse_config, SetCvar, TypeOK, RecvTypeOK
  <2>2. CvarsTypeOK'
    BY <2>1 DEF TypeOK, CvarsTypeOK, settings_vars
  <2>3. QED
    BY <2>1, <2>2 DEF TypeOK, RecvTypeOK
<1>2. CASE Pass
  <2>1. UNCHANGED <<cvars, settings_vars, config, pc, call, son_tarama_zamani, reply>>
    BY <1>2 DEF Pass
  <2>2. QED
    BY <2>1, Typed DEF TypeOK, RecvTypeOK
<1>3. QED
  BY <1>1, <1>2, ArriveTypes, HandleTypes, ConsoleTypes DEF Next

LEMMA PhaseStep ==
    ASSUME PluginInv, Next
    PROVE  clock' \in Nat /\ sweep' \in Nat /\ SweepPhase' /\ SenderSpelled'
<1> USE DEF PluginInv, SweepPhase, SenderSpelled, InCall
<1>1. CASE Arrive
  <2>1. PICK a \in Addr, p \in Packet \union {Empty} : Receive(a, p)
    BY <1>1 DEF Arrive
  <2>2. call'.addr = a
    BY <2>1 DEF Receive, NoCall
  <2>3. QED
    BY <2>1, <2>2 DEF Receive, control_vars
<1>2. CASE HandleStep
  <2>1. CASE ReadSettings
    BY <2>1 DEF ReadSettings, SetCvarsValue, SetOptions, control_vars
  <2>2. CASE Filter
    <3>1. call.pkt \in Packet \union {Empty}
      BY DEF TypeOK, RecvTypeOK, Call
    <3>2. QED
      BY <2>2, <3>1 DEF Filter, Bypass, inet_ntoa, control_vars
  <2>3. CASE Lookup
    <3>1. call'.addr = call.addr /\ call'.pkt = call.pkt
      BY <2>3 DEF Lookup, TypeOK, RecvTypeOK, Call
    <3>2. QED
      BY <2>3, <3>1 DEF Lookup, control_vars
  <2>4. CASE Match
    <3>1. call'.addr = call.addr /\ call'.pkt = call.pkt
      BY <2>4 DEF Match, TypeOK, RecvTypeOK, Call
    <3>2. QED
      BY <2>4, <3>1 DEF Match, AddIPBan, control_vars
  <2>5. CASE Scan
    BY <2>5 DEF Scan, ClearBegin, control_vars
  <2>6. CASE Clearing
    BY <2>6 DEF Clearing, ClearErase, ClearKeep, ClearEnd
  <2>7. CASE Decide
    BY <2>7 DEF Decide, get_banstatus, control_vars
  <2>8. CASE Return
    BY <2>8 DEF Return, control_vars
  <2>9. QED
    BY <1>2, <2>1, <2>2, <2>3, <2>4, <2>5, <2>6, <2>7, <2>8 DEF HandleStep, Handle
<1>3. CASE Console
  <2>1. CASE ListCommand
    BY <2>1 DEF ListCommand, ClearBegin, Elsewhere
  <2>2. CASE Listing
    BY <2>2 DEF Listing, ClearErase, ClearKeep, ClearEnd, Elsewhere
  <2>3. CASE ClearCommand
    BY <2>3 DEF ClearCommand, Clear, FlagRemoved, Elsewhere, control_vars
  <2>4. CASE \E k \in 1..(Len(ddosiplist) + 1) : RemoveIndexCommand(k)
    BY <2>4 DEF RemoveIndexCommand, FlagRemoved, Elsewhere, control_vars
  <2>5. CASE \E a \in Addr : RemoveAddrCommand(a)
    BY <2>5 DEF RemoveAddrCommand, FlagRemovedAddr, FlagRemoved, Elsewhere, control_vars
  <2>6. QED
    BY <1>3, <2>1, <2>2, <2>3, <2>4, <2>5 DEF Console
<1>4. CASE ServerActivate_Post \/ SetCvar
  BY <1>4 DEF ServerActivate_Post, parse_config, SetCvar, control_vars
<1>5. CASE Pass
  BY <1>5 DEF Pass, Tick
<1>6. QED
  BY <1>1, <1>2, <1>3, <1>4, <1>5 DEF Next

\* The answer of is_ipbanned is kept from the lookup to the verdict.
LEMMA BanReadStep ==
    ASSUME PluginInv, Next
    PROVE  BanRead'
<1> USE DEF PluginInv, BanRead, VerdictFresh
<1>1. CASE pc' \notin {"match", "scan", "clearing", "decide"}
  BY <1>1
<1>2. CASE Lookup
  <2>1. /\ call' = [call EXCEPT !.ipbanned = is_ipbanned(ntoa), !.now = clock]
        /\ pc' = "match" /\ UNCHANGED <<ddosiplist, ntoa>>
    BY <1>2 DEF Lookup, control_vars
  <2>2. call'.ipbanned = is_ipbanned(ntoa)
    BY <2>1 DEF TypeOK, RecvTypeOK, Call
  <2>3. QED
    BY <2>1, <2>2, SameAnswer
<1>3. CASE Match
  <2>1. /\ call' = [call EXCEPT !.stopit = BannedMatch]
        /\ pc = "match" /\ pc' = "scan"
    BY <1>3 DEF Match
  <2>2. call'.ipbanned = call.ipbanned /\ call'.stopit = BannedMatch
    BY <2>1 DEF TypeOK, RecvTypeOK, Call
  <2>3. CASE ~BannedMatch
    <3>1. UNCHANGED <<ddosiplist, ntoa>>
      BY <1>3, <2>3 DEF Match, control_vars
    <3>2. QED
      BY <2>1, <2>2, <3>1, SameAnswer
  <2>4. CASE BannedMatch
    BY <2>1, <2>2, <2>4
  <2>5. QED
    BY <2>3, <2>4
<1>4. CASE Scan
  <2>1. UNCHANGED <<ddosiplist, ntoa, call>>
    BY <1>4 DEF Scan, ClearBegin, control_vars
  <2>2. is_ipbanned(ntoa)' = is_ipbanned(ntoa)
    BY <2>1, SameAnswer
  <2>3. QED
    BY <1>4, <2>1, <2>2 DEF Scan
<1>5. CASE Clearing
  BY <1>5 DEF Clearing
<1>6. CASE Pass
  <2>1. UNCHANGED <<ddosiplist, ntoa, call, pc, son_tarama_zamani>>
    BY <1>6 DEF Pass, Tick
  <2>2. is_ipbanned(ntoa)' = is_ipbanned(ntoa)
    BY <2>1, SameAnswer
  <2>3. QED
    BY <2>1, <2>2
<1>7. CASE \/ Arrive \/ ReadSettings \/ Filter \/ Decide \/ Return \/ Console
           \/ ServerActivate_Post \/ SetCvar
  <2>1. pc' \notin {"match", "scan", "clearing", "decide"}
    BY <1>7
       DEF Arrive, Receive, ReadSettings, Filter, Decide, Return, Console, ListCommand, Listing,
           ClearCommand, RemoveIndexCommand, RemoveAddrCommand, ServerActivate_Post, parse_config,
           SetCvar
  <2>2. QED
    BY <1>1, <2>1
<1>8. QED
  BY <1>2, <1>3, <1>4, <1>5, <1>6, <1>7 DEF Next, HandleStep, Handle

LEMMA NextPlugin == PluginInv /\ [Next]_vars => PluginInv'
<1> SUFFICES ASSUME PluginInv, [Next]_vars PROVE PluginInv'
  OBVIOUS
<1>1. CASE Next
  BY <1>1, TypeStep, PhaseStep, BanReadStep DEF PluginInv
<1>2. CASE UNCHANGED vars
  <2>1. UNCHANGED <<ddosiplist, ntoa, clock, sweep, cvars, settings_vars, config, pc, call,
                    son_tarama_zamani, reply>>
    BY <1>2 DEF vars, recv_vars, control_vars
  <2>2. is_ipbanned(ntoa)' = is_ipbanned(ntoa)
    BY <2>1, SameAnswer
  <2>3. TypeOK'
    BY <2>1, Typed DEF PluginInv, TypeOK, RecvTypeOK
  <2>4. SweepPhase' /\ SenderSpelled' /\ BanRead'
    BY <2>1, <2>2
       DEF PluginInv, SweepPhase, SenderSpelled, BanRead, VerdictFresh
  <2>5. QED
    BY <2>1, <2>3, <2>4 DEF PluginInv
<1>3. QED
  BY <1>1, <1>2

-----------------------------------------------------------------------------
(* Refinement: every step is a step of the ban list, or leaves it alone.   *)

LEMMA RefinesInit == Init => ControlInit
<1> SUFFICES ASSUME Init PROVE ControlInit
  OBVIOUS
<1>1. ControlInit
  BY DEF Init, RecvInit
<1>2. QED
  BY <1>1

LEMMA RefinesNext == PluginInv /\ [Next]_vars => [ControlNext]_control_vars
<1> SUFFICES ASSUME PluginInv, [Next]_vars PROVE [ControlNext]_control_vars
  OBVIOUS
<1> USE DEF PluginInv, SweepPhase, SenderSpelled, InCall
<1>1. CASE UNCHANGED vars
  BY <1>1 DEF vars, recv_vars
<1>2. CASE Arrive \/ ServerActivate_Post \/ SetCvar
  BY <1>2 DEF Arrive, Receive, ServerActivate_Post, parse_config, SetCvar
<1>3. CASE Pass
  BY <1>3 DEF Pass, ControlNext
<1>4. CASE ReadSettings
  <2>1. OptionsOf(cvars) \in Options
    BY CopiedTypes DEF TypeOK, CvarsTypeOK
  <2>2. sweep = 0
    BY <1>4 DEF ReadSettings
  <2>3. UNCHANGED control_vars \/ SetOptions(OptionsOf(cvars))
    BY <1>4 DEF ReadSettings, SetCvarsValue
  <2>4. QED
    BY <2>1, <2>2, <2>3 DEF ControlNext
<1>5. CASE Filter
  <2>1. sweep = 0 /\ call.addr \in Addr
    BY <1>5 DEF Filter
  <2>2. UNCHANGED control_vars \/ inet_ntoa(call.addr)
    BY <1>5 DEF Filter
  <2>3. QED
    BY <2>1, <2>2 DEF ControlNext
<1>6. CASE Lookup \/ Return
  BY <1>6 DEF Lookup, Return
<1>7. CASE Match
  BY <1>7 DEF Match, ControlNext
<1>8. CASE Scan
  BY <1>8 DEF Scan, ControlNext
<1>9. CASE Clearing \/ Listing
  <2>1. sweep # 0 /\ sweep \in Nat
    BY <1>9 DEF Clearing, Listing
  <2>2. ClearStep
    BY <1>9 DEF Clearing, Listing, ClearStep
  <2>3. QED
    BY <2>1, <2>2 DEF ControlNext
<1>10. CASE Decide
  <2>1. sweep = 0 /\ ntoa \in Addr
    BY <1>10 DEF Decide
  <2>2. CASE UNCHANGED control_vars
    BY <2>2
  <2>3. ASSUME NEW reason \in Reason, get_banstatus(call.pkt, reason)
        PROVE  ControlNext
    <3>1. call.pkt \in Packet
      BY <1>10 DEF Decide
    <3>2. QED
      BY <2>1, <2>3, <3>1 DEF ControlNext
  <2>4. QED
    BY <1>10, <2>2, <2>3 DEF Decide
<1>11. CASE ListCommand
  BY <1>11 DEF ListCommand, ControlNext
<1>12. CASE ClearCommand
  BY <1>12 DEF ClearCommand, ControlNext
<1>13. ASSUME NEW k \in 1..(Len(ddosiplist) + 1), RemoveIndexCommand(k)
       PROVE  [ControlNext]_control_vars
  <2>1. sweep = 0
    BY <1>13 DEF RemoveIndexCommand
  <2>2. CASE FlagRemoved(k)
    BY <2>1, <2>2 DEF FlagRemoved, ControlNext
  <2>3. CASE UNCHANGED control_vars
    BY <2>3
  <2>4. QED
    BY <1>13, <2>2, <2>3 DEF RemoveIndexCommand
<1>14. ASSUME NEW a \in Addr, RemoveAddrCommand(a)
       PROVE  [ControlNext]_control_vars
  BY <1>14 DEF RemoveAddrCommand, ControlNext
<1>15. QED
  BY <1>1, <1>2, <1>3, <1>4, <1>5, <1>6, <1>7, <1>8, <1>9, <1>10, <1>11, <1>12, <1>13, <1>14
     DEF Next, HandleStep, Handle, Console

-----------------------------------------------------------------------------
(* No ban is prolonged.                                                    *)

\* It suffices that each entry after the step continues an entry of the same
\* owner without moving its ban, is of a new owner, or is not banned.
LEMMA ProlongCriterion ==
    ASSUME ControlInv,
           \A k \in DOMAIN ddosiplist' :
              \/ ~ddosiplist'[k].is_banned
              \/ \A j \in DOMAIN ddosiplist :
                    ddosiplist[j].ip_address # ddosiplist'[k].ip_address
              \/ \E i \in DOMAIN ddosiplist :
                    /\ ddosiplist[i].ip_address = ddosiplist'[k].ip_address
                    /\ ddosiplist[i].is_banned =>
                          ddosiplist'[k].bannedtime = ddosiplist[i].bannedtime
    PROVE  BanNotProlongedStep
<1> SUFFICES ASSUME NEW j \in DOMAIN ddosiplist, NEW k \in DOMAIN ddosiplist',
                    ddosiplist[j].is_banned, ddosiplist'[k].is_banned,
                    ddosiplist'[k].ip_address = ddosiplist[j].ip_address
             PROVE  ddosiplist'[k].bannedtime = ddosiplist[j].bannedtime
  BY DEF BanNotProlongedStep
<1>1. PICK i \in DOMAIN ddosiplist :
         /\ ddosiplist[i].ip_address = ddosiplist'[k].ip_address
         /\ ddosiplist[i].is_banned =>
               ddosiplist'[k].bannedtime = ddosiplist[i].bannedtime
  OBVIOUS
<1>2. i = j
  BY <1>1 DEF ControlInv, GoodList, OneEntryPerOwner
<1>3. QED
  BY <1>1, <1>2

\* A replaced entry of the same owner that was not banned, or keeps its ban.
LEMMA ProlongReplace ==
    ASSUME ControlInv, NEW k \in DOMAIN ddosiplist, NEW e \in GoodEntry,
           e.ip_address = ddosiplist[k].ip_address,
           ddosiplist[k].is_banned => e.bannedtime = ddosiplist[k].bannedtime,
           ddosiplist' = [ddosiplist EXCEPT ![k] = e]
    PROVE  BanNotProlongedStep
<1>1. /\ GoodList' /\ Len(ddosiplist') = Len(ddosiplist)
      /\ \A j \in DOMAIN ddosiplist :
            ddosiplist'[j] = IF j = k THEN e ELSE ddosiplist[j]
  BY ReplaceGood DEF ControlInv
<1>2. DOMAIN ddosiplist' = DOMAIN ddosiplist
  BY <1>1, ListDomain DEF ControlInv, GoodList
<1>3. \A i \in DOMAIN ddosiplist' :
         /\ ddosiplist[i].ip_address = ddosiplist'[i].ip_address
         /\ ddosiplist[i].is_banned =>
               ddosiplist'[i].bannedtime = ddosiplist[i].bannedtime
  BY <1>1, <1>2
<1>4. QED
  BY <1>2, <1>3, ProlongCriterion

\* An appended entry of a new owner.
LEMMA ProlongAppend ==
    ASSUME ControlInv, NEW e \in GoodEntry,
           \A k \in DOMAIN ddosiplist :
              /\ ddosiplist[k].ip_address # e.ip_address
              /\ ddosiplist[k].ip_address # Shared,
           ddosiplist' = Append(ddosiplist, e)
    PROVE  BanNotProlongedStep
<1>1. /\ GoodList' /\ Len(ddosiplist') = Len(ddosiplist) + 1
      /\ \A j \in DOMAIN ddosiplist : ddosiplist'[j] = ddosiplist[j]
      /\ ddosiplist'[Len(ddosiplist) + 1] = e
  BY AppendGood DEF ControlInv
<1>2. /\ DOMAIN ddosiplist = 1..Len(ddosiplist) /\ Len(ddosiplist) \in Nat
      /\ DOMAIN ddosiplist' = 1..(Len(ddosiplist) + 1)
  BY <1>1, ListDomain, LenProperties DEF ControlInv, GoodList
<1>3. \A k \in DOMAIN ddosiplist' :
         \/ k \in DOMAIN ddosiplist /\ ddosiplist'[k] = ddosiplist[k]
         \/ ddosiplist'[k] = e
  BY <1>1, <1>2
<1>4. QED
  BY <1>3, ProlongCriterion

LEMMA ProlongStep ==
    ASSUME PluginInv, ControlInv, [Next]_vars
    PROVE  BanNotProlongedStep
<1>1. CASE UNCHANGED ddosiplist
  BY <1>1, ProlongCriterion
<1>2. CASE AddIPBan /\ Match /\ BannedMatch
  <2>1. clock \in Nat
    BY DEF PluginInv
  <2>2. ~is_ipbanned(ntoa)
    BY <1>2 DEF PluginInv, BanRead, Match, BannedMatch
  <2>3. ASSUME NEW k \in DOMAIN ddosiplist, IsEntryOf(k, ntoa),
               ddosiplist' = [ddosiplist EXCEPT ![k] = RenewedBan(@)]
        PROVE  BanNotProlongedStep
    <3> DEFINE di == ddosiplist[k]
               e == RenewedBan(di)
    <3>1. di \in GoodEntry /\ di \in Entry
      BY ListDomain DEF ControlInv, GoodEntry
    <3>2. e \in GoodEntry
      BY <2>1, <3>1, RenewedBanGood
    <3>3. e.ip_address = di.ip_address
      BY <3>1 DEF RenewedBan, Entry
    <3>4. ~di.is_banned
      BY <2>2, <2>3 DEF is_ipbanned
    <3>5. ddosiplist' = [ddosiplist EXCEPT ![k] = e]
      BY <2>3
    <3> HIDE DEF e
    <3>6. QED
      BY <3>2, <3>3, <3>4, <3>5, ProlongReplace
  <2>4. CASE Unlisted(ntoa) /\ ddosiplist' = Append(ddosiplist, SharedBan)
    <3>1. \A k \in DOMAIN ddosiplist : ddosiplist[k].ip_address # Shared
      BY <2>4 DEF Unlisted, TextOf
    <3>2. SharedBan \in GoodEntry /\ SharedBan.ip_address = Shared
      BY <2>1, SharedBanGood DEF SharedBan
    <3>3. QED
      BY <2>4, <3>1, <3>2, ProlongAppend
  <2>5. QED
    BY <1>2, <2>3, <2>4 DEF AddIPBan
<1>3. ASSUME Decide, NEW reason \in Reason, get_banstatus(call.pkt, reason)
      PROVE  BanNotProlongedStep
  <2>1. /\ clock \in Nat /\ ntoa \in Addr /\ call.pkt \in Packet /\ opts \in Options
    BY <1>3 DEF PluginInv, SenderSpelled, InCall, Decide, ControlInv, ControlTypeOK
  <2>2. CASE Unlisted(ntoa) /\ ddosiplist' = Append(ddosiplist, NewEntry(call.pkt))
    <3>1. \A k \in DOMAIN ddosiplist :
             ddosiplist[k].ip_address # ntoa /\ ddosiplist[k].ip_address # Shared
      BY <2>2 DEF Unlisted, TextOf
    <3>2. NewEntry(call.pkt) \in GoodEntry /\ NewEntry(call.pkt).ip_address = ntoa
      BY <2>1, NewEntryGood DEF NewEntry
    <3>3. QED
      BY <2>2, <3>1, <3>2, ProlongAppend
  <2>3. ASSUME NEW k \in DOMAIN ddosiplist, Counted(ddosiplist[k]),
               ddosiplist' = [ddosiplist EXCEPT ![k] = BannedEntry(@)]
        PROVE  BanNotProlongedStep
    <3> DEFINE di == ddosiplist[k]
               e == BannedEntry(di)
    <3>1. di \in GoodEntry /\ di \in Entry /\ ~di.is_banned
      BY <2>3, ListDomain DEF ControlInv, GoodEntry, Counted
    <3>2. e \in GoodEntry /\ e.ip_address = di.ip_address
      BY <2>1, <3>1, BannedEntryGood DEF BannedEntry, Entry
    <3>3. ddosiplist' = [ddosiplist EXCEPT ![k] = e]
      BY <2>3
    <3> HIDE DEF e
    <3>4. QED
      BY <3>1, <3>2, <3>3, ProlongReplace
  <2>4. ASSUME NEW k \in DOMAIN ddosiplist, Counted(ddosiplist[k]),
               ~TotalFlood(ddosiplist[k]), ~SingleFlood(ddosiplist[k], call.pkt),
               ddosiplist' = [ddosiplist EXCEPT ![k] = CountedEntry(@, call.pkt)]
        PROVE  BanNotProlongedStep
    <3> DEFINE di == ddosiplist[k]
               e == CountedEntry(di, call.pkt)
    <3>1. di \in GoodEntry /\ di \in Entry /\ ~di.is_banned
      BY <2>4, ListDomain DEF ControlInv, GoodEntry, Counted
    <3>2. e \in GoodEntry
      BY <2>1, <2>4, <3>1, CountedEntryGood
    <3>3. e.ip_address = di.ip_address
      BY <3>1 DEF CountedEntry, Entry
    <3>4. ddosiplist' = [ddosiplist EXCEPT ![k] = e]
      BY <2>4
    <3> HIDE DEF e
    <3>5. QED
      BY <3>1, <3>2, <3>3, <3>4, ProlongReplace
  <2>5. QED
    BY <1>1, <1>3, <2>2, <2>3, <2>4 DEF get_banstatus
<1>4. ASSUME NEW k \in DOMAIN ddosiplist, FlagRemoved(k)
      PROVE  BanNotProlongedStep
  <2> DEFINE di == ddosiplist[k]
             e == [di EXCEPT !.flagged_removed = TRUE]
  <2>1. di \in GoodEntry /\ di \in Entry
    BY ListDomain DEF ControlInv, GoodEntry
  <2>2. e \in GoodEntry
    BY <2>1, FlaggedEntryGood
  <2>3. e.ip_address = di.ip_address /\ e.bannedtime = di.bannedtime
    BY <2>1 DEF Entry
  <2>4. ddosiplist' = [ddosiplist EXCEPT ![k] = e]
    BY <1>4 DEF FlagRemoved
  <2> HIDE DEF e
  <2>5. QED
    BY <2>2, <2>3, <2>4, ProlongReplace
<1>5. CASE ClearErase
  <2>1. sweep \in DOMAIN ddosiplist /\ ddosiplist' = RemoveAt(ddosiplist, sweep)
    BY <1>5 DEF ClearErase
  <2>2. /\ DOMAIN ddosiplist' = 1..(Len(ddosiplist) - 1)
        /\ \A j \in 1..(Len(ddosiplist) - 1) :
              ddosiplist'[j] = IF j < sweep THEN ddosiplist[j] ELSE ddosiplist[j + 1]
    BY <2>1, EraseGood DEF ControlInv
  <2>3. DOMAIN ddosiplist = 1..Len(ddosiplist) /\ Len(ddosiplist) \in Nat
    BY ListDomain DEF ControlInv
  <2>4. ASSUME NEW k \in DOMAIN ddosiplist'
        PROVE  \E i \in DOMAIN ddosiplist : ddosiplist'[k] = ddosiplist[i]
    BY <2>2, <2>3
  <2>5. QED
    BY <2>4, ProlongCriterion
<1>6. CASE UNCHANGED control_vars \/ UNCHANGED vars
  BY <1>1, <1>6 DEF control_vars, vars, recv_vars
<1>7. CASE HandleStep
  <2>1. CASE ReadSettings \/ Filter \/ Lookup \/ Scan \/ Return
    BY <1>1, <2>1
       DEF ReadSettings, SetCvarsValue, SetOptions, Filter, inet_ntoa, Lookup, Scan, ClearBegin,
           Return, control_vars
  <2>2. CASE Match
    BY <1>2, <1>6, <2>2 DEF Match
  <2>3. CASE Clearing
    BY <1>1, <1>5, <2>3 DEF Clearing, ClearKeep, ClearEnd
  <2>4. CASE Decide
    BY <1>3, <1>6, <2>4 DEF Decide
  <2>5. QED
    BY <1>7, <2>1, <2>2, <2>3, <2>4 DEF HandleStep, Handle
<1>8. CASE Console
  BY <1>1, <1>4, <1>5, <1>6, <1>8
     DEF Console, ListCommand, ClearBegin, Listing, ClearKeep, ClearEnd, ClearCommand, Clear,
         RemoveIndexCommand, RemoveAddrCommand, FlagRemovedAddr, FlagRemoved
<1>9. CASE Arrive \/ ServerActivate_Post \/ SetCvar \/ Pass
  BY <1>1, <1>9 DEF Arrive, Receive, ServerActivate_Post, parse_config, SetCvar, Pass, Tick, control_vars
<1>10. QED
  BY <1>6, <1>7, <1>8, <1>9 DEF Next

-----------------------------------------------------------------------------
(* The ways in which a step of the plugin changes the list.  What holds of *)
(* the entries from one step to the next is shown case by case from these. *)

\* The entry at k becomes e, e is added at the end, or the entry at k is erased.
Replaced(k, e) ==
    /\ DOMAIN ddosiplist' = DOMAIN ddosiplist
    /\ \A j \in DOMAIN ddosiplist : ddosiplist'[j] = IF j = k THEN e ELSE ddosiplist[j]

Grown(e) ==
    /\ DOMAIN ddosiplist = 1..Len(ddosiplist)
    /\ DOMAIN ddosiplist' = 1..(Len(ddosiplist) + 1)
    /\ \A j \in DOMAIN ddosiplist : ddosiplist'[j] = ddosiplist[j]
    /\ ddosiplist'[Len(ddosiplist) + 1] = e

Shrunk(k) ==
    /\ DOMAIN ddosiplist = 1..Len(ddosiplist)
    /\ DOMAIN ddosiplist' = 1..(Len(ddosiplist) - 1)
    /\ \A j \in 1..(Len(ddosiplist) - 1) :
          ddosiplist'[j] = IF j < k THEN ddosiplist[j] ELSE ddosiplist[j + 1]

\* A packet of the banned list: the sender's entry becomes a ban, or a ban is added.
Renews(k) ==
    /\ Match /\ BannedMatch /\ cvarvalue.banpacketip
    /\ k \in DOMAIN ddosiplist /\ IsEntryOf(k, ntoa) /\ ~ddosiplist[k].is_banned
    /\ Replaced(k, RenewedBan(ddosiplist[k]))

Shares ==
    /\ Match /\ BannedMatch /\ cvarvalue.banpacketip
    /\ Unlisted(ntoa)
    /\ Grown(SharedBan)

\* A checked packet opens a window, ends it with a ban, or is counted.
Judging == Decide /\ ~call.stopit /\ Checked /\ ~call.ipbanned

Opens ==
    /\ Judging /\ pc' = "delivered"
    /\ Unlisted(ntoa)
    /\ Grown(NewEntry(call.pkt))

Floods(k) ==
    /\ Judging /\ pc' = "stopped"
    /\ k \in DOMAIN ddosiplist /\ IsEntryOf(k, ntoa) /\ Counted(ddosiplist[k])
    /\ TotalFlood(ddosiplist[k]) \/ SingleFlood(ddosiplist[k], call.pkt)
    /\ Replaced(k, BannedEntry(ddosiplist[k]))

Counts(k) ==
    /\ Judging /\ pc' = "delivered"
    /\ k \in DOMAIN ddosiplist /\ IsEntryOf(k, ntoa) /\ Counted(ddosiplist[k])
    /\ ~TotalFlood(ddosiplist[k]) /\ ~SingleFlood(ddosiplist[k], call.pkt)
    /\ Replaced(k, CountedEntry(ddosiplist[k], call.pkt))

\* The operator flags an entry; a sweep erases one.
Removes(k) ==
    /\ pc = "idle" /\ Commands \cap {"clear", "remove"} # {}
    /\ k \in DOMAIN ddosiplist
    /\ Replaced(k, [ddosiplist[k] EXCEPT !.flagged_removed = TRUE])
    /\ UNCHANGED <<ntoa, clock, opts, sweep, sweepnow, pc, call>>

Erases ==
    /\ pc \in {"clearing", "listing"}
    /\ ClearErase /\ sweep \in DOMAIN ddosiplist
    /\ Shrunk(sweep)
    /\ UNCHANGED <<pc, call>>

\* Whose an entry is, and what it says, after each change.
LEMMA RenewedFields ==
    ASSUME NEW di \in Entry
    PROVE  /\ RenewedBan(di).ip_address = di.ip_address
           /\ RenewedBan(di).is_banned /\ ~RenewedBan(di).flagged_removed
           /\ RenewedBan(di).bannedtime = clock
BY DEF Entry, RenewedBan

LEMMA BannedFields ==
    ASSUME NEW di \in Entry
    PROVE  /\ BannedEntry(di).ip_address = di.ip_address
           /\ BannedEntry(di).is_banned
           /\ BannedEntry(di).flagged_removed = di.flagged_removed
           /\ BannedEntry(di).bannedtime = clock
BY DEF Entry, BannedEntry

LEMMA CountedFields ==
    ASSUME NEW di \in Entry, NEW m
    PROVE  /\ CountedEntry(di, m).ip_address = di.ip_address
           /\ CountedEntry(di, m).is_banned = di.is_banned
           /\ CountedEntry(di, m).flagged_removed = di.flagged_removed
           /\ CountedEntry(di, m).bannedtime = di.bannedtime
           /\ CountedEntry(di, m).lastconnection = di.lastconnection
           /\ CountedEntry(di, m).total_ddoscount = di.total_ddoscount + 1
BY DEF Entry, CountedEntry

LEMMA FlaggedFields ==
    ASSUME NEW di \in Entry
    PROVE  LET e == [di EXCEPT !.flagged_removed = TRUE] IN
           /\ e.ip_address = di.ip_address /\ e.is_banned = di.is_banned
           /\ e.bannedtime = di.bannedtime /\ e.lastconnection = di.lastconnection
           /\ e.total_ddoscount = di.total_ddoscount /\ e.flagged_removed
BY DEF Entry

\* Each of the changes keeps the list good; the clock need not have gone forward.
LEMMA ReplacedGood ==
    ASSUME GoodList, NEW k \in DOMAIN ddosiplist, NEW e \in GoodEntry,
           e.ip_address = ddosiplist[k].ip_address,
           ddosiplist' = [ddosiplist EXCEPT ![k] = e]
    PROVE  GoodList' /\ Replaced(k, e)
<1>1. /\ GoodList' /\ Len(ddosiplist') = Len(ddosiplist)
      /\ \A j \in DOMAIN ddosiplist :
            ddosiplist'[j] = IF j = k THEN e ELSE ddosiplist[j]
  BY ReplaceGood
<1>2. DOMAIN ddosiplist' = DOMAIN ddosiplist
  BY <1>1, ListDomain DEF GoodList
<1>3. QED
  BY <1>1, <1>2 DEF Replaced

LEMMA GrownGood ==
    ASSUME GoodList, NEW e \in GoodEntry,
           \A k \in DOMAIN ddosiplist :
              /\ ddosiplist[k].ip_address # e.ip_address
              /\ ddosiplist[k].ip_address # Shared,
           ddosiplist' = Append(ddosiplist, e)
    PROVE  GoodList' /\ Grown(e)
<1>1. /\ GoodList' /\ Len(ddosiplist') = Len(ddosiplist) + 1
      /\ \A j \in DOMAIN ddosiplist : ddosiplist'[j] = ddosiplist[j]
      /\ ddosiplist'[Len(ddosiplist) + 1] = e
  BY AppendGood
<1>2. DOMAIN ddosiplist = 1..Len(ddosiplist) /\ DOMAIN ddosiplist' = 1..(Len(ddosiplist) + 1)
  BY <1>1, ListDomain, LenProperties DEF GoodList
<1>3. QED
  BY <1>1, <1>2 DEF Grown

LEMMA MatchChange ==
    ASSUME PluginInv, GoodList, Match, ~UNCHANGED ddosiplist
    PROVE  /\ GoodList'
           /\ Shares \/ \E k \in DOMAIN ddosiplist : Renews(k)
<1>1. clock \in Nat
  BY DEF PluginInv
<1>2. BannedMatch /\ cvarvalue.banpacketip /\ AddIPBan
  BY DEF Match, control_vars
<1>3. ~is_ipbanned(ntoa)
  BY <1>2 DEF PluginInv, BanRead, Match, BannedMatch
<1>4. ASSUME NEW k \in DOMAIN ddosiplist, IsEntryOf(k, ntoa),
             ddosiplist' = [ddosiplist EXCEPT ![k] = RenewedBan(@)]
      PROVE  GoodList' /\ Renews(k)
  <2> DEFINE di == ddosiplist[k]
             e == RenewedBan(di)
  <2>1. di \in GoodEntry /\ di \in Entry
    BY ListDomain DEF GoodEntry
  <2>2. e \in GoodEntry /\ e.ip_address = di.ip_address
    BY <1>1, <2>1, RenewedBanGood, RenewedFields
  <2>3. ~di.is_banned
    BY <1>3, <1>4 DEF is_ipbanned
  <2>4. ddosiplist' = [ddosiplist EXCEPT ![k] = e]
    BY <1>4
  <2>5. GoodList' /\ Replaced(k, e)
    <3> HIDE DEF e
    <3>1. QED
      BY <2>2, <2>4, ReplacedGood
  <2>6. QED
    BY <1>2, <1>4, <2>3, <2>5 DEF Renews
<1>5. CASE Unlisted(ntoa) /\ ddosiplist' = Append(ddosiplist, SharedBan)
  <2>1. \A k \in DOMAIN ddosiplist : ddosiplist[k].ip_address # Shared
    BY <1>5 DEF Unlisted, TextOf
  <2>2. SharedBan \in GoodEntry /\ SharedBan.ip_address = Shared
    BY <1>1, SharedBanGood DEF SharedBan
  <2>3. QED
    BY <1>2, <1>5, <2>1, <2>2, GrownGood DEF Shares
<1>6. QED
  BY <1>2, <1>4, <1>5 DEF AddIPBan

\* A verdict that leaves the list alone stops the packet only if it was banned
\* before: by the match of its bytes or by the list.
LEMMA DecideChange ==
    ASSUME PluginInv, GoodList, opts \in Options, Decide
    PROVE  /\ GoodList'
           /\ \/ UNCHANGED ddosiplist /\ (pc' = "stopped" => call.stopit \/ call.ipbanned)
              \/ Opens
              \/ \E k \in DOMAIN ddosiplist : Floods(k) \/ Counts(k)
<1>1. /\ clock \in Nat /\ ntoa \in Addr /\ call.pkt \in Packet
  BY DEF PluginInv, SenderSpelled, InCall, Decide
<1>2. CASE UNCHANGED control_vars /\ (pc' = "stopped" => call.stopit \/ call.ipbanned)
  BY <1>2 DEF control_vars, GoodList, OneEntryPerOwner
<1>3. CASE /\ ~call.stopit /\ Checked /\ ~call.ipbanned
           /\ \E reason \in Reason :
                 /\ get_banstatus(call.pkt, reason)
                 /\ pc' = IF reason = "nobanned" THEN "delivered" ELSE "stopped"
  <2>1. PICK reason \in Reason :
           /\ get_banstatus(call.pkt, reason)
           /\ pc' = IF reason = "nobanned" THEN "delivered" ELSE "stopped"
           /\ ~call.stopit /\ Checked /\ ~call.ipbanned
    BY <1>3
  <2>2. Judging
    BY <2>1 DEF Judging
  <2>3. CASE /\ Unlisted(ntoa) /\ reason = "nobanned"
             /\ ddosiplist' = Append(ddosiplist, NewEntry(call.pkt))
    <3>1. \A k \in DOMAIN ddosiplist :
             ddosiplist[k].ip_address # ntoa /\ ddosiplist[k].ip_address # Shared
      BY <2>3 DEF Unlisted, TextOf
    <3>2. NewEntry(call.pkt) \in GoodEntry /\ NewEntry(call.pkt).ip_address = ntoa
      BY <1>1, NewEntryGood DEF NewEntry
    <3>3. GoodList' /\ Grown(NewEntry(call.pkt))
      BY <2>3, <3>1, <3>2, GrownGood
    <3>4. QED
      BY <2>1, <2>2, <2>3, <3>3 DEF Opens
  <2>4. ASSUME NEW k \in DOMAIN ddosiplist, IsEntryOf(k, ntoa), Counted(ddosiplist[k]),
               TotalFlood(ddosiplist[k]) \/ SingleFlood(ddosiplist[k], call.pkt),
               reason # "nobanned",
               ddosiplist' = [ddosiplist EXCEPT ![k] = BannedEntry(@)]
        PROVE  GoodList' /\ Floods(k)
    <3> DEFINE di == ddosiplist[k]
               e == BannedEntry(di)
    <3>1. di \in GoodEntry /\ di \in Entry
      BY ListDomain DEF GoodEntry
    <3>2. e \in GoodEntry /\ e.ip_address = di.ip_address
      BY <1>1, <3>1, BannedEntryGood, BannedFields
    <3>3. ddosiplist' = [ddosiplist EXCEPT ![k] = e]
      BY <2>4
    <3>4. GoodList' /\ Replaced(k, e)
      <4> HIDE DEF e
      <4>1. QED
        BY <3>2, <3>3, ReplacedGood
    <3>5. QED
      BY <2>1, <2>2, <2>4, <3>4 DEF Floods
  <2>5. ASSUME NEW k \in DOMAIN ddosiplist, IsEntryOf(k, ntoa), Counted(ddosiplist[k]),
               ~TotalFlood(ddosiplist[k]), ~SingleFlood(ddosiplist[k], call.pkt),
               reason = "nobanned",
               ddosiplist' = [ddosiplist EXCEPT ![k] = CountedEntry(@, call.pkt)]
        PROVE  GoodList' /\ Counts(k)
    <3> DEFINE di == ddosiplist[k]
               e == CountedEntry(di, call.pkt)
    <3>1. di \in GoodEntry /\ di \in Entry
      BY ListDomain DEF GoodEntry
    <3>2. e \in GoodEntry
      BY <1>1, <2>5, <3>1, CountedEntryGood
    <3>3. e.ip_address = di.ip_address
      BY <3>1, CountedFields
    <3>4. ddosiplist' = [ddosiplist EXCEPT ![k] = e]
      BY <2>5
    <3>5. GoodList' /\ Replaced(k, e)
      <4> HIDE DEF e
      <4>1. QED
        BY <3>2, <3>3, <3>4, ReplacedGood
    <3>6. QED
      BY <2>1, <2>2, <2>5, <3>5 DEF Counts
  <2>6. CASE UNCHANGED ddosiplist /\ reason = "nobanned"
    BY <2>1, <2>6 DEF GoodList, OneEntryPerOwner
  <2>7. QED
    BY <2>1, <2>3, <2>4, <2>5, <2>6 DEF get_banstatus
<1>4. QED
  BY <1>2, <1>3 DEF Decide

LEMMA FlagChange ==
    ASSUME GoodList, NEW k, FlagRemoved(k), UNCHANGED <<pc, call>>,
           pc = "idle", Commands \cap {"clear", "remove"} # {}
    PROVE  GoodList' /\ k \in DOMAIN ddosiplist /\ Removes(k)
<1> DEFINE di == ddosiplist[k]
           e == [di EXCEPT !.flagged_removed = TRUE]
<1>1. k \in DOMAIN ddosiplist
  BY DEF FlagRemoved
<1>2. di \in GoodEntry /\ di \in Entry
  BY <1>1, ListDomain DEF GoodEntry
<1>3. e \in GoodEntry /\ e.ip_address = di.ip_address
  BY <1>2, FlaggedEntryGood, FlaggedFields
<1>4. ddosiplist' = [ddosiplist EXCEPT ![k] = e]
  BY DEF FlagRemoved
<1>5. GoodList' /\ Replaced(k, e)
  <2> HIDE DEF e
  <2>1. QED
    BY <1>1, <1>3, <1>4, ReplacedGood
<1>6. QED
  BY <1>1, <1>5 DEF Removes, FlagRemoved

LEMMA EraseChange ==
    ASSUME GoodList, ClearErase, UNCHANGED <<pc, call>>, pc \in {"clearing", "listing"}
    PROVE  GoodList' /\ Erases
<1>1. sweep \in DOMAIN ddosiplist /\ ddosiplist' = RemoveAt(ddosiplist, sweep)
  BY DEF ClearErase
<1>2. GoodList' /\ Shrunk(sweep)
  BY <1>1, EraseGood, ListDomain DEF Shrunk
<1>3. QED
  BY <1>1, <1>2 DEF Erases

\* What is left after an erasure was there before.
LEMMA ErasedFrom ==
    ASSUME Erases, Len(ddosiplist) \in Nat, NEW n \in DOMAIN ddosiplist'
    PROVE  \E i \in DOMAIN ddosiplist : ddosiplist'[n] = ddosiplist[i]
<1>1. /\ n \in 1..(Len(ddosiplist) - 1) /\ DOMAIN ddosiplist = 1..Len(ddosiplist)
      /\ ddosiplist'[n] = IF n < sweep THEN ddosiplist[n] ELSE ddosiplist[n + 1]
  BY DEF Erases, Shrunk
<1>2. n \in DOMAIN ddosiplist /\ n + 1 \in DOMAIN ddosiplist
  BY <1>1
<1>3. QED
  BY <1>1, <1>2

LEMMA ListChange ==
    ASSUME PluginInv, GoodList, opts \in Options, [Next]_vars
    PROVE  /\ GoodList'
           /\ \/ UNCHANGED ddosiplist
              \/ Shares \/ Opens \/ Erases
              \/ \E k \in DOMAIN ddosiplist :
                    Renews(k) \/ Floods(k) \/ Counts(k) \/ Removes(k)
<1>1. CASE UNCHANGED ddosiplist
  BY <1>1 DEF GoodList, OneEntryPerOwner
<1>2. CASE HandleStep /\ ~UNCHANGED ddosiplist
  <2>1. CASE ReadSettings \/ Filter \/ Lookup \/ Scan \/ Return
    BY <1>2, <2>1
       DEF ReadSettings, SetCvarsValue, SetOptions, Filter, inet_ntoa, Lookup, Scan, ClearBegin,
           Return, control_vars
  <2>2. CASE Match
    BY <1>2, <2>2, MatchChange
  <2>3. CASE Clearing
    <3>1. ClearErase /\ UNCHANGED <<pc, call>> /\ pc = "clearing"
      BY <1>2, <2>3 DEF Clearing, ClearKeep, ClearEnd
    <3>2. QED
      BY <3>1, EraseChange
  <2>4. CASE Decide
    BY <1>2, <2>4, DecideChange
  <2>5. QED
    BY <1>2, <2>1, <2>2, <2>3, <2>4 DEF HandleStep, Handle
<1>3. CASE Console /\ ~UNCHANGED ddosiplist
  <2>1. CASE ListCommand
    BY <1>3, <2>1 DEF ListCommand, ClearBegin
  <2>2. CASE Listing
    <3>1. ClearErase /\ UNCHANGED <<pc, call>> /\ pc = "listing"
      BY <1>3, <2>2 DEF Listing, ClearKeep, ClearEnd, Elsewhere
    <3>2. QED
      BY <3>1, EraseChange
  <2>3. CASE ClearCommand
    <3>1. /\ FlagRemoved(1) /\ UNCHANGED <<pc, call>> /\ pc = "idle"
          /\ Commands \cap {"clear", "remove"} # {}
      BY <1>3, <2>3 DEF ClearCommand, Clear, Elsewhere, control_vars
    <3>2. QED
      BY <3>1, FlagChange
  <2>4. ASSUME NEW k \in 1..(Len(ddosiplist) + 1), RemoveIndexCommand(k)
        PROVE  GoodList' /\ \E n \in DOMAIN ddosiplist : Removes(n)
    <3>1. /\ FlagRemoved(k) /\ UNCHANGED <<pc, call>> /\ pc = "idle"
          /\ Commands \cap {"clear", "remove"} # {}
      BY <1>3, <2>4 DEF RemoveIndexCommand, Elsewhere, control_vars
    <3>2. QED
      BY <3>1, FlagChange
  <2>5. ASSUME NEW a \in Addr, RemoveAddrCommand(a)
        PROVE  GoodList' /\ \E n \in DOMAIN ddosiplist : Removes(n)
    <3>1. /\ FlagRemovedAddr(a) /\ UNCHANGED <<pc, call>> /\ pc = "idle"
          /\ Commands \cap {"clear", "remove"} # {}
      BY <1>3, <2>5 DEF RemoveAddrCommand, Elsewhere, control_vars
    <3>2. PICK n : FlagRemoved(n)
      BY <3>1 DEF FlagRemovedAddr
    <3>3. QED
      BY <3>1, <3>2, FlagChange
  <2>6. QED
    BY <1>3, <2>1, <2>2, <2>3, <2>4, <2>5 DEF Console
<1>4. CASE Arrive \/ ServerActivate_Post \/ SetCvar \/ Pass \/ UNCHANGED vars
  BY <1>1, <1>4
     DEF Arrive, Receive, ServerActivate_Post, parse_config, SetCvar, Pass, Tick, vars,
         recv_vars, control_vars
<1>5. QED
  BY <1>1, <1>2, <1>3, <1>4 DEF Next

\* A packet is stopped for its bytes, for a ban found earlier, or for a flood.
LEMMA StoppedHow ==
    ASSUME PluginInv, GoodList, opts \in Options, [Next]_vars,
           pc = "decide", pc' = "stopped"
    PROVE  Decide /\ (call.stopit \/ call.ipbanned \/ \E k \in DOMAIN ddosiplist : Floods(k))
<1>1. Decide
  BY DEF Next, Arrive, Receive, HandleStep, Handle, ReadSettings, Filter, Lookup, Match, Scan,
         Clearing, Return, Console, ListCommand, Listing, ClearCommand, RemoveIndexCommand,
         RemoveAddrCommand, ServerActivate_Post, SetCvar, Pass, vars, recv_vars
<1>2. QED
  BY <1>1, DecideChange DEF Opens, Counts

-----------------------------------------------------------------------------
(* A removal is not lost to traffic.                                       *)

LEMMA RemovalStep ==
    ASSUME PluginInv, ControlInv, [Next]_vars
    PROVE  RemovalSticksStep
<1> SUFFICES ASSUME NEW j \in DOMAIN ddosiplist, NEW n \in DOMAIN ddosiplist',
                    ddosiplist[j].flagged_removed, ~ddosiplist'[n].flagged_removed,
                    ddosiplist'[n].ip_address = ddosiplist[j].ip_address
             PROVE  /\ ddosiplist'[n].is_banned /\ ddosiplist'[n].bannedtime = clock
                    /\ call.pkt \in config.banned
  BY DEF RemovalSticksStep
<1>1. GoodList /\ opts \in Options
  BY DEF ControlInv, ControlTypeOK
<1>2. /\ DOMAIN ddosiplist = 1..Len(ddosiplist) /\ Len(ddosiplist) \in Nat
      /\ \A k \in DOMAIN ddosiplist : ddosiplist[k] \in Entry
  BY <1>1, ListDomain DEF GoodEntry
\* An entry that continues one of the list is of the same owner as that at j.
<1>3. ASSUME NEW i \in DOMAIN ddosiplist, ddosiplist'[n].ip_address = ddosiplist[i].ip_address
      PROVE  i = j
  BY <1>1, <1>3 DEF GoodList, OneEntryPerOwner
<1>4. CASE UNCHANGED ddosiplist
  BY <1>3, <1>4
<1>5. ASSUME NEW k \in DOMAIN ddosiplist, Renews(k)
      PROVE  /\ ddosiplist'[n].is_banned /\ ddosiplist'[n].bannedtime = clock
             /\ call.pkt \in config.banned
  <2>1. n \in DOMAIN ddosiplist
    BY <1>5 DEF Renews, Replaced
  <2>2. CASE n = k
    BY <1>2, <1>5, <2>2, RenewedFields DEF Renews, Replaced, BannedMatch
  <2>3. CASE n # k
    BY <1>3, <1>5, <2>1, <2>3 DEF Renews, Replaced
  <2>4. QED
    BY <2>2, <2>3
<1>6. ASSUME NEW k \in DOMAIN ddosiplist, Floods(k) \/ Counts(k) \/ Removes(k)
      PROVE  FALSE
  <2>1. PICK e : /\ Replaced(k, e) /\ e.ip_address = ddosiplist[k].ip_address
                 /\ ddosiplist[k].flagged_removed => e.flagged_removed
    <3>1. CASE Floods(k)
      <4>1. Replaced(k, BannedEntry(ddosiplist[k]))
        BY <3>1 DEF Floods
      <4>2. QED
        BY <1>2, <4>1, BannedFields
    <3>2. CASE Counts(k)
      <4>1. Replaced(k, CountedEntry(ddosiplist[k], call.pkt))
        BY <3>2 DEF Counts
      <4>2. QED
        BY <1>2, <4>1, CountedFields
    <3>3. CASE Removes(k)
      <4>1. Replaced(k, [ddosiplist[k] EXCEPT !.flagged_removed = TRUE])
        BY <3>3 DEF Removes
      <4>2. QED
        BY <1>2, <4>1, FlaggedFields
    <3>4. QED
      BY <1>6, <3>1, <3>2, <3>3
  <2>2. QED
    BY <1>3, <2>1 DEF Replaced
<1>7. CASE Shares \/ Opens
  <2>1. PICK e : Grown(e) /\ \A k \in DOMAIN ddosiplist : ddosiplist[k].ip_address # e.ip_address
    BY <1>7 DEF Shares, Opens, SharedBan, NewEntry, Unlisted, TextOf
  <2>2. QED
    BY <1>2, <1>3, <2>1 DEF Grown
<1>8. CASE Erases
  <2>1. PICK i \in DOMAIN ddosiplist : ddosiplist'[n] = ddosiplist[i]
    BY <1>2, <1>8, ErasedFrom
  <2>2. QED
    BY <1>3, <2>1
<1>9. QED
  BY <1>1, <1>4, <1>5, <1>6, <1>7, <1>8, ListChange

-----------------------------------------------------------------------------
(* The invariants of the plugin and of its ban list together.              *)

BaseInv == PluginInv /\ ControlInv

LEMMA BaseInit == Init => BaseInv
BY InitPlugin, RefinesInit, InitInv DEF BaseInv

LEMMA BaseNext == BaseInv /\ [Next]_vars => BaseInv'
BY NextPlugin, RefinesNext, NextInv DEF BaseInv

-----------------------------------------------------------------------------
(* The theorems.                                                           *)

\* The invariant of the phases holds in every reachable state.
THEOREM PluginInvariant == Spec => []PluginInv
BY InitPlugin, NextPlugin, PTL DEF Spec

\* The variables of the plugin keep their types, whatever the operator sets
\* (main.cpp:209-237, 267-413).
THEOREM PluginTypeCorrect == Spec => []TypeOK
<1>1. PluginInv => TypeOK
  BY DEF PluginInv
<1>2. QED
  BY <1>1, PluginInvariant, PTL

\* OnRecvFrom and the console use the ban list only as ControlSpec allows: no
\* operation begins inside a sweep, and each sees a spelled address.
THEOREM PluginRefinesControl == Spec => ControlSpec
BY RefinesInit, RefinesNext, PluginInvariant, PTL DEF Spec, ControlSpec

\* Hence the bans in force hold in the whole plugin as well.
THEOREM PluginBansHold == Spec => BanHolds
BY PluginRefinesControl, BansHold, PTL

\* A call that did not sweep judges by the ban list as it is (main.cpp:291-343).
THEOREM VerdictsFresh == Spec => []VerdictFresh
<1>1. PluginInv => VerdictFresh
  BY DEF PluginInv, BanRead
<1>2. QED
  BY <1>1, PluginInvariant, PTL

\* No sequence of packets, commands and settings prolongs a running ban
\* (main.cpp:295-300).
THEOREM BansNotProlonged == Spec => BanNotProlonged
<1>1. Spec => []ControlInv
  BY PluginRefinesControl, ControlInvariant, PTL
<1>2. PluginInv /\ ControlInv /\ [Next]_vars => [BanNotProlongedStep]_vars
  BY ProlongStep
<1>3. QED
  BY <1>1, <1>2, PluginInvariant, PTL DEF Spec, BanNotProlonged

\* No later traffic undoes a removal, unless the address sends a packet of the
\* banned list and is banned anew (main.cpp:489, ddoscontrol.cpp:124-130, 157).
THEOREM RemovalsStick == Spec => RemovalSticks
<1>1. Spec => []ControlInv
  BY PluginRefinesControl, ControlInvariant, PTL
<1>2. PluginInv /\ ControlInv /\ [Next]_vars => [RemovalSticksStep]_vars
  BY RemovalStep
<1>3. QED
  BY <1>1, <1>2, PluginInvariant, PTL DEF Spec, RemovalSticks
=============================================================================
