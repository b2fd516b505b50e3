--------------------------- MODULE LoadingProofs ---------------------------
(* Theorems about what OnMetaAttach makes and OnMetaDetach leaves: the      *)
(* hooks, with the threads inside of them, the log file, and what the files *)
(* of packets and addresses say, read into their lists.                     *)
EXTENDS Lifecycle, LogFiles, PacketMatch, SequenceTheorems, WellFoundedInduction, TLAPS

-----------------------------------------------------------------------------
(* The life cycle: the inductive invariant.                                *)

\* The images whose hook has been installed, now or earlier.
Hooked == {i \in Image : original[i] # NoImage}

\* Detours link: what recvfrom begins with, and what each hooked image goes on
\* to, is recvfrom's own code or an image that was hooked.
ChainInv ==
    /\ original \in [Image -> Image \union {NoImage, RealCode}]
    /\ entry \in Hooked \union {RealCode}
    /\ \A i \in Hooked : original[i] \in Hooked \union {RealCode}

\* How far OnMetaAttach has come, and what exists by then.
AttachInv ==
    /\ loaded \in Image \union {NoImage}
    /\ attaching \in {"none", "queried", "failed", "control", "lists", "log", "attached", "running"}
    /\ attaching # "none" => loaded \in Image
    /\ attaching = "lists" => "control" \in parts
    /\ attaching = "log" => {"control", "lists"} \subseteq parts
    /\ attaching \in {"attached", "running"} => {"control", "lists", "log"} \subseteq parts
    /\ isloaded \in BOOLEAN
    /\ isloaded => attaching \in {"attached", "running"}

\* A thread is in images that were hooked; it judges for the mapped image only
\* once that is loaded.
CallersInv ==
    /\ stack \in [Caller -> Seq(Hooked)]
    /\ phase \in [Caller -> {"out", "down", "up", "judging"}]
    /\ \A t \in Caller :
          /\ phase[t] # "out" => stack[t] # <<>>
          /\ phase[t] = "judging" /\ Mapped(Last(stack[t])) => isloaded

LifecycleInv == ChainInv /\ AttachInv /\ CallersInv

LEMMA LifecycleInitInv == LifecycleInit => LifecycleInv
<1> SUFFICES ASSUME LifecycleInit PROVE LifecycleInv
  OBVIOUS
<1>1. Hooked = {} /\ <<>> \in Seq(Hooked)
  BY EmptySeq DEF LifecycleInit, Hooked
<1>2. ChainInv
  BY <1>1 DEF LifecycleInit, ChainInv
<1>3. AttachInv
  BY DEF LifecycleInit, AttachInv
<1>4. CallersInv
  BY <1>1 DEF LifecycleInit, CallersInv
<1>5. QED
  BY <1>2, <1>3, <1>4 DEF LifecycleInv

\* The ends of a sequence.
LEMMA Ends ==
    ASSUME NEW S, NEW q \in Seq(S), q # <<>>
    PROVE  /\ Last(q) \in S
           /\ Front(q) \in Seq(S)
           /\ Len(q) # 1 => Front(q) # <<>>
<1>1. Len(q) \in Nat \ {0} /\ DOMAIN q = 1..Len(q) /\ \A i \in 1..Len(q) : q[i] \in S
  BY EmptySeq, LenProperties, ElementOfSeq
<1>2. Last(q) \in S
  BY <1>1 DEF Last
<1>3. Front(q) = [i \in 1..(Len(q) - 1) |-> q[i]] /\ Len(q) - 1 \in Nat
  BY <1>1 DEF Front
<1>4. Front(q) \in Seq(S)
  BY <1>1, <1>3, IsASeq
<1>5. Len(q) # 1 => 1 \in DOMAIN Front(q)
  BY <1>1, <1>3
<1>6. QED
  BY <1>2, <1>4, <1>5, EmptySeq

-----------------------------------------------------------------------------
(* The life cycle: every step.                                             *)

\* A step that leaves the hooks and the threads alone.
LEMMA ServerStep ==
    ASSUME LifecycleInv, AttachInv', UNCHANGED <<hook_vars, thread_vars>>,
           \/ UNCHANGED loaded /\ (isloaded => isloaded')
           \/ loaded' \notin Hooked
    PROVE  LifecycleInv'
<1>1. Hooked' = Hooked
  BY DEF hook_vars, Hooked
<1>2. ChainInv'
  BY <1>1 DEF LifecycleInv, ChainInv, hook_vars
<1>3. ASSUME NEW t \in Caller, phase[t] = "judging", Mapped(Last(stack[t]))'
      PROVE  isloaded'
  <2>1. Last(stack[t]) \in Hooked
    BY <1>3, Ends DEF LifecycleInv, CallersInv
  <2>2. Last(stack[t]) = loaded' /\ stack' = stack
    BY <1>3 DEF Mapped, thread_vars
  <2>3. QED
    BY <1>3, <2>1, <2>2 DEF LifecycleInv, CallersInv, Mapped
<1>4. CallersInv'
  BY <1>1, <1>3 DEF LifecycleInv, CallersInv, thread_vars
<1>5. QED
  BY <1>2, <1>4 DEF LifecycleInv

\* hookRecvFrom adds an image to the chain.
LEMMA HookStep ==
    ASSUME LifecycleInv, Hook
    PROVE  LifecycleInv'
<1>1. loaded \in Image /\ AttachInv'
  BY DEF Hook, LifecycleInv, AttachInv
<1>2. CASE UNCHANGED hook_vars
  BY <1>1, <1>2, ServerStep DEF Hook, thread_vars
<1>3. CASE original' = [original EXCEPT ![loaded] = entry] /\ entry' = loaded
  <2>1. entry \in Hooked \union {RealCode} /\ entry # NoImage
    BY LifecycleAssumptions DEF LifecycleInv, ChainInv, Hooked
  <2>2. /\ original' \in [Image -> Image \union {NoImage, RealCode}]
        /\ original'[loaded] = entry
        /\ \A i \in Image : i # loaded => original'[i] = original[i]
    BY <1>1, <1>3, <2>1 DEF LifecycleInv, ChainInv, Hooked
  <2>3. Hooked' = Hooked \union {loaded}
    BY <1>1, <2>1, <2>2 DEF Hooked
  <2>4. ChainInv'
    BY <1>1, <1>3, <2>1, <2>2, <2>3 DEF LifecycleInv, ChainInv
  <2>5. UNCHANGED <<loaded, isloaded, stack, phase>>
    BY DEF Hook, thread_vars
  <2>6. stack' \in [Caller -> Seq(Hooked')]
    <3>1. ASSUME NEW t \in Caller PROVE stack'[t] \in Seq(Hooked')
      <4>1. stack[t] \in Seq(Hooked)
        BY DEF LifecycleInv, CallersInv
      <4>2. QED
        BY <2>3, <2>5, <4>1
    <3>2. QED
      BY <2>5, <3>1 DEF LifecycleInv, CallersInv
  <2>7. CallersInv'
    BY <2>5, <2>6 DEF LifecycleInv, CallersInv, Mapped
  <2>8. QED
    BY <1>1, <2>4, <2>7 DEF LifecycleInv
<1>4. QED
  BY <1>2, <1>3 DEF Hook

\* A thread goes down through the hooks, and up again.
LEMMA CallerStep ==
    ASSUME LifecycleInv, NEW t \in Caller,
           Call(t) \/ CallOriginal(t) \/ JudgePacket(t) \/ Leave(t)
    PROVE  LifecycleInv'
<1>1. UNCHANGED <<image_vars, hook_vars>>
  BY DEF Call, CallOriginal, JudgePacket, Leave
<1>2. Hooked' = Hooked /\ ChainInv' /\ AttachInv'
  BY <1>1 DEF Hooked, LifecycleInv, ChainInv, AttachInv, image_vars, hook_vars
<1>3. /\ stack[t] \in Seq(Hooked)
      /\ phase[t] # "out" => stack[t] # <<>>
  BY DEF LifecycleInv, CallersInv
<1>4. ASSUME NEW q \in Seq(Hooked), NEW p \in {"out", "down", "up", "judging"},
             stack' = [stack EXCEPT ![t] = q], phase' = [phase EXCEPT ![t] = p],
             p # "out" => q # <<>>, p = "judging" => isloaded
      PROVE  LifecycleInv'
  <2>1. CallersInv'
    BY <1>1, <1>2, <1>4 DEF LifecycleInv, CallersInv, Mapped, image_vars
  <2>2. QED
    BY <1>2, <2>1 DEF LifecycleInv
<1>5. CASE Call(t)
  <2>1. entry \in Hooked /\ <<entry>> \in Seq(Hooked) /\ <<entry>> # <<>>
    BY <1>5, EmptySeq DEF Call, LifecycleInv, ChainInv
  <2>2. QED
    BY <1>4, <1>5, <2>1 DEF Call
<1>6. CASE CallOriginal(t)
  <2> DEFINE next == original[Last(stack[t])]
  <2>1. Last(stack[t]) \in Hooked /\ next \in Hooked \union {RealCode} /\ stack[t] # <<>>
    BY <1>3, <1>6, Ends DEF CallOriginal, LifecycleInv, ChainInv
  <2>2. CASE next = RealCode /\ phase' = [phase EXCEPT ![t] = "up"] /\ UNCHANGED stack
    <3>1. stack' = [stack EXCEPT ![t] = stack[t]]
      BY <2>2 DEF LifecycleInv, CallersInv
    <3>2. QED
      BY <1>3, <1>4, <2>1, <2>2, <3>1
  <2>3. CASE next # RealCode /\ stack' = [stack EXCEPT ![t] = Append(@, next)] /\ UNCHANGED phase
    <3>1. Append(stack[t], next) \in Seq(Hooked) /\ Append(stack[t], next) # <<>>
      BY <1>3, <2>1, <2>3, AppendProperties
    <3>2. phase' = [phase EXCEPT ![t] = phase[t]] /\ phase[t] = "down"
      BY <1>6, <2>3 DEF CallOriginal, LifecycleInv, CallersInv
    <3> HIDE DEF next
    <3>3. QED
      BY <1>4, <2>3, <3>1, <3>2
  <2>4. QED
    BY <1>6, <2>2, <2>3 DEF CallOriginal
<1>7. CASE JudgePacket(t)
  <2>1. stack' = [stack EXCEPT ![t] = stack[t]]
    BY <1>7 DEF JudgePacket, LifecycleInv, CallersInv
  <2>2. QED
    BY <1>3, <1>4, <1>7, <2>1 DEF JudgePacket
<1>8. CASE Leave(t)
  <2>1. stack[t] # <<>>
    BY <1>3, <1>8 DEF Leave
  <2>2. Front(stack[t]) \in Seq(Hooked) /\ (Len(stack[t]) # 1 => Front(stack[t]) # <<>>)
    BY <1>3, <2>1, Ends
  <2>3. PICK p \in {"out", "up"} :
           phase' = [phase EXCEPT ![t] = p] /\ (Len(stack[t]) = 1 => p = "out")
    BY <1>8 DEF Leave
  <2>4. QED
    BY <1>4, <1>8, <2>2, <2>3 DEF Leave
<1>9. QED
  BY <1>5, <1>6, <1>7, <1>8

LEMMA LifecycleStep == LifecycleInv /\ [LifecycleNext]_lifecycle_vars => LifecycleInv'
<1> SUFFICES ASSUME LifecycleInv, [LifecycleNext]_lifecycle_vars PROVE LifecycleInv'
  OBVIOUS
<1>1. ASSUME NEW i \in Image, Query(i) PROVE LifecycleInv'
  <2>1. AttachInv' /\ loaded' \notin Hooked
    BY <1>1 DEF Query, AttachInv, Hooked
  <2>2. QED
    BY <1>1, <2>1, ServerStep DEF Query
<1>2. CASE Hook
  BY <1>2, HookStep
<1>3. CASE Build
  <2>1. AttachInv' /\ ~isloaded
    BY <1>3 DEF Build, LifecycleInv, AttachInv
  <2>2. QED
    BY <1>3, <2>1, ServerStep DEF Build
<1>4. CASE EngineFuncLoaded
  <2>1. AttachInv'
    BY <1>4 DEF EngineFuncLoaded, LifecycleInv, AttachInv
  <2>2. QED
    BY <1>4, <2>1, ServerStep DEF EngineFuncLoaded
<1>5. CASE Unload
  <2>1. AttachInv' /\ loaded' \notin Hooked
    BY <1>5, LifecycleAssumptions DEF Unload, AttachInv, Hooked
  <2>2. QED
    BY <1>5, <2>1, ServerStep DEF Unload
<1>6. ASSUME NEW t \in Caller, Call(t) \/ CallOriginal(t) \/ JudgePacket(t) \/ Leave(t)
      PROVE  LifecycleInv'
  BY <1>6, CallerStep
<1>7. CASE UNCHANGED lifecycle_vars
  <2>1. UNCHANGED <<hook_vars, thread_vars, loaded, isloaded>> /\ AttachInv'
    BY <1>7 DEF lifecycle_vars, image_vars, LifecycleInv, AttachInv
  <2>2. QED
    BY <2>1, ServerStep
<1>8. QED
  BY <1>1, <1>2, <1>3, <1>4, <1>5, <1>6, <1>7 DEF LifecycleNext

-----------------------------------------------------------------------------
(* The theorems about the life cycle.                                      *)

\* The chain of hooks, the order of OnMetaAttach and where the threads are
\* (main.cpp:85-154, 267-277).
THEOREM LifecycleInvariant == LifecycleSpec => []LifecycleInv
BY LifecycleInitInv, LifecycleStep, PTL DEF LifecycleSpec

\* However often the plugin is loaded and unloaded, and however many threads are
\* inside of its hooks meanwhile: whoever judges a packet for the image that is
\* mapped finds the ban list, the packet lists and the log writer
\* (main.cpp:90, 117-130, 272).
THEOREM JudgesFindParts == LifecycleSpec => []PartsReady
<1>1. LifecycleInv => PartsReady
  BY DEF LifecycleInv, CallersInv, AttachInv, PartsReady
<1>2. QED
  BY <1>1, LifecycleInvariant, PTL

-----------------------------------------------------------------------------
(* The log file: the inductive invariant.                                  *)

\* What a slot may be open on.
FileNames == {FileName(d) : d \in 0..MaxDay}

\* The log's stream has a slot, and is the only one that is open on a file of
\* the log; the name that is kept is a file's, never the text of a day.
LogFilesInv ==
    /\ today \in 0..MaxDay /\ refused \in BOOLEAN
    /\ logfile \in Stream \union {Null}
    /\ lognamestr \in FileNames \union {NoName}
    /\ streams \in [Stream -> FileNames \union {NoFile, Foreign}]
    /\ files \in [0..MaxDay -> Seq(LogLine)]
    /\ log_writer = "open" /\ logfile # Null => lognamestr \in FileNames
    /\ OneStream

LEMMA Texts ==
    /\ \A d \in Nat : FileName(d) # NoFile /\ FileName(d) # Foreign /\ FileName(d) # NoName
    /\ \A d, e \in Nat : FileName(d) # DayStr(e)
    /\ NoFile # Foreign
BY DEF FileName, DayStr, NoFile, Foreign, NoName

LEMMA DayInRange == \A d \in 0..MaxDay : d \in Nat /\ FileName(d) \in FileNames
BY LogAssumptions DEF FileNames

LEMMA LogFilesInitInv == LogFilesInit => LogFilesInv
<1> SUFFICES ASSUME LogFilesInit PROVE LogFilesInv
  OBVIOUS
<1>1. <<>> \in Seq(LogLine) /\ 0 \in 0..MaxDay
  BY LogAssumptions, EmptySeq
<1>2. QED
  BY <1>1 DEF LogFilesInit, LogInit, LogFilesInv, OneStream

-----------------------------------------------------------------------------
(* The log file: writing a line.                                           *)

\* Since the name of an open file is never the day's text, every line closes
\* the file and opens the one of its day (logwriter.cpp:64).
Reopens(d, line) ==
    /\ lognamestr' = FileName(d) /\ UNCHANGED log_writer
    /\ \/ /\ ~refused
          /\ \E s \in Stream :
                /\ Closed(d)[s] = NoFile
                /\ logfile' = s /\ streams' = [Closed(d) EXCEPT ![s] = FileName(d)]
                /\ files' = [files EXCEPT ![d] = Append(@, line)]
       \/ /\ refused \/ FreeSlots(Closed(d)) = {}
          /\ logfile' = Null /\ streams' = Closed(d) /\ UNCHANGED files

LEMMA WriteReopens ==
    ASSUME LogFilesInv, NEW d \in 0..MaxDay, NEW line \in LogLine, writelog(d, line, refused)
    PROVE  log_writer = "open" /\ Reopens(d, line)
<1>1. log_writer = "open"
  BY DEF writelog
<1>2. logfile # Null => Stale(d)
  <2>1. ASSUME logfile # Null PROVE lognamestr # DayStr(d)
    <3>1. PICK e \in 0..MaxDay : lognamestr = FileName(e)
      BY <1>1, <2>1 DEF LogFilesInv, FileNames
    <3>2. QED
      BY <3>1, Texts, DayInRange
  <2>2. QED
    BY <2>1 DEF Stale
<1>3. QED
  BY <1>1, <1>2 DEF writelog, Reopens, FreeSlots

\* What closing the file leaves: no stream of the log.
LEMMA ClosedFacts ==
    ASSUME LogFilesInv, log_writer = "open", NEW d \in 0..MaxDay
    PROVE  Closed(d) \in [Stream -> {NoFile, Foreign}]
<1>1. /\ streams \in [Stream -> FileNames \union {NoFile, Foreign}]
      /\ \A s \in Stream : s # logfile => streams[s] \in {NoFile, Foreign}
      /\ logfile \in Stream \union {Null} /\ Null \notin Stream
  BY LogAssumptions DEF LogFilesInv, OneStream
<1>2. logfile # Null => Stale(d)
  <2>1. ASSUME logfile # Null PROVE lognamestr # DayStr(d)
    <3>1. PICK e \in 0..MaxDay : lognamestr = FileName(e)
      BY <2>1 DEF LogFilesInv, FileNames
    <3>2. QED
      BY <3>1, Texts, DayInRange
  <2>2. QED
    BY <2>1 DEF Stale
<1>3. CASE logfile = Null
  BY <1>1, <1>3 DEF Closed, Stale
<1>4. CASE logfile # Null
  BY <1>1, <1>2, <1>4 DEF Closed
<1>5. QED
  BY <1>3, <1>4

LEMMA WriteStep ==
    ASSUME LogFilesInv, NEW d \in 0..MaxDay, NEW line \in LogLine,
           writelog(d, line, refused), UNCHANGED <<today, refused>>
    PROVE  LogFilesInv'
<1>1. log_writer = "open" /\ log_writer' = "open" /\ Reopens(d, line)
  BY WriteReopens DEF Reopens
<1>2. Closed(d) \in [Stream -> {NoFile, Foreign}]
  BY <1>1, ClosedFacts
<1>3. FileName(d) \in FileNames /\ lognamestr' = FileName(d)
  BY <1>1, DayInRange DEF Reopens
<1>4. today' \in 0..MaxDay /\ refused' \in BOOLEAN /\ files \in [0..MaxDay -> Seq(LogLine)]
  BY DEF LogFilesInv
<1>5. ASSUME NEW s \in Stream, logfile' = s, streams' = [Closed(d) EXCEPT ![s] = FileName(d)],
             files' = [files EXCEPT ![d] = Append(@, line)]
      PROVE  LogFilesInv'
  <2>1. streams' \in [Stream -> FileNames \union {NoFile, Foreign}]
    BY <1>2, <1>3, <1>5
  <2>2. OneStream'
    BY <1>1, <1>2, <1>3, <1>5 DEF OneStream
  <2>3. files' \in [0..MaxDay -> Seq(LogLine)]
    <3>1. files[d] \in Seq(LogLine)
      BY <1>4
    <3>2. Append(files[d], line) \in Seq(LogLine)
      BY <3>1, AppendProperties
    <3>3. QED
      BY <1>4, <1>5, <3>2
  <2>4. QED
    BY <1>1, <1>3, <1>4, <1>5, <2>1, <2>2, <2>3 DEF LogFilesInv
<1>6. ASSUME logfile' = Null, streams' = Closed(d), UNCHANGED files
      PROVE  LogFilesInv'
  <2>1. OneStream'
    BY <1>2, <1>6, LogAssumptions DEF OneStream
  <2>2. streams' \in [Stream -> FileNames \union {NoFile, Foreign}]
    BY <1>2, <1>6
  <2>3. QED
    BY <1>1, <1>3, <1>4, <1>6, <2>1, <2>2 DEF LogFilesInv
<1>7. QED
  BY <1>1, <1>5, <1>6 DEF Reopens

-----------------------------------------------------------------------------
(* The log file: every step keeps the invariant.                           *)

LEMMA LogFilesStep == LogFilesInv /\ [LogFilesNext]_log_files_vars => LogFilesInv'
<1> SUFFICES ASSUME LogFilesInv, [LogFilesNext]_log_files_vars PROVE LogFilesInv'
  OBVIOUS
<1>1. CASE Midnight
  BY <1>1, LogAssumptions DEF Midnight, log_vars, LogFilesInv, OneStream
<1>2. ASSUME NEW line \in LogLine, WriteLine(line) PROVE LogFilesInv'
  <2>1. today \in 0..MaxDay /\ writelog(today, line, refused) /\ UNCHANGED <<today, refused>>
    BY <1>2 DEF WriteLine, LogFilesInv
  <2>2. PICK d : d = today
    OBVIOUS
  <2>3. QED
    BY <2>1, <2>2, WriteStep
<1>7. CASE Refuse
  BY <1>7, LogAssumptions DEF Refuse, log_vars, LogFilesInv, OneStream
<1>3. CASE AttachLog
  BY <1>3, LogAssumptions DEF AttachLog, NewLogwriter, LogFilesInv, OneStream
<1>4. CASE DetachLog
  <2>1. OneStream' /\ streams' \in [Stream -> FileNames \union {NoFile, Foreign}]
    BY <1>4 DEF DetachLog, closelogfile, LogFilesInv, OneStream
  <2>2. QED
    BY <1>4, <2>1 DEF DetachLog, closelogfile, LogFilesInv
<1>5. ASSUME NEW s \in Stream, ServerFile(s) PROVE LogFilesInv'
  <2>1. PICK f \in {NoFile, Foreign} :
           streams' = [streams EXCEPT ![s] = f] /\ streams[s] \in {NoFile, Foreign}
    BY <1>5 DEF ServerFile, ForeignOpen, ForeignClose
  <2>2. UNCHANGED <<log_writer, logfile, lognamestr, files, today, refused>>
    BY <1>5 DEF ServerFile, ForeignOpen, ForeignClose
  <2>3. ~(log_writer = "open" /\ logfile = s)
    <3>1. ASSUME log_writer = "open", logfile = s PROVE FALSE
      <4>1. streams[s] = lognamestr /\ lognamestr \in FileNames
        BY <3>1, LogAssumptions DEF LogFilesInv, OneStream
      <4>2. PICK e \in 0..MaxDay : streams[s] = FileName(e)
        BY <4>1 DEF FileNames
      <4>3. QED
        BY <2>1, <4>2, Texts, DayInRange
    <3>2. QED
      BY <3>1
  <2>4. QED
    BY <2>1, <2>2, <2>3 DEF LogFilesInv, OneStream
<1>6. CASE UNCHANGED log_files_vars
  BY <1>6 DEF log_files_vars, log_vars, LogFilesInv, OneStream
<1>8. QED
  BY <1>1, <1>2, <1>3, <1>4, <1>5, <1>6, <1>7 DEF LogFilesNext

-----------------------------------------------------------------------------
(* The theorems about the log file.                                        *)

THEOREM LogFilesInvariant == LogFilesSpec => []LogFilesInv
BY LogFilesInitInv, LogFilesStep, PTL DEF LogFilesSpec

\* However many slots the C runtime has, and whichever fopen fails: the log
\* holds one stream at most and knows which, no stream of it is left open, and
\* none of the server's is taken for it (logwriter.cpp:5-84).
THEOREM OneStreamAtMost == LogFilesSpec => []OneStream
<1>1. LogFilesInv => OneStream
  BY DEF LogFilesInv
<1>2. QED
  BY <1>1, LogFilesInvariant, PTL

\* There is a slot for the day's file exactly if the server does not hold them
\* all: the one that the log itself holds is free again by then.
LEMMA SlotIsFree ==
    ASSUME LogFilesInv, log_writer = "open", NEW d \in 0..MaxDay
    PROVE  FreeSlots(Closed(d)) # {} <=> \E s \in Stream : streams[s] # Foreign
<1>1. Closed(d) \in [Stream -> {NoFile, Foreign}]
  BY ClosedFacts
<1>2. ASSUME NEW s \in Stream PROVE Closed(d)[s] = NoFile <=> streams[s] # Foreign
  <2>1. CASE Stale(d) /\ s = logfile
    <3>1. streams[s] = lognamestr /\ lognamestr \in FileNames
      BY <2>1, LogAssumptions DEF LogFilesInv, OneStream
    <3>2. streams[s] # Foreign
      BY <3>1, Texts, DayInRange DEF FileNames
    <3>3. streams \in [Stream -> FileNames \union {NoFile, Foreign}]
      BY DEF LogFilesInv
    <3>4. Closed(d)[s] = NoFile
      BY <2>1, <3>3 DEF Closed
    <3>5. QED
      BY <3>2, <3>4
  <2>2. CASE ~(Stale(d) /\ s = logfile)
    <3>1. Closed(d)[s] = streams[s]
      BY <2>2 DEF Closed, LogFilesInv
    <3>2. QED
      BY <1>1, <3>1, Texts
  <2>3. QED
    BY <2>1, <2>2
<1>3. QED
  BY <1>2 DEF FreeSlots

\* Whatever was refused before, on whichever day and after however many
\* detaches: a line is lost only if the system refuses to open the file just
\* then or the server holds every slot, and it is the only one; otherwise it
\* is added to today's file, and no other file is touched
\* (logwriter.cpp:28-35, 59-80).
THEOREM LinesReachFiles == LogFilesSpec => LinesWritten
<1>1. ASSUME LogFilesInv, [LogFilesNext]_log_files_vars
      PROVE  [LinesWrittenStep]_log_files_vars
  <2>1. ASSUME NEW line \in LogLine, WriteLine(line)
        PROVE  files' = [files EXCEPT ![today] = IF Openable THEN Append(@, line) ELSE @]
    <3>1. today \in 0..MaxDay /\ writelog(today, line, refused)
      BY <1>1, <2>1 DEF WriteLine, LogFilesInv
    <3>2. PICK d : d = today
      OBVIOUS
    <3>3. log_writer = "open" /\ Reopens(d, line)
      BY <1>1, <3>1, <3>2, WriteReopens
    <3>4. FreeSlots(Closed(d)) # {} <=> \E s \in Stream : streams[s] # Foreign
      BY <1>1, <3>1, <3>2, <3>3, SlotIsFree
    <3>5. CASE Openable
      BY <3>2, <3>3, <3>4, <3>5 DEF Reopens, Openable
    <3>6. CASE ~Openable
      <4>1. UNCHANGED files
        BY <3>3, <3>4, <3>6 DEF Reopens, Openable, FreeSlots
      <4>2. files = [files EXCEPT ![today] = @]
        BY <1>1 DEF LogFilesInv
      <4>3. QED
        BY <3>6, <4>1, <4>2
    <3>7. QED
      BY <3>5, <3>6
  <2>2. ASSUME \A line \in LogLine : ~WriteLine(line) PROVE UNCHANGED files
    BY <1>1, <2>2
       DEF LogFilesNext, Midnight, Refuse, AttachLog, NewLogwriter, DetachLog, closelogfile,
           ServerFile, ForeignOpen, ForeignClose, log_files_vars, log_vars
  <2>3. QED
    BY <2>1, <2>2 DEF LinesWrittenStep
<1>2. QED
  BY <1>1, LogFilesInvariant, PTL DEF LogFilesSpec, LinesWritten
-----------------------------------------------------------------------------
(* Induction and recursion over an interval, for sets and functions.       *)

\* A nonempty set of natural numbers has a least one.
LEMMA LeastOne ==
    ASSUME NEW T \in SUBSET Nat, T # {}
    PROVE  \E n \in T : \A m \in T : n <= m
<1> DEFINE R == {p \in Nat \X Nat : p[1] < p[2]}
<1>1. IsWellFoundedOn(R, Nat)
  BY NatLessThanWellFounded DEF OpToRel
<1>2. PICK n \in T : \A m \in T : ~(<<m, n>> \in R)
  <2> HIDE DEF R
  <2>1. QED
    BY <1>1, WFMin
<1>3. \A m \in T : ~(m < n)
  BY <1>2
<1>4. QED
  BY <1>3

\* What holds of 0 and of each number after one of which it holds, holds of all.
LEMMA UpTo ==
    ASSUME NEW N \in Nat, NEW T, 0 \in T,
           \A n \in 1..N : n - 1 \in T => n \in T
    PROVE  \A n \in 0..N : n \in T
<1> DEFINE gap == {n \in 0..N : n \notin T}
<1>1. SUFFICES ASSUME gap # {}
               PROVE  FALSE
  OBVIOUS
<1>2. gap \in SUBSET Nat
  OBVIOUS
<1>3. PICK n \in gap : \A m \in gap : n <= m
  <2> HIDE DEF gap
  <2>1. QED
    BY <1>1, <1>2, LeastOne
<1>4. n \in 1..N /\ n - 1 \in 0..N /\ ~(n <= n - 1)
  OBVIOUS
<1>5. n - 1 \in T
  BY <1>3, <1>4
<1>6. QED
  BY <1>4, <1>5

\* A function that is defined by its value at 0 and by a step exists.
Recursive(g, N, base, step) ==
    /\ g = [n \in 0..N |-> g[n]]
    /\ g[0] = base
    /\ \A n \in 1..N : g[n] = step[<<n, g[n - 1]>>]

\* There is a function with a given value at 0 and a given step.
LEMMA Recursion ==
    ASSUME NEW N \in Nat, NEW S, NEW base \in S, NEW step \in [(1..N) \X S -> S]
    PROVE  \E g \in [0..N -> S] : Recursive(g, N, base, step)
<1> DEFINE Good(g, n) == /\ g \in [0..n -> S]
                         /\ g[0] = base
                         /\ \A i \in 1..n : g[i] = step[<<i, g[i - 1]>>]
           T == {n \in 0..N : \E g : Good(g, n)}
<1>1. 0 \in T
  <2> DEFINE h == [i \in 0..0 |-> base]
  <2>1. Good(h, 0)
    OBVIOUS
  <2> HIDE DEF h, Good
  <2>2. QED
    BY <2>1
<1>2. ASSUME NEW n \in 1..N, n - 1 \in T
      PROVE  n \in T
  <2>1. PICK g : Good(g, n - 1)
    BY <1>2
  <2> DEFINE h == [i \in 0..n |-> IF i = n THEN step[<<n, g[n - 1]>>] ELSE g[i]]
  <2>2. g[n - 1] \in S /\ step[<<n, g[n - 1]>>] \in S
    <3>0. n - 1 \in 0..(n - 1)
      OBVIOUS
    <3>1. n - 1 \in 0..(n - 1) /\ g \in [0..(n - 1) -> S]
      BY <2>1, <3>0
    <3>2. g[n - 1] \in S
      BY <3>1
    <3>3. <<n, g[n - 1]>> \in (1..N) \X S
      BY <3>2
    <3>4. QED
      BY <3>2, <3>3
  <2>3. h \in [0..n -> S]
    BY <2>1, <2>2
  <2>4. h[0] = base
    BY <2>1
  <2>5. ASSUME NEW i \in 1..n
        PROVE  h[i] = step[<<i, h[i - 1]>>]
    <3>1. h[i - 1] = g[i - 1]
      OBVIOUS
    <3>2. CASE i = n
      <4>1. h[n] = step[<<n, g[n - 1]>>]
        OBVIOUS
      <4>2. QED
        BY <3>1, <3>2, <4>1
    <3>3. CASE i # n
      BY <2>1, <3>1, <3>3
    <3>4. QED
      BY <3>2, <3>3
  <2>6. Good(h, n)
    BY <2>3, <2>4, <2>5
  <2> HIDE DEF h, Good
  <2>7. QED
    BY <2>6
<1>3. N \in T
  <2> HIDE DEF T
  <2>1. QED
    BY <1>1, <1>2, UpTo
<1>4. PICK g : Good(g, N)
  BY <1>3
<1>5. QED
  BY <1>4 DEF Recursive

\* The words of the first characters of a text, a character at a time.
LEMMA WordsAt ==
    ASSUME NEW s \in Seq(Character)
    PROVE  /\ Words(s) \in [0..Len(s) -> Seq(Seq(Character))]
           /\ Words(s)[0] = <<>>
           /\ \A n \in 1..Len(s) : Words(s)[n] = WithChar(s, n, Words(s)[n - 1])
<1> DEFINE N == Len(s)
           S == Seq(Seq(Character))
           base == <<>>
           step == [p \in (1..N) \X S |-> WithChar(s, p[1], p[2])]
           Eq(g) == g = [n \in 0..N |-> IF n = 0 THEN base ELSE WithChar(s, n, g[n - 1])]
           W == Words(s)
           T == {n \in 0..N : W[n] \in S}
<1>1. N \in Nat /\ base \in S
  OBVIOUS
<1>2. ASSUME NEW n \in 1..N, NEW v \in S
      PROVE  WithChar(s, n, v) \in S
  <2>1. s[n] \in Character
    OBVIOUS
  <2>2. Append(v, <<s[n]>>) \in S
    BY <2>1
  <2>3. ASSUME v # <<>>
        PROVE  [v EXCEPT ![Len(v)] = Append(@, s[n])] \in S
    <3>1. Len(v) \in 1..Len(v) /\ v[Len(v)] \in Seq(Character)
      BY <2>3
    <3>2. Append(v[Len(v)], s[n]) \in Seq(Character)
      BY <2>1, <3>1
    <3>3. QED
      BY <3>1, <3>2, ExceptSeq
  <2>4. ASSUME v = <<>>
        PROVE  [v EXCEPT ![Len(v)] = Append(@, s[n])] = v
    BY <2>4
  <2>5. QED
    BY <2>2, <2>3, <2>4 DEF WithChar
<1>3. W = CHOOSE h : Eq(h)
  BY DEF Words
<1> HIDE DEF N, S, base, W
<1>4. step \in [(1..N) \X S -> S]
  BY <1>2
<1>5. PICK g \in [0..N -> S] : Recursive(g, N, base, step)
  <2> HIDE DEF step
  <2>1. QED
    BY <1>1, <1>4, Recursion
<1>6. Eq(g)
  <2>1. ASSUME NEW n \in 1..N
        PROVE  g[n] = WithChar(s, n, g[n - 1])
    <3>1. n - 1 \in 0..N /\ g[n - 1] \in S
      BY <1>1
    <3>2. g[n] = step[<<n, g[n - 1]>>]
      BY <1>5 DEF Recursive
    <3>3. QED
      BY <3>1, <3>2
  <2>2. g = [n \in 0..N |-> g[n]] /\ g[0] = base
    BY <1>5 DEF Recursive
  <2>3. \A n \in 0..N : n = 0 \/ n \in 1..N
    BY <1>1
  <2>4. \A n \in 0..N : g[n] = IF n = 0 THEN base ELSE WithChar(s, n, g[n - 1])
    BY <2>1, <2>2, <2>3
  <2>5. QED
    BY <2>2, <2>4
<1>7. Eq(W)
  <2> HIDE DEF Eq
  <2>1. QED
    BY <1>3, <1>6
<1>8. /\ W = [n \in 0..N |-> W[n]]
      /\ \A n \in 0..N : W[n] = IF n = 0 THEN base ELSE WithChar(s, n, W[n - 1])
  BY <1>7
<1>9. W[0] = base
  <2>1. 0 \in 0..N
    BY <1>1
  <2>2. QED
    BY <1>8, <2>1
<1>10. 0 \in T
  BY <1>1, <1>9
<1>11. ASSUME NEW n \in 1..N, n - 1 \in T
       PROVE  n \in T
  <2>1. n \in 0..N /\ n # 0 /\ W[n - 1] \in S
    BY <1>1, <1>11
  <2>2. W[n] = WithChar(s, n, W[n - 1])
    BY <1>8, <2>1
  <2>3. QED
    BY <1>2, <2>1, <2>2
<1>12. \A n \in 0..N : n \in T
  <2> HIDE DEF T
  <2>1. QED
    BY <1>1, <1>10, <1>11, UpTo
<1>13. W \in [0..N -> S]
  BY <1>8, <1>12
<1>14. ASSUME NEW n \in 1..N
       PROVE  W[n] = WithChar(s, n, W[n - 1])
  <2>1. n \in 0..N /\ n # 0
    BY <1>1
  <2>2. QED
    BY <1>8, <2>1
<1>15. QED
  BY <1>9, <1>13, <1>14 DEF N, S, base, W

\* The words of a text up to a place depend on nothing behind it.
LEMMA WordsLocal ==
    ASSUME NEW s \in Seq(Character), NEW t \in Seq(Character), NEW N \in Nat,
           N <= Len(s), N <= Len(t), \A i \in 1..N : s[i] = t[i]
    PROVE  Words(s)[N] = Words(t)[N]
<1> DEFINE T == {n \in 0..N : Words(s)[n] = Words(t)[n]}
<1>1. 0 \in T
  BY WordsAt
<1>2. ASSUME NEW n \in 1..N, n - 1 \in T
      PROVE  n \in T
  <2>1. n \in 1..Len(s) /\ n \in 1..Len(t) /\ s[n] = t[n] /\ (n # 1 => s[n - 1] = t[n - 1])
    OBVIOUS
  <2>2. Words(s)[n - 1] = Words(t)[n - 1]
    BY <1>2
  <2>3. WithChar(s, n, Words(s)[n - 1]) = WithChar(t, n, Words(t)[n - 1])
    BY <2>1, <2>2 DEF WithChar
  <2>4. QED
    BY <2>1, <2>3, WordsAt
<1>3. \A n \in 0..N : n \in T
  <2> HIDE DEF T
  <2>1. QED
    BY <1>1, <1>2, UpTo
<1>4. QED
  BY <1>3

\* Blanks add no word.
LEMMA BlanksSkipped ==
    ASSUME NEW s \in Seq(Character), NEW n \in 0..Len(s), NEW m \in n..Len(s),
           \A i \in (n + 1)..m : s[i] = "sp"
    PROVE  Words(s)[m] = Words(s)[n]
<1> DEFINE T == {k \in 0..(m - n) : Words(s)[n + k] = Words(s)[n]}
<1>1. 0 \in T /\ m - n \in Nat
  OBVIOUS
<1>2. ASSUME NEW k \in 1..(m - n), k - 1 \in T
      PROVE  k \in T
  <2>1. n + k \in 1..Len(s) /\ s[n + k] = "sp" /\ (n + k) - 1 = n + (k - 1)
    OBVIOUS
  <2>2. Words(s)[n + k] = Words(s)[n + (k - 1)]
    <3>1. Words(s)[n + k] = WithChar(s, n + k, Words(s)[(n + k) - 1])
      BY <2>1, WordsAt
    <3>2. QED
      BY <2>1, <3>1 DEF WithChar
  <2>3. QED
    BY <1>2, <2>2
<1>3. \A k \in 0..(m - n) : k \in T
  <2> HIDE DEF T
  <2>1. QED
    BY <1>1, <1>2, UpTo
<1>4. m - n \in 0..(m - n) /\ n + (m - n) = m
  OBVIOUS
<1>5. QED
  BY <1>3, <1>4

\* A word of one character or of two, at the start or behind a blank.
LEMMA WordAdded ==
    ASSUME NEW s \in Seq(Character), NEW n \in 0..Len(s), NEW w \in Seq(Character),
           Len(w) \in {1, 2}, n + Len(w) <= Len(s),
           n = 0 \/ s[n] = "sp",
           \A i \in 1..Len(w) : s[n + i] = w[i] /\ w[i] # "sp"
    PROVE  Words(s)[n + Len(w)] = Append(Words(s)[n], w)
<1> DEFINE W == Words(s)
<1>1. n + 1 \in 1..Len(s) /\ (n + 1) - 1 = n /\ s[n + 1] = w[1] /\ w[1] # "sp"
  OBVIOUS
<1>2. W[n + 1] = Append(W[n], <<w[1]>>)
  <2>1. W[n + 1] = WithChar(s, n + 1, W[(n + 1) - 1])
    BY <1>1, WordsAt
  <2>2. n + 1 = 1 \/ s[(n + 1) - 1] = "sp"
    OBVIOUS
  <2>3. s[n + 1] # "sp"
    BY <1>1
  <2> HIDE DEF W
  <2>4. QED
    BY <1>1, <2>1, <2>2, <2>3 DEF WithChar
<1>3. W[n] \in Seq(Seq(Character))
  BY WordsAt
<1>4. CASE Len(w) = 1
  <2>1. w = <<w[1]>>
    BY <1>4
  <2>2. QED
    BY <1>2, <1>4, <2>1
<1>5. CASE Len(w) = 2
  <2>1. n + 2 \in 1..Len(s) /\ (n + 2) - 1 = n + 1 /\ s[n + 2] = w[2] /\ w[2] # "sp" /\ n + 2 # 1
    BY <1>5
  <2> DEFINE b == W[n + 1]
  <2>2. W[n + 2] = [b EXCEPT ![Len(b)] = Append(@, s[n + 2])]
    <3>1. W[n + 2] = WithChar(s, n + 2, W[(n + 2) - 1])
      BY <2>1, WordsAt
    <3> HIDE DEF W
    <3>2. QED
      BY <1>1, <2>1, <3>1 DEF WithChar
  <2>3. w[1] \in Character /\ w[2] \in Character
    BY <1>5
  <2>4. /\ b \in Seq(Seq(Character)) /\ Len(b) = Len(W[n]) + 1
        /\ \A i \in 1..Len(W[n]) : b[i] = W[n][i]
        /\ b[Len(b)] = <<w[1]>>
    BY <1>2, <1>3, <2>3, AppendProperties
  <2>5. Append(<<w[1]>>, w[2]) = w
    BY <1>5, <2>3
  <2>6. W[n + 2] = [b EXCEPT ![Len(b)] = w]
    BY <2>1, <2>2, <2>4, <2>5
  <2>7. Append(W[n], w) = [b EXCEPT ![Len(b)] = w]
    <3>1. /\ Append(W[n], w) \in Seq(Seq(Character)) /\ Len(Append(W[n], w)) = Len(W[n]) + 1
          /\ \A i \in 1..Len(W[n]) : Append(W[n], w)[i] = W[n][i]
          /\ Append(W[n], w)[Len(W[n]) + 1] = w
      BY <1>3, AppendProperties
    <3>2. Len(b) \in 1..Len(b) /\ Len(W[n]) \in Nat
      BY <1>3, <2>4
    <3>3. /\ [b EXCEPT ![Len(b)] = w] \in Seq(Seq(Character))
          /\ Len([b EXCEPT ![Len(b)] = w]) = Len(b)
          /\ \A i \in 1..Len(b) : [b EXCEPT ![Len(b)] = w][i] = IF i = Len(b) THEN w ELSE b[i]
      BY SMTT(30), <2>4, <3>2, ExceptSeq
    <3> HIDE DEF b, W
    <3>4. \A i \in 1..Len(b) : Append(W[n], w)[i] = [b EXCEPT ![Len(b)] = w][i]
      BY SMTT(30), <2>4, <3>1, <3>2, <3>3
    <3>5. QED
      <4> DEFINE u == Append(W[n], w)
                 v == [b EXCEPT ![Len(b)] = w]
      <4>1. /\ u \in Seq(Seq(Character)) /\ v \in Seq(Seq(Character)) /\ Len(u) = Len(v)
            /\ \A i \in 1..Len(u) : u[i] = v[i]
        BY <2>4, <3>1, <3>3, <3>4
      <4> HIDE DEF u, v
      <4>2. u = v
        BY <4>1, SeqEqual
      <4>3. QED
        BY <4>2 DEF u, v
  <2>8. QED
    BY <1>5, <2>6, <2>7
<1>6. QED
  BY <1>4, <1>5

\* What the digits of a byte amount to, a digit at a time.
LEMMA ValuesAt ==
    ASSUME NEW s \in Seq(Character), \A i \in 1..Len(s) : DigitOf(s[i]) \in 0..15
    PROVE  /\ Values(s) \in [0..Len(s) -> 0..255]
           /\ Values(s)[0] = 0
           /\ \A n \in 1..Len(s) : Values(s)[n] = WithDigit(s, n, Values(s)[n - 1])
<1> DEFINE N == Len(s)
           S == 0..255
           base == 0
           step == [p \in (1..N) \X S |-> WithDigit(s, p[1], p[2])]
           Eq(g) == g = [n \in 0..N |-> IF n = 0 THEN base ELSE WithDigit(s, n, g[n - 1])]
           W == Values(s)
           T == {n \in 0..N : W[n] \in S}
<1>1. N \in Nat /\ base \in S
  OBVIOUS
<1>2. ASSUME NEW n \in 1..N, NEW v \in S
      PROVE  WithDigit(s, n, v) \in S
  <2>1. \A x \in Int : x % 256 \in S
    OBVIOUS
  <2>2. 16 * v + DigitOf(s[n]) \in Int
    BY SMTT(30)
  <2>3. QED
    BY <2>1, <2>2 DEF WithDigit
<1>3. W = CHOOSE h : Eq(h)
  BY DEF Values
<1> HIDE DEF N, S, base, W
<1>4. step \in [(1..N) \X S -> S]
  BY <1>2
<1>5. PICK g \in [0..N -> S] : Recursive(g, N, base, step)
  <2> HIDE DEF step
  <2>1. QED
    BY <1>1, <1>4, Recursion
<1>6. Eq(g)
  <2>1. ASSUME NEW n \in 1..N
        PROVE  g[n] = WithDigit(s, n, g[n - 1])
    <3>1. n - 1 \in 0..N /\ g[n - 1] \in S
      BY <1>1
    <3>2. g[n] = step[<<n, g[n - 1]>>]
      BY <1>5 DEF Recursive
    <3>3. QED
      BY <3>1, <3>2
  <2>2. g = [n \in 0..N |-> g[n]] /\ g[0] = base
    BY <1>5 DEF Recursive
  <2>3. \A n \in 0..N : n = 0 \/ n \in 1..N
    BY <1>1
  <2>4. \A n \in 0..N : g[n] = IF n = 0 THEN base ELSE WithDigit(s, n, g[n - 1])
    BY <2>1, <2>2, <2>3
  <2>5. QED
    BY <2>2, <2>4
<1>7. Eq(W)
  <2> HIDE DEF Eq
  <2>1. QED
    BY <1>3, <1>6
<1>8. /\ W = [n \in 0..N |-> W[n]]
      /\ \A n \in 0..N : W[n] = IF n = 0 THEN base ELSE WithDigit(s, n, W[n - 1])
  BY <1>7
<1>9. W[0] = base
  <2>1. 0 \in 0..N
    BY <1>1
  <2>2. QED
    BY <1>8, <2>1
<1>10. 0 \in T
  BY <1>1, <1>9
<1>11. ASSUME NEW n \in 1..N, n - 1 \in T
       PROVE  n \in T
  <2>1. n \in 0..N /\ n # 0 /\ W[n - 1] \in S
    BY <1>1, <1>11
  <2>2. W[n] = WithDigit(s, n, W[n - 1])
    BY <1>8, <2>1
  <2>3. QED
    BY <1>2, <2>1, <2>2
<1>12. \A n \in 0..N : n \in T
  <2> HIDE DEF T
  <2>1. QED
    BY <1>1, <1>10, <1>11, UpTo
<1>13. W \in [0..N -> S]
  BY <1>8, <1>12
<1>14. ASSUME NEW n \in 1..N
       PROVE  W[n] = WithDigit(s, n, W[n - 1])
  <2>1. n \in 0..N /\ n # 0
    BY <1>1
  <2>2. QED
    BY <1>8, <2>1
<1>15. QED
  BY <1>9, <1>13, <1>14 DEF N, S, base, W

-----------------------------------------------------------------------------
(* A byte, and how it is spelled.                                          *)

Letter == {Hex[d] : d \in 1..16}

\* A digit is no blank, no sign and no end of a line, and stands for a value.
LEMMA HexDigits ==
    /\ Letter \subseteq Character \ (Special \union {"+"})
    /\ \A d \in 0..15 : Hex[d + 1] \in Letter /\ DigitOf(Hex[d + 1]) = d
    /\ \A c \in Letter : IsHex(c) /\ DigitOf(c) \in 0..15
<1>0. /\ Hex[1] = "0" /\ Hex[2] = "1" /\ Hex[3] = "2" /\ Hex[4] = "3"
      /\ Hex[5] = "4" /\ Hex[6] = "5" /\ Hex[7] = "6" /\ Hex[8] = "7"
      /\ Hex[9] = "8" /\ Hex[10] = "9" /\ Hex[11] = "a" /\ Hex[12] = "b"
      /\ Hex[13] = "c" /\ Hex[14] = "d" /\ Hex[15] = "e" /\ Hex[16] = "f"
  BY DEF Hex
<1>1. \A d, e \in 1..16 : Hex[d] = Hex[e] => d = e
  BY <1>0
<1> DEFINE digits == {"0", "1", "2", "3", "4", "5", "6", "7",
                      "8", "9", "a", "b", "c", "d", "e", "f"}
<1>2. \A d \in 1..16 : Hex[d] \in Character /\ Hex[d] \notin Special \union {"+"}
  <2>1. \A d \in 1..16 : Hex[d] \in digits
    BY <1>0
  <2>2. \A c \in digits : c \notin Special \union {"+"}
    BY DEF Special
  <2> HIDE DEF digits
  <2>3. QED
    BY <2>1, <2>2, PacketMatchAssumptions
<1>3. ASSUME NEW d \in 1..16
      PROVE  DigitOf(Hex[d]) = d - 1
  <2>1. (CHOOSE e \in 1..16 : Hex[e] = Hex[d]) = d
    BY <1>1
  <2>2. QED
    BY <2>1 DEF DigitOf
<1>4. \A c \in Letter : IsHex(c) /\ DigitOf(c) \in 0..15
  BY <1>3 DEF Letter, IsHex
<1>5. \A d \in 0..15 : Hex[d + 1] \in Letter /\ DigitOf(Hex[d + 1]) = d
  <2>1. \A d \in 0..15 : d + 1 \in 1..16 /\ (d + 1) - 1 = d
    OBVIOUS
  <2>2. QED
    BY <1>3, <2>1 DEF Letter
<1>6. QED
  BY <1>2, <1>4, <1>5 DEF Letter

\* A word of digits only is read to its end.
LEMMA WholeWord ==
    ASSUME NEW w \in Seq(Letter), w # <<>>
    PROVE  ByteOf(w) = Values(w)[Len(w)]
<1>1. \A i \in 1..Len(w) : w[i] \in Letter /\ w[i] \notin {"tab", "cr", "nl", "+"} /\ IsHex(w[i])
  <2>1. \A i \in 1..Len(w) : w[i] \in Letter
    OBVIOUS
  <2>2. \A c \in Letter : c \notin {"tab", "cr", "nl", "+"} /\ IsHex(c)
    BY HexDigits DEF Special
  <2>3. QED
    BY <2>1, <2>2
<1>2. Len(w) \in Nat /\ Len(w) >= 1 /\ DOMAIN w = 1..Len(w)
  BY EmptySeq, LenProperties
<1> DEFINE Blank == {"tab", "cr", "nl"}
           shown == {i \in DOMAIN w : w[i] \notin Blank} \union {Len(w) + 1}
           first == IF Min(shown) <= Len(w) /\ w[Min(shown)] = "+" THEN Min(shown) + 1
                    ELSE Min(shown)
           stops == {i \in first..Len(w) : ~IsHex(w[i])} \union {Len(w) + 1}
           digits == SubSeq(w, first, Min(stops) - 1)
<1>3. ByteOf(w) = Values(digits)[Len(digits)]
  BY DEF ByteOf
<1>4. Min(shown) = 1
  <2>1. shown = 1..(Len(w) + 1)
    BY <1>1, <1>2
  <2>2. \A n \in Nat : n >= 1 => Min(1..n) = 1
    <3>1. ASSUME NEW n \in Nat, n >= 1 PROVE Min(1..n) = 1
      <4>1. \A m \in 1..n : (\A k \in 1..n : m <= k) <=> m = 1
        BY <3>1
      <4>2. 1 \in 1..n
        BY <3>1
      <4>3. QED
        BY <4>1, <4>2 DEF Min
    <3>2. QED
      BY <3>1
  <2> HIDE DEF shown
  <2>3. Len(w) + 1 \in Nat /\ Len(w) + 1 >= 1
    BY <1>2
  <2>4. QED
    BY <2>1, <2>2, <2>3
<1>5. first = 1
  BY <1>1, <1>2, <1>4
<1>6. stops = {Len(w) + 1}
  BY <1>1, <1>5
<1>7. Min(stops) = Len(w) + 1
  <2>1. \A n \in Nat : Min({n}) = n
    BY DEF Min
  <2> HIDE DEF stops
  <2>2. Len(w) + 1 \in Nat
    BY <1>2
  <2>3. QED
    BY <1>6, <2>1, <2>2
<1>8. SubSeq(w, 1, Len(w)) = w /\ (Len(w) + 1) - 1 = Len(w)
  BY <1>2, SubSeqFull
<1> HIDE DEF stops, first, shown
<1>9. digits = w
  BY <1>5, <1>7, <1>8
<1>10. QED
  BY <1>3, <1>9

\* A byte is read as it was spelled, with one digit or with two.
LEMMA ByteSpelled ==
    ASSUME NEW b \in 0..255, NEW item
    PROVE  /\ Spelled(b, item) \in Seq(Letter) /\ Len(Spelled(b, item)) \in {1, 2}
           /\ ByteOf(Spelled(b, item)) = b
<1> DEFINE w == Spelled(b, item)
<1>0. Letter \subseteq Character /\ \A c \in Letter : DigitOf(c) \in 0..15
  BY HexDigits
<1>1. CASE item.short /\ b < 16
  <2>1. w = <<Hex[b + 1]>>
    BY <1>1 DEF Spelled
  <2>2. b \in 0..15 /\ Hex[b + 1] \in Letter /\ DigitOf(Hex[b + 1]) = b
    BY <1>1, HexDigits
  <2> HIDE DEF w
  <2>3. w \in Seq(Letter) /\ w # <<>> /\ Len(w) = 1 /\ w[1] = Hex[b + 1]
    BY <2>1, <2>2
  <2>4. w \in Seq(Character) /\ \A i \in 1..Len(w) : DigitOf(w[i]) \in 0..15
    BY <1>0, <2>3, SeqMonotonic, ElementOfSeq
  <2>5. Values(w)[0] = 0 /\ Values(w)[1] = WithDigit(w, 1, Values(w)[1 - 1])
    BY SMTT(30), <2>3, <2>4, ValuesAt
  <2>6. Values(w)[1] = b
    BY <2>2, <2>3, <2>5 DEF WithDigit
  <2>7. ByteOf(w) = Values(w)[1]
    BY <2>3, WholeWord
  <2>8. QED
    BY <1>1, <2>3, <2>6, <2>7 DEF w
<1>2. CASE ~(item.short /\ b < 16)
  <2> DEFINE hi == b \div 16
             lo == b % 16
  <2>1. w = <<Hex[hi + 1], Hex[lo + 1]>>
    BY <1>2 DEF Spelled
  <2>2. hi \in 0..15 /\ lo \in 0..15 /\ 16 * hi + lo = b
    OBVIOUS
  <2> HIDE DEF w, hi, lo
  <2>3. /\ Hex[hi + 1] \in Letter /\ DigitOf(Hex[hi + 1]) = hi
        /\ Hex[lo + 1] \in Letter /\ DigitOf(Hex[lo + 1]) = lo
    BY <2>2, HexDigits
  <2>4. /\ w \in Seq(Letter) /\ w # <<>> /\ Len(w) = 2
        /\ w[1] = Hex[hi + 1] /\ w[2] = Hex[lo + 1]
    BY <2>1, <2>3
  <2>5. w \in Seq(Character) /\ \A i \in 1..Len(w) : DigitOf(w[i]) \in 0..15
    BY <1>0, <2>4, SeqMonotonic, ElementOfSeq
  <2>6. /\ Values(w)[0] = 0
        /\ Values(w)[1] = WithDigit(w, 1, Values(w)[1 - 1])
        /\ Values(w)[2] = WithDigit(w, 2, Values(w)[2 - 1])
    <3>1. 1 \in 1..Len(w) /\ 2 \in 1..Len(w)
      BY <2>4
    <3>2. QED
      BY <2>5, <3>1, ValuesAt
  <2>7. Values(w)[1] = hi
    <3>1. Values(w)[1] = (16 * 0 + hi) % 256
      BY <2>3, <2>4, <2>6 DEF WithDigit
    <3>2. QED
      BY <2>2, <3>1
  <2>8. Values(w)[2] = b
    <3>1. Values(w)[2] = (16 * hi + lo) % 256
      BY <2>3, <2>4, <2>6, <2>7 DEF WithDigit
    <3>2. QED
      BY <2>2, <3>1
  <2>9. ByteOf(w) = Values(w)[2]
    BY <2>4, WholeWord
  <2>10. QED
    BY <2>4, <2>8, <2>9 DEF w
<1>3. QED
  BY <1>1, <1>2
-----------------------------------------------------------------------------
(* A pattern's bytes, spelled one behind the other.                        *)

\* Digits make a text.
LEMMA LetterSeq == \A w \in Seq(Letter) : w \in Seq(Character)
  BY HexDigits, SeqMonotonic

\* What a pattern is padded with is a text.
LEMMA PadSeq ==
    ASSUME NEW pad \in Seq({"sp"})
    PROVE  /\ pad \in Seq(Character) /\ pad \in Seq(Special)
           /\ <<"sp">> \o pad \in Seq(Character) /\ <<"sp">> \o pad \in Seq({"sp"})
<1>1. {"sp"} \subseteq Character /\ {"sp"} \subseteq Special
  BY PacketMatchAssumptions DEF Special
<1>2. <<"sp">> \in Seq({"sp"})
  OBVIOUS
<1>3. <<"sp">> \o pad \in Seq({"sp"})
  BY <1>2, ConcatProperties
<1>4. QED
  BY <1>1, <1>3, SeqMonotonic

\* The parts of a pattern.
LEMMA PatternParts ==
    ASSUME NEW item, IsPattern(item)
    PROVE  /\ item.bytes \in Seq(0..255) /\ Len(item.bytes) \in Nat /\ Len(item.bytes) >= 1
           /\ item.pad \in Seq({"sp"}) /\ item.pad \in Seq(Character)
           /\ <<"sp">> \o item.pad \in Seq(Character)
           /\ \A i \in 1..Len(item.bytes) :
                 LET w == Spelled(item.bytes[i], item) IN
                 /\ w \in Seq(Letter) /\ w \in Seq(Character) /\ Len(w) \in {1, 2}
                 /\ ByteOf(w) = item.bytes[i]
<1>1. /\ item.bytes \in Seq(0..255) /\ item.bytes # <<>>
      /\ item.pad \in Seq({"sp"})
  BY DEF IsPattern
<1>2. \A i \in 1..Len(item.bytes) : item.bytes[i] \in 0..255
  BY <1>1, ElementOfSeq
<1>3. Len(item.bytes) \in Nat /\ Len(item.bytes) >= 1
  BY <1>1
<1>4. item.pad \in Seq(Character) /\ <<"sp">> \o item.pad \in Seq(Character)
  BY <1>1, PadSeq
<1>5. ASSUME NEW i \in 1..Len(item.bytes), NEW w, w = Spelled(item.bytes[i], item)
      PROVE  /\ w \in Seq(Letter) /\ w \in Seq(Character) /\ Len(w) \in {1, 2}
             /\ ByteOf(w) = item.bytes[i]
  <2>1. PICK b \in 0..255 : b = item.bytes[i]
    BY <1>2
  <2>2. /\ Spelled(b, item) \in Seq(Letter) /\ Len(Spelled(b, item)) \in {1, 2}
        /\ ByteOf(Spelled(b, item)) = b
    BY ByteSpelled
  <2>3. QED
    BY <1>5, <2>1, <2>2, LetterSeq
<1>6. QED
  BY <1>1, <1>3, <1>4, <1>5

\* The spelling of the first bytes of a pattern, a byte at a time.
LEMMA SpellingAt ==
    ASSUME NEW item, IsPattern(item)
    PROVE  /\ Spelling(item) \in [0..Len(item.bytes) -> Seq(Character)]
           /\ Spelling(item)[0] = <<>>
           /\ \A n \in 1..Len(item.bytes) : Spelling(item)[n] = WithByte(item, n, Spelling(item)[n - 1])
<1> DEFINE N == Len(item.bytes)
           S == Seq(Character)
           base == <<>>
           step == [p \in (1..N) \X S |-> WithByte(item, p[1], p[2])]
           Eq(g) == g = [n \in 0..N |-> IF n = 0 THEN base ELSE WithByte(item, n, g[n - 1])]
           W == Spelling(item)
           T == {n \in 0..N : W[n] \in S}
<1>1. N \in Nat /\ base \in S
  BY PatternParts
<1>2. ASSUME NEW n \in 1..N, NEW v \in S
      PROVE  WithByte(item, n, v) \in S
  <2>1. Spelled(item.bytes[n], item) \in Seq(Character) /\ <<"sp">> \o item.pad \in Seq(Character)
    BY PatternParts
  <2>2. QED
    BY <2>1 DEF WithByte
<1>3. W = CHOOSE h : Eq(h)
  BY DEF Spelling
<1> HIDE DEF N, S, base, W
<1>4. step \in [(1..N) \X S -> S]
  BY <1>2
<1>5. PICK g \in [0..N -> S] : Recursive(g, N, base, step)
  <2> HIDE DEF step
  <2>1. QED
    BY <1>1, <1>4, Recursion
<1>6. Eq(g)
  <2>1. ASSUME NEW n \in 1..N
        PROVE  g[n] = WithByte(item, n, g[n - 1])
    <3>1. n - 1 \in 0..N /\ g[n - 1] \in S
      BY <1>1
    <3>2. g[n] = step[<<n, g[n - 1]>>]
      BY <1>5 DEF Recursive
    <3>3. QED
      BY <3>1, <3>2
  <2>2. g = [n \in 0..N |-> g[n]] /\ g[0] = base
    BY <1>5 DEF Recursive
  <2>3. \A n \in 0..N : n = 0 \/ n \in 1..N
    BY <1>1
  <2>4. \A n \in 0..N : g[n] = IF n = 0 THEN base ELSE WithByte(item, n, g[n - 1])
    BY <2>1, <2>2, <2>3
  <2>5. QED
    BY <2>2, <2>4
<1>7. Eq(W)
  <2> HIDE DEF Eq
  <2>1. QED
    BY <1>3, <1>6
<1>8. /\ W = [n \in 0..N |-> W[n]]
      /\ \A n \in 0..N : W[n] = IF n = 0 THEN base ELSE WithByte(item, n, W[n - 1])
  BY <1>7
<1>9. W[0] = base
  <2>1. 0 \in 0..N
    BY <1>1
  <2>2. QED
    BY <1>8, <2>1
<1>10. 0 \in T
  BY <1>1, <1>9
<1>11. ASSUME NEW n \in 1..N, n - 1 \in T
       PROVE  n \in T
  <2>1. n \in 0..N /\ n # 0 /\ W[n - 1] \in S
    BY <1>1, <1>11
  <2>2. W[n] = WithByte(item, n, W[n - 1])
    BY <1>8, <2>1
  <2>3. QED
    BY <1>2, <2>1, <2>2
<1>12. \A n \in 0..N : n \in T
  <2> HIDE DEF T
  <2>1. QED
    BY <1>1, <1>10, <1>11, UpTo
<1>13. W \in [0..N -> S]
  BY <1>8, <1>12
<1>14. ASSUME NEW n \in 1..N
       PROVE  W[n] = WithByte(item, n, W[n - 1])
  <2>1. n \in 0..N /\ n # 0
    BY <1>1
  <2>2. QED
    BY <1>8, <2>1
<1>15. QED
  BY <1>9, <1>13, <1>14 DEF N, S, base, W

\* What is read of the first bytes, and how their spelling begins and ends.
SpelledRight(item, n) ==
    LET s == Spelling(item)[n] IN
    /\ s # <<>> /\ s[1] \in Letter /\ s[Len(s)] \in Letter
    /\ Len(s) = 1 => n = 1 /\ item.short /\ item.bytes[1] < 16
    /\ Tokens(s) = [i \in 1..n |-> Spelled(item.bytes[i], item)]

\* The words of what the first n bytes are spelled as are those bytes.
LEMMA SpellingRead ==
    ASSUME NEW item, IsPattern(item), NEW n \in 1..Len(item.bytes)
    PROVE  SpelledRight(item, n)
<1> DEFINE N == Len(item.bytes)
           T == {k \in 0..N : k = 0 \/ SpelledRight(item, k)}
<1>0. N \in Nat
  BY PatternParts
<1>1. 0 \in T
  BY <1>0
<1>2. ASSUME NEW k \in 1..N, k - 1 \in T
      PROVE  k \in T
  <2> DEFINE t == Spelling(item)[k - 1]
             w == Spelled(item.bytes[k], item)
             sep == IF k = 1 THEN <<>> ELSE <<"sp">> \o item.pad
             s == Spelling(item)[k]
             words == [i \in 1..(k - 1) |-> Spelled(item.bytes[i], item)]
  <2>1. s = t \o sep \o w
    BY SpellingAt DEF WithByte
  <2>2. t \in Seq(Character) /\ (k = 1 => t = <<>>)
    <3>1. k - 1 \in 0..N /\ (k = 1 => k - 1 = 0)
      BY <1>0
    <3>2. /\ Spelling(item) \in [0..N -> Seq(Character)]
          /\ Spelling(item)[0] = <<>>
      BY SpellingAt
    <3>3. QED
      BY <3>1, <3>2
  <2>3. w \in Seq(Letter) /\ w \in Seq(Character) /\ Len(w) \in {1, 2}
    BY PatternParts
  <2>4. sep \in Seq(Character) /\ (k # 1 => Len(sep) > 0) /\ (k = 1 => sep = <<>>)
        /\ \A i \in 1..Len(sep) : sep[i] = "sp"
    <3>1. CASE k = 1
      BY <3>1
    <3>2. CASE k # 1
      <4>1. sep = <<"sp">> \o item.pad
        BY <3>2
      <4>2. item.pad \in Seq({"sp"})
        BY PatternParts
      <4> HIDE DEF sep
      <4>3. sep \in Seq(Character) /\ sep \in Seq({"sp"}) /\ Len(sep) = 1 + Len(item.pad)
        BY <4>1, <4>2, PadSeq
      <4>4. \A i \in 1..Len(sep) : sep[i] = "sp"
        BY <4>3
      <4>5. QED
        BY <3>2, <4>2, <4>3, <4>4
    <3>3. QED
      BY <3>1, <3>2
  <2>5. words \in Seq(Seq(Character))
    <3>1. \A i \in 1..(k - 1) : Spelled(item.bytes[i], item) \in Seq(Character)
      BY PatternParts
    <3>2. QED
      BY <3>1
  <2>6. k = 1 \/ (t # <<>> /\ t[1] \in Letter /\ Tokens(t) = words)
    BY <1>2 DEF SpelledRight
  <2> HIDE DEF t, sep, w, s, words
  <2> DEFINE u == t \o sep
  <2>7. /\ u \in Seq(Character) /\ Len(u) = Len(t) + Len(sep)
        /\ \A i \in 1..Len(t) : u[i] = t[i]
        /\ \A i \in 1..Len(sep) : u[Len(t) + i] = sep[i]
    BY <2>2, <2>4
  <2>8. /\ s \in Seq(Character) /\ Len(s) = Len(u) + Len(w)
        /\ \A i \in 1..Len(u) : s[i] = u[i]
        /\ \A i \in 1..Len(w) : s[Len(u) + i] = w[i]
    BY <2>1, <2>3, <2>7
  <2> HIDE DEF u
  <2>9. Words(s)[Len(t)] = words
    <3>1. CASE k = 1
      <4>1. Len(t) = 0 /\ words = <<>>
        BY <2>2, <3>1 DEF words
      <4>2. QED
        BY <2>8, <4>1, WordsAt
    <3>2. CASE k # 1
      <4>1. Words(s)[Len(t)] = Words(t)[Len(t)]
        <5>1. Len(t) \in Nat /\ Len(sep) \in Nat /\ Len(w) \in Nat
          BY <2>2, <2>3, <2>4
        <5>2. Len(t) <= Len(s) /\ \A i \in 1..Len(t) : s[i] = t[i]
          BY <2>7, <2>8, <5>1
        <5> DEFINE m == Len(t)
        <5>3. m \in Nat /\ m <= Len(s) /\ m <= Len(t) /\ \A i \in 1..m : s[i] = t[i]
          BY <5>1, <5>2
        <5> HIDE DEF m
        <5>4. Words(s)[m] = Words(t)[m]
          BY <2>2, <2>8, <5>3, WordsLocal
        <5>5. QED
          BY <5>4 DEF m
      <4>2. QED
        BY <2>6, <3>2, <4>1 DEF Tokens
    <3>3. QED
      BY <3>1, <3>2
  <2>10. Words(s)[Len(u)] = Words(s)[Len(t)]
    <3>1. Len(t) \in 0..Len(s) /\ Len(u) \in Len(t)..Len(s)
      BY <2>2, <2>3, <2>4, <2>7, <2>8
    <3>2. ASSUME NEW i \in (Len(t) + 1)..Len(u)
          PROVE  s[i] = "sp"
      <4>1. i - Len(t) \in 1..Len(sep) /\ Len(t) + (i - Len(t)) = i /\ i \in 1..Len(u)
        BY <2>2, <2>4, <2>7
      <4>2. QED
        BY <2>4, <2>7, <2>8, <4>1
    <3>3. QED
      BY <2>8, <3>1, <3>2, BlanksSkipped
  <2>11. Words(s)[Len(s)] = Append(words, w)
    <3>1. Len(u) \in 0..Len(s) /\ Len(u) + Len(w) <= Len(s)
      BY <2>3, <2>7, <2>8
    <3>2. Len(u) = 0 \/ s[Len(u)] = "sp"
      <4>1. CASE k = 1
        BY <2>2, <2>4, <2>7, <4>1
      <4>2. CASE k # 1
        <5>1. Len(sep) \in 1..Len(sep) /\ Len(u) \in 1..Len(u)
          BY <2>2, <2>4, <2>7, <4>2
        <5>2. QED
          BY <2>4, <2>7, <2>8, <5>1
      <4>3. QED
        BY <4>1, <4>2
    <3>3. \A i \in 1..Len(w) : s[Len(u) + i] = w[i] /\ w[i] # "sp"
      <4>1. \A i \in 1..Len(w) : w[i] \in Letter
        BY <2>3
      <4>2. QED
        BY <2>8, <4>1, HexDigits DEF Special
    <3>4. Words(s)[Len(u) + Len(w)] = Append(Words(s)[Len(u)], w)
      BY <2>3, <2>8, <3>1, <3>2, <3>3, WordAdded
    <3>5. QED
      BY <2>8, <2>9, <2>10, <3>4
  <2>12. Append(words, w) = [i \in 1..k |-> Spelled(item.bytes[i], item)]
    BY DEF words, w
  <2>13. s # <<>> /\ s[Len(s)] \in Letter
    <3>1. Len(w) \in 1..Len(w) /\ w[Len(w)] \in Letter
      BY SMTT(30), <2>3
    <3>2. QED
      BY <2>7, <2>8, <3>1
  <2>14. s[1] \in Letter
    <3>1. CASE k = 1
      <4>1. Len(u) = 0 /\ 1 \in 1..Len(w) /\ w[1] \in Letter
        BY <2>2, <2>3, <2>4, <2>7, <3>1
      <4>2. QED
        BY <2>8, <4>1
    <3>2. CASE k # 1
      <4>1. 1 \in 1..Len(t) /\ 1 \in 1..Len(u)
        BY <2>2, <2>4, <2>6, <2>7, <3>2
      <4>2. QED
        BY <2>6, <2>7, <2>8, <3>2, <4>1
    <3>3. QED
      BY <3>1, <3>2
  <2>15. Len(s) = 1 => k = 1 /\ item.short /\ item.bytes[1] < 16
    <3>1. k # 1 => Len(u) > 0
      BY <2>2, <2>4, <2>7
    <3>2. Len(s) = 1 => k = 1 /\ Len(w) = 1
      BY <2>3, <2>7, <2>8, <3>1
    <3>3. ~(item.short /\ item.bytes[k] < 16) => Len(w) = 2
      BY DEF w, Spelled
    <3>4. QED
      BY <3>2, <3>3
  <2>16. SpelledRight(item, k)
    BY <2>11, <2>12, <2>13, <2>14, <2>15 DEF SpelledRight, Tokens, s
  <2>17. QED
    BY <1>0, <2>16
<1>3. \A k \in 0..N : k \in T
  <2> HIDE DEF T, N
  <2>1. QED
    BY <1>0, <1>1, <1>2, UpTo
<1>4. QED
  BY <1>0, <1>3
-----------------------------------------------------------------------------
(* A line is read.                                                         *)

\* The least and the greatest of a set of numbers, and the smaller of two.
LEMMA MinIs ==
    ASSUME NEW S \in SUBSET Int, NEW n \in S, \A m \in S : n <= m
    PROVE  Min(S) = n
<1>1. \A x \in S : (\A y \in S : x <= y) => x = n
  OBVIOUS
<1>2. QED
  BY <1>1 DEF Min

LEMMA MaxIs ==
    ASSUME NEW S \in SUBSET Int, NEW n \in S, \A m \in S : m <= n
    PROVE  Max(S) = n
<1>1. \A x \in S : (\A y \in S : x >= y) => x = n
  OBVIOUS
<1>2. QED
  BY <1>1 DEF Max

LEMMA SmallerOf ==
    ASSUME NEW a \in Nat, NEW b \in Nat
    PROVE  /\ Min({a, b}) = IF a <= b THEN a ELSE b
           /\ Min({b, a}) = IF a <= b THEN a ELSE b
<1>1. {a, b} \in SUBSET Int /\ {a, b} = {b, a}
  OBVIOUS
<1>2. CASE a <= b
  BY <1>1, <1>2, MinIs
<1>3. CASE ~(a <= b)
  BY <1>1, <1>3, MinIs
<1>4. QED
  BY <1>2, <1>3

\* What surrounds a text is cut off of it.
LEMMA Trimmed ==
    ASSUME NEW a \in Seq(Special), NEW b \in Seq(Special), NEW c \in Seq(Character),
           c # <<>>, c[1] \notin Special, c[Len(c)] \notin Special
    PROVE  TrimSpace(a \o c \o b) = c
<1> DEFINE s == a \o c \o b
           lo == Len(a) + 1
           hi == Len(a) + Len(c)
           kept == {i \in DOMAIN s : s[i] \notin Special}
<1>1. a \in Seq(Character) /\ b \in Seq(Character)
  BY PacketMatchAssumptions, SeqMonotonic
<1>2. /\ s \in Seq(Character) /\ Len(s) = Len(a) + Len(c) + Len(b)
      /\ \A i \in 1..Len(a) : s[i] = a[i]
      /\ \A i \in 1..Len(c) : s[Len(a) + i] = c[i]
      /\ \A i \in 1..Len(b) : s[hi + i] = b[i]
  <2> DEFINE t == a \o c
  <2>1. /\ t \in Seq(Character) /\ Len(t) = Len(a) + Len(c)
        /\ \A i \in 1..Len(a) : t[i] = a[i]
        /\ \A i \in 1..Len(c) : t[Len(a) + i] = c[i]
    BY <1>1
  <2>2. s = t \o b
    OBVIOUS
  <2> HIDE DEF t, s
  <2>3. /\ s \in Seq(Character) /\ Len(s) = Len(t) + Len(b)
        /\ \A i \in 1..Len(t) : s[i] = t[i]
        /\ \A i \in 1..Len(b) : s[Len(t) + i] = b[i]
    <3>1. Len(t) \in Nat /\ t \in Seq(Character)
      BY <2>1
    <3>2. /\ t \o b \in Seq(Character) /\ Len(t \o b) = Len(t) + Len(b)
          /\ \A i \in 1..(Len(t) + Len(b)) :
                (t \o b)[i] = IF i <= Len(t) THEN t[i] ELSE b[i - Len(t)]
      BY <1>1, <3>1, ConcatProperties
    <3>3. QED
      BY <1>1, <2>2, <3>1, <3>2
  <2>4. \A i \in 1..Len(c) : Len(a) + i \in 1..Len(t)
    BY <1>1, <2>1
  <2>5. QED
    BY <1>1, <2>1, <2>3, <2>4
<1>3. Len(a) \in Nat /\ Len(b) \in Nat /\ Len(c) \in Nat /\ Len(c) >= 1
  OBVIOUS
<1>4. (\A i \in 1..Len(a) : a[i] \in Special) /\ (\A i \in 1..Len(b) : b[i] \in Special)
  OBVIOUS
<1> HIDE DEF s
<1>5. DOMAIN s = 1..Len(s)
  BY <1>2
<1>6. lo \in kept /\ hi \in kept
  <2>1. s[lo] = c[1] /\ s[hi] = c[Len(c)]
    BY <1>2, <1>3
  <2>2. lo \in DOMAIN s /\ hi \in DOMAIN s
    BY <1>2, <1>3, <1>5
  <2>3. QED
    BY <2>1, <2>2
<1>7. ASSUME NEW i \in kept
      PROVE  lo <= i /\ i <= hi
  <2>1. i \in 1..Len(s) /\ i \in Int
    BY <1>2, <1>5
  <2>2. ~(i <= Len(a))
    BY <1>2, <1>3, <1>4, <2>1
  <2>3. ~(i > hi)
    <3>1. SUFFICES ASSUME i > hi
                   PROVE  FALSE
      OBVIOUS
    <3>2. i - hi \in 1..Len(b) /\ hi + (i - hi) = i
      BY <1>2, <1>3, <2>1, <3>1
    <3>3. s[i] = b[i - hi] /\ b[i - hi] \in Special
      BY <1>2, <1>4, <3>2
    <3>4. QED
      BY <3>3
  <2>4. QED
    BY <1>3, <2>1, <2>2, <2>3
<1>8. kept \in SUBSET Int /\ kept # {} /\ \A i \in kept : lo <= i /\ i <= hi
  BY <1>5, <1>6, <1>7
<1> HIDE DEF kept
<1>9. Min(kept) = lo /\ Max(kept) = hi
  BY <1>6, <1>8, MinIs, MaxIs
<1>10. SubSeq(s, lo, hi) = c
  <2>1. \A i \in lo..hi : s[i] \in Character
    BY <1>2, <1>3
  <2>2. lo \in Int /\ hi \in Int
    BY <1>3
  <2> HIDE DEF lo, hi
  <2>3. /\ SubSeq(s, lo, hi) \in Seq(Character)
        /\ Len(SubSeq(s, lo, hi)) = IF lo <= hi THEN hi - lo + 1 ELSE 0
        /\ \A i \in 1..(hi - lo + 1) : SubSeq(s, lo, hi)[i] = s[lo + i - 1]
    BY <2>1, <2>2, SubSeqProperties
  <2>4. Len(SubSeq(s, lo, hi)) = Len(c) /\ hi - lo + 1 = Len(c)
    BY <1>3, <2>3 DEF lo, hi
  <2>5. \A i \in 1..Len(c) : lo + i - 1 = Len(a) + i
    BY <1>3 DEF lo
  <2> DEFINE u == SubSeq(s, lo, hi)
  <2>6. u \in Seq(Character) /\ Len(u) = Len(c) /\ \A i \in 1..Len(u) : u[i] = c[i]
    BY <1>2, <2>3, <2>4, <2>5
  <2> HIDE DEF u
  <2>7. u = c
    BY <2>6, SeqEqual
  <2>8. QED
    BY <2>7 DEF u
<1>11. TrimSpace(s) = SubSeq(s, Min(kept), Max(kept))
  BY <1>8 DEF TrimSpace, kept
<1>12. QED
  BY <1>9, <1>10, <1>11 DEF s

\* Of a line of blanks nothing is left.
LEMMA NothingKept ==
    ASSUME NEW s \in Seq(Special)
    PROVE  TrimSpace(s) = <<>>
<1>1. \A i \in DOMAIN s : s[i] \in Special
  OBVIOUS
<1>2. QED
  BY <1>1 DEF TrimSpace

\* A line that belongs to an item of the file.
LineOf(item, line) == line # <<>> /\ (line = Written(item) \/ line = Written(item) \o <<"nl">>)

\* The first m elements of a sequence.
LEMMA Beginning ==
    ASSUME NEW S, NEW q \in Seq(S), NEW m \in Nat, 1 <= m, m <= Len(q)
    PROVE  /\ SubSeq(q, 1, m) \in Seq(S) /\ SubSeq(q, 1, m) # <<>>
           /\ Len(SubSeq(q, 1, m)) = m
           /\ \A i \in 1..m : SubSeq(q, 1, m)[i] = q[i]
<1> DEFINE u == SubSeq(q, 1, m)
<1>1. \A i \in 1..m : q[i] \in S
  <2>1. \A i \in 1..m : i \in 1..Len(q)
    BY LenProperties
  <2>2. QED
    BY <2>1, ElementOfSeq
<1>2. /\ u \in Seq(S)
      /\ Len(u) = IF 1 <= m THEN m - 1 + 1 ELSE 0
      /\ \A i \in 1..(m - 1 + 1) : u[i] = q[1 + i - 1]
  BY <1>1, SubSeqProperties
<1> HIDE DEF u
<1>3. m - 1 + 1 = m /\ \A i \in 1..m : 1 + i - 1 = i
  OBVIOUS
<1>4. Len(u) = m /\ \A i \in 1..m : u[i] = q[i]
  BY <1>2, <1>3
<1>5. u # <<>>
  BY <1>2, <1>4, EmptySeq
<1>6. QED
  BY <1>2, <1>4, <1>5 DEF u

\* The words of a pattern are its bytes, with blanks behind them or not.
LEMMA BytesRead ==
    ASSUME NEW item, IsPattern(item), NEW f \in Seq(Character), NEW s \in Seq(Character),
           s = Spelling(item)[Len(item.bytes)], Len(s) <= Len(f),
           \A i \in 1..Len(s) : f[i] = s[i],
           \A i \in (Len(s) + 1)..Len(f) : f[i] = "sp"
    PROVE  Bytes(Tokens(f)) = Said(item) /\ Said(item) # <<>>
<1> DEFINE n == Len(item.bytes)
           words == [i \in 1..n |-> Spelled(item.bytes[i], item)]
           m == Len(s)
           k == IF n <= MaxChr THEN n ELSE MaxChr
<1>1. n \in Nat /\ n >= 1 /\ item.bytes \in Seq(0..255)
  BY PatternParts
<1>2. Words(s)[m] = words
  BY SMTT(30), <1>1, SpellingRead DEF SpelledRight, Tokens
<1>3. m \in Nat /\ m <= Len(s) /\ m <= Len(f) /\ m \in 0..Len(f) /\ Len(f) \in m..Len(f)
      /\ (\A i \in 1..m : f[i] = s[i]) /\ (\A i \in (m + 1)..Len(f) : f[i] = "sp")
  OBVIOUS
<1> HIDE DEF m
<1>4. Words(f)[m] = Words(s)[m]
  BY <1>3, WordsLocal
<1>5. Words(f)[Len(f)] = Words(f)[m]
  BY <1>3, BlanksSkipped
<1>6. Tokens(f) = words
  BY <1>2, <1>4, <1>5 DEF Tokens
<1>7. MaxChr \in Nat /\ MaxChr >= 1
  BY PacketMatchAssumptions
<1>8. Len(words) = n
  BY <1>1
<1> HIDE DEF words, n
<1>9. Bytes(words) = [i \in 1..k |-> ByteOf(words[i])]
  BY <1>1, <1>7, <1>8, SmallerOf DEF Bytes
<1>10. Said(item) = SubSeq(item.bytes, 1, k)
  BY <1>1, <1>7, SmallerOf DEF Said, n
<1>11. k \in 1..n
  BY <1>1, <1>7
<1> HIDE DEF k
<1>12. \A i \in 1..n : ByteOf(words[i]) = item.bytes[i]
  BY PatternParts DEF words, n
<1>13. SubSeq(item.bytes, 1, k) = [i \in 1..k |-> item.bytes[i]]
  BY <1>1, <1>11 DEF n
<1>14. Bytes(words) = SubSeq(item.bytes, 1, k)
  <2>1. \A i \in 1..k : i \in 1..n
    BY <1>1, <1>11
  <2>2. \A i \in 1..k : ByteOf(words[i]) = item.bytes[i]
    BY <1>12, <2>1
  <2>3. [i \in 1..k |-> ByteOf(words[i])] = [i \in 1..k |-> item.bytes[i]]
    BY <2>2
  <2>4. QED
    BY <1>9, <1>13, <2>3
<1>15. SubSeq(item.bytes, 1, k) # <<>>
  <2>1. k \in Nat /\ 1 <= k /\ k <= Len(item.bytes)
    BY <1>1, <1>11 DEF n
  <2>2. ASSUME NEW q \in Seq(0..255), NEW l \in Nat, 1 <= l, l <= Len(q)
        PROVE  SubSeq(q, 1, l) # <<>>
    BY <2>2, Beginning
  <2>3. QED
    BY <1>1, <2>1, <2>2
<1>16. QED
  BY <1>6, <1>10, <1>14, <1>15

\* What stands before a text and behind it, with the end of the line or without.
LEMMA PadEnds ==
    ASSUME NEW pad \in Seq({"sp"})
    PROVE  /\ pad \in Seq(Special) /\ pad \in Seq(Character)
           /\ pad \o <<"nl">> \in Seq(Special) /\ pad \o <<"nl">> \in Seq(Character)
<1>1. {"sp"} \subseteq Special /\ Special \subseteq Character
  BY PacketMatchAssumptions DEF Special
<1>2. pad \in Seq(Special) /\ <<"nl">> \in Seq(Special)
  BY <1>1, SeqMonotonic DEF Special
<1>3. pad \o <<"nl">> \in Seq(Special)
  BY <1>2, ConcatProperties
<1>4. QED
  BY <1>1, <1>2, <1>3, SeqMonotonic

\* A line of which something is left when it is trimmed.
LEMMA LineOfPadded ==
    ASSUME NEW pad \in Seq({"sp"}), NEW c \in Seq(Character), NEW line,
           c # <<>>, c[1] \notin Special, c[Len(c)] \notin Special,
           line = pad \o c \o pad \/ line = (pad \o c \o pad) \o <<"nl">>
    PROVE  TrimSpace(line) = c /\ Head(line) # "sc"
<1>1. PICK b \in Seq(Special) : b \in Seq(Character) /\ line = pad \o c \o b
  <2>1. pad \in Seq(Character) /\ <<"nl">> \in Seq(Character) /\ pad \o c \in Seq(Character)
    <3>1. <<"nl">> \in Seq(Character)
      BY PacketMatchAssumptions DEF Special
    <3>2. QED
      BY <3>1, PadEnds, ConcatProperties
  <2>2. (pad \o c \o pad) \o <<"nl">> = pad \o c \o (pad \o <<"nl">>)
    BY SMTT(30), <2>1, ConcatAssociative
  <2>3. QED
    BY <2>2, PadEnds
<1>2. TrimSpace(line) = c
  BY <1>1, PadEnds, Trimmed
<1>3. pad \in Seq(Character) /\ pad \o c \in Seq(Character) /\ line \in Seq(Character)
  BY <1>1, PadEnds, ConcatProperties
<1>4. Len(pad) \in Nat /\ Len(c) \in Nat /\ Len(c) >= 1 /\ Len(b) \in Nat
  BY <1>1, <1>3
<1> DEFINE d == pad \o c
<1>5. /\ Len(d) = Len(pad) + Len(c)
      /\ \A i \in 1..(Len(pad) + Len(c)) : d[i] = IF i <= Len(pad) THEN pad[i] ELSE c[i - Len(pad)]
  BY <1>3, ConcatProperties
<1>6. d[1] # "sc"
  <2>1. CASE Len(pad) = 0
    <3>1. d[1] = c[1]
      BY <1>4, <1>5, <2>1
    <3>2. QED
      BY <3>1 DEF Special
  <2>2. CASE Len(pad) # 0
    <3>1. d[1] = pad[1] /\ 1 \in 1..Len(pad)
      BY <1>4, <1>5, <2>2
    <3>2. pad[1] = "sp"
      BY <3>1
    <3>3. QED
      BY <3>1, <3>2
  <2>3. QED
    BY <2>1, <2>2
<1>7. d \in Seq(Character) /\ line = d \o b /\ Len(d) >= 1
  BY <1>1, <1>3, <1>4, <1>5
<1> HIDE DEF d
<1>8. line \in Seq(Character) /\ Len(line) = Len(d) + Len(b) /\ line[1] = d[1]
  BY <1>1, <1>4, <1>7
<1>9. Head(line) = line[1]
  BY <1>4, <1>7, <1>8
<1>10. QED
  BY <1>2, <1>6, <1>8, <1>9

\* A pattern is read as it was written, in whichever hand.
LEMMA PatternRead ==
    ASSUME NEW item, IsPattern(item), item.kind = "pattern", NEW line, LineOf(item, line)
    PROVE  Block(line) = Meaning(item)
<1> DEFINE n == Len(item.bytes)
           s == Spelling(item)[n]
           x == IF item.prefix THEN item.pad \o <<"+">> ELSE <<>>
           c == s \o x
<1>1. n \in 1..n /\ n \in Nat
  BY PatternParts
<1>2. /\ s \in Seq(Character) /\ s # <<>> /\ s[1] \in Letter /\ s[Len(s)] \in Letter
      /\ Len(s) = 1 => item.prefix
  <2>1. s \in Seq(Character)
    <3>1. n \in 0..n /\ Spelling(item) \in [0..n -> Seq(Character)]
      BY <1>1, SpellingAt
    <3>2. QED
      BY <3>1
  <2>2. SpelledRight(item, n)
    BY <1>1, SpellingRead
  <2>3. QED
    BY <2>1, <2>2 DEF SpelledRight, IsPattern
<1>3. item.pad \in Seq({"sp"}) /\ item.pad \in Seq(Character) /\ <<"+">> \in Seq(Character)
      /\ item.pad \o <<"+">> \in Seq(Character)
  <2>1. <<"+">> \in Seq(Character)
    BY PacketMatchAssumptions
  <2>2. QED
    BY <2>1, PatternParts, ConcatProperties
<1>4. x \in Seq(Character)
  BY <1>3
<1> HIDE DEF s, n
<1>5. /\ c \in Seq(Character) /\ Len(c) = Len(s) + Len(x)
      /\ \A i \in 1..Len(s) : c[i] = s[i]
      /\ \A i \in 1..Len(x) : c[Len(s) + i] = x[i]
  <2> HIDE DEF x
  <2>1. QED
    BY <1>2, <1>4
<1>6. item.prefix \in BOOLEAN
  BY DEF IsPattern
<1>7. CASE item.prefix
  <2>1. /\ Len(x) = Len(item.pad) + 1 /\ x[Len(x)] = "+"
        /\ \A i \in 1..Len(item.pad) : x[i] = "sp"
    <3>1. x = item.pad \o <<"+">>
      BY <1>7
    <3> HIDE DEF x
    <3>2. QED
      BY <1>3, <3>1
  <2>2. c[Len(c)] = "+" /\ c[1] = s[1] /\ Len(c) > 1
    <3>1. Len(s) \in Nat /\ Len(s) >= 1 /\ Len(x) \in 1..Len(x) /\ 1 \in 1..Len(s)
      BY <1>2, <1>3, <1>4, <2>1
    <3> HIDE DEF c, x
    <3>2. QED
      BY SMTT(30), <1>5, <2>1, <3>1
  <2> DEFINE f == SubSeq(c, 1, Len(c) - 1)
  <2>3. /\ f \in Seq(Character) /\ Len(f) = Len(s) + Len(item.pad)
        /\ \A i \in 1..Len(f) : f[i] = c[i]
    <3>1. Len(c) - 1 = Len(s) + Len(item.pad) /\ Len(s) \in Nat /\ Len(item.pad) \in Nat
      BY <1>2, <1>3, <1>5, <2>1
    <3> HIDE DEF c, x
    <3>2. Len(c) - 1 \in Nat /\ 1 <= Len(c) - 1 /\ Len(c) - 1 <= Len(c)
      BY <1>2, <3>1
    <3>3. QED
      BY <1>5, <3>1, <3>2, Beginning
  <2> HIDE DEF f, c, x
  <2>4. Len(s) <= Len(f) /\ (\A i \in 1..Len(s) : f[i] = s[i])
        /\ \A i \in (Len(s) + 1)..Len(f) : f[i] = "sp"
    <3>1. Len(s) \in Nat /\ Len(item.pad) \in Nat
      BY <1>2, <1>3
    <3>2. ASSUME NEW i \in (Len(s) + 1)..Len(f)
          PROVE  f[i] = "sp"
      <4>1. i - Len(s) \in 1..Len(item.pad) /\ i - Len(s) \in 1..Len(x) /\ i \in 1..Len(f)
            /\ Len(s) + (i - Len(s)) = i
        BY <2>1, <2>3, <3>1
      <4>2. f[i] = c[i] /\ c[i] = x[i - Len(s)]
        BY <1>5, <2>3, <4>1
      <4>3. QED
        BY <2>1, <4>1, <4>2
    <3>3. QED
      BY <1>5, <2>3, <3>1, <3>2
  <2>5. Bytes(Tokens(f)) = Said(item) /\ Said(item) # <<>>
    BY <1>2, <2>3, <2>4, BytesRead DEF s, n
  <2>6. TrimSpace(line) = c /\ Head(line) # "sc"
    <3>1. Written(item) = item.pad \o c \o item.pad
      <4>1. Written(item) = item.pad \o s \o x \o item.pad
        BY <1>7 DEF Written, s, n, x
      <4>2. item.pad \o s \o x = item.pad \o (s \o x)
        <5>1. \A p \in Seq(Character) : p \o s \o x = p \o (s \o x)
          BY <1>2, <1>4, ConcatAssociative
        <5>2. QED
          BY <1>3, <5>1
      <4>3. QED
        BY <4>1, <4>2 DEF c
    <3>2. c # <<>> /\ c[1] \notin Special /\ c[Len(c)] \notin Special
      BY SMTT(30), <1>2, <1>5, <2>2, HexDigits DEF Special
    <3>3. line = item.pad \o c \o item.pad \/ line = (item.pad \o c \o item.pad) \o <<"nl">>
      BY <3>1 DEF LineOf
    <3>4. QED
      BY <1>3, <1>5, <3>2, <3>3, LineOfPadded
  <2>7. ~Skipped(line)
    BY <2>2, <2>6 DEF Skipped
  <2>8. Block(line) = <<[chr |-> Bytes(Tokens(f)), startswith |-> TRUE]>>
    BY <2>2, <2>5, <2>6, <2>7 DEF Block, Last, Front, f
  <2>9. QED
    BY <1>7, <2>5, <2>8 DEF Meaning
<1>8. CASE ~item.prefix
  <2>1. x = <<>> /\ c = s
    BY <1>2, <1>8
  <2>2. Len(s) > 1 /\ s[Len(s)] # "+"
    <3>1. Len(s) \in Nat /\ Len(s) # 0
      BY <1>2
    <3>2. Len(s) # 1
      BY <1>2, <1>8
    <3>3. s[Len(s)] # "+"
      BY <1>2, HexDigits
    <3>4. QED
      BY <3>1, <3>2, <3>3
  <2>3. Bytes(Tokens(s)) = Said(item) /\ Said(item) # <<>>
    <3>1. Len(s) <= Len(s) /\ \A i \in (Len(s) + 1)..Len(s) : s[i] = "sp"
      BY <1>2
    <3>2. QED
      BY <1>2, <3>1, BytesRead DEF s, n
  <2> HIDE DEF c, x
  <2>4. TrimSpace(line) = s /\ Head(line) # "sc"
    <3>1. Written(item) = item.pad \o s \o item.pad
      <4>1. Written(item) = item.pad \o s \o x \o item.pad
        BY <1>8 DEF Written, s, n, x
      <4>2. item.pad \o s \o x = item.pad \o s
        BY <1>2, <1>3, <2>1, ConcatProperties, ConcatEmptySeq
      <4>3. QED
        BY <4>1, <4>2
    <3>2. s # <<>> /\ s[1] \notin Special /\ s[Len(s)] \notin Special
      BY <1>2, HexDigits
    <3>3. line = item.pad \o s \o item.pad \/ line = (item.pad \o s \o item.pad) \o <<"nl">>
      BY <3>1 DEF LineOf
    <3>4. QED
      BY <1>2, <1>3, <3>2, <3>3, LineOfPadded
  <2>5. ~Skipped(line)
    BY <2>2, <2>4 DEF Skipped
  <2>6. Block(line) = <<[chr |-> Bytes(Tokens(s)), startswith |-> FALSE]>>
    BY <2>2, <2>3, <2>4, <2>5 DEF Block, Last
  <2>7. item.prefix = FALSE
    BY <1>6, <1>8
  <2>8. QED
    BY <2>3, <2>6, <2>7 DEF Meaning
<1>9. QED
  BY <1>7, <1>8

\* What an item is written as is a text.
LEMMA WrittenText ==
    ASSUME NEW item, Fits(item)
    PROVE  /\ Written(item) \in Seq(Character) /\ Len(Written(item)) < BufLen
           /\ item.kind \in {"comment", "blank", "pattern", "address"}
<1>0. SUFFICES Written(item) \in Seq(Character)
  BY DEF Fits
<1>1. "sc" \in Character /\ "+" \in Character /\ {"sp"} \subseteq Character
  BY PacketMatchAssumptions DEF Special
<1>2. CASE item.kind = "comment" /\ item.text \in Seq(Character)
  <2>1. Written(item) = <<"sc">> \o item.text
    BY <1>2 DEF Written
  <2>2. QED
    BY <1>1, <1>2, <2>1
<1>3. CASE item.kind = "blank" /\ item.text \in Seq({"sp"})
  <2>1. Written(item) = item.text
    BY <1>3 DEF Written
  <2>2. QED
    BY <1>1, <1>3, <2>1, SeqMonotonic
<1>4. CASE item.kind = "address" /\ IsAddress(item)
  <2>1. Written(item) = item.pad \o item.text \o item.pad
    BY <1>4 DEF Written
  <2>2. item.pad \in Seq(Character) /\ item.text \in Seq(Character)
    BY <1>4, PadSeq DEF IsAddress
  <2>3. QED
    BY <2>1, <2>2, ConcatProperties
<1>5. CASE item.kind = "pattern" /\ IsPattern(item)
  <2> DEFINE s == Spelling(item)[Len(item.bytes)]
             x == IF item.prefix THEN item.pad \o <<"+">> ELSE <<>>
  <2>1. Written(item) = item.pad \o s \o x \o item.pad
    BY <1>5 DEF Written
  <2>2. item.pad \in Seq(Character) /\ x \in Seq(Character)
    <3>1. <<"+">> \in Seq(Character)
      BY <1>1
    <3>2. item.pad \in Seq(Character) /\ item.pad \o <<"+">> \in Seq(Character)
      BY <1>5, <3>1, PatternParts, ConcatProperties
    <3>3. QED
      BY <3>2
  <2>3. s \in Seq(Character)
    <3>1. Len(item.bytes) \in 0..Len(item.bytes)
      BY <1>5, PatternParts
    <3>2. QED
      BY <1>5, <3>1, SpellingAt
  <2> HIDE DEF s, x
  <2>4. QED
    BY <2>1, <2>2, <2>3, ConcatProperties
<1>6. QED
  BY <1>2, <1>3, <1>4, <1>5 DEF Fits

\* A line that belongs to an item is a text that fits the buffer.
LEMMA LineText ==
    ASSUME NEW item, Fits(item), NEW line, LineOf(item, line)
    PROVE  line \in Seq(Character) /\ line # <<>> /\ Len(line) <= BufLen
<1>1. <<"nl">> \in Seq(Character) /\ Len(<<"nl">>) = 1
  BY PacketMatchAssumptions DEF Special
<1>2. BufLen \in Nat
  BY PacketMatchAssumptions
<1> DEFINE w == Written(item)
<1>3. w \in Seq(Character) /\ Len(w) < BufLen /\ Len(w) \in Nat
  BY WrittenText
<1>4. line # <<>> /\ (line = w \/ line = w \o <<"nl">>)
  BY DEF LineOf
<1> HIDE DEF w
<1>5. CASE line = w
  BY <1>2, <1>3, <1>4, <1>5
<1>6. CASE line = w \o <<"nl">>
  <2>1. line \in Seq(Character) /\ Len(line) = Len(w) + 1
    BY <1>1, <1>3, <1>6, ConcatProperties
  <2>2. QED
    BY <1>2, <1>3, <1>4, <2>1
<1>7. QED
  BY <1>4, <1>5, <1>6

\* Comments and blank lines are skipped.
LEMMA OthersSkipped ==
    ASSUME NEW item, Fits(item), item.kind \in {"comment", "blank"}, NEW line, LineOf(item, line)
    PROVE  Skipped(line) /\ Meaning(item) = <<>>
<1>1. Meaning(item) = <<>>
  BY DEF Meaning
<1>2. CASE item.kind = "comment"
  <2> DEFINE w == <<"sc">> \o item.text
             e == w \o <<"nl">>
  <2>1. item.text \in Seq(Character) /\ <<"sc">> \in Seq(Character) /\ <<"nl">> \in Seq(Character)
    BY <1>2, PacketMatchAssumptions DEF Fits, Special
  <2>2. w \in Seq(Character) /\ Len(w) = 1 + Len(item.text) /\ w[1] = "sc"
    BY <2>1
  <2>3. Len(item.text) \in Nat
    BY <2>1
  <2>4. Written(item) = w
    BY <1>2 DEF Written
  <2> HIDE DEF w
  <2>5. e \in Seq(Character) /\ Len(e) = Len(w) + 1 /\ e[1] = w[1]
    BY <2>1, <2>2, <2>3
  <2>6. line = w \/ line = e
    BY <2>4 DEF LineOf
  <2> HIDE DEF e
  <2>7. line \in Seq(Character) /\ Len(line) >= 1 /\ line[1] = "sc"
    BY <2>2, <2>3, <2>5, <2>6
  <2>8. Head(line) = line[1]
    BY <2>7
  <2>9. QED
    BY <1>1, <2>7, <2>8 DEF Skipped
<1>3. CASE item.kind = "blank"
  <2>1. item.text \in Seq({"sp"})
    BY <1>3 DEF Fits
  <2>2. Written(item) = item.text
    BY <1>3 DEF Written
  <2>3. line \in Seq(Special)
    BY <2>1, <2>2, PadEnds DEF LineOf
  <2>4. TrimSpace(line) = <<>>
    BY <2>3, NothingKept
  <2>5. QED
    BY <1>1, <2>4 DEF Skipped
<1>4. QED
  BY <1>2, <1>3

\* An address is read as it was written.
LEMMA AddressRead ==
    ASSUME NEW item, IsAddress(item), item.kind = "address", NEW line, LineOf(item, line)
    PROVE  Line(line) = Meaning(item)
<1>1. item.text \in Seq(Character) /\ item.pad \in Seq({"sp"}) /\ Len(item.text) > 1
      /\ item.text[1] \notin Special /\ item.text[Len(item.text)] \notin Special
  BY DEF IsAddress
<1>2. item.text # <<>>
  BY <1>1
<1>3. line = item.pad \o item.text \o item.pad
      \/ line = (item.pad \o item.text \o item.pad) \o <<"nl">>
  BY DEF LineOf, Written
<1>4. TrimSpace(line) = item.text /\ Head(line) # "sc"
  BY <1>1, <1>2, <1>3, LineOfPadded
<1>5. ~Skipped(line)
  <2>1. Len(item.text) \in Nat
    BY <1>1
  <2>2. QED
    BY <1>1, <1>4, <2>1 DEF Skipped
<1>6. QED
  BY <1>4, <1>5 DEF Line, Meaning

\* Each line is read as the item is meant that it was written for.
LEMMA LineRead ==
    ASSUME NEW item, Fits(item), NEW line, LineOf(item, line)
    PROVE  /\ item.kind # "address" => Block(line) = Meaning(item)
           /\ item.kind # "pattern" => Line(line) = Meaning(item)
<1>1. CASE item.kind \in {"comment", "blank"}
  BY <1>1, OthersSkipped DEF Block, Line
<1>2. CASE item.kind = "pattern"
  BY <1>2, PatternRead DEF Fits
<1>3. CASE item.kind = "address"
  BY <1>3, AddressRead DEF Fits
<1>4. QED
  BY <1>1, <1>2, <1>3, WrittenText

\* What the first items mean together, an item at a time.
LEMMA MeaningsAt ==
    ASSUME NEW items, NEW E, Len(items) \in Nat, \A i \in 1..Len(items) : Meaning(items[i]) \in Seq(E)
    PROVE  /\ Meanings(items) \in [0..Len(items) -> Seq(E)]
           /\ Meanings(items)[0] = <<>>
           /\ \A n \in 1..Len(items) : Meanings(items)[n] = WithItem(items, n, Meanings(items)[n - 1])
<1> DEFINE N == Len(items)
           S == Seq(E)
           base == <<>>
           step == [p \in (1..N) \X S |-> WithItem(items, p[1], p[2])]
           Eq(g) == g = [n \in 0..N |-> IF n = 0 THEN base ELSE WithItem(items, n, g[n - 1])]
           W == Meanings(items)
           T == {n \in 0..N : W[n] \in S}
<1>1. N \in Nat /\ base \in S
  OBVIOUS
<1>2. ASSUME NEW n \in 1..N, NEW v \in S
      PROVE  WithItem(items, n, v) \in S
  BY DEF WithItem
<1>3. W = CHOOSE h : Eq(h)
  BY DEF Meanings
<1> HIDE DEF N, S, base, W
<1>4. step \in [(1..N) \X S -> S]
  BY <1>2
<1>5. PICK g \in [0..N -> S] : Recursive(g, N, base, step)
  <2> HIDE DEF step
  <2>1. QED
    BY <1>1, <1>4, Recursion
<1>6. Eq(g)
  <2>1. ASSUME NEW n \in 1..N
        PROVE  g[n] = WithItem(items, n, g[n - 1])
    <3>1. n - 1 \in 0..N /\ g[n - 1] \in S
      BY <1>1
    <3>2. g[n] = step[<<n, g[n - 1]>>]
      BY <1>5 DEF Recursive
    <3>3. QED
      BY <3>1, <3>2
  <2>2. g = [n \in 0..N |-> g[n]] /\ g[0] = base
    BY <1>5 DEF Recursive
  <2>3. \A n \in 0..N : n = 0 \/ n \in 1..N
    BY <1>1
  <2>4. \A n \in 0..N : g[n] = IF n = 0 THEN base ELSE WithItem(items, n, g[n - 1])
    BY <2>1, <2>2, <2>3
  <2>5. QED
    BY <2>2, <2>4
<1>7. Eq(W)
  <2> HIDE DEF Eq
  <2>1. QED
    BY <1>3, <1>6
<1>8. /\ W = [n \in 0..N |-> W[n]]
      /\ \A n \in 0..N : W[n] = IF n = 0 THEN base ELSE WithItem(items, n, W[n - 1])
  BY <1>7
<1>9. W[0] = base
  <2>1. 0 \in 0..N
    BY <1>1
  <2>2. QED
    BY <1>8, <2>1
<1>10. 0 \in T
  BY <1>1, <1>9
<1>11. ASSUME NEW n \in 1..N, n - 1 \in T
       PROVE  n \in T
  <2>1. n \in 0..N /\ n # 0 /\ W[n - 1] \in S
    BY <1>1, <1>11
  <2>2. W[n] = WithItem(items, n, W[n - 1])
    BY <1>8, <2>1
  <2>3. QED
    BY <1>2, <2>1, <2>2
<1>12. \A n \in 0..N : n \in T
  <2> HIDE DEF T
  <2>1. QED
    BY <1>1, <1>10, <1>11, UpTo
<1>13. W \in [0..N -> S]
  BY <1>8, <1>12
<1>14. ASSUME NEW n \in 1..N
       PROVE  W[n] = WithItem(items, n, W[n - 1])
  <2>1. n \in 0..N /\ n # 0
    BY <1>1
  <2>2. QED
    BY <1>8, <2>1
<1>15. QED
  BY <1>9, <1>13, <1>14 DEF N, S, base, W


\* The items of a file, and what they may add to a list.
FileItems(items) ==
    /\ Len(items) \in Nat /\ DOMAIN items = 1..Len(items)
    /\ \A i \in 1..Len(items) : Fits(items[i])

Entry(items) ==
    {[chr |-> Said(items[i]), startswith |-> items[i].prefix] : i \in 1..Len(items)}
    \union {items[i].text : i \in 1..Len(items)}

\* What the items of a file mean is a sequence of its entries.
LEMMA MeaningsUpTo ==
    ASSUME NEW items, FileItems(items)
    PROVE  /\ Meanings(items) \in [0..Len(items) -> Seq(Entry(items))]
           /\ Meanings(items)[0] = <<>>
           /\ \A n \in 1..Len(items) :
                 Meanings(items)[n] = Meanings(items)[n - 1] \o Meaning(items[n])
           /\ \A n \in 1..Len(items) : Meaning(items[n]) \in Seq(Entry(items))
<1>1. ASSUME NEW n \in 1..Len(items)
      PROVE  Meaning(items[n]) \in Seq(Entry(items))
  <2> DEFINE p == [chr |-> Said(items[n]), startswith |-> items[n].prefix]
             t == items[n].text
  <2>1. p \in Entry(items) /\ t \in Entry(items)
    BY DEF Entry
  <2>2. Meaning(items[n]) = CASE items[n].kind = "pattern" -> <<p>>
                              [] items[n].kind = "address" -> <<t>>
                              [] OTHER -> <<>>
    BY DEF Meaning
  <2> HIDE DEF p, t
  <2>3. <<p>> \in Seq(Entry(items)) /\ <<t>> \in Seq(Entry(items)) /\ <<>> \in Seq(Entry(items))
    BY <2>1
  <2>4. QED
    BY <2>2, <2>3
<1>2. Len(items) \in Nat
  BY DEF FileItems
<1>3. QED
  BY <1>1, <1>2, MeaningsAt DEF WithItem

\* What no item of a stretch adds to is the same at its end.
LEMMA NothingAdded ==
    ASSUME NEW items, FileItems(items), NEW k \in 0..Len(items),
           \A j \in (k + 1)..Len(items) : Meaning(items[j]) = <<>>
    PROVE  Meanings(items)[Len(items)] = Meanings(items)[k]
<1> DEFINE N == Len(items)
           T == {n \in 0..N : n <= k \/ Meanings(items)[n] = Meanings(items)[k]}
<1>1. N \in Nat /\ k \in Nat /\ k <= N
  BY DEF FileItems
<1>2. 0 \in T
  BY <1>1
<1>3. ASSUME NEW n \in 1..N, n - 1 \in T
      PROVE  n \in T
  <2>1. CASE n <= k
    BY <1>1, <2>1
  <2>2. CASE n > k
    <3>1. Meanings(items)[n - 1] = Meanings(items)[k]
      <4>1. CASE n - 1 <= k
        <5>1. n - 1 = k
          BY <1>1, <2>2, <4>1
        <5>2. QED
          BY <5>1
      <4>2. CASE ~(n - 1 <= k)
        BY <1>3, <4>2
      <4>3. QED
        BY <4>1, <4>2
    <3>2. Meaning(items[n]) = <<>>
      <4>1. n \in (k + 1)..N
        BY <1>1, <2>2
      <4>2. QED
        BY <4>1
    <3>3. Meanings(items)[n] = Meanings(items)[n - 1] \o <<>>
      BY <3>2, MeaningsUpTo
    <3>4. Meanings(items)[n - 1] \in Seq(Entry(items))
      <4>1. n - 1 \in 0..N
        BY <1>1
      <4>2. QED
        BY <4>1, MeaningsUpTo
    <3>5. Meanings(items)[n] = Meanings(items)[k]
      BY <3>1, <3>3, <3>4, ConcatEmptySeq
    <3>6. n \in 0..N
      BY <1>1
    <3>7. QED
      BY <3>5, <3>6
  <2>3. QED
    BY <1>1, <2>1, <2>2
<1> HIDE DEF N
<1>4. \A n \in 0..N : n \in T
  <2> HIDE DEF T
  <2>1. QED
    BY <1>1, <1>2, <1>3, UpTo
<1>5. N \in T
  BY <1>1, <1>4
<1>6. QED
  BY <1>1, <1>5 DEF N

\* A sequence without its last element.
LEMMA FrontOf ==
    ASSUME NEW S, NEW q \in Seq(S), q # <<>>
    PROVE  /\ Front(q) \in Seq(S) /\ Len(Front(q)) = Len(q) - 1
           /\ \A i \in 1..(Len(q) - 1) : Front(q)[i] = q[i]
<1>1. Len(q) \in Nat /\ Len(q) >= 1
  OBVIOUS
<1>2. CASE Len(q) = 1
  <2>1. Front(q) = SubSeq(q, 1, 0)
    BY <1>2 DEF Front
  <2>2. Front(q) = <<>>
    BY <2>1
  <2>3. QED
    BY <1>2, <2>2
<1>3. CASE Len(q) # 1
  <2>1. \A l \in Nat : l >= 1 /\ l # 1 => l - 1 \in Nat /\ 1 <= l - 1 /\ l - 1 <= l
    OBVIOUS
  <2>2. Len(q) - 1 \in Nat /\ 1 <= Len(q) - 1 /\ Len(q) - 1 <= Len(q)
    BY <1>1, <1>3, <2>1
  <2>3. Front(q) = SubSeq(q, 1, Len(q) - 1)
    BY DEF Front
  <2>4. QED
    BY <2>2, <2>3, Beginning
<1>4. QED
  BY <1>2, <1>3

\* A line without its end.
LEMMA EndRemoved ==
    ASSUME NEW S, NEW q \in Seq(S), NEW e \in S
    PROVE  /\ q \o <<e>> \in Seq(S) /\ q \o <<e>> # <<>>
           /\ Front(q \o <<e>>) = q
<1> DEFINE r == q \o <<e>>
<1>1. <<e>> \in Seq(S) /\ Len(<<e>>) = 1 /\ Len(q) \in Nat
  OBVIOUS
<1>2. r \in Seq(S) /\ Len(r) = Len(q) + 1 /\ \A i \in 1..Len(q) : r[i] = q[i]
  BY <1>1
<1> HIDE DEF r
<1>3. r # <<>>
  BY <1>1, <1>2
<1>4. /\ Front(r) \in Seq(S) /\ Len(Front(r)) = Len(r) - 1
      /\ \A i \in 1..(Len(r) - 1) : Front(r)[i] = r[i]
  BY <1>2, <1>3, FrontOf
<1>5. Len(Front(r)) = Len(q) /\ \A i \in 1..Len(Front(r)) : Front(r)[i] = q[i]
  <2>1. Len(r) - 1 = Len(q)
    BY <1>1, <1>2
  <2>2. QED
    BY <1>2, <1>4, <2>1
<1>6. Front(r) = q
  BY <1>4, <1>5, SeqEqual
<1>7. QED
  BY <1>2, <1>3, <1>6 DEF r

\* Only a blank line may have nothing but its end.
LEMMA EmptyWritten ==
    ASSUME NEW item, Fits(item), Written(item) = <<>>
    PROVE  item.kind \in {"comment", "blank"}
<1>1. CASE item.kind = "address" /\ IsAddress(item)
  <2>1. Written(item) = item.pad \o item.text \o item.pad
    BY <1>1 DEF Written
  <2>2. item.pad \in Seq(Character) /\ item.text \in Seq(Character) /\ Len(item.text) > 1
    BY <1>1, PadSeq DEF IsAddress
  <2>3. Len(item.pad) \in Nat /\ Len(item.text) \in Nat
    BY <2>2
  <2>4. Len(item.pad \o item.text \o item.pad) > 1
    <3>1. \A p \in Seq(Character), q \in Seq(Character) :
             /\ p \o q \in Seq(Character) /\ Len(p \o q) = Len(p) + Len(q)
      BY ConcatProperties
    <3>2. /\ item.pad \o item.text \in Seq(Character)
          /\ Len(item.pad \o item.text) = Len(item.pad) + Len(item.text)
      BY <2>2, <3>1
    <3>3. Len(item.pad \o item.text \o item.pad) = Len(item.pad) + Len(item.text) + Len(item.pad)
      BY <2>2, <3>1, <3>2
    <3>4. \A a, b \in Nat : b > 1 => a + b + a > 1
      OBVIOUS
    <3>5. QED
      BY <2>2, <2>3, <3>3, <3>4
  <2>5. Len(Written(item)) = 0
    OBVIOUS
  <2>6. QED
    BY <2>1, <2>4, <2>5
<1>2. CASE item.kind = "pattern" /\ IsPattern(item)
  <2> DEFINE n == Len(item.bytes)
             s == Spelling(item)[n]
             x == IF item.prefix THEN item.pad \o <<"+">> ELSE <<>>
  <2>1. Written(item) = item.pad \o s \o x \o item.pad
    BY <1>2 DEF Written
  <2>2. n \in 1..n /\ n \in 0..n
    BY <1>2, PatternParts
  <2>3. item.pad \in Seq(Character) /\ x \in Seq(Character)
    <3>1. <<"+">> \in Seq(Character)
      BY PacketMatchAssumptions
    <3>2. item.pad \in Seq(Character) /\ item.pad \o <<"+">> \in Seq(Character)
      BY <1>2, <3>1, PatternParts, ConcatProperties
    <3>3. QED
      BY <3>2
  <2>4. s \in Seq(Character) /\ s # <<>>
    <3>1. SpelledRight(item, n)
      BY <1>2, <2>2, SpellingRead
    <3>2. QED
      BY <1>2, <2>2, <3>1, SpellingAt DEF SpelledRight
  <2> HIDE DEF s, x, n
  <2>5. Len(item.pad) \in Nat /\ Len(s) \in Nat /\ Len(s) >= 1 /\ Len(x) \in Nat
    BY <2>3, <2>4
  <2>6. Len(item.pad \o s \o x \o item.pad) >= 1
    BY <2>3, <2>4, <2>5
  <2>7. Len(Written(item)) = 0
    OBVIOUS
  <2>8. QED
    BY <2>1, <2>6, <2>7
<1>3. QED
  BY <1>1, <1>2 DEF Fits

-----------------------------------------------------------------------------
(* The reading of a file: the inductive invariant.                         *)

\* The first k items have been read, the text is that of the next ones, and
\* what may follow means nothing: a blank line that was without an end.
ReadUpTo(items, k, text, meant) ==
    /\ meant = Meanings(items)[k]
    /\ text \in Seq(Seq(Character))
    /\ k + Len(text) <= Len(items)
    /\ \A j \in 1..Len(text) : LineOf(items[k + j], text[j])
    /\ \A j \in (k + Len(text) + 1)..Len(items) : Meaning(items[j]) = <<>>

\* Who writes a file of packets writes no addresses into it, and the other way.
ReaderInv ==
    /\ reader \in {"none", "blocks", "lines", "done"}
    /\ reader = "blocks" => \A i \in 1..Len(file) : file[i].kind # "address"
    /\ reader = "lines" => \A i \in 1..Len(file) : file[i].kind # "pattern"

TextInv == reader \in {"blocks", "lines"} =>
               \E k \in 0..Len(file) : ReadUpTo(file, k, rest, list)

MatchInv == FileItems(file) /\ ReaderInv /\ TextInv /\ ReadAsWritten

LEMMA NoItems == FileItems(<<>>)
  BY DEF FileItems

\* The invariant holds of a file that was not read yet.
LEMMA MatchInitInv == MatchInit => MatchInv
<1> SUFFICES ASSUME MatchInit PROVE MatchInv
  OBVIOUS
<1>1. FileItems(file)
  BY FilesAssumption DEF MatchInit, FileItems
<1>2. QED
  BY <1>1 DEF MatchInit, MatchInv, ReaderInv, TextInv, ReadAsWritten

\* The text of a file, with the end of its last line and without.
LEMMA TextRead ==
    ASSUME NEW items, FileItems(items), NEW text,
           text = TextFor(items) \/ (items # <<>> /\ text = Unended(TextFor(items)))
    PROVE  ReadUpTo(items, 0, text, <<>>)
<1> DEFINE N == Len(items)
           whole == TextFor(items)
           w(j) == Written(items[j])
<1>1. N \in Nat /\ DOMAIN items = 1..N /\ \A j \in 1..N : Fits(items[j])
  BY DEF FileItems
<1>2. \A j \in 1..N : w(j) \in Seq(Character) /\ w(j) \o <<"nl">> \in Seq(Character)
                      /\ Front(w(j) \o <<"nl">>) = w(j) /\ w(j) \o <<"nl">> # <<>>
  <2>1. ASSUME NEW j \in 1..N
        PROVE  w(j) \in Seq(Character)
    BY <1>1, WrittenText
  <2>2. "nl" \in Character
    BY PacketMatchAssumptions DEF Special
  <2>3. QED
    BY <2>1, <2>2, EndRemoved
<1>3. /\ whole \in Seq(Seq(Character)) /\ Len(whole) = N
      /\ \A j \in 1..N : whole[j] = w(j) \o <<"nl">>
  <2>1. whole = [j \in 1..N |-> w(j) \o <<"nl">>]
    BY <1>1 DEF TextFor
  <2> HIDE DEF whole
  <2>2. QED
    BY <1>1, <1>2, <2>1
<1> HIDE DEF whole, N
<1>4. Meanings(items)[0] = <<>>
  BY MeaningsUpTo
<1>5. CASE text = whole
  <2>1. \A j \in 1..N : LineOf(items[j], text[j])
    BY <1>2, <1>3, <1>5 DEF LineOf
  <2>2. \A j \in 1..N : 0 + j = j
    OBVIOUS
  <2>3. (0 + N + 1)..N = {} /\ 0 + N <= N
    BY <1>1
  <2>4. QED
    BY <1>3, <1>4, <1>5, <2>1, <2>2, <2>3 DEF ReadUpTo, N
<1>6. CASE items # <<>> /\ text = Unended(whole)
  <2>1. N >= 1 /\ N \in 1..N
    BY <1>1, <1>6 DEF N
  <2>2. Last(whole) = w(N) \o <<"nl">>
    BY <1>3, <2>1 DEF Last
  <2>3. text = IF w(N) = <<>> THEN Front(whole) ELSE [whole EXCEPT ![N] = w(N)]
    BY <1>2, <1>3, <1>6, <2>1, <2>2 DEF Unended
  <2>4. CASE w(N) = <<>>
    <3>1. /\ text \in Seq(Seq(Character)) /\ Len(text) = N - 1
          /\ \A j \in 1..(N - 1) : text[j] = whole[j]
      <4>1. text = Front(whole) /\ whole # <<>>
        BY <1>1, <1>3, <2>1, <2>3, <2>4
      <4>2. QED
        BY <1>1, <1>3, <2>1, <4>1, FrontOf
    <3>2. Meaning(items[N]) = <<>>
      <4>1. items[N].kind \in {"comment", "blank"}
        BY <1>1, <2>1, <2>4, EmptyWritten
      <4>2. QED
        BY <4>1 DEF Meaning
    <3>3. \A j \in 1..(N - 1) : j \in 1..N /\ 0 + j = j
      BY <1>1
    <3>4. \A j \in 1..(N - 1) : LineOf(items[0 + j], text[j])
      BY <1>2, <1>3, <3>1, <3>3 DEF LineOf
    <3>5. (\A j \in (0 + (N - 1) + 1)..N : j = N) /\ 0 + (N - 1) <= N
      BY <1>1
    <3>6. QED
      BY <1>4, <3>1, <3>2, <3>4, <3>5 DEF ReadUpTo, N
  <2>5. CASE w(N) # <<>>
    <3>1. /\ text \in Seq(Seq(Character)) /\ Len(text) = N
          /\ \A j \in 1..N : text[j] = IF j = N THEN w(N) ELSE whole[j]
      <4>1. text = [whole EXCEPT ![N] = w(N)]
        BY <2>3, <2>5
      <4>2. w(N) \in Seq(Character)
        BY <1>2, <2>1
      <4>3. QED
        BY <1>1, <1>3, <2>1, <4>1, <4>2, ExceptSeq
    <3>2. \A j \in 1..N : LineOf(items[j], text[j])
      BY <1>2, <1>3, <2>5, <3>1 DEF LineOf
    <3>3. \A j \in 1..N : 0 + j = j
      OBVIOUS
    <3>4. (0 + N + 1)..N = {} /\ 0 + N <= N
      BY <1>1
    <3>5. QED
      BY <1>4, <3>1, <3>2, <3>3, <3>4 DEF ReadUpTo, N
  <2>6. QED
    BY <2>4, <2>5
<1>7. QED
  BY <1>5, <1>6 DEF whole

\* The next line is that of the next item.
LEMMA NextLine ==
    ASSUME NEW items, FileItems(items), NEW k \in 0..Len(items), NEW text, NEW meant,
           ReadUpTo(items, k, text, meant), text # <<>>
    PROVE  /\ k + 1 \in 1..Len(items) /\ LineOf(items[k + 1], Head(text))
           /\ Tail(text) \in Seq(Seq(Character))
           /\ ReadUpTo(items, k + 1, Tail(text), meant \o Meaning(items[k + 1]))
<1> DEFINE N == Len(items)
<1>1. /\ text \in Seq(Seq(Character)) /\ k + Len(text) <= N /\ meant = Meanings(items)[k]
      /\ \A j \in 1..Len(text) : LineOf(items[k + j], text[j])
      /\ \A j \in (k + Len(text) + 1)..N : Meaning(items[j]) = <<>>
  BY DEF ReadUpTo
<1>2. N \in Nat /\ k \in Nat
  BY DEF FileItems
<1>3. Len(text) \in Nat /\ Len(text) >= 1
  BY <1>1
<1>4. Head(text) = text[1]
  BY <1>1
<1>5. /\ Tail(text) \in Seq(Seq(Character)) /\ Len(Tail(text)) = Len(text) - 1
      /\ \A j \in 1..(Len(text) - 1) : Tail(text)[j] = text[j + 1]
  BY <1>1, <1>3
<1>6. k + 1 \in 1..N /\ (k + 1) - 1 = k
  BY <1>1, <1>2, <1>3
<1>7. LineOf(items[k + 1], Head(text))
  <2>1. 1 \in 1..Len(text)
    BY <1>3
  <2>2. QED
    BY <1>1, <1>4, <2>1
<1>8. Meanings(items)[k + 1] = meant \o Meaning(items[k + 1])
  BY <1>1, <1>6, MeaningsUpTo
<1>9. \A j \in 1..(Len(text) - 1) : LineOf(items[(k + 1) + j], Tail(text)[j])
  <2>1. \A j \in 1..(Len(text) - 1) : j + 1 \in 1..Len(text) /\ k + (j + 1) = (k + 1) + j
    BY <1>2, <1>3
  <2>2. QED
    BY <1>1, <1>5, <2>1
<1>10. /\ (k + 1) + (Len(text) - 1) = k + Len(text)
       /\ (k + 1) + (Len(text) - 1) + 1 = k + Len(text) + 1
  BY <1>2, <1>3
<1>11. QED
  BY <1>1, <1>5, <1>6, <1>7, <1>8, <1>9, <1>10 DEF ReadUpTo

\* A line that fits the buffer is read at once.
LEMMA WholeLine ==
    ASSUME Head(rest) \in Seq(Character), Head(rest) # <<>>, Len(Head(rest)) <= BufLen
    PROVE  Chunk = Head(rest) /\ Behind = <<>>
<1> DEFINE l == Head(rest)
<1>1. l \in Seq(Character) /\ Len(l) \in Nat /\ Len(l) >= 1 /\ Len(l) <= BufLen /\ BufLen \in Nat
  BY PacketMatchAssumptions
<1> HIDE DEF l
<1>2. Min({BufLen, Len(l)}) = Len(l)
  BY <1>1, SmallerOf
<1>3. SubSeq(l, 1, Len(l)) = l
  <2>1. /\ SubSeq(l, 1, Len(l)) \in Seq(Character)
        /\ Len(SubSeq(l, 1, Len(l))) = Len(l)
        /\ \A i \in 1..Len(l) : SubSeq(l, 1, Len(l))[i] = l[i]
    BY <1>1, Beginning
  <2>2. QED
    BY <1>1, <2>1, SeqEqual
<1>4. Chunk = l
  BY <1>2, <1>3 DEF Chunk, l
<1>5. SubSeq(l, Len(l) + 1, Len(l)) = <<>>
  BY <1>1
<1>6. QED
  BY <1>4, <1>5 DEF Behind, l

\* Each of the steps keeps the invariant.
LEMMA ReadLineMatchInv == MatchInv /\ ReadLine => MatchInv'
<1> SUFFICES ASSUME MatchInv, ReadLine PROVE MatchInv'
  OBVIOUS
<1>1. /\ FileItems(file) /\ ReaderInv /\ TextInv
      /\ reader \in {"blocks", "lines"} /\ rest # <<>> /\ file' = file /\ reader' = reader
      /\ list' = list \o (IF reader = "blocks" THEN Block(Chunk) ELSE Line(Chunk))
      /\ rest' = (IF Behind = <<>> THEN <<>> ELSE <<Behind>>) \o Tail(rest)
  BY DEF MatchInv, ReadLine
<1>2. PICK k \in 0..Len(file) : ReadUpTo(file, k, rest, list)
  BY <1>1 DEF TextInv
<1>3. /\ k + 1 \in 1..Len(file) /\ LineOf(file[k + 1], Head(rest))
      /\ Tail(rest) \in Seq(Seq(Character))
      /\ ReadUpTo(file, k + 1, Tail(rest), list \o Meaning(file[k + 1]))
  BY <1>1, <1>2, NextLine
<1>4. Fits(file[k + 1])
  BY <1>1, <1>3 DEF FileItems
<1>5. Chunk = Head(rest) /\ Behind = <<>>
  BY <1>3, <1>4, LineText, WholeLine
<1>6. rest' = Tail(rest)
  BY <1>1, <1>3, <1>5, ConcatEmptySeq
<1>7. list' = list \o Meaning(file[k + 1])
  <2>1. CASE reader = "blocks"
    <3>1. file[k + 1].kind # "address"
      BY <1>1, <1>3, <2>1 DEF ReaderInv
    <3>2. QED
      BY <1>1, <1>3, <1>4, <1>5, <2>1, <3>1, LineRead
  <2>2. CASE reader = "lines"
    <3>1. file[k + 1].kind # "pattern"
      BY <1>1, <1>3, <2>2 DEF ReaderInv
    <3>2. QED
      BY <1>1, <1>3, <1>4, <1>5, <2>2, <3>1, LineRead
  <2>3. QED
    BY <1>1, <2>1, <2>2
<1>8. k + 1 \in 0..Len(file)
  BY <1>1, <1>3 DEF FileItems
<1>9. TextInv'
  BY <1>1, <1>3, <1>6, <1>7, <1>8 DEF TextInv
<1>10. FileItems(file)' /\ ReaderInv'
  BY <1>1 DEF FileItems, ReaderInv
<1>11. ReadAsWritten'
  BY <1>1 DEF ReadAsWritten
<1>12. QED
  BY <1>9, <1>10, <1>11 DEF MatchInv

LEMMA CloseMatchInv == MatchInv /\ Close => MatchInv'
<1> SUFFICES ASSUME MatchInv, Close PROVE MatchInv'
  OBVIOUS
<1>1. /\ FileItems(file) /\ ReaderInv /\ TextInv
      /\ reader \in {"blocks", "lines"} /\ rest = <<>> /\ reader' = "done"
      /\ file' = file /\ list' = list
  BY DEF MatchInv, Close
<1>2. PICK k \in 0..Len(file) : ReadUpTo(file, k, rest, list)
  BY <1>1 DEF TextInv
<1>3. list = Meanings(file)[k] /\ \A j \in (k + 1)..Len(file) : Meaning(file[j]) = <<>>
  <2>1. Len(rest) = 0 /\ k + 0 + 1 = k + 1
    BY <1>1
  <2>2. QED
    BY <1>2, <2>1 DEF ReadUpTo
<1>4. list = Meanings(file)[Len(file)]
  BY <1>1, <1>3, NothingAdded
<1>5. ReadAsWritten'
  BY <1>1, <1>4 DEF ReadAsWritten
<1>6. FileItems(file)' /\ ReaderInv' /\ TextInv'
  BY <1>1 DEF FileItems, ReaderInv, TextInv
<1>7. QED
  BY <1>5, <1>6 DEF MatchInv

LEMMA LoadMatchInv ==
    ASSUME NEW which \in {"blocks", "lines"}, MatchInv, Load(which),
           which = "blocks" => \A i \in DOMAIN file : file[i].kind # "address",
           which = "lines" => \A i \in DOMAIN file : file[i].kind # "pattern"
    PROVE  MatchInv'
<1>1. FileItems(file) /\ list' = <<>>
  BY DEF MatchInv, Load
<1>2. CASE /\ reader' = which /\ file' = file
           /\ rest' \in {TextFor(file)}
                        \union (IF file = <<>> THEN {} ELSE {Unended(TextFor(file))})
  <2>1. rest' = TextFor(file) \/ (file # <<>> /\ rest' = Unended(TextFor(file)))
    <3> DEFINE T == IF file = <<>> THEN {} ELSE {Unended(TextFor(file))}
    <3>1. rest' = TextFor(file) \/ rest' \in T
      BY <1>2
    <3>2. QED
      BY <3>1
  <2>2. ReadUpTo(file, 0, rest', <<>>)
    BY <1>1, <2>1, TextRead
  <2>3. 0 \in 0..Len(file)
    BY <1>1 DEF FileItems
  <2>4. TextInv'
    BY <1>1, <1>2, <2>2, <2>3 DEF TextInv
  <2>5. FileItems(file)' /\ ReaderInv'
    BY <1>1, <1>2 DEF FileItems, ReaderInv
  <2>6. ReadAsWritten'
    BY <1>2 DEF ReadAsWritten
  <2>7. QED
    BY <2>4, <2>5, <2>6 DEF MatchInv
<1>3. CASE reader' = "done" /\ file' = <<>> /\ rest' = <<>>
  <2>1. FileItems(file)'
    BY <1>3, NoItems
  <2>2. Meanings(<<>>)[0] = <<>> /\ Len(<<>>) = 0
    BY NoItems, MeaningsUpTo
  <2>3. ReadAsWritten'
    BY <1>1, <1>3, <2>2 DEF ReadAsWritten
  <2>4. ReaderInv' /\ TextInv'
    BY <1>3 DEF ReaderInv, TextInv
  <2>5. QED
    BY <2>1, <2>3, <2>4 DEF MatchInv
<1>4. QED
  BY <1>2, <1>3 DEF Load

LEMMA MatchNextInv == MatchInv /\ [MatchNext]_match_vars => MatchInv'
<1> SUFFICES ASSUME MatchInv, [MatchNext]_match_vars PROVE MatchInv'
  OBVIOUS
<1>1. CASE Load("blocks") /\ \A i \in DOMAIN file : file[i].kind # "address"
  BY <1>1, LoadMatchInv
<1>2. CASE Load("lines") /\ \A i \in DOMAIN file : file[i].kind # "pattern"
  BY <1>2, LoadMatchInv
<1>3. CASE ReadLine
  BY <1>3, ReadLineMatchInv
<1>4. CASE Close
  BY <1>4, CloseMatchInv
<1>5. CASE UNCHANGED match_vars
  BY <1>5 DEF match_vars, MatchInv, FileItems, ReaderInv, TextInv, ReadAsWritten
<1>6. QED
  BY <1>1, <1>2, <1>3, <1>4, <1>5 DEF MatchNext

LEMMA MatchInvHolds == MatchSpec => []MatchInv
<1>1. MatchInit => MatchInv
  BY MatchInitInv
<1>2. MatchInv /\ [MatchNext]_match_vars => MatchInv'
  BY MatchNextInv
<1>3. QED
  BY <1>1, <1>2, PTL DEF MatchSpec

\* Whatever the items, their number, their hands and the size of the buffer: a
\* file is read as it was written, line by line, into a list of its own.
THEOREM FilesRead == MatchSpec => []ReadAsWritten
<1>1. MatchInv => ReadAsWritten
  BY DEF MatchInv
<1>2. QED
  BY <1>1, MatchInvHolds, PTL

-----------------------------------------------------------------------------
(* What a list matches.                                                    *)

\* An item adds one element to the list, or nothing.
LEMMA OneMeaning ==
    ASSUME NEW item
    PROVE  /\ item.kind = "pattern" =>
                Meaning(item) = <<[chr |-> Said(item), startswith |-> item.prefix]>>
           /\ Meaning(item) = <<>> \/ Meaning(item) = <<Meaning(item)[1]>>
<1>1. CASE item.kind = "pattern"
  <2> DEFINE x == [chr |-> Said(item), startswith |-> item.prefix]
  <2>1. Meaning(item) = <<x>>
    BY <1>1 DEF Meaning
  <2> HIDE DEF x
  <2>2. Meaning(item) = <<Meaning(item)[1]>>
    BY <2>1
  <2>3. QED
    BY <2>1, <2>2 DEF x
<1>2. CASE item.kind = "address"
  <2>1. Meaning(item) = <<item.text>>
    BY <1>2 DEF Meaning
  <2>2. Meaning(item) = <<Meaning(item)[1]>>
    BY <2>1
  <2>3. QED
    BY <1>2, <2>2
<1>3. CASE item.kind \notin {"pattern", "address"}
  BY <1>3 DEF Meaning
<1>4. QED
  BY <1>1, <1>2, <1>3

\* The list holds what the items mean, and nothing else.
Holds(items, n) ==
    /\ \A i \in 1..Len(Meanings(items)[n]) :
          \E j \in 1..n : Meaning(items[j]) = <<Meanings(items)[n][i]>>
    /\ \A j \in 1..n : Meaning(items[j]) # <<>> =>
          \E i \in 1..Len(Meanings(items)[n]) : Meaning(items[j]) = <<Meanings(items)[n][i]>>

\* What holds of a sequence when an element of an item is appended or none.
LEMMA OneMore ==
    ASSUME NEW S, NEW s \in Seq(S), NEW e \in Seq(S), e = <<>> \/ e = <<e[1]>>
    PROVE  /\ \A i \in 1..Len(s) : i \in 1..Len(s \o e) /\ (s \o e)[i] = s[i]
           /\ \A i \in 1..Len(s \o e) : i \in 1..Len(s) \/ e = <<(s \o e)[i]>>
           /\ e # <<>> => \E i \in 1..Len(s \o e) : e = <<(s \o e)[i]>>
<1>1. CASE e = <<>>
  <2>1. s \o e = s
    BY <1>1, ConcatEmptySeq
  <2>2. QED
    BY <1>1, <2>1
<1>2. CASE e = <<e[1]>>
  <2> DEFINE x == e[1]
             t == s \o e
  <2>1. e = <<x>>
    BY <1>2
  <2> HIDE DEF x
  <2>2. Len(e) = 1 /\ e[1] = x
    BY <2>1
  <2>3. /\ Len(t) = Len(s) + 1 /\ Len(s) \in Nat
        /\ \A i \in 1..Len(t) : t[i] = IF i <= Len(s) THEN s[i] ELSE e[i - Len(s)]
    <3>1. /\ Len(t) = Len(s) + Len(e) /\ Len(s) \in Nat
          /\ \A i \in 1..(Len(s) + Len(e)) : t[i] = IF i <= Len(s) THEN s[i] ELSE e[i - Len(s)]
      BY ConcatProperties
    <3> HIDE DEF t
    <3>2. QED
      BY <2>2, <3>1
  <2> HIDE DEF t
  <2>4. t[Len(s) + 1] = x
    <3>1. Len(s) + 1 \in 1..Len(t) /\ ~(Len(s) + 1 <= Len(s)) /\ Len(s) + 1 - Len(s) = 1
      BY <2>3
    <3>2. QED
      BY <2>2, <2>3, <3>1
  <2>5. \A i \in 1..Len(s) : i \in 1..Len(t) /\ t[i] = s[i]
    BY <2>3
  <2>6. \A i \in 1..Len(t) : i \in 1..Len(s) \/ i = Len(s) + 1
    BY <2>3
  <2>7. Len(s) + 1 \in 1..Len(t)
    BY <2>3
  <2>8. QED
    BY <2>1, <2>4, <2>5, <2>6, <2>7 DEF t
<1>3. QED
  BY <1>1, <1>2

\* The list is read of the whole file.
LEMMA AllHeld ==
    ASSUME NEW items, FileItems(items)
    PROVE  Holds(items, Len(items))
<1> DEFINE N == Len(items)
           T == {n \in 0..N : Holds(items, n)}
           M(n) == Meanings(items)[n]
<1>1. N \in Nat
  BY DEF FileItems
<1>2. 0 \in T
  <2>1. M(0) = <<>>
    BY MeaningsUpTo
  <2>2. Holds(items, 0)
    BY <2>1 DEF Holds
  <2>3. QED
    BY <1>1, <2>2
<1>3. ASSUME NEW n \in 1..N, n - 1 \in T
      PROVE  n \in T
  <2> DEFINE e == Meaning(items[n])
             s == M(n - 1)
  <2>1. n - 1 \in 0..N /\ n \in 0..N /\ n \in Nat
    BY <1>1
  <2>2. s \in Seq(Entry(items)) /\ e \in Seq(Entry(items)) /\ M(n) = s \o e
    BY <2>1, MeaningsUpTo
  <2>3. e = <<>> \/ e = <<e[1]>>
    BY OneMeaning
  <2>4. /\ \A i \in 1..Len(s) : \E j \in 1..(n - 1) : Meaning(items[j]) = <<s[i]>>
        /\ \A j \in 1..(n - 1) : Meaning(items[j]) # <<>> =>
              \E i \in 1..Len(s) : Meaning(items[j]) = <<s[i]>>
    BY <1>3 DEF Holds
  <2>5. Meaning(items[n]) = e
    OBVIOUS
  <2> DEFINE t == M(n)
  <2> HIDE DEF e, s, M
  <2>6. /\ \A i \in 1..Len(s) : i \in 1..Len(t) /\ t[i] = s[i]
        /\ \A i \in 1..Len(t) : i \in 1..Len(s) \/ e = <<t[i]>>
        /\ e # <<>> => \E i \in 1..Len(t) : e = <<t[i]>>
    BY <2>2, <2>3, OneMore
  <2> HIDE DEF t
  <2>7. n \in 1..n /\ \A j \in 1..n : j = n \/ j \in 1..(n - 1)
    BY <2>1
  <2>8. \A j \in 1..(n - 1) : j \in 1..n
    BY <2>1
  <2>9. \A i \in 1..Len(t) : \E j \in 1..n : Meaning(items[j]) = <<t[i]>>
    <3>1. ASSUME NEW i \in 1..Len(t)
          PROVE  \E j \in 1..n : Meaning(items[j]) = <<t[i]>>
      <4>1. CASE i \in 1..Len(s)
        BY <2>4, <2>6, <2>8, <4>1
      <4>2. CASE e = <<t[i]>>
        BY <2>5, <2>7, <4>2
      <4>3. QED
        BY <2>6, <4>1, <4>2
    <3>2. QED
      BY <3>1
  <2>10. \A j \in 1..n : Meaning(items[j]) # <<>> =>
            \E i \in 1..Len(t) : Meaning(items[j]) = <<t[i]>>
    <3>1. ASSUME NEW j \in 1..n, Meaning(items[j]) # <<>>
          PROVE  \E i \in 1..Len(t) : Meaning(items[j]) = <<t[i]>>
      <4>1. CASE j = n
        BY <2>5, <2>6, <3>1, <4>1
      <4>2. CASE j \in 1..(n - 1)
        BY <2>4, <2>6, <3>1, <4>2
      <4>3. QED
        BY <2>7, <4>1, <4>2
    <3>2. QED
      BY <3>1
  <2>11. QED
    BY <2>1, <2>9, <2>10 DEF Holds, t, M
<1> HIDE DEF N
<1>4. \A n \in 0..N : n \in T
  <2> HIDE DEF T
  <2>1. QED
    BY <1>1, <1>2, <1>3, UpTo
<1>5. QED
  BY <1>1, <1>4 DEF N

\* What is_match asks of an element of the list.
Compared(plist, messages, packetlen) ==
    /\ Len(plist.chr) <= packetlen
    /\ packetlen > Len(plist.chr) => plist.startswith
    /\ \A j \in DOMAIN plist.chr : messages[j] = plist.chr[j]

\* The bytes that count of a pattern.
LEMMA SaidBytes ==
    ASSUME NEW item, IsPattern(item)
    PROVE  /\ Said(item) \in Seq(0..255) /\ Len(Said(item)) \in Nat
           /\ 1 <= Len(Said(item)) /\ Len(Said(item)) <= MaxChr
<1> DEFINE n == Len(item.bytes)
           k == IF MaxChr <= n THEN MaxChr ELSE n
<1>1. item.bytes \in Seq(0..255) /\ n \in Nat /\ n >= 1
  BY PatternParts
<1>2. MaxChr \in Nat /\ MaxChr >= 1
  BY PacketMatchAssumptions
<1>3. Said(item) = SubSeq(item.bytes, 1, k)
  BY <1>1, <1>2, SmallerOf DEF Said
<1>4. k \in Nat /\ 1 <= k /\ k <= n /\ k <= MaxChr
  BY <1>1, <1>2
<1> HIDE DEF k
<1>5. ASSUME NEW q \in Seq(0..255), k <= Len(q)
      PROVE  SubSeq(q, 1, k) \in Seq(0..255) /\ Len(SubSeq(q, 1, k)) = k
  BY SMTT(30), <1>4, <1>5, Beginning
<1>6. QED
  BY <1>1, <1>3, <1>4, <1>5

\* A packet's bytes are compared as far as the pattern goes: the buffer is long
\* enough for that.
LEMMA PrefixCompared ==
    ASSUME NEW q \in Seq(0..255), 1 <= Len(q), Len(q) <= MaxChr,
           NEW p \in Packets, p.len > 0
    PROVE  IsPrefix(q, SubSeq(p.buffer, 1, Min({p.len, Len(p.buffer)}))) <=>
               Len(q) <= p.len /\ \A j \in 1..Len(q) : p.buffer[j] = q[j]
<1> DEFINE b == p.buffer
           l == p.len
           k == IF l <= Len(b) THEN l ELSE Len(b)
           r == SubSeq(b, 1, k)
<1>1. b \in Seq(0..255) /\ l \in Nat /\ (l <= Len(b) \/ MaxChr <= Len(b)) /\ l > 0
  BY PacketsAssumption
<1>2. Len(b) \in Nat /\ Len(q) \in Nat /\ MaxChr \in Nat
  BY <1>1, PacketMatchAssumptions
<1>3. SubSeq(b, 1, Min({l, Len(b)})) = r
  BY <1>1, <1>2, SmallerOf
<1> HIDE DEF b, l
<1>4. k \in Nat /\ 1 <= k /\ k <= Len(b)
  BY <1>1, <1>2
<1>5. Len(q) <= k <=> Len(q) <= l
  BY <1>1, <1>2
<1> HIDE DEF k
<1>6. r \in Seq(0..255) /\ Len(r) = k /\ \A j \in 1..k : r[j] = b[j]
  BY SMTT(30), <1>1, <1>4, Beginning
<1> HIDE DEF r
<1>7. IsPrefix(q, r) <=> Len(q) <= k /\ \A j \in 1..Len(q) : b[j] = q[j]
  <2>1. CASE Len(q) <= k
    <3> DEFINE u == SubSeq(q, 1, Len(q))
               v == SubSeq(r, 1, Len(q))
    <3>1. u \in Seq(0..255) /\ Len(u) = Len(q) /\ \A j \in 1..Len(q) : u[j] = q[j]
      <4>1. Len(q) \in Nat /\ 1 <= Len(q) /\ Len(q) <= Len(q)
        BY <1>2
      <4>2. QED
        BY <4>1, Beginning
    <3>2. v \in Seq(0..255) /\ Len(v) = Len(q) /\ \A j \in 1..Len(q) : v[j] = r[j]
      BY SMTT(30), <1>2, <1>6, <2>1, Beginning
    <3>3. IsPrefix(q, r) <=> u = v
      BY <1>6, <2>1 DEF IsPrefix
    <3> HIDE DEF u, v
    <3>4. u = v <=> \A j \in 1..Len(q) : u[j] = v[j]
      BY <3>1, <3>2, SeqEqual
    <3>5. \A j \in 1..Len(q) : j \in 1..k
      BY <1>2, <1>4, <2>1
    <3>6. QED
      BY <1>6, <2>1, <3>1, <3>2, <3>3, <3>4, <3>5
  <2>2. CASE ~(Len(q) <= k)
    BY <1>6, <2>2 DEF IsPrefix
  <2>3. QED
    BY <2>1, <2>2
<1>8. QED
  BY <1>3, <1>5, <1>7 DEF b, l

\* A pattern is compared with a packet as it was written.
LEMMA PatternCompared ==
    ASSUME NEW item, IsPattern(item), NEW p \in Packets, p.len > 0,
           NEW plist, plist = [chr |-> Said(item), startswith |-> item.prefix]
    PROVE  Compared(plist, p.buffer, p.len) <=>
               /\ IsPrefix(Said(item), SubSeq(p.buffer, 1, Min({p.len, Len(p.buffer)})))
               /\ p.len = Len(Said(item)) \/ item.prefix
<1> DEFINE q == Said(item)
           b == p.buffer
           l == p.len
<1>1. /\ q \in Seq(0..255) /\ 1 <= Len(q) /\ Len(q) <= MaxChr /\ Len(q) \in Nat
      /\ l \in Nat /\ item.prefix \in BOOLEAN
  BY SaidBytes, PacketsAssumption DEF IsPattern
<1>2. IsPrefix(q, SubSeq(b, 1, Min({l, Len(b)}))) <=>
          Len(q) <= l /\ \A j \in 1..Len(q) : b[j] = q[j]
  BY <1>1, PrefixCompared
<1>3. plist.chr = q /\ plist.startswith = item.prefix
  OBVIOUS
<1>4. DOMAIN q = 1..Len(q)
  BY <1>1
<1> DEFINE same == \A j \in 1..Len(q) : b[j] = q[j]
<1>5. Compared(plist, b, l) <=> Len(q) <= l /\ (l > Len(q) => item.prefix) /\ same
  BY <1>3, <1>4 DEF Compared
<1> HIDE DEF same, q, b, l
<1>6. Len(q) <= l => (l > Len(q) <=> l # Len(q))
  BY <1>1
<1>7. IsPrefix(q, SubSeq(b, 1, Min({l, Len(b)}))) <=> Len(q) <= l /\ same
  BY <1>2 DEF same
<1>8. Compared(plist, b, l) <=>
          IsPrefix(q, SubSeq(b, 1, Min({l, Len(b)}))) /\ (l = Len(q) \/ item.prefix)
  BY <1>5, <1>6, <1>7
<1>9. QED
  BY <1>8 DEF q, b, l

\* Whatever the items and the packet: it matches if and only if one of the
\* patterns that were written says so.
THEOREM MatchesWritten == MatchSpec => []MatchesAsWritten
<1>1. MatchInv => MatchesAsWritten
  <2> SUFFICES ASSUME MatchInv, reader = "done", NEW p \in Packets,
                      \A i \in DOMAIN file : file[i].kind # "address"
               PROVE  is_match(p.buffer, p.len) <=>
                         \E i \in DOMAIN file :
                            /\ file[i].kind = "pattern"
                            /\ p.len > 0
                            /\ IsPrefix(Said(file[i]), SubSeq(p.buffer, 1, Min({p.len, Len(p.buffer)})))
                            /\ p.len = Len(Said(file[i])) \/ file[i].prefix
    BY DEF MatchesAsWritten
  <2> DEFINE N == Len(file)
             Asked(i) == /\ IsPrefix(Said(file[i]), SubSeq(p.buffer, 1, Min({p.len, Len(p.buffer)})))
                         /\ p.len = Len(Said(file[i])) \/ file[i].prefix
  <2>1. FileItems(file) /\ list = Meanings(file)[N]
    BY DEF MatchInv, ReadAsWritten
  <2>2. N \in Nat /\ DOMAIN file = 1..N /\ \A i \in 1..N : Fits(file[i])
    BY <2>1 DEF FileItems
  <2>3. list \in Seq(Entry(file))
    <3>1. N \in 0..N
      BY <2>2
    <3>2. QED
      BY <2>1, <3>1, MeaningsUpTo
  <2>4. /\ \A i \in 1..Len(list) : \E j \in 1..N : Meaning(file[j]) = <<list[i]>>
        /\ \A j \in 1..N : Meaning(file[j]) # <<>> =>
              \E i \in 1..Len(list) : Meaning(file[j]) = <<list[i]>>
    BY <2>1, AllHeld DEF Holds
  <2>5. DOMAIN list = 1..Len(list)
    BY <2>3
  <2>6. is_match(p.buffer, p.len) <=>
            p.len > 0 /\ \E i \in 1..Len(list) : Compared(list[i], p.buffer, p.len)
    BY <2>5 DEF is_match, Compared
  <2>7. ASSUME NEW j \in 1..N, file[j].kind = "pattern"
        PROVE  /\ IsPattern(file[j])
               /\ Meaning(file[j]) =
                     <<[chr |-> Said(file[j]), startswith |-> file[j].prefix]>>
    <3>1. Fits(file[j])
      BY <2>2
    <3>2. QED
      BY <2>7, <3>1, OneMeaning DEF Fits
  <2>8. ASSUME NEW j \in 1..N, file[j].kind # "pattern"
        PROVE  Meaning(file[j]) = <<>>
    <3>1. file[j].kind # "address"
      BY <2>2
    <3>2. QED
      BY <2>8, <3>1 DEF Meaning
  <2>9. ASSUME NEW i \in 1..Len(list), p.len > 0, Compared(list[i], p.buffer, p.len)
        PROVE  \E j \in 1..N : file[j].kind = "pattern" /\ Asked(j)
    <3>1. PICK j \in 1..N : Meaning(file[j]) = <<list[i]>>
      BY <2>4
    <3>2. file[j].kind = "pattern"
      BY SMTT(30), <2>8, <3>1
    <3>3. list[i] = [chr |-> Said(file[j]), startswith |-> file[j].prefix]
      BY <2>7, <3>1, <3>2
    <3>4. Asked(j)
      BY <2>7, <2>9, <3>2, <3>3, PatternCompared
    <3> HIDE DEF Asked
    <3>5. QED
      BY <3>2, <3>4
  <2>10. ASSUME NEW j \in 1..N, file[j].kind = "pattern", p.len > 0, Asked(j)
         PROVE  \E i \in 1..Len(list) : Compared(list[i], p.buffer, p.len)
    <3>1. Meaning(file[j]) # <<>>
      <4>1. \A x : <<x>> # <<>>
        OBVIOUS
      <4>2. QED
        BY <2>7, <2>10, <4>1
    <3>2. PICK i \in 1..Len(list) : Meaning(file[j]) = <<list[i]>>
      BY <2>4, <3>1
    <3>3. list[i] = [chr |-> Said(file[j]), startswith |-> file[j].prefix]
      BY <2>7, <2>10, <3>2
    <3>4. Compared(list[i], p.buffer, p.len)
      BY <2>7, <2>10, <3>3, PatternCompared
    <3>5. QED
      BY <3>4
  <2> HIDE DEF Asked, N
  <2>11. is_match(p.buffer, p.len) <=>
             \E j \in 1..N : file[j].kind = "pattern" /\ p.len > 0 /\ Asked(j)
    BY <2>6, <2>9, <2>10
  <2>12. QED
    BY <2>2, <2>11 DEF Asked
<1>2. QED
  BY <1>1, MatchInvHolds, PTL
=============================================================================
