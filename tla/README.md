# itsavar, a verification development

itsavar is a metamod plugin for Half-Life servers that detours `recvfrom`: it
looks at every packet, bans the addresses that flood the server or send packets
of a list, and hides the packets it stops from the engine. This directory models
the plugin, from the files it reads to the log it writes, and the part of the
Detours library its hook rests on; checks the models with TLC, and proves with
TLAPS, for every value of the constants, what the checks show of small ones. Paths
below are relative to `src/`.

## 1. The system

| Component | Code | State | Operations |
|---|---|---|---|
| Ban list | `msvc/ddoscontrol.*`, `msvc/ddositem.*` | `ddosiplist`, a vector of entries; six option members | `is_ipbanned`, `AddIPBan`, `get_banstatus`, `clear_unactionip`, `RemoveAt`, `RemoveByAddr`, `GetIdByAddr`, `BlockedIPCount`, `Clear` |
| Settings in force | `main.cpp:186-265` | the globals `secure_type`, `cvarvalue_*`, `lastTime`, the ban list's options | `RegisterCvar`, `SetCvarsValue`, `clampf` |
| Packet hook | `main.cpp:267-413` | its locals, `son_tarama_zamani` | `OnRecvFrom` |
| Packet and address lists | `msvc/packetcontroller.*`, `main.cpp:591-689, 714-751` | `bannedpacket`, `allowedpacket`, `controlpacket`, `allowedIp` | `is_match`, `delete_all`, `parse_config` |
| Console | `main.cpp:426-507` | none of its own | `itsavar list, clear, remove, info` |
| Map start | `main.cpp:551-572` | `totalblockedAttack`, edict pointers | `ServerActivate_Post` |
| Reports | `main.cpp:301-324, 352-400, 526-550` | `son_banned_packtime`, `totalblockedAttack`, `userMsgId` | prints, `Client_PrintAll` |
| Log writer | `msvc/logwriter.*` | the open file and its name | `writelog`, `checklogisopen`, `closelogfile` |
| Life cycle | `meta_api.cpp`, `main.cpp:73-154` | `isloaded`, `isfinish`, the function tables | query, attach, detach, `hookRecvFrom` |
| Function detours (vendored) | `sdk/detours/src/detours.cpp`, `disasm.cpp` | the pending transaction, regions of trampolines, the patched code | `DetourTransactionBegin/Abort/Commit`, `DetourUpdateThread`, `DetourAttach`, `DetourDetach`, `DetourCopyInstruction` |
| Languages | `msvc/Settings.h`, `msvc/CommonUtils.h` | the table in use | `GetText`, `GetTextFmt` |
| Ini reader, memory search, rest of the SDK | `include/ini.h`, `memory.cpp`, `mem_parse.cpp`, `sdk/` | - | read once, or never called |

How they interact: the engine calls `recvfrom`, the detour runs `OnRecvFrom`,
which first copies the server variables (`SetCvarsValue`), then asks the lists
and the ban list, may start the sweep `clear_unactionip`, and answers with the
length or with 1 and a zeroed byte. The console commands and the start of a map
run between packets, on the same thread; nothing in `src/` starts another one.
They share the ban list, the lists and the settings with the hook. Besides, all
of them share the static buffer in which `inet_ntoa` spells an address. Other
threads come in only where the plugin does not control them: the detour is seen by
every thread of the process that calls `recvfrom`, also while it is being made and
after the plugin is gone. That is what `Lifecycle` and `Detours` are about.

What is hard in the rest is not parallelism but a long memory: entries of the ban list
live across many packets, sweeps, console commands and changes of settings; a
call uses at its end what it read before its sweep; the sweep erases while it
iterates; entries made by `AddIPBan` read as whatever address was spelled last;
time passes inside a call; only the arrival of packets drives the sweeps. Each
of these is a row of `hazards` in `PROJECT.json`, with its line and the
properties that watch it.

What makes each component correct:

* ban list: one entry per owner; no member read before it is set; a bounded
  memory of requests without duplicates; limits never passed without a ban; a
  sweep that misses nothing; bans that hold until they expire or are removed;
* settings: in range, and at most a second older than the server variables;
* hook: verdicts that rest on the ban list as it is; bans neither prolonged nor
  outstaying by more than a sweep period; every call returns;
* console: it uses the list as the hook does, removals stick and take effect;
* together: nobody is stopped or listed for what others sent;
* lists: files are read and packets matched as the operator wrote them;
* log: one stream, no line lost unless the system refuses to open the file or has no
  slot for it, lines in order, not filled by an attack;
* life cycle: no packet is judged by parts that do not exist;
* detours: whatever fails or is aborted, functions, pointers, trampolines and
  page protections fit together; code is moved whole and leads where it led, but for
  offsets that are cut; suspended threads resume where they were, as far as the
  program looks at them.

## 2. The modules

| Module | Models | Extends |
|---|---|---|
| `DdosControl` | the ban list | SequencesExt |
| `ServerCvars` | server variables and the copy in force | `DdosControl` |
| `RecvHook` | `OnRecvFrom`, in steps | `ServerCvars` |
| `ItSavar` | the plugin at run time: hook, console, map start, clock | `RecvHook` |
| `History` | `ItSavar` with history variables (packets sent, suspects, last change) | `ItSavar` |
| `Documented` | what README and messages say, where the code differs | `History` |
| `BanTable` | the abstract ban list: a table from owner to entry | Integers |
| `DdosControlTable` | the refinement mapping from `DdosControl` to `BanTable` | `DdosControl` |
| `ListIndex` | `ItSavar` with an operator who keeps the printed list | `ItSavar` |
| `ClockSet` | `ItSavar` with a wall clock that is set back | `ItSavar` |
| `LogWriter` | the log file | Sequences |
| `LogFiles` | the log writer by itself, while days pass and the server opens files | `LogWriter` |
| `Reports` | what `OnRecvFrom` logs: composes plugin and log | `ItSavar`, `LogWriter` |
| `PacketMatch` | the files of packets and addresses, and `is_match` | SequencesExt |
| `Lifecycle` | load, attach, unload, and threads inside the hook | SequencesExt |
| `Detours` | transactions that detour functions | SequencesExt |
| `Redirection` | the abstract transaction: functions led elsewhere all at once, or not at all | - |
| `Prologue` | moving the instructions a jump overwrites | SequencesExt |
| `Disasm` | measuring an instruction, byte by byte | Integers |
| `DdosControlProofs` | theorems about the ban list | `DdosControl` |
| `ItSavarProofs` | theorems about the plugin | `ItSavar`, `DdosControlProofs` |
| `DdosControlTableProofs` | the refinement of `BanTable` | `DdosControlTable`, `DdosControlProofs` |
| `HistoryProofs` | theorems about what the plugin has done, and the printed list | `History`, `ListIndex`, `ItSavarProofs` |
| `ClockSetProofs` | theorems about how long entries live | `ClockSet`, `ItSavarProofs` |
| `ReportsProofs` | theorems about the log's lines | `Reports`, `ItSavarProofs` |
| `LoadingProofs` | theorems about the life cycle, the log file, and the reading of packet files | `Lifecycle`, `LogFiles`, `PacketMatch` |
| `DetoursProofs` | theorems about the measure of instructions, the moved code and transactions | `Disasm`, `Prologue`, `Detours` |
| `MC*` | values of the constants for TLC | the module of their name |
| `MCParts` | seven parts side by side, for one run | `DdosControlTable`, `LogFiles`, `Lifecycle`, `MCDetours`, `MCPrologue`, `MCPacketMatch`, `Disasm` |

How they compose: `ItSavar` puts hook, settings, console and map start on one ban
list; `Reports`, `History`, `ListIndex` and `ClockSet` each put something on top of
all of it. `DdosControlTable` relates the ban list to its abstraction. The other
modules meet at an interface that the one above takes for granted: `RecvHook` takes
the set of packets that `PacketMatch` says a list matches; `Lifecycle` takes a
detour that `Detours` has made; `Detours` takes trampolines and alignments from
`Prologue`, and that takes lengths and targets of instructions from `Disasm`.

**`DdosControl`.** `ddosiplist` is the vector. An entry is a record with the
members of `ddositem`; the parallel vectors `request_list`, `request_length`
and `request_count`, which always change together, are one sequence of
`[key, count]`. A packet's `key` stands for its first `min(length, 25)` bytes
and their number, what `request_index` compares; `NoKey` is a length that is not
positive as an `int`. A member the constructor leaves uninitialised is `Undef`.
`ntoa` is the buffer of `inet_ntoa`, and an entry with `ip_address = Shared`
points at it (`AddIPBan` keeps the caller's pointer, `get_banstatus` copies the
text). `TextOf` is the text an entry's pointer reads as, and every look-up goes
by it. `clear_unactionip` takes a step per iteration: `ClearBegin`, `ClearErase`
(`i--; vsize--`), `ClearKeep`, `ClearEnd`, with the loop index in `sweep`
(counted from 1) and its local `now` in `sweepnow`. All other operations are one
step; none of them reads the clock twice. Two operators over one list, `Counted`
and `TotalFlood`/`SingleFlood`, carry the conditions of `get_banstatus`. The
destructive forms of `RemoveAt` and `Clear`, and `RemoveByAddr`, have no caller.

**`ServerCvars`.** `cvars` are the server variables, `opts`, `secure_type` and
`cvarvalue` the copies. `SetCvarsValue` is translated with its throttle, clamps
and the value it does not clamp, `ip_cleartime`. Variables that only decide
about logs and warnings are left out. Values are integers; the code's are floats.

**`RecvHook`.** `pc` tells where the thread is and `call` holds the locals.
A step ends where the clock is read again or an operation on the ban list
follows, because only the clock can change in between:
`Receive`, `ReadSettings` (line 271), `Filter` (272-290), `Lookup` (291-294),
`Match` (295-326), `Scan` (327-332), `Clearing`, `Decide` (333-406), `Return`.
A list is the set of packets it matches. A failed `recvfrom` returns -1, and the
unsigned test of line 277 lets it pass; it is a packet without a key.

**`ItSavar`.** Console commands, `ServerActivate_Post`, the operator's changes of
the server variables, and the clock. `reply` is the text printed last. `itsavar
info` and the usage text change nothing and are left out. `Init` is the state
after `OnMetaAttach` and `EngineFuncLoaded`; the variables may have kept any
setting from before, since registering an existing variable keeps its value.

**`BanTable`, `DdosControlTable`.** The table gives each address an entry of its own
and has one shared entry that answers for those without. `Abstract` maps a record
of the vector to *counting since*, *banned since*, and whether it was removed;
`TableFrom` takes the one entry whose `ip_address` is the owner. A step of the
sweep forgets one entry or stutters; counting packets stutters until a limit is
reached.

**`ListIndex`.** `shown` are the indexes the last `itsavar list` printed with their
owners, `erased` counts erasures since.

**`ClockSet`.** `SetBack` sets the clock back between calls; `turned` remembers by how
much, `began` when each entry's ban or window began, in seconds that really went by.

**`LogWriter`.** `logfile` is a slot of the C runtime, `streams` says on what each
slot is open. The code compares the *name of the file* with the *text of the day*
(`msvc/logwriter.cpp:64`), which are never the same text; so `Stale` is true whenever
a file is open, and every line closes and reopens it. The first disjunct of
`writelog`, a file that stays open, is the code's other branch and never taken.
`closelogfile` leaves the pointer set; nothing writes afterwards, because the only
writer is the unmapped image's hook. `LogFiles` drives it by itself: `Midnight`,
attach, detach, any line, a server that opens and closes files of its own, and a system
that opens no file for a while (`Refuse`). A line that finds no file is dropped
(`msvc/logwriter.cpp:31`), and the next one tries again. That `fprintf` and `fflush` fail
is left out: their results are ignored, and they change nothing but the file.

**`Reports`.** Each step of `RecvHook` that reports is conjoined with a write. A line
carries its kind, its address and the time the call read at its beginning, the file
is that of the day when it is written. The second line of a report (the packet's
bytes) is a step of its own, `ReportPacket`, because the clock is read again. The day of
the first line and the `bannedtime` that `AddIPBan` sets in the same step are read one
after the other in the code, and at one time in the model; no property relates the two,
and a midnight between the time in a line and the day it is written on is there. It is
only written if `itsavar_warn_server` is on too: `stip` is set inside that branch
(`main.cpp:353-361`). `Client_PrintAll` sends nothing, for `userMsgId` is never
registered.

**`PacketMatch`.** `Load` empties the list and opens the file, or finds none; each
`ReadLine` is one turn of the loop of `ParseBlocks` or `ParseLines`: a chunk of
`fgets`, the test for a comment, `TrimSpace`, the trailing plus, `strtok`,
`strtoul`. Bytes stay numbers; a text is a sequence of lines, a line one of characters
from the set `Character`, in which `Special` are the six of `IsCharSpecial`; `ByteOf` is `strtoul`, which
skips white space in front. The second
half says what an operator writes (`Written`, in any hand: `FilesAssumption`) and what it
means (`Meaning`). What goes on for the length of a text (`Words`, `Values`, `Spelling`,
`Meanings`) is a recursive function over its prefixes, with the step of the loop as an
operator. Words with a minus, a `0x` or more digits than a `long` has are left out:
the operator writes one or two digits a byte.

**`Lifecycle`.** Every load is a new `Image` at a new address, and `attaching` tells how
far `OnMetaAttach` has come in it. `entry` is what `recvfrom` begins with, its
`RealCode` or a jump to an image; `original` is what each image's trampoline leads
to, so that a `Caller`, a thread that calls `recvfrom`, goes down through all images
ever attached and comes up through each `OnRecvFrom`. A failed `hookRecvFrom` leaves its transaction
open, since line 151 returns without an abort; later attempts fail as well. `Hook` has no
commit that fails although line 152 ignores the result: it fails only for a thread that
does not own the transaction or after another failure, and the `DetourAttach` before it
would have failed too.

**`Detours`.** The statics are variables of their own names' meaning: `owner`
(`s_nPendingThreadId`), `error`, `ops` (latest first, as the list is built),
`enlisted`, `regions`, `free`. Where a call may fail, it may fail at each point the
code allows, with what it had taken by then. At the end of a transaction the code ignores
what fails (`We don't care if this fails`, `detours.cpp:1407`), and so the model lets it
fail: `unprotected` are the pages and regions whose protection was not put back, `stopped`
the threads that were not resumed, `unmoved` those whose context was not read or written
until they run on. A thread's `place` is in a function's first instructions or their
copies in a trampoline, or at its jump back, or away; `Parts` divides the copies where the
code does. Of a trampoline that is removed it compares only the first
`sizeof(o->pTrampoline)`, four bytes, with the instruction pointer, so `MovedBy` moves a
thread at the first copy and those that begin in these bytes, and leaves one at a later
copy or the jump back. The loops at the end of a transaction run over the list of
operations; no two operations are on one function, so what a loop does to a
function, a trampoline or a thread is done by one operation, and `Patched`,
`Pointed`, `Emptied` and `Moved` say which. Only a page may be
restored several times, and there the last of the list counts (`Restored`); and the
order of the list is the order in which trampolines go back (`GivenBack`, `Backwards`).
`CommitReturn` is a step of its own: the result is read after
the ownership is given up. Assumed of callers:
one pointer per function, one detour at a time, every other thread enlisted. itsavar
keeps the first two; it enlists only itself (`main.cpp:147`), see `hazards`.
`Intended` says what each function would begin with after a commit, and is what
`Redirection` calls `asked`: its `Redirect` and `Restore` are `Attach` and `Detach` that
note an operation, `Apply` a commit, `Abandon` an abort or a commit after a failure.
Everything else of `Detours` is a stutter, `Fail` or `Open`.
`Fresh` leaves out two trampolines of a region where the comment on line 1242 speaks
of one; the second is simply never used.

**`Prologue`.** `Copy` is one turn of the loop of `DetourAttachEx` with
`CopyBytesJump` or `AdjustTarget`, `Fill` one of the loop over padding, `Judge` the
tests behind them. The test for too many instructions cannot fail (19 bytes is the
most, 25 would be allowed) and moved code may run two bytes over `rbCode`, into
`cbCode` and the padding, which are written afterwards or never read: `CodeFits`
says how far it may go. An offset that does not fit its width after the move is cut:
of a loop, which has one byte, and of a jump behind an operand-size prefix, which has two.
The program then tells a length the copy has not (`Extra`, `cut`): three less, so that the
next copy begins inside this one, or before it, or two more, so that between them lie two
bytes that nobody writes. Left out is what a processor makes of the prefix: it cuts the
address itself to 16 bits, and it does so of a short jump behind such a prefix, which
the program lets grow to an offset of four bytes.

**`Disasm`.** Prefixes, escapes and VEX, which is taken behind any of them, set the
overrides; `EntryOf` is the two tables
of 256 entries by ranges of opcodes; `Size` is `CopyBytes`. Bytes a table calls
invalid are not instructions and are left out. The second half of the module is the
instruction set's manual, written independently of the tables.

Operators named `X_Y` and commented as mutants (`ClearErase_NoStepBack`,
`Scan_Unrecorded`, ...) are defined next to the definition `X` they vary. No
specification uses them; they record which mistake each property detects.

## 3. What is checked

| Run | Module, cfg | Shows | Distinct states |
|---|---|---|---|
| `ban_list` | `MCDdosControl` | `ControlTypeOK`, `OneEntryPerOwner`, `NoUnsetRead`, `RequestsConsistent`, `BelowLimits`, `SweepClean`, `BanHolds`, for every order of calls | 809,075 |
| `packets` | `MCReports`, `Packets.cfg` | `VerdictFresh`, `BanNotProlonged`; `LogOrdered`, `OneLinePerBan`, `QuietBetween`, over two days | 829,284 |
| `console` | `MCListIndex`, `Console.cfg` | hook and console together refine `ControlSpec`; `RemovalSticks`, `IndexStands` | 2,313,081 |
| `settings` | `MCHistory`, `Settings.cfg` | `NoCollateral`, `ListedSuspects`, `SettingsFresh` while variables and lists change | 1,480,448 |
| `overstay` | `MCClockSet`, `Overstay.cfg` | `TypeOK`, `OverstayBound`, `NeverCutShort`, with sweep periods of 1, 3 and -1 seconds, changed at run time, and a clock set back by up to two | 2,196,177 |
| `liveness` | `MCItSavar`, `Liveness.cfg` | `CallsReturn`, `BansEnd`, `RemovalTakesEffect`, among exempt and failed packets, all console commands, changed settings and maps | 270,192 |
| `parts` | `MCParts`, `Parts.cfg` | the parts below, each alone | 731,509 |

`parts` chooses at the start which part acts; the parts share no variable, so the run is
the sum of seven small ones (the numbers say how many states each part has):

| Part | Properties | Distinct states |
|---|---|---|
| ban list as a table (`DdosControlTable`), the options changing | `ImplementsTable` | 95,511 (addresses are alike) |
| log writer, with failing opens and the server's own files | `OneStream`, `LinesWritten` | 24,456 |
| packet files | `ReadAsWritten`, `MatchesAsWritten` | 103,648 |
| loading and unloading, over three loads and two threads | `PartsReady` | 12,664 |
| detours | `OriginalReached`, `TrampolinesAccounted`, `NothingLeft`, `NoTornCode`, `ImplementsRedirection` | 156,338 |
| prologue | `CodeFits`, `TargetsConstant`, `ThreadsAligned` | 8,394 |
| measuring, for every opcode | `LengthsRight`, `TargetsFound` | 330,498 |

Runs check for deadlock, except `parts`, where a file, a piece of code and an
instruction come to an end. The properties:

* `OneEntryPerOwner`: no address owns two entries; at most one entry points at
  the shared buffer, and it is the last, so an address's own entry comes first.
* `NoUnsetRead`, `RequestsConsistent`, `BelowLimits`: see the module; together
  they say what `get_banstatus` may rely on after any sequence of calls.
* `SweepClean`: the entries behind the sweep's index are not expired.
* `BanHolds`: no step drops, undoes or dates back a ban that is neither expired
  nor removed. Conversely `BanNotProlonged`: no ban that is still listed as a
  ban is renewed by traffic.
* `VerdictFresh`: what line 343 uses differs from the ban list only in a call
  that swept.
* `RemovalSticks`: an entry loses the operator's flag only to a new ban for a
  banned packet. `RemovalTakesEffect`: a flagged entry is erased in the end.
* `OverstayBound`: the sweep that kept an entry came less than the sweep period in
  force before the packet, so its age is bounded by its ban time or window plus
  that period, and by the seconds the clock was set back. It also bounds how long packets go uncounted: the window
  opens with an address's first packet, is never extended, and until a sweep
  erases the entry no packet of that address is counted.
* `NoCollateral`, `ListedSuspects`: with `ban_bannedpacketip` off, nobody is
  stopped or listed for the packets of others. With it on, the shared buffer
  makes this false (finding `doc_list`).
* `SettingsFresh`: packets are judged by the server variables as they are, or as
  they were until at most a second ago.
* `ImplementsTable`: what the callers see of the vector is a table. A window is never
  extended, a ban is never merged into another's, an entry goes only when it is over.
* `IndexStands`: a printed index is right until something is erased, and wrong by at
  most the number of erasures after that. So `itsavar remove` with an old index may
  hit a neighbour's entry; the code promises no more.
* `NeverCutShort`: setting the clock back shortens no ban.
* `LogOrdered`: lines in order of time, none in the file of an earlier day.
  `OneLinePerBan` and `QuietBetween`: how often an attacker makes the plugin write.
* `OneStream`, `LinesWritten`: reopening the file for every line is slow but leaks no
  stream. A line is lost exactly when the system refuses to open the file just then, or the
  server holds every slot; any other is added to the day's file, whatever failed before.
* `ReadAsWritten`, `MatchesAsWritten`: whatever hand an operator writes in (padding,
  one or two digits, comments, a last line without end), the list is what was meant,
  and matching is by the file's bytes, exactly or as a prefix.
* `PartsReady`: a packet that is judged finds the ban list, the lists and the log.
* `OriginalReached`, `TrampolinesAccounted`, `NothingLeft`: the state between and
  after transactions, whatever failed or was aborted; the last needs the order of
  the list of operations, because two functions on a page each save what they found.
  What the system refused to put back is excepted, that very page, region or thread.
  `NoTornCode`: an enlisted thread never resumes inside the jump, nor among the copies in
  the first four bytes of a freed trampoline. Of later copies and the jump back it says
  nothing, for there it does not hold, nor of a thread whose context was refused.
* `ImplementsRedirection`: what the functions begin with changes all at once, by a commit
  that nothing had failed before, exactly as was asked, or not at all; nothing is asked
  of a function twice, and only the detour in place is removed.
* `CodeFits`, `TargetsConstant`, `ThreadsAligned`: the moved code, the
  jumps in it, and both directions of the alignment array. A moved instruction leads
  where the original led, and the next copy begins behind it, if and only if its
  offset did not have to be cut. `ThreadsAligned` is about code of which no copy overwrites
  another, which only a loop out of reach does.
* `LengthsRight`, `TargetsFound`: the tables against the manual.

### Bounds

* Two addresses (one in `overstay` and `liveness`, where what is asked concerns
  a single entry and its age): enough for an own entry and the shared one, for
  the order of entries, and for one address's packets to meet another's entry.
* Packets: one per list and one failed receive; in `ban_list` three with
  different keys, so that the memory of `MaxRequests` = 2 requests overflows and
  evicts `EvictBatch` = 1 (25 and 5 in the code).
* `MaxTime` bounds the clock, which starts at 1 and stops there; packets do not.
  In `overstay` and `liveness` it leaves room for a ban and a sweep period, so
  that entries expire, are erased and created anew; in `ban_list`, `console`,
  `settings`, `packets` and `parts`, where sweeps and removals come at will or limits
  and lines of the log matter, for a ban or window of two seconds to run out.
* Limits and durations are 1 to 4 where the code has 3 to 3000; the clamps are
  constants (`BanRange`, ...); a `securetype` of 5 and a total limit of 9 lie
  outside them.
* `SentBound` stops the counters of `History` at the smallest limit.
* `ListIndex`: `EraseBound` = 3 erasures are told apart, more than two addresses and
  the shared entry can cause at once. `ClockSet`: one address, `MaxTurned` = 2
  seconds, as long as a ban; set back between calls, not inside one.
* `Reports`: `DayLength` = 2 and `MaxTime` = 3, so that midnight falls everywhere in a
  call; `QuietTime` = 1; senders of banned packets are banned or not. All switches are
  on: a switch that is off only drops lines, and the order of the rest stays.
* `LogWriter`: two slots, so that the server's files take the one the log has just
  left; three days and four lines.
* `PacketMatch`: up to three lines, comments, blank lines, patterns and
  addresses in several hands, `MaxChr` = 2 (100 in
  the code) so that patterns are cut, `BufLen` = 16 (254) which all these lines fit;
  packets of up to three bytes, and the length of a failed receive.
* `Lifecycle`: three loads, so that a thread may be two images deep when a third comes.
* `Detours`: two functions on one page, two detours, two threads, two regions of two
  usable trampolines each, so that a region fills up and is released. `MaxRefused` = 1 of
  the calls at the end is refused: one page, one region, or one thread.
* Symmetry (`SameNames`): addresses, regions, functions and detours are interchangeable.
* `Prologue`: lengths from 1 to 15, all forms of relative instructions, offsets at both
  ends of a byte; what decides is where lengths add up to 5 to 19. The trampoline lies
  32700 bytes away: a one-byte offset never reaches back, one of 16 bits does or does not.
* `Disasm`: all 256 opcodes of three tables; ModR/M bytes with every mode, in the low
  field the two values that change what follows, and a third, in the middle field the 0
  of TEST, and 1 for the others (XBEGIN's 7 is left out); the SIB byte with and without
  a displacement; `MaxPrefixes` = 2 of four prefixes, a segment override standing for
  those that override nothing else. A prefix sets a flag, so more of them only repeat.

### Fairness

`FairSpec` assumes weak fairness of the steps of a call and of the list command
(the thread runs on), of the clock (time passes), and strong fairness of
`Guarded`: a packet whose sender and contents are not exempt comes again and
again. Strong, because other packets and commands may always come first. Without
it nothing sweeps, and bans end only in the sense that nothing asks about them:
that is how the code is, line 328 is reached by packets only. The last second of
the bounded clock has no room for a ban to expire, which is why `BansEnd` and
`RemovalTakesEffect` ask only about what began early enough.

### Where the code and its documentation differ

Five runs of `MCDocumented` (`Doc*.cfg`) each violate one statement of the README
or of a message: `itsavar clear` removes one entry (`ClearedAll`); removing an
unknown address removes the first entry (`RemovedOnlyListed`); a removed address
is still stopped until the next sweep (`RemovedUnblocked`); banned packets of a
blocked address are delivered unless they are on the checked list too
(`BlockedStaysOut`); and `itsavar list` prints the address spelled last for an
entry made by `AddIPBan` (`ListedSuspects`).

The other models show differences that no run is kept for, because the plugin meets
none of them but the first. They are in `hazards` with their lines.

* The plugin says it can be unloaded at any time (`PT_ANYTIME`, `meta_api.cpp:23-24`), but
  nothing removes the detour (`main.cpp:73-82`): in `Lifecycle`, `entry` still leads to the
  image that is gone.
* When a detour is removed, a suspended thread is moved out of the trampoline only from its
  first four bytes, the size of a pointer instead of the trampoline's (`detours.cpp:1656`).
  One at any copied instruction behind them, or at the jump back, resumes in memory that
  is freed. With `55 / 8B EC / 53 / 56` in front of a function that is the copy at offset 4
  (`MovedBy`, the parts `late` and `back`).
* A thread whose context cannot be read or written stays inside the jump, and one that
  cannot be resumed stays suspended, without notice (`detours.cpp:1651, 1666, 1721`).
* `DetourTransactionCommit` reads the error it returns after it gave the transaction up
  (`detours.cpp:1734`, `CommitReturn`), so that it may be another transaction's.
* Three bits hold an offset that may be eight (`detours.cpp:43`): a thread at the first
  byte of a function whose moved instructions end there is sent behind them. That is the
  condition `StartKnown` of `ThreadsAligned`.
* A loop instruction cannot be enlarged; out of its reach it loses its target, and part of
  its copy, for the next one begins inside it (`disasm.cpp:446`).
* A jump behind an operand-size prefix has 16 bits for its offset and loses its target
  beyond them; behind its copy come two bytes that nobody writes (`disasm.cpp:553-557`).
* An address size prefix does not change how the ModR/M byte is read (`disasm.cpp:399`),
  and `XBEGIN` has a target that is not found (`disasm.cpp:1156`): with
  `\h67` (103) in `PrefixBytes`, or with `Rtm = TRUE`, TLC violates `LengthsRight` and
  `TargetsFound`. The run, and the theorems of section 4, show that the rest is right.

## 4. What is proved

For every value of the constants that satisfies `ControlAssumptions`
(`KeyOf` total, positive durations, limits above 1, an eviction batch that fits),
`CvarAssumptions`, `RecvAssumptions` and `CommandAssumptions`, and those of the other
modules (`LogAssumptions`, `LifecycleAssumptions`, `PrologueAssumptions`,
`DetoursAssumptions`, ...).

`DdosControlProofs`, from `ControlSpec`:

* `ControlInv`, the inductive invariant: types; every entry is a *good entry*
  (its reads are safe, its memory consistent, its counts below the limits, a ban
  dated no later than now); one entry per owner; the swept part clean; and no
  time lies in the future. The properties of single entries are proved once for
  each way to make one (`NewEntryGood`, `SharedBanGood`, ...), the step lemmas then
  only say that a step replaces, appends or erases one good entry.
  `OneEntryPerOwner` needs the whole list: a search that fails shows that there
  is no shared entry (its text would have matched) and no entry of the address.
* `ControlInvariant`, and from it `TypeCorrect`, `EntriesUnique`, `ReadsSet`,
  `MemoryConsistent`, `UnbannedBelowLimits`, `SweepMissesNothing`, and the action
  property `BansHold`.

`ItSavarProofs`, from `Spec`:

* `PluginInv` ties `pc` to the sweep (one runs exactly in the phases that run it),
  to the buffer of `inet_ntoa` (it spells the sender from the filter to the
  verdict) and to what became of the answer of `is_ipbanned`.
* `PluginRefinesControl`: every step of the plugin is a step of `ControlSpec` or
  leaves the ban list alone; so all theorems above hold of the plugin
  (`PluginBansHold` states one).
* `PluginTypeCorrect`, `VerdictsFresh`, `BansNotProlonged`, `RemovalsStick`. The last two
  need both invariants: in `Match` the address is not banned and its first entry is
  the only one of its owner, so the entry renewed is not a ban.

`DdosControlTableProofs`, from `ControlSpec`:

* `ControlImplementsTable`: `ControlSpec => Table!TableSpec`. With one entry per owner,
  the entry `PositionOf` chooses is unique, so that replacing, appending and erasing
  an entry of the vector is updating one owner of the table; one lemma for each of the
  three, then one step per operation. `ControlInv` supplies uniqueness, that a search
  that fails leaves neither an own entry nor the shared one, and that an unbanned
  entry within its window is below its limits.

`HistoryProofs`, from `HistorySpec` and `IndexSpec`:

* `SettingsStayFresh`. `SettingsInv` says that the copy is that of the server variables,
  or was made no later than they were last changed; a throttled call comes at most a
  second after the copy (`main.cpp:214`).
* `ListShowsSuspects`, `NoneSuffersForOthers`, where `SendersSpared`: no setting turns
  `ban_bannedpacketip` on, the switch that makes entries share the buffer. `SuspectInv`
  says that no entry does, and that every owner and the sender of the running call sent
  what the plugin acts on. `SentInv` relates an entry's `total_ddoscount` to the packets
  its address sent: it counts at most those, the packet of a call that has not been
  counted yet excepted. `SentEnough` is about the model: the counters of `History` stop
  at a bound, which must be a limit of some setting, so that one that stopped has
  reached it.
* `IndexesStand`. `IndexInv` adds that the list has not become shorter than the printed one
  by more than the erasures: it grows at its end, and an erasure moves an entry down
  by one.

`ClockSetProofs`, from `ClockSpec`, where times may lie in the future and `ControlInv`
does not hold: `NoOverstay` and `BansNotCutShort`. `ClockInv` dates every entry twice, by
the clock and in seconds that really went by; the two differ by at most what the
clock was set back. Entries behind the sweep's index, and all of them outside of a
sweep, were within their time when the last sweep looked.

`ReportsProofs`, from `ReportSpec`: `LogInOrder`, `AnnouncedApart`, and `BannedOnce` where
`NothingRemoved`: the operator's commands remove no entry, after which the same address
is of course reported again. `LogInv` has a part about each line (what it
implies for the list, the throttle and the running call) and one about each
two lines; a new line is last, so a step needs only the first part to extend
the second. A ban that a line tells of is listed until it is over, because
`BansHold`.

`LoadingProofs`, from `LifecycleSpec` and `LogFilesSpec`: `JudgesFindParts`, `OneStreamAtMost`
and `LinesReachFiles`. `LifecycleInv` has the chain of hooks (`recvfrom` and every trampoline
lead to an image that was hooked, or to the real code), the progress of `OnMetaAttach`,
and where threads are; `LogFilesInv` says which streams are the log's, and that the
name that is kept is never the text of a day.

`LoadingProofs`, from `MatchSpec`: `FilesRead` and `MatchesWritten`, for files of any number
of items, patterns of any number of bytes, any padding, any buffer that takes the
longest line (`FilesAssumption`) and any size of `PacketList::chr`. `MatchInv` says that what
is left to read are the lines of the items not yet read, the last perhaps without its
end, and that the list is what the items read so far mean. A step of it is the lemma of
one line, `LineRead`: `TrimSpace` finds the text between the padding (`Trimmed`), `Tokens`
finds the spelled bytes again (`SpellingRead`, by induction over the pattern), and `ByteOf`
gives back each byte (`ByteSpelled`). `MatchesWritten` follows: an element of the list is the
meaning of an item and the other way round (`AllHeld`), and comparing byte by byte is
comparing with a prefix (`PatternCompared`).

Those inductions are over data, and the library's rules for them take an operator
as a parameter, which the provers cannot instantiate. Here they rest on sets and
functions instead: of a set of numbers that is not empty one is the least (`LeastOne`, from
`WFMin` and `NatLessThanWellFounded`); so a set that has 0 and with each number the next
has all of them (`UpTo`), and a recursive function with one value for each step exists
and obeys its equation (`Recursion`). Each induction names the set of the lengths for
which its claim holds.

`DetoursProofs`, from `DisasmSpec`: `MeasuredRight` and `TargetsAreFound`, for any prefixes and any
number of them, every opcode and ModR/M byte, and a SIB byte with a base and one without.
`Measurable` leaves out the address
size prefix and XBEGIN, for which the tables are wrong, see above. One lemma for each
function of the tables (`ArithmeticAgrees`, ...) compares it with the manual opcode by
opcode; `DisasmInv` keeps that no override of addresses is set. `ShortJumpsMeasured` is
what the next part takes for granted of jumps.

`DetoursProofs`, from `PrologueSpec`: `MovedCodeFits`, `TargetsStayConstant`,
`ThreadsStayAligned`, for every set of instructions and every offset that satisfies

* `ShortJumps`: a jump with an offset of one byte is two bytes long, and has nine
  prefixes at most; two make sense, and with ten, behind two jumps that grow, the
  copy would be a byte longer than `CodeFits` allows;
* `SizeOfCode >= 30` for the first: the 30 bytes of `rbCode` (`detours.cpp:111-124`).

`SizeInv` bounds how far the copy has grown by how far the original was read; `LeadsInv` is
`TargetsConstant` at any stage; `CopiesInv` says that copies lie one behind the other, with
their ends in `rAlign`, as long as none overwrites another. There are five
at most, one for each byte of the jump, so that the searches of `detour_align_from_*`
are followed copy by copy (`Aligns`).

`DetoursProofs`, from `DetoursSpec`, for any number of functions, pages, threads, regions
and trampolines: `OriginalsReached`, `NoTrampolineLost`, `NothingStays` and
`CodeStaysWhole`. None of the four is inductive. `DetoursInv` adds to them

* `OpsInv`: no two operations are on one function; one that removes has the pointer's
  trampoline, one that attaches has filled one that no pointer leads to. Hence no two
  operations have one trampoline, and what is freed is used by nobody else;
* `PagesInv`: a page without operation has its own protection, and of the operations on a
  page the earliest, the last of the list, saved it, unless the system once refused to put
  it back. So the last assignment of `Restored` is the right one;
* `PlacesInv`: a thread whose context was never refused is in a function's own code, or in
  the first four bytes of a trampoline that a pointer leads to, or behind them in any;
* `UsedInv`: the two trampolines that `Fresh` leaves out stay unused, without which a
  region's list would not be all that is free.

The list a region gets back is again free of duplicates because `Backwards` lists
distinct operations (`BackwardsList`), which have distinct trampolines.

`DetoursImplementRedirection`: `DetoursSpec => Redirected!RedirectionSpec`, one lemma for each
kind of step. Noting an operation changes `Intended` of its function only
(`IntendedNoted`), because there is no other operation on it and its trampoline is
nobody else's; a commit that patches makes of every function what was intended
(`PatchedIntended`), because what a trampoline in use has saved is a function's own code;
and that a `Detach` that finds its detour removes what the function leads to is
`OriginalReached`.

Only model-checked are the liveness properties `CallsReturn`, `BansEnd` and
`RemovalTakesEffect`: fairness and `ENABLED` are out of the prover's reach. `ControlSpec`
and `ImplementsTable` are stated without fairness, and proved. Every other property of the
passing runs is a theorem.

The hypotheses that a theorem adds are about the constants and are stated in the
theorem, not as assumptions of a module. Each holds in the run that checks the
theorem's property.

## 5. Not modelled, and the plan

Left out, with the reason:

* Language tables and text formatting: constant data, no decision depends on it.
* The ini reader: read once at attach, for a language and a date format.
* The memory search: nothing calls it.
* The rest of Detours (starting processes, editing binaries, enumerating modules, the
  disassemblers for other processors, import tables): nothing calls it either.
  `detour_skip_jmp` is left out of `Detours`: it only chooses the address that
  is then the function.
* Detours' samples, the Half-Life SDK and metamod headers. They are the bulk of the
  repository (the tables of one sample alone are 37,000 of its 97,000 lines), neither
  built with nor called by the plugin. The share of all lines that the models cover
  stays small for that reason; of the plugin's own code they cover most.
* `inet_ntoa`, `std::time`, the server variables, the C runtime's files and the
  instruction set are external and modelled from their use; other users of the buffer
  of `inet_ntoa` would only add values it may spell.
* A thread that executes the first bytes of `recvfrom` while the plugin patches them,
  and a packet between `isloaded` and the registration of the server variables: the
  reasons are notes in `hazards`.
* Dead code: `RemoveByAddr`, the destructive forms of `RemoveAt` and `Clear`.

Worth doing next: the parts of the liveness properties that are safety, such as that
a call's phases only go forward and the sweep's distance to the end shrinks, from which
a proof of termination would start; that the lists `RecvHook` takes as sets are those that
`PacketMatch` reads; and negative and overlong numbers in the packet files.
