------------------------------ MODULE LogFiles ------------------------------
(***************************************************************************)
(* The log writer by itself, while days pass, the server opens and closes  *)
(* files of its own, and the system refuses to open any now and then: any  *)
(* lines, written, attached and detached at any time.                      *)
(***************************************************************************)
EXTENDS LogWriter, FiniteSets

CONSTANTS
    LogLine,    \* what may be written
    MaxLines    \* bound: the lines of all files

VARIABLES
    today,
    refused     \* whether the system refuses to open a file at present

log_files_vars == <<log_vars, today, refused>>

Logged == Cardinality(UNION {{d} \X DOMAIN files[d] : d \in 0..MaxDay})

Midnight == today < MaxDay /\ today' = today + 1 /\ UNCHANGED <<log_vars, refused>>

Refuse == refused' \in {FALSE, Failures} /\ UNCHANGED <<log_vars, today>>

WriteLine(line) ==
    Logged < MaxLines /\ writelog(today, line, refused) /\ UNCHANGED <<today, refused>>

AttachLog == NewLogwriter /\ UNCHANGED <<today, refused>>

DetachLog == closelogfile /\ UNCHANGED <<today, refused>>

ServerFile(s) == (ForeignOpen(s) \/ ForeignClose(s)) /\ UNCHANGED <<today, refused>>

LogFilesInit == LogInit /\ today = 0 /\ refused = FALSE

LogFilesNext ==
    \/ Midnight \/ Refuse \/ AttachLog \/ DetachLog
    \/ \E line \in LogLine : WriteLine(line)
    \/ \E s \in Stream : ServerFile(s)

LogFilesSpec == LogFilesInit /\ [][LogFilesNext]_log_files_vars
-----------------------------------------------------------------------------
\* A line is lost only if the system refuses to open the file just then, or
\* the server holds every slot: whatever was refused before, on whichever day
\* and after however many detaches, the writer has lost none of the slots and
\* opens today's file, adds the line behind those that are there, and touches
\* no other file.  A line that is lost is the only one, and nothing but a line
\* changes a file (logwriter.cpp:28-35, 59-80).
Openable == ~refused /\ \E s \in Stream : streams[s] # Foreign

LinesWrittenStep ==
    /\ \A line \in LogLine : WriteLine(line) =>
          files' = [files EXCEPT ![today] = IF Openable THEN Append(@, line) ELSE @]
    /\ (\A line \in LogLine : ~WriteLine(line)) => UNCHANGED files

LinesWritten == [][LinesWrittenStep]_log_files_vars
=============================================================================
