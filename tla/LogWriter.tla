------------------------------ MODULE LogWriter ------------------------------
(***************************************************************************)
(* The log file: class logwriter (msvc/logwriter.cpp), from the attach     *)
(* that makes the object to the detach that closes its file.               *)
(*                                                                         *)
(* A FILE* is a slot of the C runtime: closing it frees the slot, and the  *)
(* next fopen, the plugin's or the server's, may return the same pointer.  *)
(* So a pointer that is used after it was closed is not just dead, it may  *)
(* be somebody else's file.                                                *)
(***************************************************************************)
EXTENDS Integers, Sequences

CONSTANTS
    Stream,      \* the slots of the C runtime
    Null,        \* the null pointer
    Failures,    \* whether the system may refuse to open a file
    MaxDay       \* bound: the last day

ASSUME LogAssumptions == Null \notin Stream /\ Failures \in BOOLEAN /\ MaxDay \in Nat

VARIABLES
    log_writer,  \* "null", "open" after the constructor, "closed" by the detach
    logfile,     \* its FILE*
    lognamestr,  \* the name of its file
    streams,     \* what each slot is open on
    files        \* the lines of the file of each day

log_vars == <<log_writer, logfile, lognamestr, streams, files>>

\* The text of a day, and the name of its file; they are never the same text.
DayStr(d) == <<"day", d>>
FileName(d) == <<"itsavar.log", d>>
NoName == <<"", 0>>

NoFile == <<"no file", 0>>
Foreign == <<"foreign", 0>>      \* a file of the server

FreeSlots(open) == {s \in Stream : open[s] = NoFile}
-----------------------------------------------------------------------------
\* Mutant: the open file is kept when the day changes.
Stale_Never(d) == FALSE

\* A file that is open on another name than the day's text is closed first.
Stale(d) == logfile # Null /\ lognamestr # DayStr(d)

\* Mutant: the file that is left is not closed.
Closed_Leaks(d) == streams

Closed(d) == IF Stale(d) THEN [streams EXCEPT ![logfile] = NoFile] ELSE streams

\* writelog(line) on day d.  fopen fails if the system refuses to open a file,
\* or if there is no slot; then the line is lost.
writelog(d, line, refused) ==
    /\ log_writer = "open"
    /\ \/ /\ logfile # Null /\ ~Stale(d)
          /\ files' = [files EXCEPT ![streams[logfile][2]] = Append(@, line)]
          /\ UNCHANGED <<logfile, lognamestr, streams>>
       \/ /\ logfile = Null \/ Stale(d)
          /\ lognamestr' = FileName(d)
          /\ \/ /\ ~refused
                /\ \E s \in FreeSlots(Closed(d)) :
                      /\ logfile' = s
                      /\ streams' = [Closed(d) EXCEPT ![s] = FileName(d)]
                      /\ files' = [files EXCEPT ![d] = Append(@, line)]
             \/ /\ refused \/ FreeSlots(Closed(d)) = {}
                /\ logfile' = Null
                /\ streams' = Closed(d)
                /\ UNCHANGED files
    /\ UNCHANGED log_writer

\* new logwriter(), by OnMetaAttach
NewLogwriter ==
    /\ log_writer # "open"
    /\ log_writer' = "open"
    /\ logfile' = Null
    /\ lognamestr' = NoName
    /\ UNCHANGED <<streams, files>>

\* closelogfile(), by OnMetaDetach; the pointer stays.
closelogfile ==
    /\ log_writer = "open"
    /\ log_writer' = "closed"
    /\ streams' = [s \in Stream |-> IF s = logfile THEN NoFile ELSE streams[s]]
    /\ UNCHANGED <<logfile, lognamestr, files>>

\* The server opens and closes files of its own.
ForeignOpen(s) ==
    /\ streams[s] = NoFile
    /\ streams' = [streams EXCEPT ![s] = Foreign]
    /\ UNCHANGED <<log_writer, logfile, lognamestr, files>>

ForeignClose(s) ==
    /\ streams[s] = Foreign
    /\ streams' = [streams EXCEPT ![s] = NoFile]
    /\ UNCHANGED <<log_writer, logfile, lognamestr, files>>

LogInit ==
    /\ log_writer = "null"
    /\ logfile = Null
    /\ lognamestr = NoName
    /\ streams = [s \in Stream |-> NoFile]
    /\ files = [d \in 0..MaxDay |-> <<>>]
-----------------------------------------------------------------------------
\* The plugin holds at most one stream, its pointer and its name say which,
\* and none is left open after a detach: although checklogisopen compares the
\* name of the file with the text of the day, so that it closes and opens the
\* file for every line (logwriter.cpp:64), and an fopen may fail, no stream
\* is lost, and none of the server's is taken for the log.
OneStream ==
    \A s \in Stream :
        IF log_writer = "open" /\ logfile = s
        THEN streams[s] = lognamestr
        ELSE streams[s] \in {NoFile, Foreign}
=============================================================================
