------------------------------ MODULE Lifecycle ------------------------------
(***************************************************************************)
(* The plugin as metamod loads, attaches and unloads it (meta_api.cpp:80-  *)
(* 113; OnMetaDetach, OnMetaAttach, hookRecvFrom and EngineFuncLoaded,     *)
(* main.cpp:73-154, 186-208), while threads of the process call recvfrom.  *)
(*                                                                         *)
(* Each load maps a new image of the plugin with variables of its own.     *)
(* Its trampoline holds what recvfrom began with when it was attached, and *)
(* stays when the image goes; see Detours for how it is made.              *)
(***************************************************************************)
EXTENDS Integers, SequencesExt

CONSTANTS
    Caller,
    Image,       \* the images of successive loads
    NoImage,
    RealCode     \* recvfrom's own code

ASSUME LifecycleAssumptions ==
    NoImage \notin Image /\ RealCode \notin Image /\ RealCode # NoImage

VARIABLES
    loaded,      \* the image that is mapped
    attaching,   \* how far OnMetaAttach has come in it
    entry,       \* what recvfrom begins with: its own code, or a jump to an image
    original,    \* what RecvFromOriginal of each image leads to
    isloaded,    \* the variable of the mapped image
    parts,       \* the parts that exist in the mapped image
    stack,       \* the images whose OnRecvFrom each thread is in
    phase        \* what it does there: "out", "down", "up", "judging"

image_vars == <<loaded, attaching, isloaded, parts>>
hook_vars == <<entry, original>>
thread_vars == <<stack, phase>>
lifecycle_vars == <<image_vars, hook_vars, thread_vars>>

Mapped(i) == i = loaded
-----------------------------------------------------------------------------
(* The server's thread.                                                    *)

Query(i) ==
    /\ loaded = NoImage /\ original[i] = NoImage
    /\ loaded' = i /\ attaching' = "queried" /\ isloaded' = FALSE /\ parts' = {}
    /\ UNCHANGED <<hook_vars, thread_vars>>

\* hookRecvFrom.  When it fails it leaves its transaction open, with its
\* error, so that it fails again whenever metamod tries the plugin again.
Hook ==
    /\ attaching \in {"queried", "failed"}
    /\ \/ /\ attaching = "queried"
          /\ original' = [original EXCEPT ![loaded] = entry]
          /\ entry' = loaded
          /\ attaching' = "control"
       \/ attaching' = "failed" /\ UNCHANGED hook_vars
    /\ UNCHANGED <<loaded, isloaded, parts, thread_vars>>

\* Mutant: isloaded is set before the last part exists.
Build_Early ==
    /\ attaching \in {"control", "lists", "log"}
    /\ parts' = parts \union {attaching}
    /\ attaching' = CASE attaching = "control" -> "lists" [] attaching = "lists" -> "log"
                  [] attaching = "log" -> "attached"
    /\ isloaded' = (attaching # "control")
    /\ UNCHANGED <<loaded, hook_vars, thread_vars>>

\* The rest of OnMetaAttach: the ban list, the packet lists, the log writer;
\* isloaded comes last.
Build ==
    /\ attaching \in {"control", "lists", "log"}
    /\ parts' = parts \union {attaching}
    /\ attaching' = CASE attaching = "control" -> "lists" [] attaching = "lists" -> "log"
                  [] attaching = "log" -> "attached"
    /\ isloaded' = (attaching = "log")
    /\ UNCHANGED <<loaded, hook_vars, thread_vars>>

\* GetEngineFunctions_Post, EngineFuncLoaded: the server variables.
EngineFuncLoaded ==
    /\ attaching = "attached"
    /\ attaching' = "running"
    /\ parts' = parts \union {"cvars"}
    /\ UNCHANGED <<loaded, isloaded, hook_vars, thread_vars>>

\* Meta_Detach closes the log; then metamod unmaps the image.  A plugin that
\* failed is unmapped without.
Unload ==
    /\ attaching \in {"running", "failed"}
    /\ loaded' = NoImage /\ attaching' = "none" /\ isloaded' = FALSE /\ parts' = {}
    /\ UNCHANGED <<hook_vars, thread_vars>>
-----------------------------------------------------------------------------
(* A thread that calls recvfrom: down to the real one, and up again        *)
(* through every OnRecvFrom on the way, each of which judges the packet if *)
(* isloaded.                                                               *)

Call(t) ==
    /\ phase[t] = "out" /\ entry # RealCode
    /\ stack' = [stack EXCEPT ![t] = <<entry>>]
    /\ phase' = [phase EXCEPT ![t] = "down"]
    /\ UNCHANGED <<image_vars, hook_vars>>

CallOriginal(t) ==
    /\ phase[t] = "down"
    /\ LET next == original[Last(stack[t])] IN
       \/ next = RealCode /\ phase' = [phase EXCEPT ![t] = "up"] /\ UNCHANGED stack
       \/ next # RealCode /\ stack' = [stack EXCEPT ![t] = Append(@, next)] /\ UNCHANGED phase
    /\ UNCHANGED <<image_vars, hook_vars>>

JudgePacket(t) ==
    /\ phase[t] = "up" /\ Mapped(Last(stack[t])) /\ isloaded
    /\ phase' = [phase EXCEPT ![t] = "judging"]
    /\ UNCHANGED <<image_vars, hook_vars, stack>>

Leave(t) ==
    /\ \/ phase[t] = "judging"
       \/ phase[t] = "up" /\ ~(Mapped(Last(stack[t])) /\ isloaded)
    /\ stack' = [stack EXCEPT ![t] = Front(@)]
    /\ phase' = [phase EXCEPT ![t] = IF Len(stack[t]) = 1 THEN "out" ELSE "up"]
    /\ UNCHANGED <<image_vars, hook_vars>>

LifecycleInit ==
    /\ loaded = NoImage /\ attaching = "none" /\ isloaded = FALSE /\ parts = {}
    /\ entry = RealCode /\ original = [i \in Image |-> NoImage]
    /\ stack = [t \in Caller |-> <<>>] /\ phase = [t \in Caller |-> "out"]

LifecycleNext ==
    \/ \E i \in Image : Query(i)
    \/ Hook \/ Build \/ EngineFuncLoaded \/ Unload
    \/ \E t \in Caller : Call(t) \/ CallOriginal(t) \/ JudgePacket(t) \/ Leave(t)

LifecycleSpec == LifecycleInit /\ [][LifecycleNext]_lifecycle_vars
-----------------------------------------------------------------------------
(* Correctness.                                                            *)

\* Although recvfrom is detoured before anything else exists, a packet that
\* is judged while the plugin loads finds the ban list, the packet lists and
\* the log writer, and one that came in under an earlier load does too, if it
\* is judged by the image that is mapped (main.cpp:90, 117-130, 272).  The
\* server variables come later: see the README.
PartsReady ==
    \A t \in Caller :
        phase[t] = "judging" /\ Mapped(Last(stack[t]))
            => {"control", "lists", "log"} \subseteq parts
=============================================================================
