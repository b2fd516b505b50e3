------------------------------- MODULE MCParts -------------------------------
(***************************************************************************)
(* The parts that have a small world of their own, side by side: which one *)
(* acts is chosen at the start, and the others stay as they begin.  They   *)
(* share no variable, so each behaves as if it were alone.                 *)
(***************************************************************************)
EXTENDS DdosControlTable, LogFiles, Lifecycle, MCDetours, MCPrologue, MCPacketMatch, Disasm

CONSTANTS
    p1, k1

VARIABLE part

MCKeyOf == [p \in Packet |-> IF p = p1 THEN k1 ELSE NoKey]

\* <<ban time, window, single limit, total limit>>: the operator lengthens and
\* shortens the durations.
Opt(ban, window, single, total) ==
    [e_ban_suresi |-> ban, e_paket_cache_suresi |-> window,
     e_teksefer_limit |-> single, e_toplam_limit |-> total,
     check_total_flood |-> TRUE, check_single_flood |-> TRUE]

TwoOptions == {Opt(2, 2, 2, 3), Opt(1, 3, 3, 3)}

\* A segment override stands for the prefixes that override nothing else.
Usual == {\h2E, \h66, \hF2, \hF3}

\* The low field matters as 4, a SIB byte follows, and in mode 0 as 5, no base;
\* 0 stands for the others.  The middle field matters for TEST, which has 0
\* there, and for XBEGIN, which is left out; 1 stands for the others, and 0 is
\* seen in mode 0, and with a SIB byte in mode 1.
FewModRms == {64 * mod + 8 + rm : mod \in 0..3, rm \in {0, 4}} \union {8 + 5}
             \union {0, 4, 64 + 4}

\* Addresses, regions, functions and detours are any.
SameNames == {a @@ r @@ f @@ g : a \in Permutations(Addr), r \in Permutations(Region),
                                 f \in Permutations(Func), g \in Permutations(Detour)}
-----------------------------------------------------------------------------
Part == {"ban list", "log", "packet files", "loading", "detours", "prologue", "measure"}

PartsInit ==
    /\ part \in Part
    /\ ControlInit /\ (part # "ban list" => opts = CHOOSE o \in Options : TRUE)
    /\ MatchInit /\ (part # "packet files" => file = <<>>)
    /\ LogFilesInit /\ LifecycleInit /\ DisasmInit
    /\ DetoursInit /\ PrologueInit

PartsNext ==
    \/ /\ part = "ban list" /\ ControlNext
       /\ UNCHANGED <<part, log_files_vars, match_vars, lifecycle_vars, detours_vars,
                      prologue_vars, disasm_vars>>
    \/ /\ part = "log" /\ LogFilesNext
       /\ UNCHANGED <<part, control_vars, match_vars, lifecycle_vars, detours_vars,
                      prologue_vars, disasm_vars>>
    \/ /\ part = "packet files" /\ MatchNext
       /\ UNCHANGED <<part, control_vars, log_files_vars, lifecycle_vars, detours_vars,
                      prologue_vars, disasm_vars>>
    \/ /\ part = "loading" /\ LifecycleNext
       /\ UNCHANGED <<part, control_vars, log_files_vars, match_vars, detours_vars,
                      prologue_vars, disasm_vars>>
    \/ /\ part = "detours" /\ DetoursNext
       /\ UNCHANGED <<part, control_vars, log_files_vars, match_vars, lifecycle_vars,
                      prologue_vars, disasm_vars>>
    \/ /\ part = "prologue" /\ PrologueNext
       /\ UNCHANGED <<part, control_vars, log_files_vars, match_vars, lifecycle_vars,
                      detours_vars, disasm_vars>>
    \/ /\ part = "measure" /\ DisasmNext
       /\ UNCHANGED <<part, control_vars, log_files_vars, match_vars, lifecycle_vars,
                      detours_vars, prologue_vars>>

parts_vars == <<part, control_vars, log_files_vars, match_vars, lifecycle_vars, detours_vars,
                prologue_vars, disasm_vars>>

PartsSpec == PartsInit /\ [][PartsNext]_parts_vars
=============================================================================
