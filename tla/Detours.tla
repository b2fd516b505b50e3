------------------------------- MODULE Detours -------------------------------
(***************************************************************************)
(* The transactions by which functions are detoured, x86 build of          *)
(* sdk/detours/src/detours.cpp (1010-1308, 1310-2266).  DetourAttach and   *)
(* DetourDetach only note what is to be done, DetourTransactionCommit      *)
(* patches the code, and anything that fails makes it an abort.            *)
(*                                                                         *)
(* A trampoline holds the instructions that the jump to the detour         *)
(* overwrites, and a jump back behind them; *ppPointer leads to it while   *)
(* the function is detoured.  Trampolines are slots of 64 KB regions.      *)
(*                                                                         *)
(* Callers use one pointer per function, detour it once at a time, and     *)
(* enlist every other thread before they commit.  The system may refuse    *)
(* every call; those at the end of a transaction, whose failure the code   *)
(* ignores, at most MaxRefused times that are still felt.                  *)
(***************************************************************************)
EXTENDS Integers, SequencesExt

CONSTANTS
    Thread,
    Nobody,      \* the id of no thread
    Func,        \* functions that may be detoured
    PageOf,      \* the page each of them lies on
    Detour,      \* functions they may be detoured to
    Own,         \* a function's own code
    EntryPoint,  \* a pointer that leads to the function itself
    Region,      \* regions VirtualAlloc may return
    PerRegion,   \* DETOUR_TRAMPOLINES_PER_REGION
    MaxRefused

Slot == Region \X (0..(PerRegion - 1))

ASSUME DetoursAssumptions ==
    /\ Nobody \notin Thread /\ Own \notin Detour /\ PerRegion \in Nat \ {0, 1, 2}
    /\ EntryPoint \notin Slot /\ MaxRefused \in Nat
    /\ \A f \in Func : PageOf[f] \notin Region

VARIABLES
    owner,       \* s_nPendingThreadId
    error,       \* whether s_nPendingError is set
    ops,         \* s_pPendingOperations, the latest first
    enlisted,    \* s_pPendingThreads, suspended until the transaction ends
    regions,     \* s_pRegions
    free,        \* the free list of each region
    writable,    \* the regions whose pages may be written
    slots,       \* what the trampolines hold
    code,        \* what each function begins with
    pointer,     \* *ppPointer of each function
    prot,        \* the protection of each page
    place,       \* where each thread executes
    answer,      \* a commit that has still to return its result
    unprotected, \* pages and regions whose protection was not put back
    stopped,     \* threads that were not resumed
    unmoved      \* threads whose instruction pointer was not read or written

region_vars == <<regions, free, slots>>
target_vars == <<code, pointer, place>>
refused_vars == <<unprotected, stopped, unmoved>>
detours_vars == <<owner, error, ops, enlisted, region_vars, writable, target_vars, prot, answer,
                  refused_vars>>

Unused == [func |-> EntryPoint, detour |-> Own, saved |-> Own]
Page == {PageOf[f] : f \in Func}
Away == <<"away", EntryPoint, "start">>

\* The list a new region starts with.  The loop that fills it leaves out the
\* first two trampolines.
Fresh == [i \in 1..(PerRegion - 2) |-> i + 1]
FreeList(r) == IF r \in regions THEN free[r] ELSE Fresh
-----------------------------------------------------------------------------
(* Thread t calls.  A call by a thread that does not own the transaction   *)
(* returns an error and changes nothing.                                   *)

Calls(t) == owner = t /\ answer[t] = "none" /\ place[t] = Away

\* DetourTransactionBegin: making the regions writable may fail.
Begin(t) ==
    /\ owner = Nobody /\ answer[t] = "none" /\ place[t] = Away /\ t \notin stopped
    /\ owner' = t
    /\ ops' = <<>> /\ enlisted' = {}
    /\ \/ error' = FALSE /\ writable' = regions
       \/ /\ error' = TRUE
          /\ \E r \in regions : \E done \in SUBSET (regions \ {r}) :
                writable' = writable \union done
    /\ UNCHANGED <<region_vars, target_vars, prot, answer, refused_vars>>

\* DetourUpdateThread: no memory, or SuspendThread fails.
UpdateThread(t, u) ==
    /\ Calls(t) /\ ~error /\ u \notin enlisted \union {t}
    /\ \/ enlisted' = enlisted \union {u} /\ UNCHANGED error
       \/ error' = TRUE /\ UNCHANGED enlisted
    /\ UNCHANGED <<owner, ops, region_vars, writable, target_vars, prot, answer, refused_vars>>

Noted(f) == \E i \in DOMAIN ops : ops[i].func = f

\* Mutant: the operations are done in the order they were noted.
Note_Last(op) == ops' = Append(ops, op)

Note(op) == ops' = <<op>> \o ops

\* detour_alloc_trampoline: a slot of region r.  Which regions are near
\* enough is left open, so a new one may be taken whenever there is one.
Alloc(r) ==
    /\ FreeList(r) # <<>>
    /\ regions' = regions \union {r}
    /\ writable' = writable \union ({r} \ regions)

\* DetourAttachEx: a trampoline is filled and the target's page is made
\* writable.  It fails without memory, for code too short to be moved, and if
\* the page cannot be made writable; then the slot goes back.
Attach(t, f, d) ==
    /\ Calls(t) /\ ~error /\ pointer[f] = EntryPoint /\ ~Noted(f)
    /\ \/ /\ error' = TRUE
          /\ \/ UNCHANGED <<regions, free, writable>>
             \/ \E r \in Region : Alloc(r) /\ free' = [free EXCEPT ![r] = FreeList(r)]
          /\ UNCHANGED <<ops, slots, prot>>
       \/ \E r \in Region :
             LET s == <<r, Head(FreeList(r))>> IN
             /\ Alloc(r)
             /\ free' = [free EXCEPT ![r] = Tail(FreeList(r))]
             /\ slots' = [slots EXCEPT ![s] = [func |-> f, detour |-> d, saved |-> code[f]]]
             /\ Note([remove |-> FALSE, func |-> f, slot |-> s, perm |-> prot[PageOf[f]]])
             /\ prot' = [prot EXCEPT ![PageOf[f]] = "rwx"]
             /\ UNCHANGED error
    /\ UNCHANGED <<owner, enlisted, target_vars, answer, refused_vars>>

\* DetourDetach: fails for another detour than the one in place, without
\* memory, and if the page cannot be made writable.
Detach(t, f, d) ==
    /\ Calls(t) /\ ~error /\ pointer[f] # EntryPoint /\ ~Noted(f)
    /\ \/ error' = TRUE /\ UNCHANGED <<ops, prot>>
       \/ /\ slots[pointer[f]].detour = d
          /\ Note([remove |-> TRUE, func |-> f, slot |-> pointer[f], perm |-> prot[PageOf[f]]])
          /\ prot' = [prot EXCEPT ![PageOf[f]] = "rwx"]
          /\ UNCHANGED error
    /\ UNCHANGED <<owner, enlisted, region_vars, writable, target_vars, answer, refused_vars>>
-----------------------------------------------------------------------------
(* The end of a transaction.  No two operations are on one function, so     *)
(* whatever the loops over the list change is changed by one of them; only  *)
(* the protection of a page may be set by several.                          *)

Operation(f) == ops[CHOOSE i \in DOMAIN ops : ops[i].func = f]

\* VirtualProtect for each operation, down the list.
Restored ==
    [p \in Page |-> LET on == {i \in DOMAIN ops : PageOf[ops[i].func] = p}
                    IN  IF on = {} THEN prot[p] ELSE ops[Max(on)].perm]

\* detour_free_trampoline for the operations that attach, or that remove: each
\* trampoline is put in front of the others.
Ending(remove) == {i \in DOMAIN ops : ops[i].remove = remove}
Freed(remove) == {ops[i].slot : i \in Ending(remove)}
Emptied(remove) == [s \in Slot |-> IF s \in Freed(remove) THEN Unused ELSE slots[s]]

Backwards(S) ==
    CHOOSE q \in [1..Cardinality(S) -> S] : \A i, j \in DOMAIN q : i < j => q[i] > q[j]

GivenBack(remove, r) ==
    LET on == Backwards({i \in Ending(remove) : ops[i].slot[1] = r})
    IN  [k \in DOMAIN on |-> ops[on[k]].slot[2]]

Returned(remove) == [r \in Region |-> GivenBack(remove, r) \o free[r]]

Few == Cardinality(unprotected') + Cardinality(stopped') + Cardinality(unmoved') <= MaxRefused

\* The pages, the regions that are left, and the threads.  Of the operations on
\* a page the earliest is the last to set its protection, so its call matters.
Finish(left) ==
    \E pages \in SUBSET {p \in Page : Restored[p] # prot[p]},
       still \in SUBSET (writable \intersect left), asleep \in SUBSET enlisted :
        /\ prot' = [p \in Page |-> IF p \in pages THEN prot[p] ELSE Restored[p]]
        /\ writable' = still
        /\ unprotected' = (unprotected \ Region) \union pages \union still
        /\ stopped' = stopped \union asleep
        /\ owner' = Nobody /\ ops' = <<>> /\ enlisted' = {}
        /\ UNCHANGED error

\* Mutant: the trampolines of the operations are kept.
AbortAll_Keeps ==
    /\ UNCHANGED <<region_vars, target_vars, unmoved>>
    /\ Finish(regions) /\ Few

AbortAll ==
    /\ slots' = Emptied(FALSE)
    /\ free' = Returned(FALSE)
    /\ UNCHANGED <<regions, target_vars, unmoved>>
    /\ Finish(regions) /\ Few

\* DetourTransactionAbort
Abort(t) == Calls(t) /\ AbortAll /\ UNCHANGED answer

\* The instructions that the jump overwrites, and their copies in a trampoline:
\* the first; those copied to the first sizeof(o->pTrampoline) = 4 bytes; those
\* copied behind them; and the jump back.
Parts == <<"start", "early", "late", "back">>

\* The instruction pointer of an enlisted thread is moved between the target
\* and the trampoline, by an operation on its function.  Of a trampoline that
\* is removed only its first four bytes are looked at: a thread behind them
\* stays where it is.
MovedBy(op, at) ==
    IF op.remove /\ at[1] = "slot" /\ at[2] = op.slot /\ at[3] \in {"start", "early"}
    THEN <<"func", op.func, at[3]>>
    ELSE IF ~op.remove /\ at[1] = "func" /\ at[2] = op.func
    THEN <<"slot", op.slot, at[3]>>
    ELSE at

\* Mutant: the threads stay where they are.
Moved_Never(t) == place[t]

Moved(t) ==
    LET moving == {i \in DOMAIN ops : MovedBy(ops[i], place[t]) # place[t]}
    IN  IF moving = {} THEN place[t] ELSE MovedBy(ops[CHOOSE i \in moving : TRUE], place[t])

\* GetThreadContext or SetThreadContext may fail.
MoveThreads ==
    \E missed \in SUBSET {u \in enlisted : Moved(u) # place[u]} :
        /\ place' = [u \in Thread |-> IF u \in enlisted \ missed THEN Moved(u) ELSE place[u]]
        /\ unmoved' = unmoved \union missed

\* Mutant: what is no longer to be detoured stays as it is.
Patched_Attaches ==
    [f \in Func |-> IF Noted(f) /\ ~Operation(f).remove THEN slots[Operation(f).slot].detour
                    ELSE code[f]]

Patched ==
    [f \in Func |-> IF ~Noted(f) THEN code[f]
                    ELSE LET op == Operation(f)
                         IN  IF op.remove THEN slots[op.slot].saved ELSE slots[op.slot].detour]

\* Mutant: the pointer of a function that is no longer detoured is left.
Pointed_Left ==
    [f \in Func |-> IF Noted(f) /\ ~Operation(f).remove THEN Operation(f).slot ELSE pointer[f]]

Pointed ==
    [f \in Func |-> IF ~Noted(f) THEN pointer[f]
                    ELSE IF Operation(f).remove THEN EntryPoint ELSE Operation(f).slot]

\* A region none of whose trampolines is in use is released.
InUse(r) == \E i \in 0..(PerRegion - 1) : slots'[<<r, i>>] # Unused

\* DetourTransactionCommitEx, up to where it gives the transaction up.
Commit(t) ==
    /\ Calls(t)
    /\ error \/ Thread \ {t} \subseteq enlisted
    /\ \/ /\ error
          /\ AbortAll
          /\ answer' = [answer EXCEPT ![t] = "aborted"]
       \/ /\ ~error
          /\ code' = Patched /\ pointer' = Pointed
          /\ MoveThreads
          /\ slots' = Emptied(TRUE)
          /\ free' = Returned(TRUE)
          /\ regions' = IF Ending(TRUE) = {} THEN regions ELSE {r \in regions : InUse(r)}
          /\ Finish(regions') /\ Few
          /\ answer' = [answer EXCEPT ![t] = "applied"]

\* A thread that is not suspended.
Runs(t) == t \notin enlisted \union stopped

\* It returns s_nPendingError, which it reads only now.
CommitReturn(t) ==
    /\ answer[t] # "none" /\ Runs(t)
    /\ answer' = [answer EXCEPT ![t] = "none"]
    /\ UNCHANGED <<owner, error, ops, enlisted, region_vars, writable, target_vars, prot,
                   refused_vars>>

\* A thread calls a function, or runs on through the first instructions of it:
\* of its own code, or of the copy that a detour reaches through the pointer.
Run(t) ==
    /\ Runs(t)
    /\ \/ /\ place[t] = Away /\ owner # t /\ answer[t] = "none"
          /\ \E f \in Func :
                place' = [place EXCEPT ![t] = IF code[f] = Own
                                              THEN <<"func", f, "start">>
                                              ELSE <<"slot", pointer[f], "start">>]
          /\ UNCHANGED unmoved
       \/ /\ place[t] # Away
          /\ \E i, j \in DOMAIN Parts :
                /\ place[t][3] = Parts[i] /\ i < j
                /\ Parts[j] = "back" => place[t][1] = "slot"
                /\ place' = [place EXCEPT ![t] = <<place[t][1], place[t][2], Parts[j]>>]
          /\ UNCHANGED unmoved
       \/ /\ place[t][1] = "func" \/ place[t][3] = "back"
          /\ place' = [place EXCEPT ![t] = Away]
          /\ unmoved' = unmoved \ {t}
    /\ UNCHANGED <<owner, error, ops, enlisted, region_vars, writable, code, pointer, prot, answer,
                   unprotected, stopped>>

DetoursInit ==
    /\ owner = Nobody /\ error = FALSE /\ ops = <<>> /\ enlisted = {}
    /\ regions = {} /\ free = [r \in Region |-> <<>>] /\ writable = {}
    /\ slots = [s \in Slot |-> Unused]
    /\ code = [f \in Func |-> Own] /\ pointer = [f \in Func |-> EntryPoint]
    /\ prot = [p \in Page |-> "rx"]
    /\ place = [t \in Thread |-> Away]
    /\ answer = [t \in Thread |-> "none"]
    /\ unprotected = {} /\ stopped = {} /\ unmoved = {}

DetoursNext ==
    \E t \in Thread :
        \/ Begin(t) \/ Abort(t) \/ Commit(t) \/ CommitReturn(t) \/ Run(t)
        \/ \E u \in Thread : UpdateThread(t, u)
        \/ \E f \in Func, d \in Detour : Attach(t, f, d) \/ Detach(t, f, d)

DetoursSpec == DetoursInit /\ [][DetoursNext]_detours_vars
-----------------------------------------------------------------------------
(* Correctness.                                                            *)

\* A function is either its own, and its pointer leads to it, or it jumps to
\* a detour and the pointer leads to a trampoline for that very detour that
\* holds the function's own code: whatever failed, whoever calls through the
\* pointer reaches the original (detours.cpp:1468-1735).
OriginalReached ==
    \A f \in Func :
        IF code[f] = Own THEN pointer[f] = EntryPoint
        ELSE /\ pointer[f] \in Slot
             /\ slots[pointer[f]] = [func |-> f, detour |-> code[f], saved |-> Own]

\* Every trampoline in use belongs to a detoured function or to a noted
\* attach, whatever was aborted or failed; the free ones are on the list of
\* their region once; no region with one in use is released
\* (detours.cpp:1156-1308, 1399-1441, 1826-1850).
Used == {s \in Slot : slots[s] # Unused}

TrampolinesAccounted ==
    /\ Used = {pointer[f] : f \in {g \in Func : pointer[g] # EntryPoint}}
              \union {ops[i].slot : i \in DOMAIN ops}
    /\ \A s \in Used : s[1] \in regions
    /\ \A r \in regions :
          /\ IsInjective(free[r])
          /\ ToSet(free[r]) = {i \in 2..(PerRegion - 1) : <<r, i>> \notin Used}

\* Between transactions no page is left writable, the target's or the
\* trampolines', unless the system refused the very call that sets it back, and
\* no thread counts as suspended; also where several targets share a page whose
\* protection each operation saved (detours.cpp:1403-1440, 1695-1731).
NothingLeft ==
    owner = Nobody =>
        /\ writable \subseteq unprotected /\ enlisted = {}
        /\ \A p \in Page : prot[p] = "rx" \/ p \in unprotected

\* A thread that was suspended inside the instructions that a jump overwrites
\* does not resume inside the jump; and one among the copies in the first four
\* bytes of a trampoline does not resume there when it has been freed.  Of the
\* copies and the jump behind those bytes this is not claimed: the program
\* leaves such a thread where it is, whatever becomes of the trampoline.  Nor
\* of a thread whose context the system refused (detours.cpp:1616-1693).
NoTornCode ==
    \A t \in Thread \ unmoved :
        LET at == place[t] IN
        /\ at[1] = "func" /\ at[3] # "start" => code[at[2]] = Own
        /\ at[1] = "slot" /\ at[3] \in {"start", "early"} => slots[at[2]] # Unused
-----------------------------------------------------------------------------
\* What a function would begin with after a commit.
Intended ==
    [f \in Func |-> IF ~Noted(f) THEN code[f]
                    ELSE IF Operation(f).remove THEN Own ELSE slots[Operation(f).slot].detour]

Redirected == INSTANCE Redirection WITH failed <- error, to <- code, asked <- Intended

\* Whatever fails, and whichever threads open transactions one after the other:
\* the functions change all at once, by a commit that nothing had failed
\* before, exactly as its owner has asked, or not at all (detours.cpp:1310-1735).
ImplementsRedirection == Redirected!RedirectionSpec
=============================================================================
