------------------------------- MODULE Prologue -------------------------------
(***************************************************************************)
(* How DetourAttachEx moves the first instructions of a function, those    *)
(* that its jump overwrites, into a trampoline (x86 build of               *)
(* sdk/detours/src/detours.cpp:1899-2020, 2086-2095), an instruction at a  *)
(* time with DetourCopyInstruction (disasm.cpp:368-590).  Detours has the  *)
(* result only, and takes the alignment of threads to be exact.            *)
(*                                                                         *)
(* Addresses are counted from the function's first byte.  An instruction   *)
(* is read when it is copied: any, with any target it can reach.  A target *)
(* is counted from the end of its instruction; that the processor cuts it  *)
(* to 16 bits behind an operand-size prefix is left out, and so is such a  *)
(* prefix before a short jump.                                             *)
(***************************************************************************)
EXTENDS Integers, SequencesExt

CONSTANTS
    Instr,       \* instructions: [form, len, ends]
    Fillers,     \* lengths of the paddings that detour_is_code_filler knows
    Offsets,     \* relative offsets in the code that is read
    Distance,    \* where the trampoline lies
    SizeOfCode   \* sizeof(rbCode), 30

ASSUME PrologueAssumptions ==
    /\ \A i \in Instr : i.form \in {"plain", "jmp8", "jcc8", "loop8", "rel16", "rel32"}
                        /\ i.len \in 1..15 /\ i.ends \in BOOLEAN
    /\ Fillers \subseteq 1..11
    /\ Offsets \subseteq Int /\ Distance \in Int /\ SizeOfCode \in Nat

VARIABLES
    stage,       \* "copying", "filling", "moved", "failed"
    cbTarget,    \* how much of the function has been read
    cbCode,      \* where the next instruction goes in rbCode
    rAlign,      \* the alignment array
    copied       \* the instructions copied: where from and to, and their targets

prologue_vars == <<stage, cbTarget, cbCode, rAlign, copied>>

SizeOfJmp == 5
SizeOfPointer == 4

\* A signed char and a SHORT
Char(n) == ((n + 128) % 256) - 128
Short(n) == ((n + 32768) % 65536) - 32768
-----------------------------------------------------------------------------
\* What is told of the length: a short jump grows, so that its target is in
\* reach again.  Of an offset that is cut, the bytes that it lacks are told,
\* though the copy has not grown by them; of a loop, which cannot be enlarged,
\* with a negative sign.
Extra(i, moved) ==
    CASE i.form = "jmp8"  -> 3
      [] i.form = "jcc8"  -> 4
      [] i.form = "loop8" -> IF moved = Char(moved) THEN 0 ELSE -3
      [] i.form = "rel16" -> IF moved = Short(moved) THEN 0 ELSE 2
      [] OTHER            -> 0

\* The offset from the trampoline instead of from the function.
FromTrampoline(offset) == offset - (Distance + cbCode - cbTarget)

\* Mutant: what the jump grows by is left out.
NewOffset_NotGrown(i, offset) ==
    CASE i.form = "loop8" -> Char(FromTrampoline(offset))
      [] i.form = "rel16" -> Short(FromTrampoline(offset))
      [] OTHER            -> FromTrampoline(offset)

\* The offset that is written into the copy.
NewOffset(i, offset) ==
    CASE i.form \in {"jmp8", "jcc8"} -> FromTrampoline(offset) - Extra(i, FromTrampoline(offset))
      [] i.form = "loop8"            -> Char(FromTrampoline(offset))
      [] i.form = "rel16"            -> Short(FromTrampoline(offset))
      [] OTHER                       -> FromTrampoline(offset)

\* Mutant: one instruction more.
Enough_More(read) == read > SizeOfJmp

Enough(read) == read >= SizeOfJmp

\* The ends of the instruction and of its copy, in three bits and in five.
Aligned(i, extra) ==
    [obTarget |-> (cbTarget + i.len) % 8, obTrampoline |-> (cbCode + i.len + extra) % 32]

\* The loop goes on behind what is told, also where an offset was cut: then the
\* next copy begins in this one, or two bytes behind its end.
Copy(i, offset) ==
    LET extra == Extra(i, FromTrampoline(offset))
        cut == i.form \in {"loop8", "rel16"} /\ extra # 0
        size == i.len + (IF cut THEN 0 ELSE extra)
    IN
    /\ stage = "copying" /\ ~Enough(cbTarget)
    /\ cbTarget' = cbTarget + i.len
    /\ cbCode' = cbCode + i.len + extra
    /\ rAlign' = Append(rAlign, Aligned(i, extra))
    /\ copied' = Append(copied,
          [from |-> cbTarget, to |-> cbCode, size |-> size, cut |-> cut,
           meant |-> IF i.form = "plain" THEN 0 ELSE cbTarget + i.len + offset,
           leads |-> IF i.form = "plain" THEN 0
                     ELSE Distance + cbCode + size + NewOffset(i, offset)])
    /\ stage' = IF i.ends \/ Len(rAlign') >= 8 THEN "filling" ELSE stage

\* Padding behind the end of a short function is taken, not moved.
Fill(c) ==
    /\ stage = "filling" /\ cbTarget < SizeOfJmp
    /\ cbTarget' = cbTarget + c
    /\ UNCHANGED <<stage, cbCode, rAlign, copied>>

\* There may be none; too little or too much code fails.
Judge ==
    /\ stage = "filling" \/ (stage = "copying" /\ Enough(cbTarget))
    /\ stage' = IF cbTarget < SizeOfJmp \/ cbTarget > SizeOfCode - SizeOfJmp
                THEN "failed" ELSE "moved"
    /\ UNCHANGED <<cbTarget, cbCode, rAlign, copied>>

PrologueInit ==
    /\ stage = "copying" /\ cbTarget = 0 /\ cbCode = 0
    /\ rAlign = <<>> /\ copied = <<>>

PrologueNext ==
    \/ \E i \in Instr, offset \in Offsets : Copy(i, offset)
    \/ \E c \in Fillers : Fill(c)
    \/ Judge

PrologueSpec == PrologueInit /\ [][PrologueNext]_prologue_vars
-----------------------------------------------------------------------------
(* Where a suspended thread is moved to.                                   *)

\* The array has eight entries; the ones that are not used are zero.
Align == [n \in 1..8 |-> IF n \in DOMAIN rAlign THEN rAlign[n]
                         ELSE [obTarget |-> 0, obTrampoline |-> 0]]

First(hits) == CHOOSE n \in hits : \A m \in hits : n <= m

\* Mutant: the last entry that fits is taken.
detour_align_from_target_Last(ob) ==
    LET hits == {n \in 1..8 : Align[n].obTarget = ob} IN
    IF hits = {} THEN 0 ELSE Align[CHOOSE n \in hits : \A m \in hits : n >= m].obTrampoline

detour_align_from_target(ob) ==
    LET hits == {n \in 1..8 : Align[n].obTarget = ob} IN
    IF hits = {} THEN 0 ELSE Align[First(hits)].obTrampoline

detour_align_from_trampoline(ob) ==
    LET hits == {n \in 1..8 : Align[n].obTrampoline = ob} IN
    IF hits = {} THEN 0 ELSE Align[First(hits)].obTarget
-----------------------------------------------------------------------------
(* Correctness.                                                            *)

\* The moved code, which may have grown, and the jump behind it end before
\* the copy of the original code, also where they run over rbCode into the
\* two bytes behind it; the copy of the original fits its 22 bytes
\* (detours.cpp:111-122, 2014-2020).
CodeFits ==
    stage = "moved" => cbCode + SizeOfJmp <= SizeOfCode + 2 /\ cbTarget <= 22

\* Where the next copy begins, or the jump back.
Following(k) == IF k < Len(copied) THEN copied[k + 1].to ELSE cbCode

\* Copying insures that any targets remain constant, by adjusting relative
\* offsets, and the copies lie one behind another: of all instructions but those
\* whose adjusted offset does not fit its width, which are told by a length that
\* the copy has not (disasm.cpp:155-158, 445-447, 546-563).
TargetsConstant ==
    stage = "moved" =>
        \A k \in DOMAIN copied :
            /\ copied[k].leads = copied[k].meant <=> ~copied[k].cut
            /\ ~copied[k].cut => copied[k].to + copied[k].size = Following(k)

\* No copy overwrites another, as the one behind a loop out of reach does.
NoneOverwritten == \A k \in DOMAIN copied : copied[k].to + copied[k].size <= Following(k)

\* A suspended thread continues at the copy of the instruction it had reached,
\* where no copy is overwritten, although the array keeps only three bits of
\* the offset; and at the first one, whose offset 0 is in no entry, unless an
\* instruction ends at a multiple of 8.  One in the four bytes of a trampoline
\* that are looked at when the detour is removed goes back to where it came
\* from (detours.cpp:41-45, 1448-1466, 1651-1664).
StartKnown == \A j \in DOMAIN rAlign : rAlign[j].obTarget # 0

ThreadsAligned ==
    stage = "moved" /\ NoneOverwritten =>
        \A k \in DOMAIN copied :
            /\ k > 1 \/ StartKnown => detour_align_from_target(copied[k].from) = copied[k].to
            /\ copied[k].to < SizeOfPointer =>
                  detour_align_from_trampoline(copied[k].to) = copied[k].from
=============================================================================
