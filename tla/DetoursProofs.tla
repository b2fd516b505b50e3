--------------------------- MODULE DetoursProofs ---------------------------
(* Theorems about the detour library: the measure of instructions, for any  *)
(* number of prefixes; the moved code of a function, for every set of       *)
(* instructions and offsets; and transactions, for any number of functions, *)
(* pages, threads and regions.                                              *)
EXTENDS Disasm, Prologue, Detours, SequenceTheorems, FiniteSetTheorems, TLAPS

-----------------------------------------------------------------------------
(* Measuring an instruction: the invariant, and the tables.                *)

\* No prefix changes how addresses are read, no XBEGIN occurs, and ModR/M bytes
\* are bytes; see the README for the first two.
Measurable == \h67 \notin PrefixBytes /\ ~Rtm /\ ModRms \subseteq Byte

DisasmInv ==
    /\ before \in Int /\ table \in {"first", "0F", "0F38", "0F3A"}
    /\ vex \in BOOLEAN /\ operand \in BOOLEAN /\ f2 \in BOOLEAN /\ f3 \in BOOLEAN
    /\ address = FALSE
    /\ LengthsRight /\ TargetsFound

\* The opcode and what follows are read, and the overrides stay.
Reads(op, modrm, sib) ==
    /\ instr' = [op |-> op, modrm |-> modrm, sib |-> sib]
    /\ UNCHANGED <<before, table, override_vars>>

\* The bytes an entry copies besides those of the operand in memory.
FixedOf(e) ==
    IF e.address THEN IF address THEN e.fixed16 ELSE e.fixed
    ELSE IF operand THEN e.fixed16 ELSE e.fixed

\* An entry that is not Invalid says what the manual says.
Agrees(e) ==
    e # Invalid =>
        /\ e.mod # 0 => WithModRm'
        /\ FixedOf(e) = 1 + (IF WithModRm' THEN 1 ELSE 0) + Immediate'
                          + (IF table' = "0F" /\ instr'.op \in {\h38, \h3A} THEN 1 ELSE 0)
        /\ e.rel # 0 <=> Relative'

LEMMA ReadsFacts ==
    ASSUME NEW op, NEW modrm, NEW sib, Reads(op, modrm, sib)
    PROVE  /\ instr'.op = op /\ instr'.modrm = modrm /\ instr'.sib = sib
           /\ before' = before /\ table' = table /\ address' = address /\ operand' = operand
           /\ f2' = f2 /\ f3' = f3 /\ vex' = vex
BY DEF Reads, override_vars

\* The first quarter of the first table: eight operations in eight forms.
LEMMA ArithmeticAgrees ==
    ASSUME DisasmInv, NEW op \in Byte, NEW modrm \in Byte, NEW sib, Reads(op, modrm, sib),
           table = "first", op < \h40
    PROVE  Agrees(Arithmetic(op))
<1>1. /\ instr'.op = op /\ instr'.modrm = modrm /\ table' = table
      /\ operand' = operand /\ f2' = f2 /\ f3' = f3 /\ address = FALSE /\ address' = FALSE
      /\ operand \in BOOLEAN /\ f2 \in BOOLEAN /\ f3 \in BOOLEAN
  BY ReadsFacts DEF DisasmInv
<1>2. QED
  BY <1>1 DEF Byte, Agrees, Arithmetic, Leading, Invalid, CopyBytes, CopyBytesMod,
              CopyBytes3Or5, Copies, FixedOf, WithModRm, Immediate, Relative, XBegin

\* The second quarter.
LEMMA StackAgrees ==
    ASSUME DisasmInv, NEW op \in Byte, NEW modrm \in Byte, NEW sib, Reads(op, modrm, sib),
           table = "first", op \in \h40..\h7F
    PROVE  Agrees(Stack(op))
<1>1. /\ instr'.op = op /\ instr'.modrm = modrm /\ table' = table
      /\ operand' = operand /\ f2' = f2 /\ f3' = f3 /\ address = FALSE /\ address' = FALSE
      /\ operand \in BOOLEAN /\ f2 \in BOOLEAN /\ f3 \in BOOLEAN
  BY ReadsFacts DEF DisasmInv
<1>2. QED
  BY <1>1 DEF Byte, Agrees, Stack, Leading, Invalid, CopyBytes, CopyBytesMod, CopyBytesMod1,
              CopyBytes3Or5, CopyBytes2ModOperand, CopyBytesJump, Copies, FixedOf,
              WithModRm, Immediate, Relative, XBegin

\* The third quarter.
LEMMA MovesAgrees ==
    ASSUME DisasmInv, NEW op \in Byte, NEW modrm \in Byte, NEW sib, Reads(op, modrm, sib),
           table = "first", op \in \h80..\hBF
    PROVE  Agrees(Moves(op))
<1>1. /\ instr'.op = op /\ instr'.modrm = modrm /\ table' = table
      /\ operand' = operand /\ f2' = f2 /\ f3' = f3 /\ address = FALSE /\ address' = FALSE
      /\ operand \in BOOLEAN /\ f2 \in BOOLEAN /\ f3 \in BOOLEAN
  BY ReadsFacts DEF DisasmInv
<1>2. QED
  BY <1>1 DEF Byte, Agrees, Moves, Invalid, CopyBytes, CopyBytesMod, CopyBytesMod1,
              CopyBytes3Or5, CopyBytes5Or7, CopyBytes1Address, CopyBytes2ModOperand, Copies, FixedOf,
              WithModRm, Immediate, Relative, XBegin

\* The last quarter.
LEMMA ControlAgrees ==
    ASSUME DisasmInv, NEW op \in Byte, NEW modrm \in Byte, NEW sib, Reads(op, modrm, sib),
           table = "first", op >= \hC0, ~XBegin(op, modrm)
    PROVE  Agrees(Control(op, modrm))
<1>1. /\ instr'.op = op /\ instr'.modrm = modrm /\ table' = table
      /\ operand' = operand /\ f2' = f2 /\ f3' = f3 /\ address = FALSE /\ address' = FALSE
      /\ operand \in BOOLEAN /\ f2 \in BOOLEAN /\ f3 \in BOOLEAN
  BY ReadsFacts DEF DisasmInv
<1>2. \/ op \in {\hC4, \hC5} \/ op = \hC7 \/ op \in {\hF6, \hF7}
      \/ op \in \hC0..\hDF \ {\hC4, \hC5, \hC7} \/ op \in \hE0..\hFF \ {\hF6, \hF7}
  BY DEF Byte
<1> USE <1>1 DEF Agrees, Control, Leading, Invalid, CopyBytes, CopyBytesMod, CopyBytesMod1,
                 CopyBytes3Or5, CopyBytes5Or7, CopyBytes3Or5Target, CopyBytes2ModOperand,
                 CopyBytesJump, Copies, FixedOf, WithModRm, Immediate, Relative, XBegin
<1>3. CASE op \in {\hC4, \hC5}
  BY <1>3
<1>4. CASE op = \hC7
  BY <1>4
<1>5. CASE op \in {\hF6, \hF7}
  BY <1>5, SMTT(30)
<1>6. CASE op \in \hC0..\hDF \ {\hC4, \hC5, \hC7}
  BY <1>6, SMTT(30)
<1>7. CASE op \in \hE0..\hFF \ {\hF6, \hF7}
  BY <1>7, SMTT(30)
<1> HIDE DEF Agrees, Control
<1>8. QED
  BY <1>2, <1>3, <1>4, <1>5, <1>6, <1>7

\* The lower half of the second table.
LEMMA MediaAgrees ==
    ASSUME DisasmInv, NEW op \in Byte, NEW modrm \in Byte, NEW sib, Reads(op, modrm, sib),
           table = "0F", op < \h80
    PROVE  Agrees(Media(op))
<1>1. /\ instr'.op = op /\ instr'.modrm = modrm /\ table' = table
      /\ operand' = operand /\ f2' = f2 /\ f3' = f3 /\ address = FALSE /\ address' = FALSE
      /\ operand \in BOOLEAN /\ f2 \in BOOLEAN /\ f3 \in BOOLEAN
  BY ReadsFacts DEF DisasmInv
<1> USE <1>1 DEF Agrees, Media, Invalid, CopyBytes, CopyBytesMod, CopyBytesMod1, Copies,
                 FixedOf, WithModRm, Immediate, Relative, XBegin, Byte
<1>2. CASE op \in {\h38, \h3A}
  BY <1>2
<1>3. CASE op = \h78
  BY <1>3
<1>4. CASE op \in 0..\h3F \ {\h38, \h3A}
  BY <1>4
<1>5. CASE op \in \h40..\h7F \ {\h78}
  BY <1>5
<1>6. QED
  BY <1>2, <1>3, <1>4, <1>5

\* The upper half.
LEMMA BitsAgrees ==
    ASSUME DisasmInv, NEW op \in Byte, NEW modrm \in Byte, NEW sib, Reads(op, modrm, sib),
           table = "0F", op >= \h80
    PROVE  Agrees(Bits(op))
<1>1. /\ instr'.op = op /\ instr'.modrm = modrm /\ table' = table
      /\ operand' = operand /\ f2' = f2 /\ f3' = f3 /\ address = FALSE /\ address' = FALSE
      /\ operand \in BOOLEAN /\ f2 \in BOOLEAN /\ f3 \in BOOLEAN
  BY ReadsFacts DEF DisasmInv
<1>2. QED
  BY <1>1 DEF Byte, Agrees, Bits, Invalid, CopyBytes, CopyBytesMod, CopyBytesMod1, CopyBytes3Or5,
              CopyBytes3Or5Target, Copies, FixedOf,
              WithModRm, Immediate, Relative, XBegin

\* The entries of each table, and those of the escapes 0F 38 and 0F 3A.
LEMMA EntryAgrees ==
    ASSUME DisasmInv, NEW op \in Byte, NEW modrm \in Byte, NEW sib, Reads(op, modrm, sib),
           ~XBegin(op, modrm)
    PROVE  Agrees(EntryOf(op, modrm))
<1>1. CASE table = "first"
  <2>1. op < \h40 => Agrees(Arithmetic(op))
    BY <1>1, ArithmeticAgrees
  <2>2. op \in \h40..\h7F => Agrees(Stack(op))
    BY <1>1, StackAgrees
  <2>3. op \in \h80..\hBF => Agrees(Moves(op))
    BY <1>1, MovesAgrees
  <2>4. op >= \hC0 => Agrees(Control(op, modrm))
    BY <1>1, ControlAgrees
  <2>5. QED
    BY <1>1, <2>1, <2>2, <2>3, <2>4 DEF EntryOf, Byte
<1>2. CASE table = "0F"
  <2>1. op < \h80 => Agrees(Media(op))
    BY <1>2, MediaAgrees
  <2>2. op >= \h80 => Agrees(Bits(op))
    BY <1>2, BitsAgrees
  <2>3. QED
    BY <1>2, <2>1, <2>2 DEF EntryOf, Byte
<1>3. CASE table \in {"0F38", "0F3A"}
  BY SMTT(30), <1>3, ReadsFacts
     DEF EntryOf, Agrees, CopyBytesMod, CopyBytesMod1, Copies, FixedOf, DisasmInv,
         WithModRm, Immediate, Relative
<1>4. QED
  BY <1>1, <1>2, <1>3 DEF DisasmInv

\* What follows the ModR/M byte is the displacement, and the SIB byte.
LEMMA DisplacementRight ==
    ASSUME DisasmInv, NEW op, NEW modrm \in Byte, NEW sib \in {0, \h25}, Reads(op, modrm, sib)
    PROVE  Displacement' = ModRm(modrm) + Sib(modrm, sib)
<1>1. instr'.modrm = modrm /\ instr'.sib = sib /\ ~address'
  BY ReadsFacts DEF DisasmInv
<1>2. PICK mod \in 0..3, rm \in 0..7 : mod = Mod(modrm) /\ rm = Rm(modrm)
  BY DEF Mod, Rm, Byte
<1>3. Mod(instr'.modrm) = mod /\ Rm(instr'.modrm) = rm
  BY <1>1, <1>2
<1>4. Displacement' =
        CASE mod = 3 -> 0
          [] mod = 1 -> (IF rm = 4 THEN 1 ELSE 0) + 1
          [] mod = 2 -> (IF rm = 4 THEN 1 ELSE 0) + 4
          [] mod = 0 -> (IF rm = 4 THEN 1 ELSE 0)
                        + (IF rm = 5 \/ (rm = 4 /\ sib % 8 = 5) THEN 4 ELSE 0)
  BY <1>1, <1>3 DEF Displacement
<1>5. ModRm(modrm) + Sib(modrm, sib) =
        (CASE mod = 0 -> IF rm \in {4, 5} THEN IF rm = 4 THEN 1 ELSE 4 ELSE 0
           [] mod = 1 -> IF rm = 4 THEN 2 ELSE 1
           [] mod = 2 -> IF rm = 4 THEN 5 ELSE 4
           [] mod = 3 -> 0)
        + (IF mod = 0 /\ rm = 4 /\ sib % 8 = 5 THEN 4 ELSE 0)
  BY <1>2 DEF ModRm, Sib, HasSib
<1>6. QED
  BY <1>2, <1>4, <1>5

LEMMA OpcodeStep ==
    ASSUME Measurable, DisasmInv, NEW op \in Byte, NEW modrm \in ModRms, NEW sib \in {0, \h25},
           XBegin(op, modrm) => Rtm, Opcode(op, modrm, sib)
    PROVE  DisasmInv'
<1>1. PICK e : e = EntryOf(op, modrm)
  OBVIOUS
<1>2. /\ e # Invalid /\ (e.mod = 0 => modrm = 0)
      /\ result' = [size |-> before + Size(e, modrm, sib), target |-> e.rel # 0]
      /\ Reads(op, modrm, sib)
  BY <1>1 DEF Opcode, Reads
<1>3. Agrees(e)
  BY <1>1, <1>2, EntryAgrees DEF Measurable
<1>4. Displacement' = ModRm(modrm) + Sib(modrm, sib) /\ ModRm(modrm) + Sib(modrm, sib) \in Int
  <2>1. Mod(modrm) \in 0..3 /\ modrm \in Byte
    BY DEF Mod, Byte, Measurable
  <2>2. QED
    BY <1>2, <2>1, DisplacementRight DEF ModRm, Sib
<1>5. modrm = 0 => ModRm(modrm) + Sib(modrm, sib) = 0
  BY DEF ModRm, Sib, HasSib, Mod, Rm
<1>6. result'.size = before + (FixedOf(e) + (IF e.mod = 0 THEN 0 ELSE Displacement'))
  BY <1>2, <1>4 DEF Size, FixedOf
<1>7. LengthsRight'
  <2>1. Immediate' \in Int /\ Displacement' \in Int /\ before \in Int /\ before' = before
    BY <1>2, <1>4, ReadsFacts DEF Immediate, DisasmInv
  <2>2. e.mod = 0 => Displacement' = 0
    BY <1>2, <1>4, <1>5
  <2>3. result'.size = Length'
    BY <1>2, <1>3, <1>6, <2>1, <2>2 DEF Agrees, Length
  <2>4. QED
    BY <2>3 DEF LengthsRight
<1>8. TargetsFound'
  BY <1>2, <1>3 DEF Agrees, TargetsFound
<1>9. QED
  BY <1>2, <1>7, <1>8 DEF Reads, DisasmInv, override_vars

LEMMA DisasmStep ==
    ASSUME Measurable, DisasmInv, [DisasmNext]_disasm_vars PROVE DisasmInv'
<1>1. ASSUME NEW b \in PrefixBytes, Prefix(b) PROVE DisasmInv'
  <2>1. Reading' /\ table' = table /\ before' = before + 1 /\ vex' = vex
    BY <1>1 DEF Prefix, Reading
  <2>2. /\ operand' \in BOOLEAN /\ f2' \in BOOLEAN /\ f3' \in BOOLEAN
    BY <1>1 DEF Prefix
  <2>3. address' = FALSE
    BY <1>1 DEF Prefix, Measurable, DisasmInv
  <2>4. QED
    BY <2>1, <2>2, <2>3 DEF DisasmInv, LengthsRight, TargetsFound
<1>2. CASE Copy0F
  BY <1>2 DEF Copy0F, DisasmInv, LengthsRight, TargetsFound, Reading, override_vars
<1>3. ASSUME NEW n \in {2, 3}, NEW m \in {"0F", "0F38", "0F3A"}, NEW p, CopyVex(n, m, p)
      PROVE  DisasmInv'
  BY <1>3 DEF CopyVex, DisasmInv, LengthsRight, TargetsFound, Reading
<1>4. ASSUME NEW op \in Byte, NEW modrm \in ModRms, NEW sib \in {0, \h25},
             XBegin(op, modrm) => Rtm, Opcode(op, modrm, sib)
      PROVE  DisasmInv'
  BY <1>4, OpcodeStep
<1>5. CASE UNCHANGED disasm_vars
  <2>1. Reading' = Reading /\ Length' = Length /\ Relative' = Relative
    BY <1>5 DEF disasm_vars, override_vars, Reading, Length, WithModRm, Displacement, Immediate,
                Relative, XBegin
  <2>2. QED
    BY <1>5, <2>1 DEF disasm_vars, override_vars, DisasmInv, LengthsRight, TargetsFound
<1>6. QED
  BY <1>1, <1>2, <1>3, <1>4, <1>5 DEF DisasmNext

-----------------------------------------------------------------------------
(* The theorems about the measure.                                         *)

\* The overrides are those of the prefixes that were read, for any number of
\* them, and an instruction is measured as the manual says (disasm.cpp:399-474).
THEOREM DisasmInvariant ==
    ASSUME Measurable PROVE DisasmSpec => []DisasmInv
<1>1. DisasmInit => DisasmInv
  <2> SUFFICES ASSUME DisasmInit PROVE DisasmInv
    OBVIOUS
  <2>1. Reading
    BY DEF DisasmInit, Reading
  <2>2. LengthsRight /\ TargetsFound
    BY <2>1 DEF LengthsRight, TargetsFound
  <2>3. before = 0 /\ table = "first" /\ address = FALSE
    BY DEF DisasmInit
  <2>4. vex \in BOOLEAN /\ operand \in BOOLEAN /\ f2 \in BOOLEAN /\ f3 \in BOOLEAN
    BY DEF DisasmInit
  <2>5. QED
    BY <2>2, <2>3, <2>4 DEF DisasmInv
<1>2. DisasmInv /\ [DisasmNext]_disasm_vars => DisasmInv'
  BY DisasmStep
<1>3. QED
  BY <1>1, <1>2, PTL DEF DisasmSpec

\* Whatever opcode and ModR/M byte, whatever number of prefixes: the
\* tables and CopyBytes measure the instruction as long as it is, so that
\* DetourAttachEx moves whole instructions (disasm.cpp:191-590, 868-1527).
THEOREM MeasuredRight ==
    ASSUME Measurable PROVE DisasmSpec => []LengthsRight
<1>1. DisasmInv => LengthsRight
  BY DEF DisasmInv
<1>2. QED
  BY <1>1, DisasmInvariant, PTL

\* The instructions whose target the tables compute are those that have a
\* relative one (disasm.cpp:475-590).
THEOREM TargetsAreFound ==
    ASSUME Measurable PROVE DisasmSpec => []TargetsFound
<1>1. DisasmInv => TargetsFound
  BY DEF DisasmInv
<1>2. QED
  BY <1>1, DisasmInvariant, PTL

\* A jump or loop with an offset of one byte is two bytes long and its
\* prefixes: what Prologue takes for granted of such (disasm.cpp:224, 475).
ShortOffset == table = "first" /\ instr.op \in \h70..\h7F \union \hE0..\hE3 \union {\hEB}

THEOREM ShortJumpsMeasured ==
    ASSUME Measurable PROVE DisasmSpec => [](~Reading /\ ShortOffset => result.size = before + 2)
<1>1. DisasmInv => (~Reading /\ ShortOffset => result.size = before + 2)
  <2> SUFFICES ASSUME DisasmInv, ~Reading, ShortOffset PROVE result.size = before + 2
    OBVIOUS
  <2>1. ~WithModRm /\ Immediate = 1 /\ table = "first" /\ before \in Int
    BY DEF ShortOffset, WithModRm, Immediate, DisasmInv
  <2>2. QED
    BY <2>1 DEF DisasmInv, LengthsRight, Length
<1>2. QED
  BY <1>1, DisasmInvariant, PTL

-----------------------------------------------------------------------------
(* The invariant of the copying loop.                                      *)

\* A short jump is two bytes (disasm.cpp:224), and up to nine prefixes; a jump
\* by 16 bits is four or five, and up to eight more.
ShortJumps ==
    \A i \in Instr : /\ i.form \in {"jmp8", "jcc8"} => i.len \in 2..11
                     /\ i.form = "rel16" => i.len \in 1..13

Copied == [from : Int, to : Int, size : Int, cut : BOOLEAN, meant : Int, leads : Int]

\* The code read so far grows to three times its length at most: a jump of two
\* bytes becomes one of five or six.  The last instruction may be long.
SizeInv ==
    /\ stage \in {"copying", "filling", "moved", "failed"}
    /\ cbTarget \in Nat /\ cbCode \in Int
    /\ stage = "copying" /\ cbTarget < SizeOfJmp => cbCode <= 3 * cbTarget
    /\ stage # "failed" => cbTarget < SizeOfJmp + 15
    /\ cbCode <= 27

\* A copy leads where it is meant to, unless its offset was cut, and the next
\* begins behind it.
Leads(k) ==
    /\ copied[k].leads = copied[k].meant <=> ~copied[k].cut
    /\ ~copied[k].cut => copied[k].to + copied[k].size = Following(k)

LeadsInv ==
    /\ copied \in Seq(Copied)
    /\ \A k \in DOMAIN copied : Leads(k)

\* A copy, and its entry in the array, which tells where the next one is.
CopyGood(k) ==
    /\ copied[k].from \in 0..4 /\ copied[k].to \in 0..12 /\ copied[k].size \in Nat \ {0}
    /\ k = 1 => copied[k].from = 0 /\ copied[k].to = 0
    /\ rAlign[k].obTrampoline >= copied[k].to + copied[k].size
    /\ stage = "copying" => copied[k].from < cbTarget

\* The copies lie one behind another, as the originals do.
Follows(k) ==
    /\ rAlign[k].obTrampoline = copied[k + 1].to
    /\ rAlign[k].obTarget = copied[k + 1].from

IsLast(k) ==
    /\ rAlign[k].obTrampoline = cbCode
    /\ stage = "copying" /\ cbTarget < SizeOfJmp => rAlign[k].obTarget = cbTarget

CopiesInv ==
    /\ copied \in Seq(Copied) /\ rAlign \in Seq([obTarget : 0..7, obTrampoline : 0..31])
    /\ Len(rAlign) = Len(copied)
    /\ Len(copied) = 0 => cbCode = 0 /\ (stage = "copying" => cbTarget = 0)
    /\ Len(copied) <= 5 /\ (stage = "copying" => Len(copied) <= cbTarget)
    /\ \A k \in DOMAIN copied : CopyGood(k) /\ (k < Len(copied) => Follows(k))
    /\ Len(copied) > 0 => IsLast(Len(copied))
    /\ \A j, k \in DOMAIN copied :
          j < k => copied[j].from < copied[k].from /\ copied[j].to < copied[k].to

\* What a loop out of reach does to the entries is not followed.
PrologueInv == SizeInv /\ LeadsInv /\ (NoneOverwritten => CopiesInv)

-----------------------------------------------------------------------------
(* What one instruction does.                                              *)

LEMMA ExtraFacts ==
    ASSUME NEW i \in Instr, NEW m \in Int
    PROVE  /\ Extra(i, m) \in {-3, 0, 2, 3, 4}
           /\ Extra(i, m) > 0 => i.form \in {"jmp8", "jcc8", "rel16"}
           /\ Extra(i, m) = 2 => i.form = "rel16"
           /\ i.form # "loop8" => Extra(i, m) >= 0
           /\ i.form \in {"plain", "rel32"} => Extra(i, m) = 0
           /\ i.form = "loop8" => Extra(i, m) \in {-3, 0}
           /\ i.form \in {"plain", "jmp8", "jcc8", "loop8", "rel16", "rel32"} /\ i.len \in 1..15
BY PrologueAssumptions DEF Extra

\* One step of the loop, with what the copy grows by.
CopyMade(i, offset, extra) ==
    /\ i \in Instr /\ offset \in Int /\ extra = Extra(i, FromTrampoline(offset))
    /\ stage = "copying" /\ cbTarget < SizeOfJmp
    /\ cbTarget' = cbTarget + i.len
    /\ cbCode' = cbCode + i.len + extra
    /\ stage' \in {"copying", "filling"}

LEMMA CopyStep ==
    ASSUME SizeInv, NEW i \in Instr, NEW offset \in Offsets, Copy(i, offset)
    PROVE  CopyMade(i, offset, Extra(i, FromTrampoline(offset)))
           /\ FromTrampoline(offset) \in Int
<1>1. offset \in Int /\ FromTrampoline(offset) \in Int
  BY PrologueAssumptions DEF FromTrampoline, SizeInv
<1>2. /\ stage = "copying" /\ ~(cbTarget >= SizeOfJmp)
      /\ cbTarget' = cbTarget + i.len
      /\ cbCode' = cbCode + i.len + Extra(i, FromTrampoline(offset))
  BY DEF Copy, Enough
<1>3. stage' \in {"copying", "filling"}
  BY DEF Copy
<1>4. cbTarget < SizeOfJmp
  BY <1>2 DEF SizeInv, SizeOfJmp
<1>5. QED
  BY <1>1, <1>2, <1>3, <1>4 DEF CopyMade

LEMMA SizeStep ==
    ASSUME ShortJumps, SizeInv, [PrologueNext]_prologue_vars
    PROVE  SizeInv'
<1>1. ASSUME NEW i \in Instr, NEW offset \in Offsets, Copy(i, offset)
      PROVE  SizeInv'
  <2> DEFINE extra == Extra(i, FromTrampoline(offset))
  <2>1. CopyMade(i, offset, extra)
    BY <1>1, CopyStep
  <2>2. /\ extra \in {-3, 0, 2, 3, 4} /\ i.len \in 1..15
        /\ extra > 2 => i.len \in 2..11
        /\ extra = 2 => i.len \in 1..13
    <3>1. extra > 2 => i.form \in {"jmp8", "jcc8"}
      BY <1>1, CopyStep, ExtraFacts DEF Extra
    <3>2. QED
      BY <1>1, <3>1, CopyStep, ExtraFacts DEF ShortJumps
  <2> HIDE DEF extra
  <2>3. QED
    BY <2>1, <2>2 DEF SizeInv, CopyMade, SizeOfJmp
<1>2. ASSUME NEW c \in Fillers, Fill(c) PROVE SizeInv'
  BY <1>2, PrologueAssumptions DEF Fill, SizeInv, SizeOfJmp
<1>3. CASE Judge
  BY <1>3 DEF Judge, SizeInv
<1>4. CASE UNCHANGED prologue_vars
  BY <1>4 DEF prologue_vars, SizeInv
<1>5. QED
  BY <1>1, <1>2, <1>3, <1>4 DEF PrologueNext

LEMMA Widths == \A m \in Int : Char(m) \in Int /\ Short(m) \in Int
BY DEF Char, Short

\* A copy leads where its original does, unless its offset does not fit.
CutOff(i, extra) == i.form \in {"loop8", "rel16"} /\ extra # 0

CopySize(i, extra) == i.len + (IF CutOff(i, extra) THEN 0 ELSE extra)

LEMMA CopyLeads ==
    ASSUME SizeInv, NEW i \in Instr, NEW offset \in Int, NEW extra,
           extra = Extra(i, FromTrampoline(offset))
    PROVE  /\ NewOffset(i, offset) \in Int
           /\ cbTarget + i.len + offset
                 = Distance + cbCode + CopySize(i, extra) + NewOffset(i, offset)
              <=> ~CutOff(i, extra)
<1> DEFINE moved == FromTrampoline(offset)
<1>1. moved = offset - (Distance + cbCode - cbTarget) /\ moved \in Int
  BY PrologueAssumptions DEF FromTrampoline, SizeInv
<1>2. extra = Extra(i, moved)
  OBVIOUS
<1>3. /\ i.form \in {"plain", "jmp8", "jcc8", "loop8", "rel16", "rel32"}
      /\ i.len \in 1..15 /\ extra \in {-3, 0, 2, 3, 4}
  BY <1>1, <1>2, ExtraFacts
<1>4. Distance \in Int /\ cbCode \in Int /\ cbTarget \in Int
  BY PrologueAssumptions DEF SizeInv
<1>5. CASE i.form \in {"plain", "jmp8", "jcc8", "rel32"}
  <2>1. NewOffset(i, offset) = moved - extra
    <3>1. CASE i.form \in {"jmp8", "jcc8"}
      BY <1>2, <3>1 DEF NewOffset
    <3>2. CASE i.form \in {"plain", "rel32"}
      <4>1. extra = 0
        BY <1>1, <1>2, <3>2, ExtraFacts
      <4>2. NewOffset(i, offset) = moved
        BY <3>2 DEF NewOffset
      <4> HIDE DEF moved
      <4>3. QED
        BY <1>1, <4>1, <4>2
    <3>3. QED
      BY <1>5, <3>1, <3>2
  <2>2. ~CutOff(i, extra) /\ CopySize(i, extra) = i.len + extra
    BY <1>5 DEF CutOff, CopySize
  <2> HIDE DEF moved
  <2>3. QED
    BY <1>1, <1>3, <1>4, <2>1, <2>2
<1>6. CASE i.form = "loop8"
  <2>1. NewOffset(i, offset) = Char(moved) /\ extra = (IF moved = Char(moved) THEN 0 ELSE -3)
    BY <1>2, <1>6 DEF NewOffset, Extra
  <2>2. CutOff(i, extra) <=> moved # Char(moved)
    BY <1>6, <2>1 DEF CutOff
  <2>3. CopySize(i, extra) = i.len
    BY <1>3, <1>6 DEF CutOff, CopySize
  <2> HIDE DEF moved
  <2>4. QED
    BY <1>1, <1>3, <1>4, <2>1, <2>2, <2>3, Widths
<1>7. CASE i.form = "rel16"
  <2>1. NewOffset(i, offset) = Short(moved) /\ extra = (IF moved = Short(moved) THEN 0 ELSE 2)
    BY <1>2, <1>7 DEF NewOffset, Extra
  <2>2. CutOff(i, extra) <=> moved # Short(moved)
    BY <1>7, <2>1 DEF CutOff
  <2>3. CopySize(i, extra) = i.len
    BY <1>3, <1>7 DEF CutOff, CopySize
  <2> HIDE DEF moved
  <2>4. QED
    BY <1>1, <1>3, <1>4, <2>1, <2>2, <2>3, Widths
<1>8. QED
  BY <1>3, <1>5, <1>6, <1>7

\* What is added to the list.
NewCopy(i, offset, extra) ==
    [from |-> cbTarget, to |-> cbCode, size |-> CopySize(i, extra), cut |-> CutOff(i, extra),
     meant |-> IF i.form = "plain" THEN 0 ELSE cbTarget + i.len + offset,
     leads |-> IF i.form = "plain" THEN 0
               ELSE Distance + cbCode + CopySize(i, extra) + NewOffset(i, offset)]

LEMMA NewCopyFacts ==
    ASSUME SizeInv, NEW i \in Instr, NEW offset \in Offsets, Copy(i, offset)
    PROVE  LET extra == Extra(i, FromTrampoline(offset))
               r == NewCopy(i, offset, extra)
           IN  /\ copied' = Append(copied, r) /\ r \in Copied
               /\ rAlign' = Append(rAlign, Aligned(i, extra))
               /\ r.from = cbTarget /\ r.to = cbCode /\ r.size \in 1..19
               /\ r.leads = r.meant <=> ~r.cut
               /\ ~r.cut => r.size = i.len + extra
               /\ extra >= 0 => r.size <= i.len + extra
               /\ extra < 0 => r.size = i.len
<1> DEFINE extra == Extra(i, FromTrampoline(offset))
           r == NewCopy(i, offset, extra)
<1>1. offset \in Int /\ FromTrampoline(offset) \in Int
  BY PrologueAssumptions, CopyStep
<1>2. /\ extra \in {-3, 0, 2, 3, 4} /\ i.len \in 1..15
      /\ i.form # "loop8" => extra >= 0
      /\ extra < 0 => i.form = "loop8"
      /\ i.form = "plain" => extra = 0
  BY <1>1, ExtraFacts
<1>3. copied' = Append(copied, r) /\ rAlign' = Append(rAlign, Aligned(i, extra))
  BY DEF Copy, NewCopy, CopySize, CutOff
<1>4. /\ NewOffset(i, offset) \in Int
      /\ cbTarget + i.len + offset
            = Distance + cbCode + CopySize(i, extra) + NewOffset(i, offset)
         <=> ~CutOff(i, extra)
  BY <1>1, CopyLeads
<1> HIDE DEF extra
<1>5. /\ CopySize(i, extra) \in 1..19
      /\ ~CutOff(i, extra) => CopySize(i, extra) = i.len + extra
      /\ extra >= 0 => CopySize(i, extra) <= i.len + extra
      /\ extra < 0 => CopySize(i, extra) = i.len
  BY <1>2 DEF CopySize, CutOff
<1>6. i.form = "plain" => ~CutOff(i, extra)
  BY <1>2 DEF CutOff
<1>7. CutOff(i, extra) \in BOOLEAN
  BY DEF CutOff
<1>8. Distance \in Int /\ cbCode \in Int /\ cbTarget \in Int
  BY PrologueAssumptions DEF SizeInv
<1>9. r \in Copied
  BY <1>1, <1>2, <1>4, <1>5, <1>7, <1>8 DEF NewCopy, Copied
<1>10. r.leads = r.meant <=> ~r.cut
  BY <1>4, <1>6 DEF NewCopy
<1>11. /\ r.from = cbTarget /\ r.to = cbCode
       /\ r.size = CopySize(i, extra) /\ r.cut = CutOff(i, extra)
  BY DEF NewCopy
<1> HIDE DEF r
<1>12. QED
  BY <1>3, <1>5, <1>9, <1>10, <1>11 DEF extra, r

LEMMA AppendFacts ==
    ASSUME NEW S, NEW q \in Seq(S), NEW e \in S, NEW n, n = Len(q)
    PROVE  /\ Append(q, e) \in Seq(S) /\ Len(Append(q, e)) = n + 1 /\ n \in Nat
           /\ DOMAIN q = 1..n /\ DOMAIN Append(q, e) = 1..(n + 1)
           /\ \A k \in 1..n : Append(q, e)[k] = q[k]
           /\ Append(q, e)[n + 1] = e
BY AppendProperties, LenProperties

\* Every copy leads where it is meant to, whatever follows.
LEMMA LeadsStep ==
    ASSUME SizeInv, LeadsInv, NEW i \in Instr, NEW offset \in Offsets, Copy(i, offset)
    PROVE  LeadsInv'
<1> DEFINE n == Len(copied)
           extra == Extra(i, FromTrampoline(offset))
           r == NewCopy(i, offset, extra)
<1>1. /\ copied' = Append(copied, r) /\ r \in Copied
      /\ r.to = cbCode /\ r.size \in 1..19
      /\ r.leads = r.meant <=> ~r.cut
      /\ ~r.cut => r.size = i.len + extra
  BY NewCopyFacts
<1>2. /\ cbCode' = cbCode + i.len + extra
      /\ extra \in {-3, 0, 2, 3, 4} /\ i.len \in 1..15 /\ cbCode \in Int
  BY CopyStep, ExtraFacts DEF CopyMade, SizeInv
<1> HIDE DEF r, extra
<1>3. /\ copied \in Seq(Copied) /\ n \in Nat /\ DOMAIN copied = 1..n
      /\ \A k \in 1..n : Leads(k)
  BY LenProperties DEF LeadsInv
<1> HIDE DEF n
<1>4. /\ copied' \in Seq(Copied) /\ Len(copied') = n + 1 /\ DOMAIN copied' = 1..(n + 1)
      /\ \A k \in 1..n : copied'[k] = copied[k]
      /\ copied'[n + 1] = r
  BY <1>1, <1>3, AppendFacts DEF n
<1>5. ASSUME NEW k \in 1..(n + 1) PROVE Leads(k)'
  <2>1. CASE k = n + 1
    <3>1. copied'[k] = r /\ Following(k)' = cbCode'
      BY <1>3, <1>4, <2>1 DEF Following
    <3>2. ~r.cut => r.to + r.size = cbCode'
      <4>1. r.to = cbCode /\ (~r.cut => r.size = i.len + extra)
        BY <1>1
      <4>2. i.len \in Int /\ extra \in Int
        BY <1>2
      <4>3. cbCode + (i.len + extra) = cbCode + i.len + extra
        BY <1>2, <4>2
      <4>4. QED
        BY <1>2, <4>1, <4>3
    <3>3. QED
      BY <1>1, <3>1, <3>2 DEF Leads
  <2>2. CASE k \in 1..n
    <3>1. Leads(k) /\ copied'[k] = copied[k]
      BY <1>3, <1>4, <2>2
    <3>2. Following(k)' = Following(k)
      <4>1. CASE k = n
        BY <1>1, <1>3, <1>4, <4>1 DEF Following, n
      <4>2. CASE k < n
        <5>1. k + 1 \in 1..n /\ k < n + 1
          BY <1>3, <2>2, <4>2
        <5>2. QED
          BY <1>4, <4>2, <5>1 DEF Following, n
      <4>3. QED
        BY <1>3, <2>2, <4>1, <4>2
    <3>3. QED
      BY <3>1, <3>2 DEF Leads
  <2>3. QED
    BY <1>3, <2>1, <2>2
<1>6. QED
  BY <1>4, <1>5 DEF LeadsInv

\* What is overwritten stays so.
LEMMA OverwrittenStep ==
    ASSUME SizeInv, LeadsInv, NoneOverwritten',
           NEW i \in Instr, NEW offset \in Offsets, Copy(i, offset)
    PROVE  NoneOverwritten /\ Extra(i, FromTrampoline(offset)) >= 0
<1> DEFINE n == Len(copied)
           extra == Extra(i, FromTrampoline(offset))
           r == NewCopy(i, offset, extra)
<1>1. /\ copied' = Append(copied, r) /\ r \in Copied
      /\ r.to = cbCode /\ r.size \in 1..19
      /\ extra < 0 => r.size = i.len
  BY NewCopyFacts
<1>2. /\ cbCode' = cbCode + i.len + extra
      /\ extra \in {-3, 0, 2, 3, 4} /\ i.len \in 1..15 /\ cbCode \in Int
  BY CopyStep, ExtraFacts DEF CopyMade, SizeInv
<1> HIDE DEF r, extra
<1>3. copied \in Seq(Copied) /\ n \in Nat /\ DOMAIN copied = 1..n
  BY LenProperties DEF LeadsInv
<1> HIDE DEF n
<1>4. /\ Len(copied') = n + 1 /\ DOMAIN copied' = 1..(n + 1)
      /\ \A k \in 1..n : copied'[k] = copied[k]
      /\ copied'[n + 1] = r
  BY <1>1, <1>3, AppendFacts DEF n
<1>5. \A k \in 1..(n + 1) : copied'[k].to + copied'[k].size
          <= IF k < n + 1 THEN copied'[k + 1].to ELSE cbCode'
  BY <1>4 DEF NoneOverwritten, Following
<1>6. extra >= 0
  <2>1. ~(n + 1 < n + 1) /\ n + 1 \in 1..(n + 1)
    BY <1>3
  <2>2. r.to + r.size <= cbCode'
    BY <1>4, <1>5, <2>1
  <2>3. \A x, y, z \in Int : x + y <= x + y + z => z >= 0
    OBVIOUS
  <2>4. extra < 0 => cbCode + i.len <= cbCode + i.len + extra
    BY <1>1, <1>2, <2>2
  <2>5. cbCode \in Int /\ i.len \in Int /\ extra \in Int
    BY <1>2
  <2>6. extra < 0 => extra >= 0
    BY <2>3, <2>4, <2>5
  <2>7. QED
    BY <2>5, <2>6
<1>7. ASSUME NEW k \in 1..n PROVE copied[k].to + copied[k].size <= Following(k)
  <2>1. copied'[k] = copied[k] /\ k \in 1..(n + 1)
    BY <1>3, <1>4
  <2>2. copied[k].to + copied[k].size <= copied'[k + 1].to /\ k < n + 1
    BY <1>3, <1>5, <2>1
  <2>3. Following(k) = copied'[k + 1].to
    <3>1. CASE k = n
      BY <1>1, <1>3, <1>4, <3>1 DEF Following, n
    <3>2. CASE k < n
      <4>1. k + 1 \in 1..n
        BY <1>3, <3>2
      <4>2. QED
        BY <1>4, <3>2, <4>1 DEF Following, n
    <3>3. QED
      BY <1>3, <3>1, <3>2
  <2>4. QED
    BY <2>2, <2>3
<1>8. QED
  BY <1>3, <1>6, <1>7 DEF NoneOverwritten, extra

LEMMA CopiesStep ==
    ASSUME ShortJumps, SizeInv, CopiesInv, SizeInv',
           NEW i \in Instr, NEW offset \in Offsets, Copy(i, offset),
           Extra(i, FromTrampoline(offset)) >= 0
    PROVE  CopiesInv'
<1> DEFINE n == Len(copied)
           extra == Extra(i, FromTrampoline(offset))
           end == cbCode + i.len + extra
           r == NewCopy(i, offset, extra)
           a == Aligned(i, extra)
<1>1. /\ cbTarget \in 0..4 /\ stage = "copying"
      /\ cbTarget' = cbTarget + i.len /\ cbCode' = end /\ stage' \in {"copying", "filling"}
      /\ extra \in {0, 2, 3, 4} /\ i.len \in 1..15
      /\ offset \in Int /\ FromTrampoline(offset) \in Int
  <2>1. extra \in {0, 2, 3, 4} /\ i.len \in 1..15
    BY CopyStep, ExtraFacts
  <2>2. QED
    BY <2>1, CopyStep DEF CopyMade, SizeInv, SizeOfJmp
<1>2. r.from = cbTarget /\ r.to = cbCode /\ r.size \in 1..19 /\ r.size <= i.len + extra
  BY NewCopyFacts
<1>4. r \in Copied
  BY NewCopyFacts
<1>5. copied' = Append(copied, r) /\ rAlign' = Append(rAlign, a)
  BY NewCopyFacts
<1>6. /\ copied \in Seq(Copied) /\ rAlign \in Seq([obTarget : 0..7, obTrampoline : 0..31])
      /\ Len(rAlign) = n /\ n \in Nat /\ DOMAIN copied = 1..n
      /\ n <= 5 /\ n <= cbTarget
      /\ \A k \in 1..n : CopyGood(k) /\ (k < n => Follows(k))
      /\ n > 0 => IsLast(n)
  BY <1>1, LenProperties DEF CopiesInv
<1> HIDE DEF n
<1>7. cbCode \in 0..12 /\ \A k \in 1..n : copied[k].from < cbTarget /\ copied[k].to < cbCode
  <2>1. cbCode <= 12
    BY <1>1 DEF SizeInv, SizeOfJmp
  <2>2. CASE n = 0
    BY <1>6, <2>1, <2>2 DEF CopiesInv, SizeInv, n
  <2>3. CASE n # 0
    <3>1. n \in 1..n
      BY <1>6, <2>3
    <3>2. CopyGood(n)
      BY <1>6, <3>1
    <3>3. copied[n].to \in Nat /\ copied[n].to < cbCode
      <4>1. rAlign[n].obTrampoline = cbCode
        BY <1>6, <3>1 DEF IsLast
      <4>2. /\ copied[n].to \in 0..12 /\ copied[n].size \in Nat \ {0}
            /\ rAlign[n].obTrampoline >= copied[n].to + copied[n].size
        BY <3>2 DEF CopyGood
      <4>3. \A x \in 0..12, y \in Nat \ {0}, z \in Int : z >= x + y => x < z
        OBVIOUS
      <4>4. cbCode \in Int
        BY DEF SizeInv
      <4>5. QED
        BY <4>1, <4>2, <4>3, <4>4
    <3>4. ASSUME NEW k \in 1..n PROVE copied[k].from < cbTarget /\ copied[k].to < cbCode
      <4>1. CopyGood(k)
        BY <1>6
      <4>2. copied[k].from < cbTarget /\ copied[k].to \in Nat
        BY <1>1, <4>1 DEF CopyGood
      <4>3. CASE k = n
        BY <3>3, <4>2, <4>3
      <4>4. CASE k < n
        <5>1. copied[k].to < copied[n].to
          BY <1>6, <3>1, <4>4 DEF CopiesInv
        <5>2. QED
          BY <3>3, <4>2, <5>1 DEF SizeInv
      <4>5. QED
        BY <1>6, <4>3, <4>4
    <3>5. QED
      BY <2>1, <3>3, <3>4 DEF SizeInv
  <2>4. QED
    BY <2>2, <2>3
<1>8. /\ a.obTarget \in 0..7 /\ a.obTrampoline = end
      /\ a \in [obTarget : 0..7, obTrampoline : 0..31]
      /\ cbTarget + i.len < SizeOfJmp => a.obTarget = cbTarget + i.len
  <2>1. end \in 0..27
    BY <1>1, <1>7 DEF SizeInv
  <2>2. end % 32 = end
    BY <2>1
  <2>3. (cbTarget + i.len) % 8 \in 0..7
    BY <1>1
  <2>4. cbTarget + i.len < 5 => (cbTarget + i.len) % 8 = cbTarget + i.len
    BY <1>1
  <2>5. a = [obTarget |-> (cbTarget + i.len) % 8, obTrampoline |-> end % 32]
    BY DEF Aligned
  <2> HIDE DEF a
  <2>6. QED
    BY <2>1, <2>2, <2>3, <2>4, <2>5 DEF SizeOfJmp
<1>9a. end = cbCode + (i.len + extra)
  BY <1>1 DEF SizeInv
<1> HIDE DEF r, a, extra, end
<1>9. /\ copied' \in Seq(Copied) /\ Len(copied') = n + 1 /\ DOMAIN copied' = 1..(n + 1)
      /\ \A k \in 1..n : copied'[k] = copied[k]
      /\ copied'[n + 1] = r
  BY <1>4, <1>5, <1>6, AppendFacts
<1>10. /\ rAlign' \in Seq([obTarget : 0..7, obTrampoline : 0..31]) /\ Len(rAlign') = n + 1
       /\ \A k \in 1..n : rAlign'[k] = rAlign[k]
       /\ rAlign'[n + 1] = a
  BY <1>5, <1>6, <1>8, AppendFacts
<1>11. ASSUME NEW k \in 1..(n + 1) PROVE CopyGood(k)' /\ (k < n + 1 => Follows(k)')
  <2>1. CASE k = n + 1
    <3>1. k = 1 => cbTarget = 0 /\ cbCode = 0
      BY <1>1, <1>6, <2>1 DEF CopiesInv, n
    <3>2. stage' = "copying" => cbTarget < cbTarget'
      BY <1>1
    <3>3. copied'[k] = r /\ rAlign'[k] = a
      BY <1>9, <1>10, <2>1
    <3>4. cbCode + r.size <= end
      <4>1. \A x, y, z \in Int : y <= z => x + y <= x + z
        OBVIOUS
      <4>2. cbCode \in Int /\ r.size \in Int /\ i.len + extra \in Int
        BY <1>1, <1>2, <1>7
      <4>3. QED
        BY <1>2, <1>9a, <4>1, <4>2
    <3>5. CopyGood(k)'
      BY <1>1, <1>2, <1>7, <1>8, <3>1, <3>2, <3>3, <3>4 DEF CopyGood
    <3>6. QED
      BY <1>6, <2>1, <3>5
  <2>2. CASE k \in 1..n
    <3>1. CopyGood(k) /\ copied'[k] = copied[k] /\ rAlign'[k] = rAlign[k]
      BY <1>6, <1>9, <1>10, <2>2
    <3>2. cbTarget < cbTarget'
      BY <1>1
    <3>3. CopyGood(k)'
      BY <1>1, <1>7, <2>2, <3>1, <3>2 DEF CopyGood
    <3>4. Follows(k)'
      <4>1. CASE k = n
        <5>1. IsLast(n) /\ copied'[k + 1] = r /\ n > 0
          BY <1>6, <1>9, <2>2, <4>1
        <5>2. cbTarget < SizeOfJmp
          BY <1>1 DEF SizeOfJmp
        <5>3. QED
          BY <1>1, <1>2, <3>1, <4>1, <5>1, <5>2 DEF IsLast, Follows, CopyGood
      <4>2. CASE k < n
        <5>1. copied'[k + 1] = copied[k + 1] /\ Follows(k)
          BY <1>6, <1>9, <2>2, <4>2
        <5>2. QED
          BY <3>1, <5>1 DEF Follows
      <4>3. QED
        BY <1>6, <2>2, <4>1, <4>2
    <3>5. QED
      BY <3>3, <3>4
  <2>3. QED
    BY <1>6, <2>1, <2>2
<1>12. ASSUME NEW j \in 1..(n + 1), NEW k \in 1..(n + 1), j < k
       PROVE  copied'[j].from < copied'[k].from /\ copied'[j].to < copied'[k].to
  <2>1. j \in 1..n /\ copied'[j] = copied[j]
    BY <1>6, <1>9, <1>12
  <2>2. CASE k = n + 1
    BY <1>2, <1>7, <1>9, <2>1, <2>2
  <2>3. CASE k \in 1..n
    BY <1>6, <1>9, <1>12, <2>1, <2>3 DEF CopiesInv
  <2>4. QED
    BY <1>6, <2>2, <2>3
<1>13. ASSUME NEW k, k = n + 1 PROVE IsLast(k)'
  <2>1. rAlign'[n + 1].obTrampoline = cbCode'
    BY <1>1, <1>8, <1>10
  <2>2. cbTarget' < SizeOfJmp => rAlign'[n + 1].obTarget = cbTarget'
    BY <1>1, <1>8, <1>10
  <2>3. QED
    BY <1>13, <2>1, <2>2 DEF IsLast
<1>14. n + 1 <= 5 /\ n + 1 <= cbTarget' /\ n + 1 > 0
  <2>1. n \in Nat /\ n <= cbTarget
    BY <1>6
  <2>2. cbTarget \in 0..4 /\ cbTarget' = cbTarget + i.len /\ i.len \in 1..15
    BY <1>1
  <2>3. QED
    BY <2>1, <2>2
<1>15. IsLast(Len(copied))'
  BY <1>9, <1>13 DEF IsLast
<1>16. \A k \in DOMAIN copied' : CopyGood(k)' /\ (k < Len(copied') => Follows(k)')
  BY <1>9, <1>11
<1>17. \A j, k \in DOMAIN copied' :
          j < k => copied'[j].from < copied'[k].from /\ copied'[j].to < copied'[k].to
  BY <1>9, <1>12
<1>18. Len(copied') <= 5 /\ Len(copied') <= cbTarget' /\ Len(copied') # 0
       /\ Len(rAlign') = Len(copied')
  BY <1>9, <1>10, <1>14
<1>19. QED
  BY <1>9, <1>10, <1>15, <1>16, <1>17, <1>18 DEF CopiesInv

LEMMA PrologueStep ==
    ASSUME ShortJumps, PrologueInv, [PrologueNext]_prologue_vars
    PROVE  PrologueInv'
<1>1. SizeInv /\ SizeInv' /\ LeadsInv
  BY SizeStep DEF PrologueInv
<1>2. ASSUME CopiesInv, UNCHANGED <<copied, rAlign, cbCode>>, stage' # "copying",
             stage' # stage \/ cbTarget = cbTarget' \/ stage = "filling"
      PROVE  CopiesInv'
  <2>1. \A k \in DOMAIN copied : CopyGood(k)' /\ (Follows(k) => Follows(k)')
    BY <1>2 DEF CopiesInv, CopyGood, Follows
  <2>2. QED
    BY <1>2, <2>1 DEF CopiesInv, IsLast
<1>3. ASSUME UNCHANGED <<copied, cbCode>>
      PROVE  LeadsInv' /\ (NoneOverwritten' => NoneOverwritten)
  BY <1>1, <1>3 DEF LeadsInv, Leads, Following, NoneOverwritten
<1>4. LeadsInv' /\ (NoneOverwritten' => CopiesInv')
  <2>1. ASSUME NEW i \in Instr, NEW offset \in Offsets, Copy(i, offset)
        PROVE  LeadsInv' /\ (NoneOverwritten' => CopiesInv')
    <3>1. LeadsInv'
      BY <1>1, <2>1, LeadsStep
    <3>2. ASSUME NoneOverwritten' PROVE CopiesInv'
      <4>1. NoneOverwritten /\ Extra(i, FromTrampoline(offset)) >= 0
        BY <1>1, <2>1, <3>2, OverwrittenStep
      <4>2. CopiesInv
        BY <4>1 DEF PrologueInv
      <4>3. QED
        BY <1>1, <2>1, <4>1, <4>2, CopiesStep
    <3>3. QED
      BY <3>1, <3>2
  <2>2. ASSUME NEW c \in Fillers, Fill(c)
        PROVE  LeadsInv' /\ (NoneOverwritten' => CopiesInv')
    BY <1>2, <1>3, <2>2 DEF Fill, PrologueInv
  <2>3. CASE Judge
    BY <1>2, <1>3, <2>3 DEF Judge, PrologueInv
  <2>4. CASE UNCHANGED prologue_vars
    <3>1. LeadsInv' /\ (NoneOverwritten' => NoneOverwritten)
      BY <1>3, <2>4 DEF prologue_vars
    <3>2. CopiesInv => CopiesInv'
      BY <2>4 DEF prologue_vars, CopiesInv, CopyGood, Follows, IsLast
    <3>3. QED
      BY <3>1, <3>2 DEF PrologueInv
  <2>5. QED
    BY <2>1, <2>2, <2>3, <2>4 DEF PrologueNext
<1>5. QED
  BY <1>1, <1>4 DEF PrologueInv

LEMMA PrologueInitInv == PrologueInit => PrologueInv
<1> SUFFICES ASSUME PrologueInit PROVE PrologueInv
  OBVIOUS
<1>1. /\ <<>> \in Seq(Copied) /\ <<>> \in Seq([obTarget : 0..7, obTrampoline : 0..31])
      /\ Len(<<>>) = 0 /\ DOMAIN <<>> = {}
  BY EmptySeq
<1>2. SizeInv
  BY DEF PrologueInit, SizeInv, SizeOfJmp
<1>3. CopiesInv /\ LeadsInv
  BY <1>1 DEF PrologueInit, CopiesInv, LeadsInv
<1>4. QED
  BY <1>2, <1>3 DEF PrologueInv

-----------------------------------------------------------------------------
(* The array of the alignments.                                            *)

LEMMA FirstIs ==
    ASSUME NEW hits, hits \subseteq 1..8, NEW c \in hits, \A m \in hits : c <= m
    PROVE  First(hits) = c
<1>1. \A n \in hits : (\A m \in hits : n <= m) => n = c
  BY DEF First
<1>2. QED
  BY <1>1 DEF First

\* What the entries say, with as many copies as there are.
LEMMA AlignFacts ==
    ASSUME CopiesInv, NEW n, n = Len(copied)
    PROVE  /\ n \in 0..5 /\ DOMAIN copied = 1..n
           /\ \A m \in 1..n : CopyGood(m) /\ (m < n => Follows(m)) /\ Align[m] = rAlign[m]
                              /\ rAlign[m].obTarget \in Nat
           /\ \A m \in (n + 1)..8 : Align[m] = [obTarget |-> 0, obTrampoline |-> 0]
           /\ DOMAIN rAlign = 1..n
<1>1. /\ n \in Nat /\ DOMAIN copied = 1..n /\ DOMAIN rAlign = 1..n
      /\ \A m \in 1..n : rAlign[m] \in [obTarget : 0..7, obTrampoline : 0..31]
  BY LenProperties, ElementOfSeq DEF CopiesInv
<1>2. n <= 5 /\ n \in Nat
  BY <1>1 DEF CopiesInv
<1>3. \A m \in 1..n : Align[m] = rAlign[m]
  BY <1>1, <1>2 DEF Align
<1>4. \A m \in (n + 1)..8 : Align[m] = [obTarget |-> 0, obTrampoline |-> 0]
  BY <1>1, <1>2 DEF Align
<1>5. \A m \in 1..n : CopyGood(m) /\ (m < n => Follows(m))
  BY <1>1 DEF CopiesInv
<1>6. n \in 0..5
  BY SMTT(30), <1>2
<1>7. \A m \in 1..n : rAlign[m].obTarget \in Nat
  BY <1>1
<1>8. QED
  BY <1>1, <1>3, <1>4, <1>5, <1>6, <1>7

LEMMA Aligns ==
    ASSUME CopiesInv, NEW k \in DOMAIN copied
    PROVE  /\ k > 1 \/ StartKnown => detour_align_from_target(copied[k].from) = copied[k].to
           /\ detour_align_from_trampoline(copied[k].to) = copied[k].from
<1>0. PICK n : n = Len(copied)
  OBVIOUS
<1>1. /\ n \in 0..5 /\ DOMAIN copied = 1..n
      /\ \A m \in 1..n : CopyGood(m) /\ (m < n => Follows(m)) /\ Align[m] = rAlign[m]
                         /\ rAlign[m].obTarget \in Nat
      /\ \A m \in (n + 1)..8 : Align[m] = [obTarget |-> 0, obTrampoline |-> 0]
      /\ DOMAIN rAlign = 1..n
  BY <1>0, AlignFacts
<1>2. k \in 1..n
  BY <1>1
<1> DEFINE targets == {m \in 1..8 : Align[m].obTarget = copied[k].from}
           tramps == {m \in 1..8 : Align[m].obTrampoline = copied[k].to}
<1>3. CASE k > 1
  <2>1. k - 1 \in 1..n /\ k - 1 < n /\ k - 1 \in 1..8
    BY <1>1, <1>2, <1>3
  <2>2. /\ Align[k - 1].obTarget = copied[k].from
        /\ Align[k - 1].obTrampoline = copied[k].to
    <3>1. Follows(k - 1) /\ CopyGood(k - 1) /\ Align[k - 1] = rAlign[k - 1] /\ (k - 1) + 1 = k
      BY <1>1, <2>1
    <3>2. QED
      BY <3>1 DEF Follows, CopyGood
  <2>3. ASSUME NEW m \in 1..8, m < k - 1
        PROVE  /\ Align[m].obTarget # copied[k].from
               /\ Align[m].obTrampoline # copied[k].to
    <3>1. m \in 1..n /\ m < n /\ m + 1 \in 1..n /\ m + 1 < k
      BY <1>1, <1>2, <2>3
    <3>2. copied[m + 1].from < copied[k].from /\ copied[m + 1].to < copied[k].to
      BY <1>1, <1>2, <3>1 DEF CopiesInv
    <3>3. Align[m].obTarget = copied[m + 1].from /\ Align[m].obTrampoline = copied[m + 1].to
      BY <1>1, <3>1 DEF Follows, CopyGood
    <3>4. /\ copied[m + 1].from \in Nat /\ copied[m + 1].to \in Nat
          /\ copied[k].from \in Nat /\ copied[k].to \in Nat
      <4>1. CopyGood(m + 1) /\ CopyGood(k)
        BY <1>1, <1>2, <3>1
      <4>2. QED
        BY <4>1 DEF CopyGood
    <3>5. QED
      BY <3>2, <3>3, <3>4
  <2>4. First(targets) = k - 1 /\ First(tramps) = k - 1
    <3>1. k - 1 \in targets /\ k - 1 \in tramps
      BY <2>1, <2>2
    <3>2. \A m \in targets : k - 1 <= m
      BY <1>2, <2>3
    <3>3. \A m \in tramps : k - 1 <= m
      BY <1>2, <2>3
    <3>4. targets \subseteq 1..8 /\ tramps \subseteq 1..8
      OBVIOUS
    <3> HIDE DEF targets, tramps
    <3>5. QED
      BY <3>1, <3>2, <3>3, <3>4, FirstIs
  <2>5. targets # {} /\ tramps # {}
    BY <2>1, <2>2
  <2>6. QED
    BY <2>2, <2>4, <2>5 DEF detour_align_from_target, detour_align_from_trampoline
<1>4. CASE k = 1
  <2>1. copied[k].from = 0 /\ copied[k].to = 0
    BY <1>1, <1>2, <1>4 DEF CopyGood
  <2>2. /\ n + 1 \in 1..8 /\ n + 1 \in (n + 1)..8
        /\ Align[n + 1] = [obTarget |-> 0, obTrampoline |-> 0]
    <3>1. n \in 0..5
      BY <1>1
    <3>2. n + 1 \in 1..8 /\ n + 1 \in (n + 1)..8
      BY <3>1
    <3>3. QED
      BY <1>1, <3>2
  <2>3. ASSUME NEW m \in 1..8, m < n + 1
        PROVE  Align[m].obTrampoline # 0 /\ (StartKnown => Align[m].obTarget # 0)
    <3>1. m \in 1..n /\ CopyGood(m) /\ Align[m] = rAlign[m]
      BY <1>1, <2>3
    <3>2. rAlign[m].obTrampoline # 0
      <4>1. /\ rAlign[m].obTrampoline >= copied[m].to + copied[m].size
            /\ copied[m].to \in 0..12 /\ copied[m].size \in Nat \ {0}
        BY <3>1 DEF CopyGood
      <4>2. QED
        BY <4>1
    <3>3. QED
      BY <1>1, <3>1, <3>2 DEF StartKnown
  <2>4. First(tramps) = n + 1 /\ tramps # {}
    <3>1. n + 1 \in tramps /\ tramps \subseteq 1..8
      BY <2>1, <2>2
    <3>2. \A m \in tramps : n + 1 <= m
      BY <1>1, <2>1, <2>3
    <3> HIDE DEF targets, tramps
    <3>3. QED
      BY <3>1, <3>2, FirstIs
  <2>5. StartKnown => First(targets) = n + 1 /\ targets # {}
    <3>1. n + 1 \in targets /\ targets \subseteq 1..8
      BY <2>1, <2>2
    <3>2. StartKnown => \A m \in targets : n + 1 <= m
      BY <1>1, <2>1, <2>3
    <3> HIDE DEF targets, tramps
    <3>3. QED
      BY <3>1, <3>2, FirstIs
  <2>6. detour_align_from_trampoline(copied[k].to) = copied[k].from
    BY <2>1, <2>2, <2>4 DEF detour_align_from_trampoline
  <2>7. StartKnown => detour_align_from_target(copied[k].from) = copied[k].to
    BY <2>1, <2>2, <2>5 DEF detour_align_from_target
  <2>8. QED
    BY <1>4, <2>6, <2>7
<1>5. QED
  BY <1>1, <1>2, <1>3, <1>4

-----------------------------------------------------------------------------
(* The theorems about the moved code.                                      *)

\* The invariant of the loop that copies instructions until the jump has room
\* (detours.cpp:1951-2036).
THEOREM PrologueInvariant ==
    ASSUME ShortJumps
    PROVE  PrologueSpec => []PrologueInv
<1>1. PrologueInv /\ [PrologueNext]_prologue_vars => PrologueInv'
  BY PrologueStep
<1>2. QED
  BY <1>1, PrologueInitInv, PTL DEF PrologueSpec

\* However the first instructions of a function are made up, the moved code,
\* which may have grown, ends with the jump behind it before the copy of the
\* original, and that copy fits its 22 bytes (detours.cpp:111-122, 2014-2020).
THEOREM MovedCodeFits ==
    ASSUME ShortJumps, SizeOfCode >= 30
    PROVE  PrologueSpec => []CodeFits
<1>1. PrologueInv => CodeFits
  BY PrologueAssumptions DEF PrologueInv, SizeInv, CodeFits, SizeOfJmp
<1>2. QED
  BY <1>1, PrologueInvariant, PTL

\* Wherever the trampoline lies and whatever the offsets are, a moved instruction
\* leads where the original does, and the next copy begins behind it, exactly
\* where the program does not tell that an offset was cut: that of a loop, or
\* one of 16 bits, which no longer reaches its target from the trampoline
\* (disasm.cpp:155-158, 445-447, 475-565).
THEOREM TargetsStayConstant ==
    ASSUME ShortJumps
    PROVE  PrologueSpec => []TargetsConstant
<1>1. PrologueInv => TargetsConstant
  BY DEF PrologueInv, LeadsInv, Leads, TargetsConstant
<1>2. QED
  BY <1>1, PrologueInvariant, PTL

\* A suspended thread is moved to the copy of the instruction it had reached,
\* and back, although the array keeps three bits of one offset and five of the
\* other: before the jump has room all offsets are small, and the entries are
\* searched from the first.  Where a loop out of reach has been overwritten
\* nothing is claimed (detours.cpp:41-45, 1448-1466, 1651-1664).
THEOREM ThreadsStayAligned ==
    ASSUME ShortJumps
    PROVE  PrologueSpec => []ThreadsAligned
<1>1. PrologueInv => ThreadsAligned
  BY Aligns DEF PrologueInv, ThreadsAligned
<1>2. QED
  BY <1>1, PrologueInvariant, PTL

-----------------------------------------------------------------------------
(* Transactions: the inductive invariant.                                  *)

Noting == [remove : BOOLEAN, func : Func, slot : Slot, perm : {"rx", "rwx"}]

DetoursTypes ==
    /\ owner \in Thread \union {Nobody} /\ error \in BOOLEAN
    /\ ops \in Seq(Noting) /\ enlisted \subseteq Thread
    /\ regions \subseteq Region /\ free \in [Region -> Seq(2..(PerRegion - 1))]
    /\ slots \in [Slot -> [func : Func \union {EntryPoint}, detour : Detour \union {Own},
                           saved : {Own}]]
    /\ code \in [Func -> Detour \union {Own}]
    /\ pointer \in [Func -> Slot \union {EntryPoint}]
    /\ prot \in [Page -> {"rx", "rwx"}]
    /\ DOMAIN place = Thread

\* Without an owner nothing is pending.
IdleInv == owner = Nobody => ops = <<>> /\ enlisted = {} /\ writable \subseteq unprotected

\* No two operations are on one function; one that removes has the trampoline
\* of the pointer, one that attaches has filled a trampoline.
OpGood(op) ==
    IF op.remove THEN pointer[op.func] = op.slot
    ELSE /\ pointer[op.func] = EntryPoint
         /\ \E d \in Detour : slots[op.slot] = [func |-> op.func, detour |-> d, saved |-> Own]

OpsInv ==
    /\ \A i, j \in DOMAIN ops : ops[i].func = ops[j].func => i = j
    /\ \A i \in DOMAIN ops : OpGood(ops[i])

\* The earliest operation on a page, the last of the list, saved its protection;
\* of a page whose protection the system once kept nothing is claimed.
OnPage(i, p) == PageOf[ops[i].func] = p

PagesInv ==
    \A p \in Page \ unprotected :
       /\ (\A i \in DOMAIN ops : ~OnPage(i, p)) => prot[p] = "rx"
       /\ \A i \in DOMAIN ops :
             OnPage(i, p) /\ (\A j \in DOMAIN ops : OnPage(j, p) => j <= i) => ops[i].perm = "rx"

\* A thread is in a function that has its own code, or in the first bytes of a
\* trampoline that a pointer leads to, or behind them in any.
PlaceGood(at) ==
    \/ at = Away
    \/ \E f \in Func, ph \in {"start", "early", "late"} : at = <<"func", f, ph>> /\ code[f] = Own
    \/ \E s \in Slot, ph \in {"start", "early", "late", "back"} :
          /\ at = <<"slot", s, ph>>
          /\ ph \in {"start", "early"} => \E f \in Func : pointer[f] = s

PlacesInv == \A t \in Thread \ unmoved : PlaceGood(place[t])

UsedInv == \A s \in Used : s[2] \in 2..(PerRegion - 1)

DetoursInv ==
    /\ DetoursTypes /\ IdleInv /\ OpsInv /\ PagesInv /\ PlacesInv /\ UsedInv
    /\ OriginalReached /\ TrampolinesAccounted

LEMMA DetoursInitInv == DetoursInit => DetoursInv
<1> SUFFICES ASSUME DetoursInit PROVE DetoursInv
  OBVIOUS
<1> USE DetoursAssumptions DEF DetoursInit
<1>1. DetoursTypes
  <2>1. ops \in Seq(Noting) /\ <<>> \in Seq(2..(PerRegion - 1))
    BY EmptySeq
  <2>2. QED
    BY <2>1 DEF DetoursTypes, Unused
<1>2. DOMAIN ops = {} /\ Used = {}
  BY DEF Used
<1>3. IdleInv /\ OpsInv /\ PagesInv /\ UsedInv
  BY <1>2 DEF IdleInv, OpsInv, PagesInv, UsedInv
<1>4. PlacesInv
  BY DEF PlacesInv, PlaceGood
<1>5. OriginalReached
  BY DEF OriginalReached
<1>6. TrampolinesAccounted
  <2>1. {g \in Func : pointer[g] # EntryPoint} = {}
    OBVIOUS
  <2>2. QED
    BY <1>2, <2>1 DEF TrampolinesAccounted
<1>7. QED
  BY <1>1, <1>3, <1>4, <1>5, <1>6 DEF DetoursInv

-----------------------------------------------------------------------------
(* Transactions: steps that change no function and no trampoline.          *)

LEMMA QuietStep ==
    ASSUME DetoursInv, DetoursTypes', IdleInv', PlacesInv',
           UNCHANGED <<ops, region_vars, code, pointer, prot, unprotected>>
    PROVE  DetoursInv'
<1>1. OpsInv'
  BY DEF DetoursInv, OpsInv, OpGood, region_vars
<1>2. PagesInv'
  BY DEF DetoursInv, PagesInv, OnPage
<1>3. UsedInv' /\ TrampolinesAccounted' /\ OriginalReached'
  BY DEF DetoursInv, UsedInv, TrampolinesAccounted, OriginalReached, Used, region_vars
<1>4. QED
  BY <1>1, <1>2, <1>3 DEF DetoursInv

LEMMA BeginStep ==
    ASSUME DetoursInv, NEW t \in Thread,
           \/ Begin(t) \/ CommitReturn(t)
           \/ \E u \in Thread : UpdateThread(t, u)
    PROVE  DetoursInv'
<1>1. CASE Begin(t)
  <2>1. UNCHANGED <<ops, region_vars, code, pointer, prot, place, unprotected, unmoved>>
    BY <1>1 DEF Begin, DetoursInv, IdleInv, target_vars, refused_vars
  <2>2. DetoursTypes'
    BY <1>1, <2>1 DEF Begin, DetoursInv, DetoursTypes, region_vars
  <2>3. IdleInv'
    BY <1>1, DetoursAssumptions DEF Begin, IdleInv
  <2>4. PlacesInv'
    BY <2>1 DEF DetoursInv, PlacesInv, PlaceGood
  <2>5. QED
    BY <2>1, <2>2, <2>3, <2>4, QuietStep
<1>2. CASE CommitReturn(t)
  <2>1. UNCHANGED <<owner, error, ops, enlisted, region_vars, writable, code, pointer, prot, place,
                    unprotected, unmoved>>
    BY <1>2 DEF CommitReturn, target_vars, refused_vars
  <2>2. DetoursTypes' /\ IdleInv'
    BY <2>1 DEF DetoursInv, DetoursTypes, IdleInv, region_vars
  <2>3. PlacesInv'
    BY <2>1 DEF DetoursInv, PlacesInv, PlaceGood
  <2>4. QED
    BY <2>1, <2>2, <2>3, QuietStep
<1>3. ASSUME NEW u \in Thread, UpdateThread(t, u) PROVE DetoursInv'
  <2>1. UNCHANGED <<owner, ops, region_vars, writable, code, pointer, prot, place, unprotected,
                    unmoved>>
    BY <1>3 DEF UpdateThread, target_vars, refused_vars
  <2>2. DetoursTypes'
    BY <1>3, <2>1 DEF UpdateThread, DetoursInv, DetoursTypes, region_vars
  <2>3. IdleInv'
    BY <1>3, <2>1, DetoursAssumptions DEF UpdateThread, Calls, IdleInv
  <2>4. PlacesInv'
    BY <2>1 DEF DetoursInv, PlacesInv, PlaceGood
  <2>5. QED
    BY <2>1, <2>2, <2>3, <2>4, QuietStep
<1>4. QED
  BY <1>1, <1>2, <1>3

\* A thread goes on: into a function's own code or the trampoline its pointer
\* leads to, and through either.
LEMMA RunStep ==
    ASSUME DetoursInv, NEW t \in Thread, Run(t) PROVE DetoursInv'
<1>1. UNCHANGED <<owner, error, ops, enlisted, region_vars, writable, code, pointer, prot,
                  unprotected>>
  BY DEF Run
<1>2. PICK at : /\ place' = [place EXCEPT ![t] = at]
                /\ PlaceGood(place[t]) => PlaceGood(at)
                /\ unmoved' = unmoved \/ (unmoved' = unmoved \ {t} /\ PlaceGood(at))
  <2>1. CASE /\ place[t] = Away
             /\ \E f \in Func : place' = [place EXCEPT ![t] = IF code[f] = Own
                                              THEN <<"func", f, "start">>
                                              ELSE <<"slot", pointer[f], "start">>]
             /\ UNCHANGED unmoved
    <3>1. PICK f \in Func : place' = [place EXCEPT ![t] = IF code[f] = Own
                                              THEN <<"func", f, "start">>
                                              ELSE <<"slot", pointer[f], "start">>]
      BY <2>1
    <3>2. code[f] # Own => pointer[f] \in Slot
      BY DEF DetoursInv, OriginalReached
    <3>3. QED
      BY <2>1, <3>1, <3>2 DEF PlaceGood
  <2>2. ASSUME place[t] # Away, NEW i \in DOMAIN Parts, NEW j \in DOMAIN Parts, i < j,
               place[t][3] = Parts[i], Parts[j] = "back" => place[t][1] = "slot",
               place' = [place EXCEPT ![t] = <<place[t][1], place[t][2], Parts[j]>>],
               UNCHANGED unmoved
        PROVE  \E at : /\ place' = [place EXCEPT ![t] = at]
                       /\ PlaceGood(place[t]) => PlaceGood(at)
                       /\ unmoved' = unmoved \/ (unmoved' = unmoved \ {t} /\ PlaceGood(at))
    <3> DEFINE was == place[t]
               at == <<was[1], was[2], Parts[j]>>
    <3>1. place' = [place EXCEPT ![t] = at]
      BY <2>2
    <3>2. /\ was[3] = Parts[i] /\ was # Away
          /\ Parts[j] = "back" => was[1] = "slot"
      BY <2>2
    <3>3. /\ Parts[j] \in {"early", "late", "back"}
          /\ Parts[j] = "early" => Parts[i] = "start"
      BY <2>2 DEF Parts
    <3> HIDE DEF was
    <3>4. ASSUME NEW f \in Func, NEW ph \in {"start", "early", "late"}, was = <<"func", f, ph>>,
                 code[f] = Own
          PROVE  PlaceGood(at)
      <4>1. at = <<"func", f, Parts[j]>> /\ Parts[j] # "back"
        BY <3>2, <3>4
      <4>2. QED
        BY <3>3, <3>4, <4>1 DEF PlaceGood
    <3>5. ASSUME NEW s \in Slot, NEW ph \in {"start", "early", "late", "back"},
                 was = <<"slot", s, ph>>,
                 ph \in {"start", "early"} => \E f \in Func : pointer[f] = s
          PROVE  PlaceGood(at)
      <4>1. at = <<"slot", s, Parts[j]>> /\ (Parts[j] = "early" => ph = "start")
        BY <3>2, <3>3, <3>5
      <4>2. QED
        BY <3>3, <3>5, <4>1 DEF PlaceGood
    <3>6. PlaceGood(was) => PlaceGood(at)
      BY <3>2, <3>4, <3>5 DEF PlaceGood
    <3>7. was = place[t]
      BY DEF was
    <3> HIDE DEF at
    <3>8. QED
      BY <2>2, <3>1, <3>6, <3>7
  <2>3. CASE place' = [place EXCEPT ![t] = Away] /\ unmoved' = unmoved \ {t}
    BY <2>3 DEF PlaceGood
  <2>4. QED
    BY <2>1, <2>2, <2>3 DEF Run
<1>3. DetoursTypes' /\ IdleInv'
  BY <1>1, <1>2 DEF DetoursInv, DetoursTypes, IdleInv, region_vars
<1>4. PlacesInv'
  <2> SUFFICES ASSUME NEW u \in Thread, u \notin unmoved' PROVE PlaceGood(place[u])'
    BY DEF PlacesInv
  <2>1. place'[u] = IF u = t THEN at ELSE place[u]
    BY <1>2 DEF DetoursInv, DetoursTypes
  <2>2. PlaceGood(place'[u])
    <3>1. CASE u # t
      BY <1>2, <2>1, <3>1 DEF DetoursInv, PlacesInv
    <3>2. CASE u = t /\ PlaceGood(at)
      BY <2>1, <3>2
    <3>3. CASE u = t /\ unmoved' = unmoved
      <4>1. PlaceGood(place[t])
        BY <3>3 DEF DetoursInv, PlacesInv
      <4>2. QED
        BY <1>2, <2>1, <3>3, <4>1
    <3>4. QED
      BY <1>2, <3>1, <3>2, <3>3
  <2>3. QED
    BY <1>1, <2>2 DEF PlaceGood
<1>5. QED
  BY <1>1, <1>3, <1>4, QuietStep

-----------------------------------------------------------------------------
(* Transactions: notes.                                                    *)

\* What the free list of region r has to hold.
FreeGood(q, r, used) ==
    /\ q \in Seq(2..(PerRegion - 1)) /\ IsInjective(q)
    /\ ToSet(q) = {i \in 2..(PerRegion - 1) : <<r, i>> \notin used}

LEMMA FreeListGood ==
    ASSUME DetoursInv, NEW r \in Region PROVE FreeGood(FreeList(r), r, Used)
<1>1. CASE r \in regions
  BY <1>1 DEF DetoursInv, DetoursTypes, TrampolinesAccounted, FreeGood, FreeList
<1>2. CASE r \notin regions
  <2>1. PerRegion \in Nat /\ PerRegion - 2 \in Nat /\ Fresh = [i \in 1..(PerRegion - 2) |-> i + 1]
    BY DetoursAssumptions DEF Fresh
  <2>2. Fresh \in Seq(2..(PerRegion - 1))
    <3>1. \A i \in 1..(PerRegion - 2) : i + 1 \in 2..(PerRegion - 1)
      BY <2>1
    <3>2. QED
      BY <2>1, <3>1, IsASeq
  <2>3. IsInjective(Fresh)
    BY <2>1 DEF IsInjective
  <2>4. ASSUME NEW i \in 2..(PerRegion - 1) PROVE i \in ToSet(Fresh) /\ <<r, i>> \notin Used
    <3>1. i - 1 \in DOMAIN Fresh /\ Fresh[i - 1] = i
      BY <2>1
    <3>2. QED
      BY <1>2, <3>1 DEF ToSet, DetoursInv, TrampolinesAccounted
  <2>5. ToSet(Fresh) \subseteq 2..(PerRegion - 1)
    BY <2>1 DEF ToSet
  <2>6. QED
    BY <1>2, <2>2, <2>3, <2>4, <2>5 DEF FreeGood, FreeList
<1>3. QED
  BY <1>1, <1>2

\* The first of the list is taken.
LEMMA HeadTaken ==
    ASSUME NEW r, NEW used, NEW q, FreeGood(q, r, used), q # <<>>
    PROVE  /\ Head(q) \in 2..(PerRegion - 1) /\ <<r, Head(q)>> \notin used
           /\ FreeGood(Tail(q), r, used \union {<<r, Head(q)>>})
<1>1. /\ q \in Seq(2..(PerRegion - 1)) /\ Len(q) \in Nat \ {0} /\ DOMAIN q = 1..Len(q)
      /\ Head(q) = q[1]
      /\ Tail(q) \in Seq(2..(PerRegion - 1))
      /\ DOMAIN Tail(q) = 1..(Len(q) - 1)
      /\ \A i \in 1..(Len(q) - 1) : Tail(q)[i] = q[i + 1]
  BY EmptySeq, LenProperties, HeadTailProperties DEF FreeGood
<1>2. Head(q) \in ToSet(q)
  BY <1>1 DEF ToSet
<1>3. IsInjective(Tail(q))
  BY <1>1 DEF FreeGood, IsInjective
<1>4. ToSet(Tail(q)) = ToSet(q) \ {Head(q)}
  <2>1. ASSUME NEW i \in DOMAIN Tail(q) PROVE Tail(q)[i] \in ToSet(q) \ {Head(q)}
    <3>1. i + 1 \in DOMAIN q /\ Tail(q)[i] = q[i + 1] /\ i + 1 # 1 /\ 1 \in DOMAIN q
      BY <1>1
    <3>2. QED
      BY <1>1, <3>1 DEF ToSet, FreeGood, IsInjective
  <2>2. ASSUME NEW i \in DOMAIN q, q[i] # Head(q) PROVE q[i] \in ToSet(Tail(q))
    <3>1. i - 1 \in DOMAIN Tail(q) /\ Tail(q)[i - 1] = q[i]
      BY <1>1, <2>2
    <3>2. QED
      BY <3>1 DEF ToSet
  <2>3. QED
    BY <2>1, <2>2 DEF ToSet
<1>5. QED
  BY <1>1, <1>2, <1>3, <1>4 DEF FreeGood

\* An operation that is noted comes before the others.
LEMMA Prepended ==
    ASSUME NEW S, NEW q \in Seq(S), NEW op \in S
    PROVE  LET new == <<op>> \o q
           IN  /\ new \in Seq(S)
               /\ DOMAIN new = 1..(Len(q) + 1) /\ DOMAIN q = 1..Len(q) /\ Len(q) \in Nat
               /\ new[1] = op
               /\ \A i \in DOMAIN q : new[i + 1] = q[i]
               /\ \A i \in DOMAIN new : i # 1 => i - 1 \in DOMAIN q /\ new[i] = q[i - 1]
<1>1. <<op>> \in Seq(S) /\ Len(<<op>>) = 1 /\ <<op>>[1] = op
  BY IsASeq
<1>2. Len(q) \in Nat /\ DOMAIN q = 1..Len(q)
  BY LenProperties
<1> DEFINE new == <<op>> \o q
<1>3. /\ new \in Seq(S) /\ Len(new) = Len(q) + 1
      /\ \A i \in 1..(Len(q) + 1) : new[i] = IF i <= 1 THEN <<op>>[i] ELSE q[i - 1]
  BY <1>1, <1>2, ConcatProperties
<1> HIDE DEF new
<1>4. DOMAIN new = 1..(Len(q) + 1)
  BY <1>3, LenProperties
<1>5. QED
  BY <1>1, <1>2, <1>3, <1>4 DEF new

\* The page of an operation's function is made writable, and what it was is
\* noted.
LEMMA NoteStep ==
    ASSUME DetoursInv, NEW f \in Func, ~Noted(f), NEW op \in Noting,
           Note(op), op.func = f, op.perm = prot[PageOf[f]],
           prot' = [prot EXCEPT ![PageOf[f]] = "rwx"],
           UNCHANGED <<pointer, unprotected>>, OpGood(op)',
           \A i \in DOMAIN ops, o \in Noting : o = ops[i] => OpGood(o)'
    PROVE  /\ ops' \in Seq(Noting) /\ prot' \in [Page -> {"rx", "rwx"}]
           /\ OpsInv' /\ PagesInv'
           /\ {ops'[i].slot : i \in DOMAIN ops'} = {ops[i].slot : i \in DOMAIN ops} \union {op.slot}
<1>1. ops \in Seq(Noting) /\ ops' = <<op>> \o ops
  BY DEF DetoursInv, DetoursTypes, Note
<1>2. /\ ops' \in Seq(Noting)
      /\ DOMAIN ops' = 1..(Len(ops) + 1) /\ DOMAIN ops = 1..Len(ops) /\ Len(ops) \in Nat
      /\ ops'[1] = op
      /\ \A i \in DOMAIN ops : ops'[i + 1] = ops[i]
      /\ \A i \in DOMAIN ops' : i # 1 => i - 1 \in DOMAIN ops /\ ops'[i] = ops[i - 1]
  BY <1>1, Prepended
<1>3. OpsInv'
  <2>1. ASSUME NEW i \in DOMAIN ops', NEW o \in Noting, o = ops'[i] PROVE OpGood(o)'
    <3>1. CASE i = 1
      BY <1>2, <2>1, <3>1
    <3>2. CASE i # 1
      BY <1>2, <2>1, <3>2
    <3>3. QED
      BY <3>1, <3>2
  <2>2. \A i \in DOMAIN ops' : ops'[i] \in Noting
    BY <1>2, ElementOfSeq, LenProperties
  <2>3. ASSUME NEW i \in DOMAIN ops', NEW j \in DOMAIN ops', ops'[i].func = ops'[j].func
        PROVE  i = j
    <3>1. CASE i = 1 /\ j # 1
      BY <1>2, <2>3, <3>1 DEF Noted
    <3>2. CASE i # 1 /\ j = 1
      BY <1>2, <2>3, <3>2 DEF Noted
    <3>3. CASE i # 1 /\ j # 1
      <4>1. i - 1 \in DOMAIN ops /\ j - 1 \in DOMAIN ops /\ i - 1 = j - 1
        BY <1>2, <2>3, <3>3 DEF DetoursInv, OpsInv
      <4>2. QED
        BY <1>2, <4>1
    <3>4. QED
      BY <3>1, <3>2, <3>3
  <2>4. \A i \in DOMAIN ops' : OpGood(ops[i])'
    BY <2>1, <2>2
  <2>5. QED
    BY <2>3, <2>4 DEF OpsInv
<1>4. PagesInv'
  <2> SUFFICES ASSUME NEW p \in Page, p \notin unprotected
               PROVE  /\ (\A i \in DOMAIN ops' : ~OnPage(i, p)') => prot'[p] = "rx"
                      /\ \A i \in DOMAIN ops' :
                            OnPage(i, p)' /\ (\A j \in DOMAIN ops' : OnPage(j, p)' => j <= i)
                               => ops'[i].perm = "rx"
    BY DEF PagesInv
  <2>1. prot'[p] = IF p = PageOf[f] THEN "rwx" ELSE prot[p]
    BY DEF DetoursInv, DetoursTypes
  <2>2. OnPage(1, p)' <=> PageOf[f] = p
    BY <1>2 DEF OnPage
  <2>3. \A i \in DOMAIN ops : OnPage(i + 1, p)' <=> OnPage(i, p)
    BY <1>2 DEF OnPage
  <2>4. 1 \in DOMAIN ops' /\ \A i \in DOMAIN ops : i + 1 \in DOMAIN ops'
    BY <1>2
  <2>5. ASSUME \A i \in DOMAIN ops' : ~OnPage(i, p)' PROVE prot'[p] = "rx"
    BY <2>1, <2>2, <2>3, <2>4, <2>5 DEF DetoursInv, PagesInv
  <2>6. ASSUME NEW i \in DOMAIN ops', OnPage(i, p)',
               \A j \in DOMAIN ops' : OnPage(j, p)' => j <= i
        PROVE  ops'[i].perm = "rx"
    <3>1. CASE i = 1
      <4>1. \A j \in DOMAIN ops : ~OnPage(j, p)
        BY <1>2, <2>3, <2>4, <2>6, <3>1
      <4>2. QED
        BY <1>2, <2>2, <2>6, <3>1, <4>1 DEF DetoursInv, PagesInv
    <3>2. CASE i # 1
      <4>1. i - 1 \in DOMAIN ops /\ ops'[i] = ops[i - 1]
        BY <1>2, <3>2
      <4>2. OnPage(i - 1, p)
        BY <2>6, <4>1 DEF OnPage
      <4>3. \A j \in DOMAIN ops : OnPage(j, p) => j <= i - 1
        BY <1>2, <2>3, <2>4, <2>6
      <4>4. QED
        BY <4>1, <4>2, <4>3 DEF DetoursInv, PagesInv
    <3>3. QED
      BY <3>1, <3>2
  <2>7. QED
    BY <2>5, <2>6
<1>5. {ops'[i].slot : i \in DOMAIN ops'} = {ops[i].slot : i \in DOMAIN ops} \union {op.slot}
  <2>1. 1 \in DOMAIN ops' /\ \A i \in DOMAIN ops : i + 1 \in DOMAIN ops'
    BY <1>2
  <2>2. \A i \in DOMAIN ops' : ops'[i].slot \in {ops[j].slot : j \in DOMAIN ops} \union {op.slot}
    BY <1>2
  <2>3. \A i \in DOMAIN ops : ops[i].slot \in {ops'[j].slot : j \in DOMAIN ops'}
    BY <1>2, <2>1
  <2>4. op.slot \in {ops'[j].slot : j \in DOMAIN ops'}
    BY <1>2, <2>1
  <2>5. QED
    BY <2>2, <2>3, <2>4
<1>6. prot' \in [Page -> {"rx", "rwx"}]
  BY DEF DetoursInv, DetoursTypes
<1>7. QED
  BY <1>2, <1>3, <1>4, <1>5, <1>6

LEMMA DetachStep ==
    ASSUME DetoursInv, NEW t \in Thread, NEW f \in Func, NEW d \in Detour, Detach(t, f, d)
    PROVE  DetoursInv'
<1>1. /\ ~Noted(f) /\ pointer[f] # EntryPoint /\ owner # Nobody
      /\ UNCHANGED <<owner, enlisted, regions, free, slots, writable, code, pointer, place,
                     unprotected, unmoved>>
  BY DetoursAssumptions DEF Detach, Calls, region_vars, target_vars, refused_vars
<1>2. IdleInv'
  BY <1>1 DEF IdleInv
<1>3. PlacesInv'
  BY <1>1 DEF DetoursInv, PlacesInv, PlaceGood
<1>4. CASE error' = TRUE /\ UNCHANGED <<ops, prot>>
  <2>1. DetoursTypes'
    BY <1>1, <1>4 DEF DetoursInv, DetoursTypes
  <2>2. QED
    BY <1>1, <1>2, <1>3, <1>4, <2>1, QuietStep DEF region_vars
<1>5. CASE /\ Note([remove |-> TRUE, func |-> f, slot |-> pointer[f], perm |-> prot[PageOf[f]]])
           /\ prot' = [prot EXCEPT ![PageOf[f]] = "rwx"]
           /\ UNCHANGED error
  <2>1. PICK op \in Noting :
           op = [remove |-> TRUE, func |-> f, slot |-> pointer[f], perm |-> prot[PageOf[f]]]
    BY <1>1 DEF DetoursInv, DetoursTypes, Noting, Page
  <2>2. OpGood(op)'
    BY <1>1, <2>1 DEF OpGood
  <2>3. \A i \in DOMAIN ops, o \in Noting : o = ops[i] => OpGood(o)'
    BY <1>1 DEF DetoursInv, OpsInv, OpGood
  <2>4. /\ ops' \in Seq(Noting) /\ prot' \in [Page -> {"rx", "rwx"}]
        /\ OpsInv' /\ PagesInv'
        /\ {ops'[i].slot : i \in DOMAIN ops'} = {ops[i].slot : i \in DOMAIN ops} \union {pointer[f]}
    <3>1. op.func = f /\ op.perm = prot[PageOf[f]] /\ op.slot = pointer[f] /\ Note(op)
      BY <1>5, <2>1
    <3>2. QED
      BY <1>1, <1>5, <2>2, <2>3, <3>1, NoteStep
  <2>5. DetoursTypes'
    BY <1>1, <1>5, <2>4 DEF DetoursInv, DetoursTypes
  <2>6. OriginalReached' /\ UsedInv'
    BY <1>1 DEF DetoursInv, OriginalReached, UsedInv, Used
  <2>7. TrampolinesAccounted'
    <3>1. Used' = Used /\ pointer[f] \in {pointer[g] : g \in {h \in Func : pointer[h] # EntryPoint}}
      BY <1>1 DEF Used
    <3>2. Used' = {pointer'[g] : g \in {h \in Func : pointer'[h] # EntryPoint}}
                   \union {ops'[i].slot : i \in DOMAIN ops'}
      BY <1>1, <2>4, <3>1 DEF DetoursInv, TrampolinesAccounted
    <3>3. QED
      BY <1>1, <3>1, <3>2 DEF DetoursInv, TrampolinesAccounted
  <2>8. QED
    BY <1>2, <1>3, <2>4, <2>5, <2>6, <2>7 DEF DetoursInv
<1>6. QED
  BY <1>4, <1>5 DEF Detach

LEMMA AttachStep ==
    ASSUME DetoursInv, NEW t \in Thread, NEW f \in Func, NEW d \in Detour, Attach(t, f, d)
    PROVE  DetoursInv'
<1>1. /\ ~Noted(f) /\ pointer[f] = EntryPoint /\ owner # Nobody
      /\ UNCHANGED <<owner, enlisted, code, pointer, place, unprotected, unmoved>>
  BY DetoursAssumptions DEF Attach, Calls, target_vars, refused_vars
<1>2. IdleInv'
  BY <1>1 DEF IdleInv
<1>3. PlacesInv'
  BY <1>1 DEF DetoursInv, PlacesInv, PlaceGood
<1>4. CASE error' = TRUE /\ UNCHANGED <<regions, free, ops, slots, prot>>
  <2>1. DetoursTypes'
    BY <1>1, <1>4 DEF DetoursInv, DetoursTypes
  <2>2. QED
    BY <1>1, <1>2, <1>3, <1>4, <2>1, QuietStep DEF region_vars
<1>5. ASSUME NEW r \in Region, Alloc(r), free' = [free EXCEPT ![r] = FreeList(r)],
             error' = TRUE, UNCHANGED <<ops, slots, prot>>
      PROVE  DetoursInv'
  <2>1. FreeGood(FreeList(r), r, Used)
    BY FreeListGood
  <2>2. regions' = regions \union {r} /\ free'[r] = FreeList(r)
        /\ \A x \in Region \ {r} : free'[x] = free[x]
    BY <1>5 DEF Alloc, DetoursInv, DetoursTypes
  <2>3. DetoursTypes'
    BY <1>1, <1>5, <2>1, <2>2 DEF DetoursInv, DetoursTypes, FreeGood
  <2>4. TrampolinesAccounted'
    BY <1>1, <1>5, <2>1, <2>2 DEF DetoursInv, TrampolinesAccounted, FreeGood, Used
  <2>5. OriginalReached' /\ UsedInv'
    BY <1>1, <1>5 DEF DetoursInv, OriginalReached, UsedInv, Used
  <2>6. OpsInv' /\ PagesInv'
    BY <1>1, <1>5 DEF DetoursInv, OpsInv, OpGood, PagesInv, OnPage
  <2>7. QED
    BY <1>2, <1>3, <2>3, <2>4, <2>5, <2>6 DEF DetoursInv
<1>6. ASSUME NEW r \in Region, NEW s, s = <<r, Head(FreeList(r))>>, Alloc(r),
             free' = [free EXCEPT ![r] = Tail(FreeList(r))],
             slots' = [slots EXCEPT ![s] = [func |-> f, detour |-> d, saved |-> code[f]]],
             Note([remove |-> FALSE, func |-> f, slot |-> s, perm |-> prot[PageOf[f]]]),
             prot' = [prot EXCEPT ![PageOf[f]] = "rwx"],
             UNCHANGED error
      PROVE  DetoursInv'
  <2>1. /\ s[2] \in 2..(PerRegion - 1) /\ s \notin Used /\ s[1] = r
        /\ FreeGood(Tail(FreeList(r)), r, Used \union {s})
    <3>1. FreeList(r) # <<>>
      BY <1>6 DEF Alloc
    <3>2. QED
      BY <1>6, <3>1, FreeListGood, HeadTaken
  <2>2. s \in Slot
    BY <1>6, <2>1, DetoursAssumptions DEF Slot
  <2>3. /\ code[f] = Own /\ slots'[s] = [func |-> f, detour |-> d, saved |-> Own]
        /\ \A x \in Slot \ {s} : slots'[x] = slots[x]
        /\ DOMAIN slots' = Slot
    BY <1>1, <1>6, <2>2, DetoursAssumptions DEF DetoursInv, OriginalReached, DetoursTypes
  <2>4. Used' = Used \union {s}
    BY <2>2, <2>3, DetoursAssumptions DEF Used, Unused
  <2>5. PICK op \in Noting :
           op = [remove |-> FALSE, func |-> f, slot |-> s, perm |-> prot[PageOf[f]]]
    BY <2>2 DEF DetoursInv, DetoursTypes, Noting, Page
  <2>6. OpGood(op)'
    BY <1>1, <2>3, <2>5 DEF OpGood
  <2>7. \A i \in DOMAIN ops, o \in Noting : o = ops[i] => OpGood(o)'
    <3> SUFFICES ASSUME NEW i \in DOMAIN ops, NEW o \in Noting, o = ops[i] PROVE OpGood(o)'
      OBVIOUS
    <3>1. OpGood(o)
      BY DEF DetoursInv, OpsInv
    <3>2. o.slot \in Used /\ o.slot \in Slot
      BY DEF DetoursInv, TrampolinesAccounted, Noting
    <3>3. slots'[o.slot] = slots[o.slot]
      BY <2>1, <2>3, <3>2
    <3>4. QED
      BY <1>1, <3>1, <3>3 DEF OpGood
  <2>8. /\ ops' \in Seq(Noting) /\ prot' \in [Page -> {"rx", "rwx"}]
        /\ OpsInv' /\ PagesInv'
        /\ {ops'[i].slot : i \in DOMAIN ops'} = {ops[i].slot : i \in DOMAIN ops} \union {s}
    <3>1. op.func = f /\ op.perm = prot[PageOf[f]] /\ op.slot = s /\ Note(op)
      BY <1>6, <2>5
    <3>2. QED
      BY <1>1, <1>6, <2>6, <2>7, <3>1, NoteStep
  <2>9. /\ regions' = regions \union {r} /\ free'[r] = Tail(FreeList(r))
        /\ \A x \in Region \ {r} : free'[x] = free[x]
        /\ DOMAIN free' = Region
    BY <1>6 DEF Alloc, DetoursInv, DetoursTypes
  <2>10. DetoursTypes'
    <3>1. slots' \in [Slot -> [func : Func \union {EntryPoint}, detour : Detour \union {Own},
                               saved : {Own}]]
      BY <1>6, <2>2, <2>3 DEF DetoursInv, DetoursTypes
    <3>2. free' \in [Region -> Seq(2..(PerRegion - 1))]
      BY <1>6, <2>1 DEF DetoursInv, DetoursTypes, FreeGood
    <3>3. QED
      BY <1>1, <1>6, <2>8, <2>9, <3>1, <3>2 DEF DetoursInv, DetoursTypes
  <2>11. UsedInv'
    BY <2>1, <2>4 DEF DetoursInv, UsedInv
  <2>12. OriginalReached'
    <3> SUFFICES ASSUME NEW g \in Func, code[g] # Own
                 PROVE  slots'[pointer[g]] = slots[pointer[g]]
      BY <1>1 DEF DetoursInv, OriginalReached
    <3>1. pointer[g] \in Slot /\ pointer[g] \in Used
      BY DetoursAssumptions DEF DetoursInv, OriginalReached, TrampolinesAccounted
    <3>2. QED
      BY <2>1, <2>3, <3>1
  <2>13. TrampolinesAccounted'
    <3>1. Used' = {pointer'[g] : g \in {h \in Func : pointer'[h] # EntryPoint}}
                   \union {ops'[i].slot : i \in DOMAIN ops'}
      BY <1>1, <2>4, <2>8 DEF DetoursInv, TrampolinesAccounted
    <3>2. \A x \in Used' : x[1] \in regions'
      BY <2>1, <2>4, <2>9 DEF DetoursInv, TrampolinesAccounted
    <3>3. ASSUME NEW x \in regions'
          PROVE  IsInjective(free'[x]) /\ ToSet(free'[x]) = {i \in 2..(PerRegion - 1) : <<x, i>> \notin Used'}
      <4>1. CASE x = r
        BY <2>1, <2>4, <2>9, <4>1 DEF FreeGood
      <4>2. CASE x # r
        <5>1. x \in regions /\ free'[x] = free[x]
          BY <2>9, <4>2 DEF DetoursInv, DetoursTypes
        <5>2. \A i \in 2..(PerRegion - 1) : <<x, i>> \in Used' <=> <<x, i>> \in Used
          BY <1>6, <2>4, <4>2
        <5>3. IsInjective(free[x]) /\ ToSet(free[x]) = {i \in 2..(PerRegion - 1) : <<x, i>> \notin Used}
          BY <5>1 DEF DetoursInv, TrampolinesAccounted
        <5>4. QED
          BY <5>1, <5>2, <5>3
      <4>3. QED
        BY <4>1, <4>2
    <3>4. QED
      BY <3>1, <3>2, <3>3 DEF TrampolinesAccounted
  <2>14. QED
    BY <1>2, <1>3, <2>8, <2>10, <2>11, <2>12, <2>13 DEF DetoursInv
<1>7. QED
  BY <1>4, <1>5, <1>6 DEF Attach

-----------------------------------------------------------------------------
(* Transactions: the loops at the end.                                     *)

Decreasing(q) == \A i, j \in DOMAIN q : i < j => q[i] > q[j]

\* Every set of positions can be listed backwards: a position comes after as
\* many as are greater.
LEMMA BackwardsList ==
    ASSUME NEW S, NEW n \in Nat, S \subseteq 1..n
    PROVE  /\ Cardinality(S) \in Nat
           /\ Backwards(S) \in Bijection(1..Cardinality(S), S)
           /\ Decreasing(Backwards(S))
<1> DEFINE c == Cardinality(S)
           From(i) == {j \in S : j >= i}
           rank == [i \in S |-> Cardinality(From(i))]
<1>0. \A i \in S : i \in Int
  OBVIOUS
<1>1. IsFiniteSet(S) /\ c \in Nat
  <2>1. IsFiniteSet(1..n)
    BY FS_Interval
  <2>2. IsFiniteSet(S)
    BY <2>1, FS_Subset
  <2>3. QED
    BY <2>2, FS_CardinalityType
<1>2. IsFiniteSet(1..c) /\ Cardinality(1..c) = c
  <2>1. 1 \in Int /\ c \in Int
    BY <1>1
  <2> HIDE DEF c
  <2>2. QED
    BY <1>1, <2>1, FS_Interval
<1>3. ASSUME NEW i \in S
      PROVE  IsFiniteSet(From(i)) /\ Cardinality(From(i)) \in 1..c
  <2>1. From(i) \subseteq S /\ i \in From(i)
    OBVIOUS
  <2>2. IsFiniteSet(From(i)) /\ Cardinality(From(i)) <= c /\ Cardinality(From(i)) \in Nat
    BY <1>1, <2>1, FS_Subset, FS_CardinalityType
  <2>3. Cardinality(From(i)) # 0
    BY <2>1, <2>2, FS_EmptySet
  <2> HIDE DEF c, From
  <2>4. QED
    BY <1>1, <2>2, <2>3
<1>4. ASSUME NEW i \in S, NEW j \in S, i < j PROVE rank[i] > rank[j]
  <2>0. i \in Int /\ j \in Int /\ j >= i /\ ~(i >= j)
    BY <1>0, <1>4
  <2>1. From(j) \subseteq From(i) /\ i \in From(i) /\ i \notin From(j)
    <3>1. ASSUME NEW x \in S, x >= j PROVE x >= i
      BY <1>0, <2>0, <3>1
    <3> HIDE DEF c, rank
    <3>2. From(j) \subseteq From(i)
      BY <3>1
    <3>3. QED
      BY <2>0, <3>2
  <2>2. Cardinality(From(j)) <= Cardinality(From(i)) /\ Cardinality(From(j)) # Cardinality(From(i))
    BY <1>3, <2>1, FS_Subset
  <2>3. rank[i] = Cardinality(From(i)) /\ rank[j] = Cardinality(From(j))
    OBVIOUS
  <2>4. Cardinality(From(i)) \in 1..c /\ Cardinality(From(j)) \in 1..c
    BY <1>3
  <2> HIDE DEF From, rank, c
  <2>5. QED
    BY <1>1, <2>2, <2>3, <2>4
<1>5. rank \in Injection(S, 1..c)
  <2>1. rank \in [S -> 1..c]
    BY <1>3
  <2> HIDE DEF rank
  <2>2. \A i, j \in S : rank[i] = rank[j] => i = j
    <3> SUFFICES ASSUME NEW i \in S, NEW j \in S, i # j PROVE rank[i] # rank[j]
      OBVIOUS
    <3>1. i \in Int /\ j \in Int /\ rank[i] \in Int /\ rank[j] \in Int
      BY <1>1, <2>1
    <3>2. CASE i < j
      BY <1>4, <3>1, <3>2
    <3>3. CASE j < i
      BY <1>4, <3>1, <3>3
    <3>4. QED
      BY <3>1, <3>2, <3>3
  <2>3. QED
    BY <2>1, <2>2 DEF Injection, IsInjective
<1>6. rank \in Surjection(S, 1..c)
  <2> HIDE DEF rank, c
  <2>1. QED
    BY <1>1, <1>2, <1>5, FS_Injection DEF c
<1>7. PICK q \in [1..c -> S] : \A k \in 1..c : rank[q[k]] = k
  <2> DEFINE inverse == [k \in 1..c |-> CHOOSE i \in S : rank[i] = k]
  <2>1. \A k \in 1..c : inverse[k] \in S /\ rank[inverse[k]] = k
    BY <1>6 DEF Surjection
  <2> HIDE DEF rank, c
  <2>2. inverse \in [1..c -> S]
    BY <2>1
  <2>3. QED
    BY <2>1, <2>2
<1>8. Decreasing(q)
  <2> SUFFICES ASSUME NEW i \in 1..c, NEW j \in 1..c, i < j PROVE q[i] > q[j]
    BY DEF Decreasing
  <2>1. q[i] \in S /\ q[j] \in S /\ q[i] \in Int /\ q[j] \in Int
    BY <1>0, <1>7
  <2>2. rank[q[i]] = i /\ rank[q[j]] = j
    BY <1>7
  <2> HIDE DEF rank, c
  <2>3. i \in Int /\ j \in Int
    OBVIOUS
  <2>4. QED
    BY <1>4, <2>1, <2>2, <2>3
<1>9. Backwards(S) \in [1..c -> S] /\ Decreasing(Backwards(S))
  BY <1>7, <1>8 DEF Backwards, Decreasing
<1>10. Backwards(S) \in Injection(1..c, S)
  <2> DEFINE b == Backwards(S)
  <2>1. b \in [1..c -> S] /\ Decreasing(b)
    BY <1>9
  <2> HIDE DEF b, c
  <2>2. ASSUME NEW i \in 1..c, NEW j \in 1..c, i # j PROVE b[i] # b[j]
    <3>1. b[i] \in S /\ b[j] \in S /\ DOMAIN b = 1..c /\ i \in Int /\ j \in Int
      BY <2>1
    <3>5. b[i] \in Int /\ b[j] \in Int
      BY <1>0, <3>1
    <3>2. CASE i < j
      BY <2>1, <3>1, <3>2, <3>5 DEF Decreasing
    <3>3. CASE j < i
      BY <2>1, <3>1, <3>3, <3>5 DEF Decreasing
    <3>4. QED
      BY <2>2, <3>2, <3>3
  <2>3. QED
    BY <2>1, <2>2 DEF Injection, IsInjective, b
<1>11. Backwards(S) \in Surjection(1..c, S)
  <2> HIDE DEF c
  <2>1. QED
    BY <1>1, <1>2, <1>10, FS_Injection DEF c
<1>12. QED
  BY <1>1, <1>9, <1>10, <1>11 DEF Bijection

LEMMA MaxOfPositions ==
    ASSUME NEW S, NEW n \in Nat, S \subseteq 1..n, S # {}
    PROVE  Max(S) \in S /\ \A j \in S : j <= Max(S)
<1> DEFINE q == Backwards(S)
<1>0. \A i \in S : i \in Int
  OBVIOUS
<1>1. /\ Cardinality(S) \in Nat /\ DOMAIN q = 1..Cardinality(S)
      /\ \A k \in DOMAIN q : q[k] \in S
      /\ \A j \in S : \E k \in DOMAIN q : q[k] = j
      /\ Decreasing(q)
  BY BackwardsList DEF Bijection, Surjection
<1> HIDE DEF q
<1>2. 1 \in DOMAIN q
  <2>1. PICK j \in S : TRUE
    OBVIOUS
  <2>2. PICK k \in DOMAIN q : q[k] = j
    BY <1>1, <2>1
  <2>3. QED
    BY <1>1, <2>2
<1>3. ASSUME NEW j \in S PROVE q[1] >= j
  <2>1. PICK k \in DOMAIN q : q[k] = j
    BY <1>1
  <2>2. k = 1 \/ 1 < k
    BY <1>1
  <2>3. q[1] \in Int /\ j \in Int
    <3>1. q[1] \in S
      BY <1>1, <1>2
    <3>2. QED
      BY <1>0, <3>1
  <2>4. QED
    BY <1>1, <1>2, <2>1, <2>2, <2>3 DEF Decreasing
<1>4. \E x \in S : \A y \in S : x >= y
  BY <1>1, <1>2, <1>3
<1>5. Max(S) \in S /\ \A y \in S : Max(S) >= y
  BY <1>4 DEF Max
<1>6. QED
  BY <1>5

\* One sequence before another with other elements.
LEMMA InjectiveConcat ==
    ASSUME NEW S, NEW a \in Seq(S), NEW b \in Seq(S), IsInjective(a), IsInjective(b),
           ToSet(a) \cap ToSet(b) = {}
    PROVE  /\ a \o b \in Seq(S) /\ IsInjective(a \o b)
           /\ ToSet(a \o b) = ToSet(a) \union ToSet(b)
<1> DEFINE q == a \o b
<1>1. /\ Len(a) \in Nat /\ DOMAIN a = 1..Len(a) /\ Len(b) \in Nat /\ DOMAIN b = 1..Len(b)
      /\ q \in Seq(S) /\ DOMAIN q = 1..(Len(a) + Len(b))
      /\ \A i \in 1..(Len(a) + Len(b)) : q[i] = IF i <= Len(a) THEN a[i] ELSE b[i - Len(a)]
  BY ConcatProperties, LenProperties
<1> HIDE DEF q
<1>2. ASSUME NEW i \in DOMAIN q
      PROVE  \/ i \in DOMAIN a /\ q[i] = a[i] /\ q[i] \in ToSet(a)
             \/ /\ i - Len(a) \in DOMAIN b /\ q[i] = b[i - Len(a)] /\ q[i] \in ToSet(b)
                /\ i \notin DOMAIN a
  <2>1. CASE i <= Len(a)
    <3>1. i \in DOMAIN a /\ q[i] = a[i]
      BY <1>1, <2>1
    <3>2. QED
      BY <3>1 DEF ToSet
  <2>2. CASE ~(i <= Len(a))
    <3>1. i - Len(a) \in DOMAIN b /\ q[i] = b[i - Len(a)] /\ i \notin DOMAIN a
      BY <1>1, <2>2
    <3>2. QED
      BY <3>1 DEF ToSet
  <2>3. QED
    BY <2>1, <2>2
<1>3. IsInjective(q)
  <2> SUFFICES ASSUME NEW i \in DOMAIN q, NEW j \in DOMAIN q, q[i] = q[j] PROVE i = j
    BY DEF IsInjective
  <2>1. CASE i \in DOMAIN a
    <3>1. j \in DOMAIN a /\ q[i] = a[i] /\ q[j] = a[j]
      BY <1>2, <2>1
    <3>2. QED
      BY <2>1, <3>1 DEF IsInjective
  <2>2. CASE i \notin DOMAIN a
    <3>1. /\ i - Len(a) \in DOMAIN b /\ q[i] = b[i - Len(a)]
          /\ j - Len(a) \in DOMAIN b /\ q[j] = b[j - Len(a)]
      BY <1>2, <2>2
    <3>2. i - Len(a) = j - Len(a)
      BY <3>1 DEF IsInjective
    <3>3. QED
      BY <1>1, <3>2
  <2>3. QED
    BY <2>1, <2>2
<1>4. ToSet(q) \subseteq ToSet(a) \union ToSet(b)
  BY <1>2 DEF ToSet
<1>5. ASSUME NEW i \in DOMAIN a PROVE a[i] \in ToSet(q)
  <2>1. i \in DOMAIN q /\ q[i] = a[i]
    BY <1>1
  <2>2. QED
    BY <2>1 DEF ToSet
<1>6. ASSUME NEW i \in DOMAIN b PROVE b[i] \in ToSet(q)
  <2>1. i + Len(a) \in DOMAIN q /\ q[i + Len(a)] = b[i]
    <3>1. i + Len(a) \in 1..(Len(a) + Len(b)) /\ ~(i + Len(a) <= Len(a)) /\ (i + Len(a)) - Len(a) = i
      BY <1>1
    <3>2. QED
      BY <1>1, <3>1
  <2>2. QED
    BY <2>1 DEF ToSet
<1>7. ToSet(a) \union ToSet(b) \subseteq ToSet(q)
  BY <1>5, <1>6 DEF ToSet
<1>8. QED
  BY <1>1, <1>3, <1>4, <1>7 DEF q

\* Whose the trampolines are.
LEMMA SlotsOwned ==
    ASSUME DetoursInv
    PROVE  /\ \A f \in Func : pointer[f] # EntryPoint =>
                 pointer[f] \in Used /\ slots[pointer[f]].func = f
           /\ \A i \in DOMAIN ops :
                 /\ ops[i] \in Noting /\ OpGood(ops[i])
                 /\ ops[i].slot \in Used /\ slots[ops[i].slot].func = ops[i].func
                 /\ Noted(ops[i].func) /\ Operation(ops[i].func) = ops[i]
           /\ \A i, j \in DOMAIN ops : ops[i].slot = ops[j].slot => i = j
<1>1. ASSUME NEW f \in Func, pointer[f] # EntryPoint
      PROVE  pointer[f] \in Used /\ slots[pointer[f]].func = f
  <2>1. pointer[f] \in Slot /\ slots[pointer[f]] = [func |-> f, detour |-> code[f], saved |-> Own]
    BY <1>1 DEF DetoursInv, OriginalReached
  <2>2. pointer[f] \in Used
    BY <1>1 DEF DetoursInv, TrampolinesAccounted
  <2>3. QED
    BY <2>1, <2>2
<1>2. ASSUME NEW i \in DOMAIN ops
      PROVE  /\ ops[i] \in Noting /\ OpGood(ops[i])
             /\ ops[i].slot \in Used /\ slots[ops[i].slot].func = ops[i].func
  <2>1. ops[i] \in Noting
    BY ElementOfSeq, LenProperties DEF DetoursInv, DetoursTypes
  <2>2. OpGood(ops[i]) /\ ops[i].slot \in Used
    BY DEF DetoursInv, OpsInv, TrampolinesAccounted
  <2>3. slots[ops[i].slot].func = ops[i].func
    <3>1. CASE ops[i].remove
      <4>1. pointer[ops[i].func] = ops[i].slot /\ ops[i].slot # EntryPoint /\ ops[i].func \in Func
        BY <2>1, <2>2, <3>1, DetoursAssumptions DEF OpGood, Noting
      <4>2. QED
        BY <1>1, <4>1
    <3>2. CASE ~ops[i].remove
      <4>1. PICK d \in Detour :
               slots[ops[i].slot] = [func |-> ops[i].func, detour |-> d, saved |-> Own]
        BY <2>2, <3>2 DEF OpGood
      <4>2. QED
        BY <4>1
    <3>3. QED
      BY <3>1, <3>2
  <2>4. QED
    BY <2>1, <2>2, <2>3
<1>3. ASSUME NEW i \in DOMAIN ops
      PROVE  Noted(ops[i].func) /\ Operation(ops[i].func) = ops[i]
  <2> DEFINE j == CHOOSE j \in DOMAIN ops : ops[j].func = ops[i].func
  <2>1. j \in DOMAIN ops /\ ops[j].func = ops[i].func
    OBVIOUS
  <2>2. j = i
    BY <2>1 DEF DetoursInv, OpsInv
  <2>3. QED
    BY <2>2 DEF Operation, Noted
<1>4. ASSUME NEW i \in DOMAIN ops, NEW j \in DOMAIN ops, ops[i].slot = ops[j].slot PROVE i = j
  <2>1. ops[i].func = ops[j].func
    BY <1>2, <1>4
  <2>2. QED
    BY <2>1 DEF DetoursInv, OpsInv
<1>5. QED
  BY <1>1, <1>2, <1>3, <1>4

\* The trampolines that are freed come back to the lists of their regions.
LEMMA ReturnedGood ==
    ASSUME DetoursInv, NEW remove \in BOOLEAN, NEW r \in Region
    PROVE  /\ Returned(remove)[r] = GivenBack(remove, r) \o free[r]
           /\ GivenBack(remove, r) \o free[r] \in Seq(2..(PerRegion - 1))
           /\ r \in regions => FreeGood(Returned(remove)[r], r, Used \ Freed(remove))
<1> DEFINE mine == {i \in Ending(remove) : ops[i].slot[1] = r}
           on == Backwards(mine)
           c == Cardinality(mine)
           given == [k \in 1..c |-> ops[on[k]].slot[2]]
<1>1. /\ DOMAIN ops = 1..Len(ops) /\ Len(ops) \in Nat
      /\ free[r] \in Seq(2..(PerRegion - 1)) /\ DOMAIN free = Region
  BY LenProperties DEF DetoursInv, DetoursTypes
<1>2. mine \subseteq 1..Len(ops)
  BY <1>1 DEF Ending
<1>3. /\ c \in Nat /\ DOMAIN on = 1..c /\ \A k \in 1..c : on[k] \in mine
      /\ \A j, k \in 1..c : on[j] = on[k] => j = k
      /\ \A i \in mine : \E k \in 1..c : on[k] = i
  <2> HIDE DEF mine
  <2>1. c \in Nat /\ on \in Bijection(1..c, mine)
    <3>1. Len(ops) \in Nat /\ mine \subseteq 1..Len(ops)
      BY <1>1, <1>2
    <3>2. QED
      BY <3>1, BackwardsList, ZenonT(30)
  <2> HIDE DEF c, on
  <2>2. QED
    BY <2>1 DEF Bijection, Surjection, Injection, IsInjective
<1>4. GivenBack(remove, r) = given /\ Returned(remove)[r] = given \o free[r]
  <2>1. Returned(remove)[r] = GivenBack(remove, r) \o free[r]
    BY DEF Returned
  <2>2. GivenBack(remove, r) = [k \in DOMAIN on |-> ops[on[k]].slot[2]]
    BY DEF GivenBack
  <2>3. DOMAIN on = 1..c
    BY <1>3
  <2> HIDE DEF on, c
  <2>4. QED
    BY <2>1, <2>2, <2>3
<1>5. ASSUME NEW i \in mine
      PROVE  /\ ops[i].slot = <<r, ops[i].slot[2]>> /\ ops[i].slot \in Used
             /\ ops[i].slot \in Freed(remove) /\ ops[i].slot[2] \in 2..(PerRegion - 1)
  <2>1. i \in DOMAIN ops /\ i \in Ending(remove) /\ ops[i].slot[1] = r
    BY DEF Ending
  <2>2. ops[i].slot \in Used /\ ops[i].slot \in Slot
    BY <2>1, SlotsOwned DEF Used
  <2>3. QED
    BY <2>1, <2>2 DEF Slot, Freed, DetoursInv, UsedInv
<1> HIDE DEF mine, on, c
<1>6. /\ given \in Seq(2..(PerRegion - 1)) /\ DOMAIN given = 1..c
      /\ \A k \in 1..c : given[k] = ops[on[k]].slot[2]
  BY <1>3, <1>5, IsASeq
<1>7. IsInjective(given)
  <2> SUFFICES ASSUME NEW j \in 1..c, NEW k \in 1..c, given[j] = given[k] PROVE j = k
    BY <1>6 DEF IsInjective
  <2>1. ops[on[j]].slot = ops[on[k]].slot
    <3>1. on[j] \in mine /\ on[k] \in mine /\ ops[on[j]].slot[2] = ops[on[k]].slot[2]
      BY <1>3, <1>6
    <3>2. QED
      BY <1>5, <3>1
  <2>2. on[j] \in DOMAIN ops /\ on[k] \in DOMAIN ops
    BY <1>1, <1>2, <1>3
  <2>3. on[j] = on[k]
    BY <2>1, <2>2, SlotsOwned
  <2>4. QED
    BY <1>3, <2>3
<1>8. ToSet(given) = {i \in 2..(PerRegion - 1) : <<r, i>> \in Freed(remove)}
  <2>1. ASSUME NEW k \in 1..c
        PROVE  given[k] \in 2..(PerRegion - 1) /\ <<r, given[k]>> \in Freed(remove)
    <3>1. on[k] \in mine /\ given[k] = ops[on[k]].slot[2]
      BY <1>3, <1>6
    <3>2. QED
      BY <1>5, <3>1
  <2>2. ASSUME NEW x \in 2..(PerRegion - 1), <<r, x>> \in Freed(remove) PROVE x \in ToSet(given)
    <3>1. PICK i \in Ending(remove) : ops[i].slot = <<r, x>>
      BY <2>2 DEF Freed
    <3>2. i \in mine
      BY <3>1 DEF mine
    <3>3. PICK k \in 1..c : on[k] = i
      BY <1>3, <3>2
    <3>4. given[k] = x
      BY <1>6, <3>1, <3>3
    <3>5. QED
      BY <1>6, <3>4 DEF ToSet
  <2>3. QED
    BY <1>6, <2>1, <2>2 DEF ToSet
<1> HIDE DEF given
<1>9. given \o free[r] \in Seq(2..(PerRegion - 1))
  BY <1>1, <1>6, ConcatProperties
<1>10. ASSUME r \in regions PROVE FreeGood(given \o free[r], r, Used \ Freed(remove))
  <2>1. IsInjective(free[r]) /\ ToSet(free[r]) = {i \in 2..(PerRegion - 1) : <<r, i>> \notin Used}
    BY <1>10 DEF DetoursInv, TrampolinesAccounted
  <2>2. Freed(remove) \subseteq Used
    BY SlotsOwned DEF Freed, Ending
  <2>3. ToSet(given) \cap ToSet(free[r]) = {}
    BY <1>8, <2>1, <2>2
  <2>4. /\ IsInjective(given \o free[r])
        /\ ToSet(given \o free[r]) = ToSet(given) \union ToSet(free[r])
    <3>1. given \in Seq(2..(PerRegion - 1)) /\ free[r] \in Seq(2..(PerRegion - 1))
      BY <1>1, <1>6
    <3>2. IsInjective(free[r])
      BY <2>1
    <3>3. QED
      BY <1>7, <2>3, <3>1, <3>2, InjectiveConcat
  <2>5. QED
    BY <1>8, <1>9, <2>1, <2>2, <2>4 DEF FreeGood
<1>11. QED
  BY <1>4, <1>9, <1>10

\* The calls at the end ask for what each page had before the transaction.
LEMMA RestoredAll ==
    ASSUME DetoursInv
    PROVE  /\ Restored \in [Page -> {"rx", "rwx"}]
           /\ \A p \in Page \ unprotected : Restored[p] = "rx"
<1>1. ASSUME NEW p \in Page
      PROVE  Restored[p] \in {"rx", "rwx"} /\ (p \notin unprotected => Restored[p] = "rx")
  <2> DEFINE on == {i \in DOMAIN ops : PageOf[ops[i].func] = p}
  <2>1. DOMAIN ops = 1..Len(ops) /\ Len(ops) \in Nat
    BY LenProperties DEF DetoursInv, DetoursTypes
  <2>2. Restored[p] = IF on = {} THEN prot[p] ELSE ops[Max(on)].perm
    BY DEF Restored
  <2>3. CASE on = {}
    BY <2>2, <2>3 DEF DetoursInv, DetoursTypes, PagesInv, OnPage
  <2>4. CASE on # {}
    <3>1. on \subseteq 1..Len(ops)
      BY <2>1
    <3>2. \A j \in DOMAIN ops : OnPage(j, p) <=> j \in on
      BY DEF OnPage
    <3> HIDE DEF on
    <3>3. Max(on) \in on /\ \A j \in on : j <= Max(on)
      BY <2>1, <2>4, <3>1, MaxOfPositions
    <3>4. p \notin unprotected => ops[Max(on)].perm = "rx"
      BY <2>1, <3>1, <3>2, <3>3 DEF DetoursInv, PagesInv
    <3>5. ops[Max(on)] \in Noting
      BY <2>1, <3>1, <3>3, SlotsOwned
    <3>6. QED
      BY <2>2, <2>4, <3>4, <3>5 DEF Noting
  <2>5. QED
    BY <2>3, <2>4
<1>2. QED
  BY <1>1 DEF Restored

\* What the end of a transaction leaves of the lists, whichever trampolines it
\* frees.
LEMMA FinishGood ==
    ASSUME DetoursInv, NEW remove \in BOOLEAN, NEW left, Finish(left),
           slots' = Emptied(remove), free' = Returned(remove), regions' \subseteq regions,
           \A s \in Used \ Freed(remove) : s[1] \in regions'
    PROVE  /\ IdleInv' /\ OpsInv' /\ PagesInv' /\ UsedInv'
           /\ ops' \in Seq(Noting) /\ prot' \in [Page -> {"rx", "rwx"}] /\ regions' \subseteq Region
           /\ owner' \in Thread \union {Nobody} /\ error' \in BOOLEAN /\ enlisted' \subseteq Thread
           /\ free' \in [Region -> Seq(2..(PerRegion - 1))]
           /\ slots' \in [Slot -> [func : Func \union {EntryPoint}, detour : Detour \union {Own},
                                   saved : {Own}]]
           /\ \A s \in Slot \ Freed(remove) : slots'[s] = slots[s]
           /\ Used' = Used \ Freed(remove)
           /\ Used' = {pointer'[f] : f \in {g \in Func : pointer'[g] # EntryPoint}}
                 => TrampolinesAccounted'
<1>1. ops' = <<>> /\ DOMAIN ops' = {} /\ ops' \in Seq(Noting)
  BY EmptySeq DEF Finish
<1>2. PICK pages, still :
         /\ prot' = [p \in Page |-> IF p \in pages THEN prot[p] ELSE Restored[p]]
         /\ writable' = still
         /\ unprotected' = (unprotected \ Region) \union pages \union still
         /\ enlisted' = {} /\ owner' = Nobody
  BY DEF Finish
<1>3. IdleInv' /\ OpsInv' /\ PagesInv'
  <2>1. IdleInv' /\ OpsInv'
    BY <1>1, <1>2 DEF IdleInv, OpsInv
  <2>2. ASSUME NEW p \in Page, p \notin unprotected' PROVE prot'[p] = "rx"
    <3>1. p \notin Region
      BY DetoursAssumptions DEF Page
    <3>2. p \notin unprotected /\ p \notin pages
      BY <1>2, <2>2, <3>1
    <3>3. QED
      BY <1>2, <3>2, RestoredAll
  <2>3. QED
    BY <1>1, <2>1, <2>2 DEF PagesInv
<1>4. Freed(remove) \subseteq Used
  BY SlotsOwned DEF Freed, Ending
<1>5. /\ DOMAIN slots' = Slot
      /\ \A s \in Slot : slots'[s] = IF s \in Freed(remove) THEN Unused ELSE slots[s]
  BY DEF Emptied
<1>6. Used' = Used \ Freed(remove)
  BY <1>5 DEF Used
<1>7. UsedInv'
  BY <1>6 DEF DetoursInv, UsedInv
<1>8. slots' \in [Slot -> [func : Func \union {EntryPoint}, detour : Detour \union {Own},
                            saved : {Own}]]
  <2>1. Unused \in [func : Func \union {EntryPoint}, detour : Detour \union {Own}, saved : {Own}]
    BY DEF Unused
  <2>2. QED
    BY <2>1 DEF Emptied, DetoursInv, DetoursTypes
<1>9. free' \in [Region -> Seq(2..(PerRegion - 1))]
  <2>1. free' = [r \in Region |-> GivenBack(remove, r) \o free[r]]
    BY DEF Returned
  <2>2. \A r \in Region : GivenBack(remove, r) \o free[r] \in Seq(2..(PerRegion - 1))
    BY ReturnedGood
  <2>3. QED
    BY <2>1, <2>2
<1>10. ASSUME Used' = {pointer'[f] : f \in {g \in Func : pointer'[g] # EntryPoint}}
       PROVE  TrampolinesAccounted'
  <2>1. {ops'[i].slot : i \in DOMAIN ops'} = {}
    BY <1>1
  <2>2. \A s \in Used' : s[1] \in regions'
    BY <1>6
  <2>3. ASSUME NEW r \in regions'
        PROVE  IsInjective(free'[r]) /\ ToSet(free'[r]) = {i \in 2..(PerRegion - 1) : <<r, i>> \notin Used'}
    <3>1. r \in regions /\ r \in Region
      BY DEF DetoursInv, DetoursTypes
    <3>2. FreeGood(free'[r], r, Used')
      BY <1>6, <3>1, ReturnedGood
    <3>3. QED
      BY <3>2 DEF FreeGood
  <2>4. QED
    BY <1>10, <2>1, <2>2, <2>3 DEF TrampolinesAccounted
<1>11. /\ prot' \in [Page -> {"rx", "rwx"}] /\ regions' \subseteq Region
       /\ owner' \in Thread \union {Nobody} /\ error' \in BOOLEAN /\ enlisted' \subseteq Thread
  <2>1. prot \in [Page -> {"rx", "rwx"}] /\ Restored \in [Page -> {"rx", "rwx"}]
    BY RestoredAll DEF DetoursInv, DetoursTypes
  <2>2. prot' \in [Page -> {"rx", "rwx"}]
    BY <1>2, <2>1
  <2>3. QED
    BY <1>2, <2>2 DEF Finish, DetoursInv, DetoursTypes
<1>12. QED
  BY <1>1, <1>3, <1>5, <1>6, <1>7, <1>8, <1>9, <1>10, <1>11

\* An abort gives the trampolines of its attaches back; no pointer leads to
\* one of them.
LEMMA AbortStep ==
    ASSUME DetoursInv, AbortAll PROVE DetoursInv'
<1>1. /\ Finish(regions) /\ slots' = Emptied(FALSE) /\ free' = Returned(FALSE)
      /\ UNCHANGED <<regions, code, pointer, place, unmoved>>
  BY DEF AbortAll, target_vars
<1>2. \A s \in Used \ Freed(FALSE) : s[1] \in regions'
  BY <1>1 DEF DetoursInv, TrampolinesAccounted
<1>3. ASSUME NEW f \in Func, pointer[f] # EntryPoint PROVE pointer[f] \notin Freed(FALSE)
  <2> SUFFICES ASSUME NEW i \in DOMAIN ops, ~ops[i].remove, ops[i].slot = pointer[f] PROVE FALSE
    BY DEF Freed, Ending
  <2>1. ops[i].func = f
    BY <1>3, SlotsOwned
  <2>2. pointer[ops[i].func] = EntryPoint
    BY SlotsOwned DEF OpGood
  <2>3. QED
    BY <1>3, <2>1, <2>2
<1>4. Used \ Freed(FALSE) = {pointer[f] : f \in {g \in Func : pointer[g] # EntryPoint}}
  <2>1. ASSUME NEW s \in Used, s \notin Freed(FALSE)
        PROVE  s \in {pointer[f] : f \in {g \in Func : pointer[g] # EntryPoint}}
    <3>1. CASE s \in {ops[i].slot : i \in DOMAIN ops}
      <4>1. PICK i \in DOMAIN ops : ops[i].slot = s
        BY <3>1
      <4>2. ops[i] \in Noting /\ OpGood(ops[i]) /\ s \in Slot
        BY <4>1, SlotsOwned DEF Used
      <4>3. ops[i].remove
        BY <2>1, <4>1, <4>2 DEF Freed, Ending, Noting
      <4>4. ops[i].func \in Func /\ pointer[ops[i].func] = s /\ s # EntryPoint
        BY <4>1, <4>2, <4>3, DetoursAssumptions DEF OpGood, Noting
      <4>5. QED
        BY <4>4
    <3>2. QED
      BY <3>1 DEF DetoursInv, TrampolinesAccounted
  <2>2. ASSUME NEW f \in Func, pointer[f] # EntryPoint
        PROVE  pointer[f] \in Used /\ pointer[f] \notin Freed(FALSE)
    BY <1>3, <2>2, SlotsOwned
  <2>3. QED
    BY <2>1, <2>2
<1>5. /\ IdleInv' /\ OpsInv' /\ PagesInv' /\ UsedInv' /\ TrampolinesAccounted'
      /\ \A s \in Slot \ Freed(FALSE) : slots'[s] = slots[s]
  <2>1. /\ IdleInv' /\ OpsInv' /\ PagesInv' /\ UsedInv'
        /\ \A s \in Slot \ Freed(FALSE) : slots'[s] = slots[s]
        /\ Used' = Used \ Freed(FALSE)
        /\ Used' = {pointer'[f] : f \in {g \in Func : pointer'[g] # EntryPoint}}
              => TrampolinesAccounted'
    BY <1>1, <1>2, FinishGood
  <2>2. QED
    BY <1>1, <1>4, <2>1
<1>6. DetoursTypes'
  <2>1. /\ ops' \in Seq(Noting) /\ prot' \in [Page -> {"rx", "rwx"}] /\ regions' \subseteq Region
        /\ owner' \in Thread \union {Nobody} /\ error' \in BOOLEAN /\ enlisted' \subseteq Thread
        /\ free' \in [Region -> Seq(2..(PerRegion - 1))]
        /\ slots' \in [Slot -> [func : Func \union {EntryPoint}, detour : Detour \union {Own},
                                saved : {Own}]]
    BY <1>1, <1>2, FinishGood
  <2>2. QED
    BY <1>1, <2>1 DEF DetoursInv, DetoursTypes
<1>7. OriginalReached'
  <2> SUFFICES ASSUME NEW f \in Func, code[f] # Own PROVE slots'[pointer[f]] = slots[pointer[f]]
    BY <1>1 DEF DetoursInv, OriginalReached
  <2>1. pointer[f] \in Slot /\ pointer[f] # EntryPoint
    BY DetoursAssumptions DEF DetoursInv, OriginalReached
  <2>2. QED
    BY <1>3, <1>5, <2>1
<1>8. PlacesInv'
  BY <1>1 DEF DetoursInv, PlacesInv, PlaceGood
<1>9. QED
  BY <1>5, <1>6, <1>7, <1>8 DEF DetoursInv

\* The functions after a commit.
LEMMA Patching ==
    ASSUME DetoursInv, NEW f \in Func
    PROVE  \/ /\ ~Noted(f) /\ Patched[f] = code[f] /\ Pointed[f] = pointer[f]
              /\ pointer[f] \notin Freed(TRUE)
           \/ \E i \in DOMAIN ops :
                 /\ ops[i].func = f /\ ops[i].remove /\ pointer[f] = ops[i].slot
                 /\ Patched[f] = Own /\ Pointed[f] = EntryPoint
           \/ \E i \in DOMAIN ops :
                 /\ ops[i].func = f /\ ~ops[i].remove /\ pointer[f] = EntryPoint
                 /\ Patched[f] \in Detour /\ Pointed[f] = ops[i].slot
                 /\ slots[ops[i].slot] = [func |-> f, detour |-> Patched[f], saved |-> Own]
                 /\ ops[i].slot \in Slot \ Freed(TRUE)
<1>1. CASE ~Noted(f)
  <2>1. Patched[f] = code[f] /\ Pointed[f] = pointer[f]
    BY <1>1 DEF Patched, Pointed
  <2>2. ASSUME NEW i \in DOMAIN ops, ops[i].slot = pointer[f] PROVE FALSE
    <3>1. ops[i].slot \in Slot /\ pointer[f] # EntryPoint
      BY <2>2, SlotsOwned, DetoursAssumptions DEF Used
    <3>2. ops[i].func = f
      BY <2>2, <3>1, SlotsOwned
    <3>3. QED
      BY <1>1, <3>2, SlotsOwned
  <2>3. QED
    BY <1>1, <2>1, <2>2 DEF Freed, Ending
<1>2. CASE Noted(f)
  <2>1. PICK i \in DOMAIN ops : ops[i].func = f
    BY <1>2 DEF Noted
  <2>2. /\ Operation(f) = ops[i] /\ OpGood(ops[i]) /\ ops[i] \in Noting
        /\ ops[i].slot \in Used /\ slots[ops[i].slot].func = f
    BY <2>1, SlotsOwned
  <2>3. CASE ops[i].remove
    <3>1. pointer[f] = ops[i].slot /\ pointer[f] # EntryPoint
      BY <2>1, <2>2, <2>3, DetoursAssumptions DEF OpGood, Used
    <3>2. Patched[f] = slots[ops[i].slot].saved /\ Pointed[f] = EntryPoint
      BY <1>2, <2>2, <2>3 DEF Patched, Pointed
    <3>3. slots[ops[i].slot].saved = Own
      BY <2>2 DEF DetoursInv, DetoursTypes, Used
    <3>4. QED
      BY <2>1, <2>3, <3>1, <3>2, <3>3
  <2>4. CASE ~ops[i].remove
    <3>1. pointer[f] = EntryPoint
      BY <2>1, <2>2, <2>4 DEF OpGood
    <3>2. PICK d \in Detour : slots[ops[i].slot] = [func |-> f, detour |-> d, saved |-> Own]
      BY <2>1, <2>2, <2>4 DEF OpGood
    <3>3. Patched[f] = d /\ Pointed[f] = ops[i].slot
      BY <1>2, <2>2, <2>4, <3>2 DEF Patched, Pointed
    <3>4. ops[i].slot \notin Freed(TRUE)
      <4> SUFFICES ASSUME NEW j \in DOMAIN ops, ops[j].remove, ops[j].slot = ops[i].slot PROVE FALSE
        BY DEF Freed, Ending
      <4>1. j = i
        BY SlotsOwned
      <4>2. QED
        BY <2>4, <4>1
    <3>5. QED
      BY <2>1, <2>2, <2>4, <3>1, <3>2, <3>3, <3>4 DEF Used
  <2>5. QED
    BY <2>3, <2>4
<1>3. QED
  BY <1>1, <1>2

\* A commit: every function is patched, its pointer goes along, and whoever was
\* suspended in what is overwritten or freed is moved.
LEMMA CommitStep ==
    ASSUME DetoursInv, NEW t \in Thread, Commit(t), ~error
    PROVE  DetoursInv'
<1>1. /\ Finish(regions') /\ slots' = Emptied(TRUE) /\ free' = Returned(TRUE)
      /\ code' = Patched /\ pointer' = Pointed /\ MoveThreads
      /\ regions' = IF Ending(TRUE) = {} THEN regions ELSE {r \in regions : InUse(r)}
      /\ Thread \ {t} \subseteq enlisted /\ place[t] = Away
  BY DEF Commit, Calls
<1>2. ASSUME NEW s \in Used, s \notin Freed(TRUE) PROVE s[1] \in regions'
  <2>1. s \in Slot /\ slots[s] # Unused /\ s[1] \in regions
    BY DEF Used, DetoursInv, TrampolinesAccounted
  <2>2. slots'[s] # Unused /\ s = <<s[1], s[2]>> /\ s[2] \in 0..(PerRegion - 1)
    BY <1>1, <1>2, <2>1 DEF Emptied, Slot
  <2>3. InUse(s[1])
    BY <2>2 DEF InUse
  <2>4. QED
    BY <1>1, <2>1, <2>3
<1>3. regions' \subseteq regions
  BY <1>1
<1>4. /\ IdleInv' /\ OpsInv' /\ PagesInv' /\ UsedInv'
      /\ Used' = Used \ Freed(TRUE)
      /\ \A s \in Slot \ Freed(TRUE) : slots'[s] = slots[s]
      /\ Used' = {pointer'[f] : f \in {g \in Func : pointer'[g] # EntryPoint}}
            => TrampolinesAccounted'
  BY <1>1, <1>2, <1>3, FinishGood
<1>5. TrampolinesAccounted'
  <2>1. ASSUME NEW s \in Used, s \notin Freed(TRUE)
        PROVE  \E f \in Func : pointer'[f] = s /\ s # EntryPoint
    <3>1. s # EntryPoint
      BY DetoursAssumptions DEF Used
    <3>2. CASE \E i \in DOMAIN ops : ops[i].slot = s
      <4>1. PICK i \in DOMAIN ops : ops[i].slot = s
        BY <3>2
      <4>2. ~ops[i].remove /\ ops[i].func \in Func /\ Noted(ops[i].func)
            /\ Operation(ops[i].func) = ops[i]
        <5>1. ops[i] \in Noting
          BY <4>1, SlotsOwned
        <5>2. ~ops[i].remove
          BY <2>1, <4>1, <5>1 DEF Freed, Ending, Noting
        <5>3. QED
          BY <5>1, <5>2, SlotsOwned DEF Noting
      <4>3. pointer'[ops[i].func] = s
        BY <1>1, <4>1, <4>2 DEF Pointed
      <4>4. QED
        BY <3>1, <4>2, <4>3
    <3>3. CASE ~\E i \in DOMAIN ops : ops[i].slot = s
      <4>1. PICK f \in Func : pointer[f] = s
        BY <3>3 DEF DetoursInv, TrampolinesAccounted
      <4>2. pointer'[f] = s
        BY <1>1, <3>1, <3>3, <4>1, Patching
      <4>3. QED
        BY <3>1, <4>2
    <3>4. QED
      BY <3>2, <3>3
  <2>2. ASSUME NEW f \in Func, pointer'[f] # EntryPoint
        PROVE  pointer'[f] \in Used /\ pointer'[f] \notin Freed(TRUE)
    <3>1. CASE pointer'[f] = pointer[f] /\ pointer[f] \notin Freed(TRUE)
      BY <2>2, <3>1, SlotsOwned
    <3>2. CASE \E i \in DOMAIN ops : pointer'[f] = ops[i].slot /\ ops[i].slot \notin Freed(TRUE)
      BY <3>2, SlotsOwned
    <3>3. QED
      BY <1>1, <2>2, <3>1, <3>2, Patching
  <2>3. Used' = {pointer'[f] : f \in {g \in Func : pointer'[g] # EntryPoint}}
    BY <1>4, <2>1, <2>2
  <2>4. QED
    BY <1>4, <2>3
<1>6. OriginalReached'
  <2> SUFFICES ASSUME NEW f \in Func
               PROVE  IF code'[f] = Own THEN pointer'[f] = EntryPoint
                      ELSE /\ pointer'[f] \in Slot
                           /\ slots'[pointer'[f]] = [func |-> f, detour |-> code'[f], saved |-> Own]
    BY DEF OriginalReached
  <2>1. CASE /\ code'[f] = code[f] /\ pointer'[f] = pointer[f] /\ pointer[f] \notin Freed(TRUE)
    BY <1>4, <2>1 DEF DetoursInv, OriginalReached
  <2>2. CASE code'[f] = Own /\ pointer'[f] = EntryPoint
    BY <2>2
  <2>3. CASE \E i \in DOMAIN ops :
                /\ code'[f] \in Detour /\ pointer'[f] = ops[i].slot
                /\ slots[ops[i].slot] = [func |-> f, detour |-> code'[f], saved |-> Own]
                /\ ops[i].slot \in Slot \ Freed(TRUE)
    BY <1>4, <2>3, DetoursAssumptions
  <2>4. QED
    BY <1>1, <2>1, <2>2, <2>3, Patching
<1>7. DetoursTypes'
  <2>1. /\ ops' \in Seq(Noting) /\ prot' \in [Page -> {"rx", "rwx"}] /\ regions' \subseteq Region
        /\ owner' \in Thread \union {Nobody} /\ error' \in BOOLEAN /\ enlisted' \subseteq Thread
        /\ free' \in [Region -> Seq(2..(PerRegion - 1))]
        /\ slots' \in [Slot -> [func : Func \union {EntryPoint}, detour : Detour \union {Own},
                                saved : {Own}]]
    BY <1>1, <1>2, <1>3, FinishGood
  <2>2. ASSUME NEW f \in Func
        PROVE  Patched[f] \in Detour \union {Own} /\ Pointed[f] \in Slot \union {EntryPoint}
    BY Patching DEF DetoursInv, DetoursTypes
  <2>3. DOMAIN place' = Thread
    BY <1>1 DEF MoveThreads
  <2>4. Patched \in [Func -> Detour \union {Own}] /\ Pointed \in [Func -> Slot \union {EntryPoint}]
    BY <2>2 DEF Patched, Pointed
  <2>5. QED
    BY <1>1, <2>1, <2>3, <2>4 DEF DetoursTypes
<1>8. PlacesInv'
  <2> SUFFICES ASSUME NEW u \in Thread, u \notin unmoved' PROVE PlaceGood(place[u])'
    BY DEF PlacesInv
  <2> DEFINE was == place[u]
  <2>0. u \notin unmoved /\ place'[u] = IF u \in enlisted THEN Moved(u) ELSE place[u]
    BY <1>1 DEF MoveThreads
  <2>1. PlaceGood(was)
    BY <2>0 DEF DetoursInv, PlacesInv
  <2>2. ASSUME NEW at,
               \/ at = Away
               \/ \E f \in Func, ph \in {"start", "early", "late"} :
                     at = <<"func", f, ph>> /\ Patched[f] = Own
               \/ \E s \in Slot, ph \in {"start", "early", "late", "back"} :
                     /\ at = <<"slot", s, ph>>
                     /\ ph \in {"start", "early"} => \E f \in Func : Pointed[f] = s
        PROVE  PlaceGood(at)'
    BY <1>1, <2>2 DEF PlaceGood
  <2>3. CASE u \notin enlisted
    <3>1. place'[u] = Away
      BY <1>1, <2>0, <2>3
    <3>2. QED
      BY <3>1 DEF PlaceGood
  <2>4. ASSUME NEW i \in DOMAIN ops, NEW at, at = MovedBy(ops[i], was), at # was
        PROVE  PlaceGood(at)'
    <3>1. ops[i] \in Noting /\ Operation(ops[i].func) = ops[i] /\ Noted(ops[i].func)
      BY SlotsOwned
    <3>2. CASE ops[i].remove /\ was[1] = "slot" /\ was[3] \in {"start", "early"}
      <4>1. at = <<"func", ops[i].func, was[3]>>
        BY <2>4, <3>2 DEF MovedBy
      <4>2. was[3] \in {"start", "early", "late"}
        BY <3>2
      <4>3. Patched[ops[i].func] = Own
        <5>1. Patched[ops[i].func] = slots[ops[i].slot].saved
          BY <3>1, <3>2 DEF Patched, Noting
        <5>2. QED
          BY <3>1, <5>1 DEF Noting, DetoursInv, DetoursTypes
      <4>4. QED
        BY <2>2, <3>1, <4>1, <4>2, <4>3 DEF Noting
    <3>3. CASE ~ops[i].remove /\ was[1] = "func"
      <4>1. at = <<"slot", ops[i].slot, was[3]>>
        BY <2>4, <3>3 DEF MovedBy
      <4>2. was[3] \in {"start", "early", "late"}
        BY <2>1, <3>3 DEF PlaceGood, Away
      <4>3. Pointed[ops[i].func] = ops[i].slot
        BY <3>1, <3>3 DEF Pointed, Noting
      <4>4. QED
        BY <2>2, <3>1, <4>1, <4>2, <4>3 DEF Noting
    <3>4. QED
      BY <2>4, <3>2, <3>3 DEF MovedBy
  <2>5. ASSUME \A i \in DOMAIN ops : MovedBy(ops[i], was) = was, NEW at, at = was
        PROVE  PlaceGood(at)'
    <3>1. CASE was = Away
      BY <2>2, <2>5, <3>1
    <3>2. ASSUME NEW f \in Func, NEW ph \in {"start", "early", "late"}, was = <<"func", f, ph>>,
                 code[f] = Own
          PROVE  PlaceGood(at)'
      <4>1. pointer[f] = EntryPoint
        BY <3>2 DEF DetoursInv, OriginalReached
      <4>2. ASSUME NEW i \in DOMAIN ops, ops[i].func = f PROVE FALSE
        <5>1. ops[i] \in Noting /\ OpGood(ops[i])
          BY SlotsOwned
        <5>2. ~ops[i].remove
          BY <4>1, <4>2, <5>1, DetoursAssumptions DEF OpGood, Noting
        <5>3. MovedBy(ops[i], was) = <<"slot", ops[i].slot, ph>>
          BY <3>2, <4>2, <5>2 DEF MovedBy
        <5>4. QED
          BY <2>5, <3>2, <5>3
      <4>3. Patched[f] = Own
        BY <3>2, <4>2 DEF Patched, Noted
      <4>4. QED
        BY <2>2, <2>5, <3>2, <4>3
    <3>3. ASSUME NEW s \in Slot, NEW ph \in {"start", "early", "late", "back"},
                 was = <<"slot", s, ph>>,
                 ph \in {"start", "early"} => \E f \in Func : pointer[f] = s
          PROVE  PlaceGood(at)'
      <4>1. CASE ph \notin {"start", "early"}
        BY <2>2, <2>5, <3>3, <4>1
      <4>2. CASE ph \in {"start", "early"}
        <5>1. PICK f \in Func : pointer[f] = s
          BY <3>3, <4>2
        <5>2. ASSUME NEW i \in DOMAIN ops, ops[i].remove, ops[i].slot = s PROVE FALSE
          <6>1. MovedBy(ops[i], was) = <<"func", ops[i].func, ph>>
            BY <3>3, <4>2, <5>2 DEF MovedBy
          <6>2. QED
            BY <2>5, <3>3, <6>1
        <5>3. Pointed[f] = s
          BY <5>1, <5>2, DetoursAssumptions, Patching
        <5>4. QED
          BY <2>2, <2>5, <3>3, <5>3
      <4>3. QED
        BY <4>1, <4>2
    <3>4. QED
      BY <2>1, <3>1, <3>2, <3>3 DEF PlaceGood
  <2>6. CASE u \in enlisted
    <3>1. place'[u] = Moved(u)
      BY <2>0, <2>6
    <3>2. \/ Moved(u) = was /\ \A i \in DOMAIN ops : MovedBy(ops[i], was) = was
          \/ \E i \in DOMAIN ops : Moved(u) = MovedBy(ops[i], was) /\ Moved(u) # was
      <4> DEFINE moving == {i \in DOMAIN ops : MovedBy(ops[i], place[u]) # place[u]}
                 i == CHOOSE i \in moving : TRUE
      <4>1. Moved(u) = IF moving = {} THEN place[u] ELSE MovedBy(ops[i], place[u])
        BY DEF Moved
      <4>2. CASE moving = {}
        BY <4>1, <4>2
      <4>3. CASE moving # {}
        <5>1. i \in moving
          BY <4>3
        <5>2. i \in DOMAIN ops /\ MovedBy(ops[i], place[u]) # place[u]
          BY <5>1
        <5> HIDE DEF i, moving
        <5>3. QED
          BY <4>1, <4>3, <5>2
      <4>4. QED
        BY <4>2, <4>3
    <3>3. QED
      BY <2>4, <2>5, <3>1, <3>2
  <2>7. QED
    BY <2>3, <2>6
<1>9. QED
  BY <1>4, <1>5, <1>6, <1>7, <1>8 DEF DetoursInv

LEMMA DetoursStep == DetoursInv /\ [DetoursNext]_detours_vars => DetoursInv'
<1> SUFFICES ASSUME DetoursInv, [DetoursNext]_detours_vars PROVE DetoursInv'
  OBVIOUS
<1>1. ASSUME NEW t \in Thread, Begin(t) \/ CommitReturn(t) \/ \E u \in Thread : UpdateThread(t, u)
      PROVE  DetoursInv'
  BY <1>1, BeginStep
<1>2. ASSUME NEW t \in Thread, Run(t) PROVE DetoursInv'
  BY <1>2, RunStep
<1>3. ASSUME NEW t \in Thread, NEW f \in Func, NEW d \in Detour, Attach(t, f, d) \/ Detach(t, f, d)
      PROVE  DetoursInv'
  BY <1>3, AttachStep, DetachStep
<1>4. ASSUME NEW t \in Thread, Abort(t) PROVE DetoursInv'
  BY <1>4, AbortStep DEF Abort
<1>5. ASSUME NEW t \in Thread, Commit(t) PROVE DetoursInv'
  <2>1. CASE error
    BY <1>5, <2>1, AbortStep DEF Commit
  <2>2. CASE ~error
    BY <1>5, <2>2, CommitStep
  <2>3. QED
    BY <2>1, <2>2
<1>6. CASE UNCHANGED detours_vars
  <2>1. UNCHANGED <<owner, error, ops, enlisted, region_vars, writable, code, pointer, prot, place,
                    unprotected, unmoved>>
    BY <1>6 DEF detours_vars, target_vars, refused_vars
  <2>2. DetoursTypes' /\ IdleInv'
    BY <2>1 DEF DetoursInv, DetoursTypes, IdleInv, region_vars
  <2>3. PlacesInv'
    BY <2>1 DEF DetoursInv, PlacesInv, PlaceGood
  <2>4. QED
    BY <2>1, <2>2, <2>3, QuietStep
<1>7. QED
  BY <1>1, <1>2, <1>3, <1>4, <1>5, <1>6 DEF DetoursNext

-----------------------------------------------------------------------------
(* The theorems about transactions.                                        *)

\* The state between any two calls of the library, whatever failed in them
\* (detours.cpp:1156-1308, 1375-1441, 1468-1735, 1786-2266).
THEOREM DetoursInvariant == DetoursSpec => []DetoursInv
BY DetoursInitInv, DetoursStep, PTL DEF DetoursSpec

\* Whatever failed or was aborted, a function has its own code or jumps to a
\* detour whose pointer leads to the original, for any number of functions on
\* any pages (detours.cpp:1468-1735).
THEOREM OriginalsReached == DetoursSpec => []OriginalReached
<1>1. DetoursInv => OriginalReached
  BY DEF DetoursInv
<1>2. QED
  BY <1>1, DetoursInvariant, PTL

\* No trampoline is lost or used twice, and no region in use is released
\* (detours.cpp:1156-1308, 1399-1441, 1826-1850).
THEOREM NoTrampolineLost == DetoursSpec => []TrampolinesAccounted
<1>1. DetoursInv => TrampolinesAccounted
  BY DEF DetoursInv
<1>2. QED
  BY <1>1, DetoursInvariant, PTL

\* Between transactions every page of a function is protected as it was, however
\* many of the functions share one, no region can be written, and no thread
\* counts as suspended, but for the pages and regions whose protection the
\* system refused to put back (detours.cpp:1403-1440, 1695-1731).
THEOREM NothingStays == DetoursSpec => []NothingLeft
<1>1. DetoursInv => NothingLeft
  <2> SUFFICES ASSUME DetoursInv, owner = Nobody, NEW p \in Page, p \notin unprotected
               PROVE  prot[p] = "rx"
    BY DEF DetoursInv, IdleInv, NothingLeft
  <2>1. DOMAIN ops = {}
    BY DEF DetoursInv, IdleInv
  <2>2. QED
    BY <2>1 DEF DetoursInv, PagesInv
<1>2. QED
  BY <1>1, DetoursInvariant, PTL

\* Wherever an enlisted thread was suspended, it does not resume inside a jump,
\* nor among the copies in the first four bytes of a trampoline that was freed,
\* if the system let its context be read and written.  It may resume among the
\* copies behind them, which the program does not look at
\* (detours.cpp:1616-1693).
THEOREM CodeStaysWhole == DetoursSpec => []NoTornCode
<1>1. DetoursInv => NoTornCode
  <2> SUFFICES ASSUME DetoursInv, NEW t \in Thread \ unmoved
               PROVE  LET at == place[t] IN
                      /\ at[1] = "func" /\ at[3] # "start" => code[at[2]] = Own
                      /\ at[1] = "slot" /\ at[3] \in {"start", "early"} => slots[at[2]] # Unused
    BY DEF NoTornCode
  <2> DEFINE at == place[t]
  <2>1. PlaceGood(at)
    BY DEF DetoursInv, PlacesInv
  <2> HIDE DEF at
  <2>2. CASE at = Away
    BY <2>2 DEF Away, at
  <2>3. ASSUME NEW f \in Func, NEW ph \in {"start", "early", "late"}, at = <<"func", f, ph>>,
               code[f] = Own
        PROVE  at[1] = "func" /\ at[2] = f
    BY <2>3
  <2>4. ASSUME NEW s \in Slot, NEW ph \in {"start", "early", "late", "back"}, at = <<"slot", s, ph>>,
               ph \in {"start", "early"} => \E f \in Func : pointer[f] = s
        PROVE  at[1] = "slot" /\ at[2] = s /\ (at[3] \in {"start", "early"} => slots[s] # Unused)
    <3>1. ASSUME ph \in {"start", "early"} PROVE s \in Used
      <4>1. PICK f \in Func : pointer[f] = s
        BY <2>4, <3>1
      <4>2. QED
        BY <4>1, SlotsOwned, DetoursAssumptions
    <3>2. QED
      BY <2>4, <3>1 DEF Used
  <2>5. QED
    BY <2>1, <2>2, <2>3, <2>4 DEF PlaceGood, at
<1>2. QED
  BY <1>1, DetoursInvariant, PTL

-----------------------------------------------------------------------------
(* Transactions: what they promise.                                        *)

RedirectionStep == [Redirected!RedirectionNext]_(Redirected!redirection_vars)

\* The operation on a function is the only one there is.
LEMMA TheOperation ==
    ASSUME NEW q, NEW i \in DOMAIN q,
           \A j, k \in DOMAIN q : q[j].func = q[k].func => j = k
    PROVE  q[CHOOSE j \in DOMAIN q : q[j].func = q[i].func] = q[i]
<1> DEFINE c == CHOOSE j \in DOMAIN q : q[j].func = q[i].func
<1>1. c \in DOMAIN q /\ q[c].func = q[i].func
  OBVIOUS
<1> HIDE DEF c
<1>2. c = i
  BY <1>1
<1>3. QED
  BY <1>2 DEF c

LEMMA IntendedSame ==
    ASSUME UNCHANGED <<ops, slots, code>>
    PROVE  Intended' = Intended
<1>1. \A f \in Func : (Noted(f)' <=> Noted(f)) /\ Operation(f)' = Operation(f)
  BY DEF Noted, Operation
<1>2. QED
  BY <1>1 DEF Intended

\* Noting an operation changes what is asked of its function, nothing else.
LEMMA IntendedNoted ==
    ASSUME DetoursInv, DetoursInv', NEW f \in Func, ~Noted(f), NEW op \in Noting,
           Note(op), op.func = f, UNCHANGED code,
           \A i \in DOMAIN ops : slots'[ops[i].slot] = slots[ops[i].slot]
    PROVE  /\ Intended[f] = code[f]
           /\ Intended' = [Intended EXCEPT ![f] =
                              IF op.remove THEN Own ELSE slots'[op.slot].detour]
<1>1. ops \in Seq(Noting) /\ ops' = <<op>> \o ops
  BY DEF DetoursInv, DetoursTypes, Note
<1>2. /\ DOMAIN ops' = 1..(Len(ops) + 1) /\ DOMAIN ops = 1..Len(ops) /\ Len(ops) \in Nat
      /\ ops'[1] = op
      /\ \A i \in DOMAIN ops : ops'[i + 1] = ops[i]
      /\ \A i \in DOMAIN ops' : i # 1 => i - 1 \in DOMAIN ops /\ ops'[i] = ops[i - 1]
  BY <1>1, Prepended
<1>3. 1 \in DOMAIN ops' /\ \A i \in DOMAIN ops : i + 1 \in DOMAIN ops'
  BY <1>2
<1>4. /\ \A j, k \in DOMAIN ops : ops[j].func = ops[k].func => j = k
      /\ \A j, k \in DOMAIN ops' : ops'[j].func = ops'[k].func => j = k
  BY DEF DetoursInv, OpsInv
<1>5. Noted(f)' /\ Operation(f)' = op
  <2>1. Noted(f)'
    BY <1>2, <1>3 DEF Noted
  <2>2. ops'[CHOOSE j \in DOMAIN ops' : ops'[j].func = ops'[1].func] = ops'[1]
    BY <1>3, <1>4, TheOperation
  <2>3. QED
    BY <1>2, <2>1, <2>2 DEF Operation
<1>6. ASSUME NEW g \in Func, g # f
      PROVE  /\ Noted(g)' <=> Noted(g)
             /\ Noted(g) => /\ Operation(g)' = Operation(g)
                            /\ slots'[Operation(g).slot] = slots[Operation(g).slot]
  <2>1. ASSUME Noted(g)
        PROVE  /\ Noted(g)' /\ Operation(g)' = Operation(g)
               /\ slots'[Operation(g).slot] = slots[Operation(g).slot]
    <3>1. PICK i \in DOMAIN ops : ops[i].func = g
      BY <2>1 DEF Noted
    <3>2. i + 1 \in DOMAIN ops' /\ ops'[i + 1] = ops[i]
      BY <1>2, <1>3, <3>1
    <3>3. Operation(g) = ops[i]
      BY <1>4, <3>1, TheOperation DEF Operation
    <3>4. ops'[CHOOSE j \in DOMAIN ops' : ops'[j].func = ops'[i + 1].func] = ops'[i + 1]
      BY <1>4, <3>2, TheOperation
    <3>5. Operation(g)' = ops[i] /\ Noted(g)'
      BY <3>1, <3>2, <3>4 DEF Operation, Noted
    <3>6. QED
      BY <3>1, <3>3, <3>5
  <2>2. ASSUME Noted(g)' PROVE Noted(g)
    <3>1. PICK i \in DOMAIN ops' : ops'[i].func = g
      BY <2>2 DEF Noted
    <3>2. i # 1
      BY <1>2, <1>6, <3>1
    <3>3. QED
      BY <1>2, <3>1, <3>2 DEF Noted
  <2>3. QED
    BY <2>1, <2>2
<1>7. Intended[f] = code[f]
  BY DEF Intended
<1>8. Intended'[f] = IF op.remove THEN Own ELSE slots'[op.slot].detour
  BY <1>5 DEF Intended
<1>9. ASSUME NEW g \in Func, g # f PROVE Intended'[g] = Intended[g]
  <2>1. CASE Noted(g)
    <3>1. Noted(g)' /\ Operation(g)' = Operation(g)
          /\ slots'[Operation(g).slot] = slots[Operation(g).slot]
      BY <1>6, <1>9, <2>1
    <3>2. Intended[g] = IF Operation(g).remove THEN Own ELSE slots[Operation(g).slot].detour
      BY <2>1 DEF Intended
    <3>3. Intended'[g] = IF Operation(g)'.remove THEN Own ELSE slots'[Operation(g)'.slot].detour
      BY <3>1 DEF Intended
    <3>4. QED
      BY <3>1, <3>2, <3>3
  <2>2. CASE ~Noted(g)
    <3>1. ~Noted(g)'
      BY <1>6, <1>9, <2>2
    <3>2. QED
      BY <2>2, <3>1 DEF Intended
  <2>3. QED
    BY <2>1, <2>2
<1>10. Intended = [g \in Func |-> Intended[g]] /\ Intended' = [g \in Func |-> Intended'[g]]
  BY DEF Intended
<1>11. QED
  <2> HIDE DEF Intended
  <2>1. QED
    BY <1>7, <1>8, <1>9, <1>10

\* A commit gives every function what was intended for it.
LEMMA PatchedIntended == DetoursInv => Patched = Intended
<1> SUFFICES ASSUME DetoursInv PROVE Patched = Intended
  OBVIOUS
<1>1. ASSUME NEW f \in Func PROVE Patched[f] = Intended[f]
  <2>1. CASE ~Noted(f)
    BY <2>1 DEF Patched, Intended
  <2>2. CASE Noted(f)
    <3>1. PICK i \in DOMAIN ops : ops[i].func = f
      BY <2>2 DEF Noted
    <3>2. Operation(f) = ops[i] /\ ops[i].slot \in Used
      BY <3>1, SlotsOwned
    <3>3. slots[ops[i].slot].saved = Own
      BY <3>2 DEF DetoursInv, DetoursTypes, Used
    <3>4. /\ Patched[f] = IF ops[i].remove THEN slots[ops[i].slot].saved ELSE slots[ops[i].slot].detour
          /\ Intended[f] = IF ops[i].remove THEN Own ELSE slots[ops[i].slot].detour
      BY <2>2, <3>2 DEF Patched, Intended
    <3>5. QED
      BY <3>3, <3>4
  <2>3. QED
    BY <2>1, <2>2
<1>2. QED
  BY <1>1 DEF Patched, Intended

\* Without operations nothing is asked.
LEMMA NothingIntended ==
    ASSUME ops' = <<>>, DOMAIN code' = Func
    PROVE  Intended' = [f \in Func |-> code'[f]]
<1>1. \A f \in Func : ~Noted(f)'
  BY DEF Noted
<1>2. QED
  BY <1>1 DEF Intended

LEMMA AttachRedirects ==
    ASSUME DetoursInv, DetoursInv', NEW t \in Thread, NEW f \in Func, NEW d \in Detour,
           Attach(t, f, d)
    PROVE  RedirectionStep
<1>1. /\ owner = t /\ ~error /\ pointer[f] = EntryPoint /\ ~Noted(f)
      /\ UNCHANGED <<owner, code, pointer>>
  BY DEF Attach, Calls, target_vars
<1>2. code[f] = Own
  BY <1>1, DetoursAssumptions DEF DetoursInv, OriginalReached
<1>3. CASE error' = TRUE /\ UNCHANGED <<ops, slots>>
  <2>1. Intended' = Intended
    BY <1>1, <1>3, IntendedSame
  <2>2. Redirected!Fail(t)
    BY <1>1, <1>3, <2>1 DEF Redirected!Fail
  <2>3. QED
    BY <2>2 DEF RedirectionStep, Redirected!RedirectionNext
<1>4. ASSUME NEW s, NEW r \in Region, s = <<r, Head(FreeList(r))>>, Alloc(r),
             slots' = [slots EXCEPT ![s] = [func |-> f, detour |-> d, saved |-> code[f]]],
             Note([remove |-> FALSE, func |-> f, slot |-> s, perm |-> prot[PageOf[f]]]),
             UNCHANGED error
      PROVE  RedirectionStep
  <2>1. s[2] \in 2..(PerRegion - 1) /\ s \notin Used
    <3>1. FreeList(r) # <<>>
      BY <1>4 DEF Alloc
    <3>2. QED
      BY <1>4, <3>1, FreeListGood, HeadTaken
  <2>2. s \in Slot
    BY <1>4, <2>1, DetoursAssumptions DEF Slot
  <2>3. PICK op \in Noting :
           op = [remove |-> FALSE, func |-> f, slot |-> s, perm |-> prot[PageOf[f]]]
    BY <2>2 DEF DetoursInv, DetoursTypes, Noting, Page
  <2>4. op.func = f /\ op.slot = s /\ op.remove = FALSE /\ Note(op)
    BY <1>4, <2>3
  <2>5. slots'[s].detour = d /\ \A x \in Slot \ {s} : slots'[x] = slots[x]
    BY <1>4, <2>2 DEF DetoursInv, DetoursTypes
  <2>6. \A i \in DOMAIN ops : slots'[ops[i].slot] = slots[ops[i].slot]
    <3>1. \A i \in DOMAIN ops : ops[i].slot \in Slot \ {s}
      BY <2>1, SlotsOwned DEF Used
    <3>2. QED
      BY <2>5, <3>1
  <2>7. Intended[f] = code[f] /\ Intended' = [Intended EXCEPT ![f] = d]
    BY <1>1, <2>4, <2>5, <2>6, IntendedNoted
  <2>8. Redirected!Redirect(t, f, d)
    BY <1>1, <1>2, <1>4, <2>7 DEF Redirected!Redirect, Redirected!Ask
  <2>9. QED
    BY <2>8 DEF RedirectionStep, Redirected!RedirectionNext
<1>5. QED
  BY <1>3, <1>4 DEF Attach

LEMMA DetachRestores ==
    ASSUME DetoursInv, DetoursInv', NEW t \in Thread, NEW f \in Func, NEW d \in Detour,
           Detach(t, f, d)
    PROVE  RedirectionStep
<1>1. /\ owner = t /\ ~error /\ pointer[f] # EntryPoint /\ ~Noted(f)
      /\ UNCHANGED <<owner, slots, code, pointer>>
  BY DEF Detach, Calls, target_vars, region_vars
<1>2. CASE error' = TRUE /\ UNCHANGED ops
  <2>1. Intended' = Intended
    BY <1>1, <1>2, IntendedSame
  <2>2. Redirected!Fail(t)
    BY <1>1, <1>2, <2>1 DEF Redirected!Fail
  <2>3. QED
    BY <2>2 DEF RedirectionStep, Redirected!RedirectionNext
<1>3. CASE /\ slots[pointer[f]].detour = d
           /\ Note([remove |-> TRUE, func |-> f, slot |-> pointer[f], perm |-> prot[PageOf[f]]])
           /\ UNCHANGED error
  <2>1. code[f] = d
    <3>1. code[f] # Own
      BY <1>1 DEF DetoursInv, OriginalReached
    <3>2. slots[pointer[f]] = [func |-> f, detour |-> code[f], saved |-> Own]
      BY <3>1 DEF DetoursInv, OriginalReached
    <3>3. slots[pointer[f]].detour = code[f]
      BY <3>2
    <3>4. QED
      BY <1>3, <3>3
  <2>2. PICK op \in Noting :
           op = [remove |-> TRUE, func |-> f, slot |-> pointer[f], perm |-> prot[PageOf[f]]]
    BY <1>1 DEF DetoursInv, DetoursTypes, Noting, Page
  <2>3. op.func = f /\ op.remove = TRUE /\ Note(op)
    BY <1>3, <2>2
  <2>4. Intended[f] = code[f] /\ Intended' = [Intended EXCEPT ![f] = Own]
    BY <1>1, <2>3, IntendedNoted
  <2>5. Redirected!Restore(t, f, d)
    BY <1>1, <1>3, <2>1, <2>4 DEF Redirected!Restore, Redirected!Ask
  <2>6. QED
    BY <2>5 DEF RedirectionStep, Redirected!RedirectionNext
<1>4. QED
  BY <1>2, <1>3 DEF Detach

LEMMA EndDecides ==
    ASSUME DetoursInv, DetoursInv', NEW t \in Thread, Abort(t) \/ Commit(t)
    PROVE  RedirectionStep
<1>1. owner = t /\ owner' = Nobody /\ ops' = <<>> /\ UNCHANGED error
  BY DEF Abort, Commit, AbortAll, Finish, Calls
<1>2. Intended' = code'
  <2>1. code' = [f \in Func |-> code'[f]] /\ DOMAIN code' = Func
    BY DEF DetoursInv, DetoursTypes
  <2>2. QED
    BY <1>1, <2>1, NothingIntended
<1>3. CASE UNCHANGED code
  <2>1. Redirected!Abandon(t)
    BY <1>1, <1>2, <1>3 DEF Redirected!Abandon
  <2>2. QED
    BY <2>1 DEF RedirectionStep, Redirected!RedirectionNext
<1>4. CASE ~error /\ code' = Patched
  <2>1. code' = Intended
    BY <1>4, PatchedIntended
  <2>2. Redirected!Apply(t)
    BY <1>1, <1>2, <1>4, <2>1 DEF Redirected!Apply
  <2>3. QED
    BY <2>2 DEF RedirectionStep, Redirected!RedirectionNext
<1>5. QED
  BY <1>3, <1>4 DEF Abort, Commit, AbortAll, target_vars

LEMMA OthersKeep ==
    ASSUME DetoursInv, DetoursInv', NEW t \in Thread,
           \/ Begin(t) \/ CommitReturn(t) \/ Run(t)
           \/ \E u \in Thread : UpdateThread(t, u)
    PROVE  RedirectionStep
<1>1. Intended' = Intended /\ UNCHANGED code
  <2>1. UNCHANGED <<slots, code>>
    BY DEF Begin, CommitReturn, Run, UpdateThread, region_vars, target_vars
  <2>2. UNCHANGED ops
    BY DEF Begin, CommitReturn, Run, UpdateThread, DetoursInv, IdleInv
  <2>3. QED
    BY <2>1, <2>2, IntendedSame
<1>2. CASE Begin(t)
  <2>1. Redirected!Open(t)
    BY <1>1, <1>2 DEF Begin, Redirected!Open
  <2>2. QED
    BY <2>1 DEF RedirectionStep, Redirected!RedirectionNext
<1>3. CASE CommitReturn(t) \/ Run(t)
  BY <1>1, <1>3 DEF CommitReturn, Run, RedirectionStep, Redirected!redirection_vars
<1>4. ASSUME NEW u \in Thread, UpdateThread(t, u) PROVE RedirectionStep
  <2>1. CASE UNCHANGED error
    BY <1>1, <1>4, <2>1 DEF UpdateThread, RedirectionStep, Redirected!redirection_vars
  <2>2. CASE error' = TRUE
    <3>1. Redirected!Fail(t)
      BY <1>1, <1>4, <2>2 DEF UpdateThread, Calls, Redirected!Fail
    <3>2. QED
      BY <3>1 DEF RedirectionStep, Redirected!RedirectionNext
  <2>3. QED
    BY <1>4, <2>1, <2>2 DEF UpdateThread
<1>5. QED
  BY <1>2, <1>3, <1>4

\* The transactions keep their promise, for any number of functions, detours
\* and threads: all that was asked happens at a commit, if nothing failed, or
\* nothing does (detours.cpp:1310-1735).
THEOREM DetoursImplementRedirection == DetoursSpec => ImplementsRedirection
<1>1. DetoursInit => DetoursInv /\ Redirected!RedirectionInit
  <2> SUFFICES ASSUME DetoursInit PROVE DetoursInv /\ Redirected!RedirectionInit
    OBVIOUS
  <2>1. Intended = code
    BY DEF DetoursInit, Intended, Noted
  <2>2. QED
    BY <2>1, DetoursInitInv DEF DetoursInit, Redirected!RedirectionInit
<1>2. DetoursInv /\ [DetoursNext]_detours_vars => DetoursInv' /\ RedirectionStep
  <2> SUFFICES ASSUME DetoursInv, [DetoursNext]_detours_vars PROVE DetoursInv' /\ RedirectionStep
    OBVIOUS
  <2>1. DetoursInv'
    BY DetoursStep
  <2>2. CASE UNCHANGED detours_vars
    <3>1. UNCHANGED <<ops, slots, code, owner, error>>
      BY <2>2 DEF detours_vars, region_vars, target_vars
    <3>2. QED
      BY <2>1, <3>1, IntendedSame DEF RedirectionStep, Redirected!redirection_vars
  <2>3. QED
    BY <2>1, <2>2, AttachRedirects, DetachRestores, EndDecides, OthersKeep DEF DetoursNext
<1>3. QED
  BY <1>1, <1>2, PTL DEF DetoursSpec, ImplementsRedirection, Redirected!RedirectionSpec, RedirectionStep
=============================================================================
