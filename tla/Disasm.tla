-------------------------------- MODULE Disasm --------------------------------
(***************************************************************************)
(* How DetourCopyInstruction measures an instruction and finds its target  *)
(* (x86 build of sdk/detours/src/disasm.cpp:191-590, 640-845, 868-1527),   *)
(* a byte at a time: prefixes set overrides, an escape changes the table,  *)
(* the opcode's entry says how long the rest is.  Prologue takes the       *)
(* instructions and their lengths from here.                               *)
(***************************************************************************)
EXTENDS Integers

CONSTANTS
    PrefixBytes,  \* the prefix bytes that may occur
    MaxPrefixes,  \* bound: how many of them before an opcode; no instruction
                  \* is longer than 15 bytes
    ModRms,       \* the ModR/M bytes that may occur
    Rtm           \* whether XBEGIN may occur

\* 0 also stands where no ModR/M byte follows the opcode.
ASSUME ModRmAssumption == 0 \in ModRms

VARIABLES
    before,       \* the bytes before the opcode
    table,        \* the table the opcode is looked up in, by its escape bytes
    vex,          \* m_bVex
    operand,      \* m_bOperandOverride
    address,      \* m_bAddressOverride
    f2,           \* m_bF2
    f3,           \* m_bF3
    instr,        \* the opcode, and the ModR/M and SIB bytes behind it
    result        \* the size returned, and whether *ppTarget was computed

override_vars == <<vex, operand, address, f2, f3>>
disasm_vars == <<before, table, override_vars, instr, result>>

Byte == 0..255
Unread == [op |-> -1, modrm |-> 0, sib |-> 0]
Mod(modrm) == modrm \div 64
Reg(modrm) == (modrm \div 8) % 8
Rm(modrm) == modrm % 8
-----------------------------------------------------------------------------
(* Entries of the tables.                                                  *)

Copies(fixed, fixed16, mod, rel, address_size) ==
    [fixed |-> fixed, fixed16 |-> fixed16, mod |-> mod, rel |-> rel, address |-> address_size]

CopyBytes(n) == Copies(n, n, 0, 0, FALSE)
CopyBytesMod(n) == Copies(n, n, n - 1, 0, FALSE)      \* ENTRY_CopyBytes2Mod, 3Mod
CopyBytesMod1(n) == Copies(n, n, n - 2, 0, FALSE)     \* an immediate byte follows
CopyBytes2ModOperand == Copies(6, 4, 1, 0, FALSE)
CopyBytes3Or5 == Copies(5, 3, 0, 0, FALSE)

\* Mutant: the offset of the target is forgotten.
CopyBytes3Or5Target_Unmoved == Copies(5, 3, 0, 0, FALSE)

CopyBytes3Or5Target == Copies(5, 3, 0, 1, FALSE)
CopyBytes5Or7 == Copies(7, 5, 0, 0, FALSE)
CopyBytes1Address == Copies(5, 3, 0, 0, TRUE)
CopyBytesJump == Copies(2, 2, 0, 1, FALSE)            \* ENTRY_CopyBytes2Jump, 2CantJump
Invalid == CopyBytes(0)

\* Bytes that no instruction has as its opcode in the first table.
Leading == {\h0F, \h26, \h2E, \h36, \h3E, \h64, \h65, \h66, \h67, \hF0, \hF2, \hF3}

Arithmetic(op) ==
    CASE op \in Leading -> Invalid
      [] op % 8 < 4     -> CopyBytesMod(2)
      [] op % 8 = 4     -> CopyBytes(2)
      [] op % 8 = 5     -> CopyBytes3Or5
      [] OTHER          -> CopyBytes(1)

Stack(op) ==
    CASE op \in Leading                -> Invalid
      [] op \in {\h62, \h63}           -> CopyBytesMod(2)
      [] op = \h68                     -> CopyBytes3Or5
      [] op = \h69                     -> CopyBytes2ModOperand
      [] op = \h6A                     -> CopyBytes(2)
      [] op = \h6B                     -> CopyBytesMod1(3)
      [] op \in \h70..\h7F             -> CopyBytesJump
      [] OTHER                         -> CopyBytes(1)

Moves(op) ==
    CASE op \in {\h80, \h82, \h83}     -> CopyBytesMod1(3)
      [] op = \h81                     -> CopyBytes2ModOperand
      [] op \in \h84..\h8F             -> CopyBytesMod(2)
      [] op = \h9A                     -> CopyBytes5Or7
      [] op \in \hA0..\hA3             -> CopyBytes1Address
      [] op \in {\hA8} \union \hB0..\hB7 -> CopyBytes(2)
      [] op \in {\hA9} \union \hB8..\hBF -> CopyBytes3Or5
      [] OTHER                         -> CopyBytes(1)

\* CopyF6, CopyF7: TEST has an immediate.
Control(op, modrm) ==
    CASE op \in Leading \union {\hD6}  -> Invalid
      [] op \in {\hC0, \hC1, \hC6}     -> CopyBytesMod1(3)
      [] op \in {\hC2, \hCA}           -> CopyBytes(3)
      [] op \in {\hC4, \hC5}           -> IF Mod(modrm) = 3 THEN Invalid ELSE CopyBytesMod(2)
      [] op = \hC7                     -> CopyBytes2ModOperand
      [] op = \hC8                     -> CopyBytes(4)
      [] op \in {\hCD, \hD4, \hD5} \union \hE4..\hE7 -> CopyBytes(2)
      [] op \in \hE0..\hE3 \union {\hEB} -> CopyBytesJump
      [] op \in {\hE8, \hE9}           -> CopyBytes3Or5Target
      [] op = \hEA                     -> CopyBytes5Or7
      [] op = \hF6 /\ Reg(modrm) = 0   -> CopyBytesMod1(3)
      [] op = \hF7 /\ Reg(modrm) = 0   -> CopyBytes2ModOperand
      [] \/ op \in \hD0..\hD3 \union \hD8..\hDF \union {\hFE, \hFF}
         \/ op \in {\hF6, \hF7} /\ Reg(modrm) # 0
                                       -> CopyBytesMod(2)
      [] OTHER                         -> CopyBytes(1)

\* Copy0F78: VMREAD, or EXTRQ and INSERTQ with two immediate bytes.
Media(op) ==
    CASE op \in {\h04, \h0A, \h0C, \h25, \h27, \h36, \h39, \h7A, \h7B} \union \h3B..\h3F
                                       -> Invalid
      [] op \in \h05..\h09 \union \h30..\h35 \union {\h0B, \h0E, \h37, \h77}
                                       -> CopyBytes(1)
      [] op \in \h70..\h73 \union {\h0F} -> CopyBytesMod1(3)
      [] op = \h38                     -> CopyBytesMod(3)
      [] op = \h3A                     -> CopyBytesMod1(4)
      [] op = \h78 /\ (f2 \/ operand)  -> CopyBytes(4)
      [] OTHER                         -> CopyBytesMod(2)

\* Copy0FB8: POPCNT, or JMPE.
Bits(op) ==
    CASE op \in {\hB9, \hFF}           -> Invalid
      [] op \in \h80..\h8F             -> CopyBytes3Or5Target
      [] op \in \hA0..\hA2 \union \hA8..\hAA \union \hC8..\hCF -> CopyBytes(1)
      [] op \in {\hA4, \hAC, \hBA, \hC2} \union \hC4..\hC6 -> CopyBytesMod1(3)
      [] op = \hB8 /\ ~f3              -> CopyBytes3Or5
      [] OTHER                         -> CopyBytesMod(2)

EntryOf(op, modrm) ==
    CASE table = "0F38" -> CopyBytesMod(2)
      [] table = "0F3A" -> CopyBytesMod1(3)
      [] table = "0F"   -> IF op < \h80 THEN Media(op) ELSE Bits(op)
      [] OTHER          -> CASE op < \h40 -> Arithmetic(op)
                             [] op \in \h40..\h7F -> Stack(op)
                             [] op \in \h80..\hBF -> Moves(op)
                             [] OTHER -> Control(op, modrm)

\* s_rbModRm: what follows the ModR/M byte, and whether a SIB byte does.
ModRm(modrm) ==
    CASE Mod(modrm) = 0 -> IF Rm(modrm) \in {4, 5} THEN IF Rm(modrm) = 4 THEN 1 ELSE 4 ELSE 0
      [] Mod(modrm) = 1 -> IF Rm(modrm) = 4 THEN 2 ELSE 1
      [] Mod(modrm) = 2 -> IF Rm(modrm) = 4 THEN 5 ELSE 4
      [] Mod(modrm) = 3 -> 0

HasSib(modrm) == Mod(modrm) = 0 /\ Rm(modrm) = 4

\* Mutant: the base of a SIB byte is not looked at.
Sib_NoBase(modrm, sib) == 0

Sib(modrm, sib) == IF HasSib(modrm) /\ sib % 8 = 5 THEN 4 ELSE 0

\* CDetourDis::CopyBytes
Size(entry, modrm, sib) ==
    LET fixed == IF entry.address
                 THEN IF address THEN entry.fixed16 ELSE entry.fixed
                 ELSE IF operand THEN entry.fixed16 ELSE entry.fixed
    IN  fixed + (IF entry.mod = 0 THEN 0 ELSE ModRm(modrm) + Sib(modrm, sib))
-----------------------------------------------------------------------------
Reading == instr = Unread

Prefix(b) ==
    /\ Reading /\ table = "first" /\ before < MaxPrefixes
    /\ before' = before + 1
    /\ operand' = (operand \/ b = \h66)
    /\ address' = (address \/ b = \h67)
    /\ f2' = (f2 \/ b = \hF2)
    /\ f3' = (f3 \/ b = \hF3)
    /\ UNCHANGED <<table, vex, instr, result>>

Copy0F ==
    /\ Reading /\ table = "first"
    /\ table' = "0F" /\ before' = before + 1
    /\ UNCHANGED <<override_vars, instr, result>>

\* CopyVex2 and CopyVex3, behind whatever prefixes; the one folded in is p.
CopyVex(n, m, p) ==
    /\ Reading /\ table = "first"
    /\ n = 2 => m = "0F"
    /\ table' = m /\ before' = before + n /\ vex' = TRUE
    /\ operand' = (operand \/ p = \h66)
    /\ f3' = (f3 \/ p = \hF3)
    /\ f2' = (f2 \/ p = \hF2)
    /\ UNCHANGED <<address, instr, result>>

\* The opcode is looked up; the ModR/M byte is whatever follows.  The SIB byte
\* of the escapes 0F 38 and 0F 3A lies one further, as their entries say.
Opcode(op, modrm, sib) ==
    LET entry == EntryOf(op, modrm) IN
    /\ Reading /\ entry # Invalid
    /\ entry.mod = 0 => modrm = 0
    /\ vex => entry.rel = 0 /\ entry.fixed = entry.fixed16
    /\ instr' = [op |-> op, modrm |-> modrm, sib |-> sib]
    /\ result' = [size |-> before + Size(entry, modrm, sib), target |-> entry.rel # 0]
    /\ UNCHANGED <<before, table, override_vars>>

DisasmInit ==
    /\ before = 0 /\ table = "first" /\ vex = FALSE
    /\ operand = FALSE /\ address = FALSE /\ f2 = FALSE /\ f3 = FALSE
    /\ instr = Unread /\ result = [size |-> 0, target |-> FALSE]

XBegin(op, modrm) == table = "first" /\ op = \hC7 /\ Reg(modrm) = 7

DisasmNext ==
    \/ \E b \in PrefixBytes : Prefix(b)
    \/ Copy0F
    \/ \E n \in {2, 3}, m \in {"0F", "0F38", "0F3A"}, p \in {0, \h66, \hF3, \hF2} : CopyVex(n, m, p)
    \/ /\ Reading
       /\ \E op \in Byte, modrm \in ModRms, sib \in {0, \h25} :
             /\ sib = \h25 => Rm(modrm) = 4
             /\ XBegin(op, modrm) => Rtm
             /\ Opcode(op, modrm, sib)

DisasmSpec == DisasmInit /\ [][DisasmNext]_disasm_vars
-----------------------------------------------------------------------------
(* The instruction set by its manual: an opcode, a ModR/M byte for those   *)
(* that have operands in memory or registers, the displacement it asks     *)
(* for, and the immediate operand.                                         *)

WithModRm ==
    LET op == instr.op IN
    CASE table = "first"   -> \/ op < \h40 /\ op % 8 < 4
                         \/ op \in {\h62, \h63, \h69, \h6B, \hF6, \hF7, \hFE, \hFF}
                         \/ op \in \h80..\h8F \union {\hC0, \hC1} \union \hC4..\hC7
                         \/ op \in \hD0..\hD3 \union \hD8..\hDF
      [] table = "0F" -> ~ \/ op \in \h05..\h09 \union \h30..\h37 \union \h80..\h8F
                           \/ op \in {\h0B, \h0E, \h77} \union \hA0..\hA2 \union \hA8..\hAA
                           \/ op \in \hC8..\hCF
                           \/ op = \hB8 /\ ~f3
      [] OTHER        -> TRUE

Displacement ==
    LET mod == Mod(instr.modrm) rm == Rm(instr.modrm) IN
    IF address
    THEN CASE mod = 3 -> 0 [] mod = 1 -> 1 [] mod = 2 -> 2
           [] mod = 0 -> IF rm = 6 THEN 2 ELSE 0
    ELSE CASE mod = 3 -> 0
           [] mod = 1 -> (IF rm = 4 THEN 1 ELSE 0) + 1
           [] mod = 2 -> (IF rm = 4 THEN 1 ELSE 0) + 4
           [] mod = 0 -> (IF rm = 4 THEN 1 ELSE 0)
                         + (IF rm = 5 \/ (rm = 4 /\ instr.sib % 8 = 5) THEN 4 ELSE 0)

Immediate ==
    LET op == instr.op
        z == IF operand THEN 2 ELSE 4
        reg == Reg(instr.modrm)
    IN
    CASE table = "0F38" -> 0
      [] table = "0F3A" -> 1
      [] table = "0F" ->
           CASE op \in \h70..\h73 \union {\h0F, \h3A, \hA4, \hAC, \hBA, \hC2, \hC4, \hC5, \hC6} -> 1
             [] op = \h78 -> IF f2 \/ operand THEN 2 ELSE 0
             [] op \in \h80..\h8F -> z
             [] op = \hB8 -> IF f3 THEN 0 ELSE z
             [] OTHER -> 0
      [] OTHER ->
           CASE op < \h40 -> CASE op % 8 = 4 -> 1 [] op % 8 = 5 -> z [] OTHER -> 0
             [] op \in \h70..\h7F \union \hB0..\hB7 \union \hE0..\hE7 -> 1
             [] op \in {\h6A, \h6B, \h80, \h82, \h83, \hA8, \hC0, \hC1, \hC6, \hCD,
                        \hD4, \hD5, \hEB} -> 1
             [] op \in {\h68, \h69, \h81, \hA9, \hC7, \hE8, \hE9} \union \hB8..\hBF -> z
             [] op \in {\hC2, \hCA} -> 2
             [] op = \hC8 -> 3
             [] op \in {\h9A, \hEA} -> z + 2
             [] op \in \hA0..\hA3 -> IF address THEN 2 ELSE 4
             [] op = \hF6 -> IF reg = 0 THEN 1 ELSE 0
             [] op = \hF7 -> IF reg = 0 THEN z ELSE 0
             [] OTHER -> 0

\* 0F 38 and 0F 3A are entries of the second table, with one more byte.
Length ==
    before + 1 + (IF WithModRm THEN 1 + Displacement ELSE 0) + Immediate
           + (IF table = "0F" /\ instr.op \in {\h38, \h3A} THEN 1 ELSE 0)

Relative ==
    \/ table = "first" /\ instr.op \in \h70..\h7F \union \hE0..\hE3 \union {\hE8, \hE9, \hEB}
    \/ table = "first" /\ XBegin(instr.op, instr.modrm)
    \/ table = "0F" /\ instr.op \in \h80..\h8F
-----------------------------------------------------------------------------
\* Every instruction is measured as long as it is, whatever prefixes precede
\* it, so that DetourAttachEx moves whole instructions ("full support for all
\* x86 chips prior to the Pentium III", disasm.cpp:165).
LengthsRight == ~Reading => result.size = Length

\* The targets of all instructions that have a relative one are found, and
\* those of no others adjusted: copying "insures that any targets remain
\* constant" (disasm.cpp:155-157).
TargetsFound == ~Reading => (result.target <=> Relative)
=============================================================================
