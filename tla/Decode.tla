------------------------------- MODULE Decode -------------------------------
(***************************************************************************)
(* The MIPS decoder, src/InstructionSets/InstructionSetMIPS4.c: four       *)
(* independent switch tables over the same instruction word.               *)
(*                                                                         *)
(*   ops_type          names the operation (the segment builder asks it)   *)
(*   ops_BranchOffset  the distance of a branch (the segment builder)      *)
(*   ops_JumpAddress   the word index of a jump                            *)
(*   mips_decode       the record the translation passes work on           *)
(*   ops_regs_input,   the registers an operation reads and writes         *)
(*   ops_regs_output                                                       *)
(*                                                                         *)
(* A word is a record of the fields the tables look at.  Fields that share *)
(* bits in the encoding (imm with rd, sa and fn; index with all of them)   *)
(* are kept apart: each operation reads one reading of them only.  imm has *)
(* ImmBits bits (16 in the program, 26 for the index of J and JAL).       *)
(***************************************************************************)
EXTENDS Integers, Sequences, FiniteSets

CONSTANT ImmBits

ASSUME ImmBitsAssumption == ImmBits \in Nat \ {0}

\* The word with every field 0 is the NOP of the assembler.
Word(op, rs, rt, rd, sa, fn, imm) ==
  [op |-> op, rs |-> rs, rt |-> rt, rd |-> rd, sa |-> sa, fn |-> fn, imm |-> imm]

IsNop(w) == w = Word(0, 0, 0, 0, 0, 0, 0)

\* IMM(x, 16) sign-extends, IMMU(x, 16) does not.
IMM(w) == IF w.imm >= 2^(ImmBits - 1) THEN w.imm - 2^ImmBits ELSE w.imm
IMMU(w) == w.imm

-----------------------------------------------------------------------------
\* The names of the operations by major opcode, function code, rt and rs.

X == "INVALID"

Major == <<X, X, "J", "JAL", "BEQ", "BNE", "BLEZ", "BGTZ",
  "ADDI", "ADDIU", "SLTI", "SLTIU", "ANDI", "ORI", "XORI", "LUI",
  X, X, X, X, "BEQL", "BNEL", "BLEZL", "BGTZL",
  "DADDI", "DADDIU", "LDL", "LDR", X, X, X, X,
  "LB", "LH", "LWL", "LW", "LBU", "LHU", "LWR", "LWU",
  "SB", "SH", "SWL", "SW", "SDL", "SDR", "SWR", "CACHE",
  "LL", "LWC1", X, X, "LLD", "LDC1", X, "LD",
  "SC", "SWC1", X, X, "SCD", "SDC1", X, "SD">>

Special == <<"SLL", X, "SRL", "SRA", "SLLV", X, X, "SRAV",
  "JR", "JALR", X, X, "SYSCALL", "BREAK", X, "SYNC",
  "MFHI", "MTHI", "MFLO", "MTLO", "DSLLV", X, "DSRLV", "DSRAV",
  "MULT", "MULTU", "DIV", "DIVU", "DMULT", "DMULTU", "DDIV", "DDIVU",
  "ADD", "ADDU", "SUB", "SUBU", "AND", "OR", "XOR", "NOR",
  X, X, "SLT", "SLTU", "DADD", "DADDU", "DSUB", "DSUBU",
  "TGE", "TGEU", "TLT", "TLTU", "TEQ", X, "TNE", X,
  "DSLL", X, "DSRL", "DSRA", "DSLL32", X, "DSRL32", "DSRA32">>

Regimm == <<"BLTZ", "BGEZ", "BLTZL", "BGEZL", X, X, X, X,
  "TGEI", "TGEIU", "TLTI", "TLTIU", "TEQI", X, "TNEI", X,
  "BLTZAL", "BGEZAL", "BLTZALL", "BGEZALL", X, X, X, X,
  X, X, X, X, X, X, X, X>>

Cop0(w) ==
  CASE w.rs = 0 -> "MFC0"
    [] w.rs = 4 -> "MTC0"
    [] w.rs = 16 /\ w.fn = 1 -> "TLBR"
    [] w.rs = 16 /\ w.fn = 2 -> "TLBWI"
    [] w.rs = 16 /\ w.fn = 6 -> "TLBWR"
    [] w.rs = 16 /\ w.fn = 8 -> "TLBP"
    [] w.rs = 16 /\ w.fn = 24 -> "ERET"
    [] OTHER -> X

\* Floating-point arithmetic and compares have the formats S and D.
Arith ==
  [S |-> <<"ADD_S", "SUB_S", "MUL_S", "DIV_S", "SQRT_S", "ABS_S", "MOV_S",
           "NEG_S", "ROUND_L_S", "TRUNC_L_S", "CEIL_L_S", "FLOOR_L_S",
           "ROUND_W_S", "TRUNC_W_S", "CEIL_W_S", "FLOOR_W_S">>,
   D |-> <<"ADD_D", "SUB_D", "MUL_D", "DIV_D", "SQRT_D", "ABS_D", "MOV_D",
           "NEG_D", "ROUND_L_D", "TRUNC_L_D", "CEIL_L_D", "FLOOR_L_D",
           "ROUND_W_D", "TRUNC_W_D", "CEIL_W_D", "FLOOR_W_D">>]

Compare ==
  [S |-> <<"C_F_S", "C_UN_S", "C_EQ_S", "C_UEQ_S", "C_OLT_S", "C_ULT_S",
           "C_OLE_S", "C_ULE_S", "C_SF_S", "C_NGLE_S", "C_SEQ_S", "C_NGL_S",
           "C_LT_S", "C_NGE_S", "C_LE_S", "C_NGT_S">>,
   D |-> <<"C_F_D", "C_UN_D", "C_EQ_D", "C_UEQ_D", "C_OLT_D", "C_ULT_D",
           "C_OLE_D", "C_ULE_D", "C_SF_D", "C_NGLE_D", "C_SEQ_D", "C_NGL_D",
           "C_LT_D", "C_NGE_D", "C_LE_D", "C_NGT_D">>]

\* Format S converts to D, W and L; D to S, W and L; W and L to S and D.
Convert(w, from) ==
  CASE w.fn = 32 /\ from # "S" -> [D |-> "CVT_S_D", W |-> "CVT_S_W", L |-> "CVT_S_L"][from]
    [] w.fn = 33 /\ from # "D" -> [S |-> "CVT_D_S", W |-> "CVT_D_W", L |-> "CVT_D_L"][from]
    [] w.fn = 36 /\ from \in {"S", "D"} -> [S |-> "CVT_W_S", D |-> "CVT_W_D"][from]
    [] w.fn = 37 /\ from \in {"S", "D"} -> [S |-> "CVT_L_S", D |-> "CVT_L_D"][from]
    [] OTHER -> X

Float(w, fmt) ==
  CASE w.fn \in 0..15 /\ fmt \in {"S", "D"} -> Arith[fmt][w.fn + 1]
    [] w.fn \in 48..63 /\ fmt \in {"S", "D"} -> Compare[fmt][w.fn - 47]
    [] OTHER -> Convert(w, fmt)

Cop1(w) ==
  CASE w.rs \in {0, 1, 2} -> <<"MFC1", "DMFC1", "CFC1">>[w.rs + 1]
    [] w.rs \in {4, 5, 6} -> <<"MTC1", "DMTC1", "CTC1">>[w.rs - 3]
    [] w.rs = 8 -> <<"BC1F", "BC1T", "BC1FL", "BC1TL">>[(w.rt % 4) + 1]
    [] w.rs = 16 -> Float(w, "S")
    [] w.rs = 17 -> Float(w, "D")
    [] w.rs = 20 -> Float(w, "W")
    [] w.rs = 21 -> Float(w, "L")
    [] OTHER -> X

ops_type(w) ==
  CASE IsNop(w) -> "NO_OP"
    [] ~IsNop(w) /\ w.op = 0 -> Special[w.fn + 1]
    [] w.op = 1 -> Regimm[w.rt + 1]
    [] w.op = 16 -> Cop0(w)
    [] w.op = 17 -> Cop1(w)
    [] OTHER -> Major[w.op + 1]

-----------------------------------------------------------------------------
\* The classes the operation codes carry (OPS_JUMP, OPS_BRANCH, ...) and the
\* two ways the segment builder asks for a target.

Jumps == {"J", "JR", "JAL", "JALR"}
Branches == {"BLTZ", "BGEZ", "BEQ", "BNE", "BLEZ", "BGTZ",
             "BLTZL", "BGEZL", "BEQL", "BNEL", "BLEZL", "BGTZL",
             "BLTZAL", "BGEZAL", "BLTZALL", "BGEZALL"}
Linking == {"JAL", "JALR", "BLTZAL", "BGEZAL", "BLTZALL", "BGEZALL"}
FloatBranches == {"BC1F", "BC1T", "BC1FL", "BC1TL"}

NoOffset == 2^27 - 1        \* 0x7FFFFFF
NoAddress == -1             \* 0xFFFFFFFF

\* No distance is taken for the answer that there is none.
ASSUME OffsetsAssumption == 2^ImmBits <= NoOffset

\* A variant that forgets the linking branches.
ops_BranchOffset_NoLink(w) ==
  IF \/ w.op = 1 /\ w.rt \in 0..3
     \/ w.op \in 4..7 \cup 20..23
     \/ w.op = 17 /\ w.rs = 8
  THEN IMM(w) ELSE NoOffset

ops_BranchOffset(w) ==
  IF \/ w.op = 1 /\ w.rt \in 0..3 \cup 16..19
     \/ w.op \in 4..7 \cup 20..23
     \/ w.op = 17 /\ w.rs = 8
  THEN IMM(w) ELSE NoOffset

\* A register jump answers 0: what it holds is not known yet.
ops_JumpAddress(w) ==
  CASE w.op = 0 /\ w.fn \in {8, 9} -> 0
    [] w.op \in {2, 3} -> 4 * IMMU(w)
    [] OTHER -> NoAddress

-----------------------------------------------------------------------------
\* mips_decode fills the record newEmptyInstr made: what an operation does not
\* set stays NOT_USED, 0, AL.  A record that is the target of a branch inside
\* the segment (branchToThisInstruction points to it) has the name of that place
\* in "at"; the branch names it in "to".

NOT_USED == 65535
REG_FP == 32
REG_WIDE == 64
REG_CO == 128
REG_PC == 160
REG_MULTHI == 164
REG_MULTLO == 166
REG_LLBIT == 168

newEmptyInstr(op) ==
  [op |-> op, cond |-> "AL", Rd1 |-> NOT_USED, Rd2 |-> NOT_USED, R1 |-> NOT_USED,
   R2 |-> NOT_USED, R3 |-> NOT_USED, Rmask |-> {}, imm |-> 0, shift |-> 0,
   shiftType |-> "LSL", I |-> FALSE, S |-> FALSE, U |-> TRUE, Ln |-> FALSE,
   to |-> "", at |-> {}]

ShiftTypeOf(op) ==
  IF op \in {"SRL", "SRLV", "DSRL", "DSRL32"} THEN "LSR"
  ELSE IF op \in {"SRA", "SRAV", "DSRA", "DSRA32"} THEN "ASR" ELSE "LSL"

CondOf(op) ==
  CASE op \in {"BLTZ", "BLTZL", "BLTZAL", "BLTZALL"} -> "MI"
    [] op \in {"BGEZ", "BGEZL", "BGEZAL", "BGEZALL"} -> "PL"
    [] op \in {"BEQ", "BEQL"} -> "EQ"
    [] op \in {"BNE", "BNEL"} -> "NE"
    [] op \in {"BLEZ", "BLEZL"} -> "LE"
    [] op \in {"BGTZ", "BGTZL"} -> "GT"
    [] OTHER -> "AL"

Shifted == {"SLL", "SRL", "SRA", "DSLL", "DSRL", "DSRA", "DSLL32", "DSRL32", "DSRA32"}
ShiftedBy == {"SLLV", "SRAV", "DSLLV", "DSRLV", "DSRAV"}
ThreeOperand == {"ADD", "ADDU", "SUB", "SUBU", "AND", "OR", "XOR", "NOR",
                 "SLT", "SLTU", "DADD", "DADDU", "DSUB", "DSUBU"}
IntoHiLo == {"MULT", "MULTU", "DIV", "DIVU", "DMULT", "DMULTU", "DDIV", "DDIVU"}
Traps == {"TGE", "TGEU", "TLT", "TLTU", "TEQ", "TNE"}
TrapsImmediate == {"TGEI", "TGEIU", "TLTI", "TLTIU", "TEQI", "TNEI"}
SignedImmediate == {"ADDI", "ADDIU", "SLTI", "SLTIU", "DADDI", "DADDIU"}
ZeroImmediate == {"ANDI", "ORI", "XORI"}
Loads == {"LDL", "LDR", "LB", "LH", "LWL", "LW", "LBU", "LHU", "LWU", "LD"}
Stores == {"SB", "SH", "SW", "SD"}

\* Operation code 0: shifts, register arithmetic, HI and LO, register jumps.
DecodeSpecial(w, e) ==
  CASE e.op \in Shifted -> [e EXCEPT !.Rd1 = w.rd, !.R1 = w.rt, !.shift = w.sa,
                              !.shiftType = ShiftTypeOf(e.op),
                              !.I = e.op \in {"SLL", "SRL", "SRA"}]
    [] e.op \in ShiftedBy -> [e EXCEPT !.Rd1 = w.rd, !.R1 = w.rt, !.R2 = w.rs,
                                !.shiftType = ShiftTypeOf(e.op)]
    [] e.op \in ThreeOperand -> [e EXCEPT !.Rd1 = w.rd, !.R1 = w.rs, !.R2 = w.rt]
    [] e.op \in IntoHiLo \cup Traps -> [e EXCEPT !.R1 = w.rs, !.R2 = w.rt]
    [] e.op = "JR" -> [e EXCEPT !.R1 = w.rs]
    [] e.op = "JALR" -> [e EXCEPT !.R1 = w.rs, !.Rd1 = w.rd, !.Ln = TRUE]
    [] e.op = "MFHI" -> [e EXCEPT !.Rd1 = w.rd, !.R1 = REG_MULTHI]
    [] e.op = "MFLO" -> [e EXCEPT !.Rd1 = w.rd, !.R1 = REG_MULTLO]
    [] e.op = "MTHI" -> [e EXCEPT !.R1 = w.rs, !.Rd1 = REG_MULTHI]
    [] e.op = "MTLO" -> [e EXCEPT !.R1 = w.rs, !.Rd1 = REG_MULTLO]
    [] OTHER -> e

\* Branches: BEQ, BNE and BLEZ also name rt.
DecodeBranch(w, e) ==
  [e EXCEPT !.R1 = w.rs, !.imm = IMM(w), !.cond = CondOf(e.op), !.I = w.op = 1,
            !.R2 = IF e.op \in {"BEQ", "BNE", "BEQL", "BNEL", "BLEZ"} THEN w.rt ELSE NOT_USED,
            !.Ln = e.op \in Linking]

DecodeJump(w, e) == [e EXCEPT !.imm = IMMU(w), !.Ln = e.op = "JAL"]

\* A variant: rs and rt the wrong way round.
DecodeImmediate_Crossed(w, e) ==
  [e EXCEPT !.Rd1 = w.rs, !.R1 = w.rt, !.imm = IMM(w), !.I = TRUE]

DecodeImmediate(w, e) ==
  CASE e.op = "LUI" -> [e EXCEPT !.Rd1 = w.rt, !.imm = IMMU(w), !.I = TRUE]
    [] e.op \in ZeroImmediate -> [e EXCEPT !.Rd1 = w.rt, !.R1 = w.rs, !.imm = IMMU(w), !.I = TRUE]
    [] e.op \in TrapsImmediate -> [e EXCEPT !.R1 = w.rs, !.I = TRUE,
           !.imm = IF e.op \in {"TGEIU", "TLTIU"} THEN IMMU(w) ELSE IMM(w)]
    [] OTHER -> [e EXCEPT !.Rd1 = w.rt, !.R1 = w.rs, !.imm = IMM(w), !.I = TRUE]

\* The memory operations the translator does not know keep only their name.
DecodeMemory(w, e) ==
  CASE e.op \in Loads -> [e EXCEPT !.Rd1 = w.rt, !.R1 = w.rs, !.imm = IMM(w),
                            !.I = e.op \notin {"LBU", "LHU"}]
    [] e.op \in Stores -> [e EXCEPT !.R2 = w.rt, !.R1 = w.rs, !.imm = IMM(w)]
    [] OTHER -> e

\* Of the floating-point arithmetic only ADD and SUB have operands.
DecodeFloat(w, e) ==
  IF e.op \in {"ADD_S", "SUB_S", "ADD_D", "SUB_D"}
  THEN [e EXCEPT !.Rd1 = REG_FP + w.sa, !.R1 = REG_FP + w.rd, !.R2 = REG_FP + w.rt]
  ELSE e

\* Coprocessor moves.  DMFC1 (rs = 1) is decoded as MFC1.
DecodeCop(w, e) ==
  CASE e.op = "MFC0" -> [e EXCEPT !.R1 = REG_CO + w.rd, !.Rd1 = w.rt]
    [] e.op = "MTC0" -> [e EXCEPT !.Rd1 = REG_CO + w.rd, !.R1 = w.rt]
    [] e.op \in {"MFC1", "DMFC1", "CFC1"} ->
         [e EXCEPT !.op = IF @ = "DMFC1" THEN "MFC1" ELSE @, !.R1 = REG_FP + w.rd, !.Rd1 = w.rt]
    [] e.op \in {"MTC1", "DMTC1", "CTC1"} -> [e EXCEPT !.Rd1 = REG_FP + w.rd, !.R1 = w.rt]
    [] e.op \in FloatBranches -> [e EXCEPT !.imm = IMM(w)]
    [] OTHER -> DecodeFloat(w, e)

\* A word without a meaning leaves the record as it was (DR_UNKNOWN).
mips_decode(w) ==
  LET e == newEmptyInstr(ops_type(w))
  IN  CASE e.op = X -> newEmptyInstr("UNKNOWN")
        [] e.op \in Branches -> DecodeBranch(w, e)
        [] e.op \in {"J", "JAL"} -> DecodeJump(w, e)
        [] e.op # X /\ w.op = 0 -> DecodeSpecial(w, e)
        [] w.op \in {16, 17} /\ e.op # X -> DecodeCop(w, e)
        [] e.op \in SignedImmediate \cup ZeroImmediate \cup TrapsImmediate \cup {"LUI"} ->
             DecodeImmediate(w, e)
        [] OTHER -> DecodeMemory(w, e)

-----------------------------------------------------------------------------
\* The register tables.  A register is named by its number: 0..31 the general
\* ones, REG_FP + n the floating-point (and, in these tables, coprocessor 0)
\* ones.  MIPS_REG_HI, MIPS_REG_LO and MIPS_REG_LL are bits 1, 0 and 4 of the
\* SPECIAL mask: the entries that put them into the CPU mask name r1, r0 and r4.

TRAP == 300
CC == 301
HiInCPU == 1
LoInCPU == 0
LLInCPU == 4
ALL == 0..31

\* ret 0: the mask is known; 1: no such operation; 2: an operation the table
\* gives up on (every register).
Table(ret, regs) == [ret |-> ret, regs |-> regs]

Silent == {"NO_OP", "SYSCALL", "BREAK", "SYNC", "CACHE", "SWL", "SDL", "SDR", "SWR",
           "SWC1", "SDC1"} \cup Stores

GivenUp(w) ==
  \/ w.op = 16 /\ ops_type(w) \in {"TLBR", "TLBWI", "TLBWR", "TLBP", "ERET"}
  \/ w.op = 17 /\ w.rs \in {16, 17} /\ w.fn \in {37, 48, 49, 51, 52, 53, 54, 55, 56, 57,
                                               58, 59, 61, 63}
  \/ w.op = 17 /\ w.rs = 21 /\ w.fn \in {32, 33}

\* The tables read the formats S and D with one list of function codes, the
\* one of S: CVT_S_D (32) is missing and 33 is taken for a conversion.
FloatKnown(w) ==
  \/ w.rs \in {16, 17} /\ w.fn \in 0..15 \cup {33, 36, 50, 60, 62}
  \/ w.rs = 20 /\ w.fn \in {32, 33}

FloatOut(w) ==
  CASE w.rs \in 0..2 -> Table(0, {w.rt})
    [] w.rs \in 4..6 -> Table(0, {REG_FP + w.rd})
    [] w.rs = 8 -> Table(0, {CC})
    [] FloatKnown(w) -> Table(0, IF w.fn \in {50, 60, 62} THEN {CC} ELSE {REG_FP + w.sa})
    [] OTHER -> Table(1, {})

ops_regs_output(w) ==
  LET op == IF IsNop(w) THEN "SLL" ELSE ops_type(w)
  IN  CASE GivenUp(w) -> Table(2, ALL)
        [] w.op = 17 /\ ~GivenUp(w) -> FloatOut(w)
        [] op = X -> Table(1, {})
        [] op \in Shifted \cup ShiftedBy \cup ThreeOperand \cup {"JALR", "MFHI", "MFLO"} ->
             Table(0, {w.rd})
        [] op = "MTHI" -> Table(0, {HiInCPU})
        [] op = "MTLO" -> Table(0, {LoInCPU})
        [] op \in IntoHiLo -> Table(0, {REG_MULTHI, REG_MULTLO})
        [] op \in Traps \cup TrapsImmediate -> Table(0, {TRAP})
        [] op \in Branches \cup {"J", "JAL"} ->
             Table(0, IF op \in Linking THEN {31, REG_PC} ELSE {REG_PC})
        [] op = "MTC0" -> Table(0, {REG_FP + w.rd})
        [] op \in {"LWR", "LWU", "LD"} -> Table(0, {w.rs})
        [] op = "LDC1" -> Table(0, {w.rs, w.rt})
        [] op = "LL" -> Table(0, {w.rt, REG_LLBIT})
        [] op = "LWC1" -> Table(0, {REG_FP + w.rt})
        [] op \in Silent \cup {"JR"} -> Table(0, {})
        [] OTHER -> Table(0, {w.rt})

FloatIn(w) ==
  CASE w.rs \in 0..2 -> Table(0, {REG_FP + w.rd})
    [] w.rs \in 4..6 -> Table(0, {w.rt})
    [] w.rs = 8 -> Table(0, {})
    [] FloatKnown(w) -> Table(0, IF w.rs # 20 /\ w.fn \in 0..3 \cup {50, 60, 62}
                                 THEN {REG_FP + w.rt, REG_FP + w.rd} ELSE {REG_FP + w.rd})
    [] OTHER -> Table(1, {})

ops_regs_input(w) ==
  LET op == IF IsNop(w) THEN "SLL" ELSE ops_type(w)
  IN  CASE GivenUp(w) -> Table(2, ALL)
        [] w.op = 17 /\ ~GivenUp(w) -> FloatIn(w)
        [] op = X -> Table(1, {})
        [] op \in Shifted \cup {"MTC0"} -> Table(0, {w.rt})
        [] op \in ShiftedBy \cup ThreeOperand \cup IntoHiLo \cup Traps
                 \cup {"BEQ", "BNE", "BEQL", "BNEL", "DADDI", "DADDIU"} -> Table(0, {w.rs, w.rt})
        [] op = "MFHI" -> Table(0, {HiInCPU})
        [] op = "MFLO" -> Table(0, {LoInCPU})
        [] op = "MFC0" -> Table(0, {REG_FP + w.rd})
        [] op \in {"SYSCALL", "BREAK", "SYNC", "J", "JAL", "CACHE"} -> Table(0, {})
        [] op \in {"SC", "SCD"} -> Table(0, {w.rs, w.rt, LLInCPU})
        [] op = "SDC1" -> Table(0, {w.rs, REG_FP + w.rt})
        [] op \in Stores \cup {"SWL", "SDL", "SDR", "SWR"} -> Table(0, {w.rs, w.rt})
        [] OTHER -> Table(0, {w.rs})

=============================================================================
