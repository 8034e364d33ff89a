----------------------------- MODULE ArmMachine -----------------------------
(***************************************************************************)
(* What the translation passes write into the intermediate code, and what  *)
(* the encoder refuses of it.                                              *)
(*                                                                         *)
(* Instr, InstrI, InstrS, InstrIS and newInstr... are the constructors of  *)
(* src/InstructionSets/InstructionSet.c.  Refused is the part of the       *)
(* encoder (InstructionSetARM6hf.c) that stops the program.                *)
(*                                                                         *)
(* The word is scaled: a byte has Byte bits (8), a word four bytes, the    *)
(* immediate of a data-processing instruction is one byte rotated by an    *)
(* even amount, a load offset has one and a half bytes.                    *)
(***************************************************************************)
EXTENDS Decode, SequencesExt

CONSTANT Byte       \* bits of a byte: 8 in the program
ASSUME ByteAssumption == Byte \in Nat \ {0}

W == 4 * Byte                  \* bits of a word
Words == 2^W                   \* words are 0..Words-1

\* What a power of two is, as far as a doubleword reaches.
ASSUME PowersAssumption == 2^0 = 1 /\ \A n \in 0..2 * W : 2^(n + 1) = 2 * 2^n

Lo(n) == n % 2^Byte            \* n & 0xFF
Hi(n) == (n % 2^(2 * Byte)) - Lo(n)  \* n & 0xFF00
Signed(v) == IF v >= 2^(W - 1) THEN v - Words ELSE v
Double(hi, lo) == hi * Words + lo
SignedDouble(d) == IF d >= 2^(2 * W - 1) THEN d - 2^(2 * W) ELSE d
Wide(r) == IF r = NOT_USED THEN r ELSE r + REG_WIDE    \* r | REG_WIDE

\* Registers of the host, and the temporaries the register allocation maps
\* onto them: SCRATCH0..SCRATCH3 are R0..R3.
REG_TEMP == 256
REG_HOST == 512
R(n) == REG_HOST + n
SCRATCH0 == REG_TEMP
SCRATCH1 == REG_TEMP + 1
CALL2C == REG_TEMP + 8
EMU_FLAGS == R(5)      \* bit 0: the delay slot has been executed
EMU_FP == R(10)        \* the file of the MIPS registers
SP == R(13)
LR == R(14)
PC == R(15)

\* An operand that is not there is encoded as r0.
Physical(r) == IF r = NOT_USED THEN R(0)
               ELSE IF r \in SCRATCH0 .. SCRATCH0 + 3 THEN r + REG_HOST - REG_TEMP ELSE r

-----------------------------------------------------------------------------
\* Constructors.  They write the operands and reset I, S and the immediate;
\* the shift and the third operand stay what they were.

Instr(i, op, cond, Rd1, R1, R2) ==
  [i EXCEPT !.op = op, !.cond = cond, !.Rd1 = Rd1, !.R1 = R1, !.R2 = R2,
            !.I = FALSE, !.S = FALSE, !.imm = 0]

InstrI(i, op, cond, Rd1, R1, R2, imm) ==
  LET down == imm < 0 /\ op \in {"ARM_LDR", "ARM_STR", "ARM_LDR_LIT"}
  IN  [i EXCEPT !.op = op, !.cond = cond, !.Rd1 = Rd1, !.R1 = R1, !.R2 = R2,
                !.I = TRUE, !.S = FALSE, !.Ln = FALSE,
                !.imm = IF down THEN -imm ELSE imm, !.U = IF down THEN FALSE ELSE @]

InstrS(i, op, cond, Rd1, R1, R2) ==
  [i EXCEPT !.op = op, !.cond = cond, !.Rd1 = Rd1, !.R1 = R1, !.R2 = R2,
            !.I = FALSE, !.S = TRUE]

InstrIS(i, op, cond, Rd1, R1, R2, imm) ==
  [i EXCEPT !.op = op, !.cond = cond, !.Rd1 = Rd1, !.R1 = R1, !.R2 = R2,
            !.I = TRUE, !.S = TRUE, !.imm = imm]

newInstr(op, cond, Rd1, R1, R2) == Instr(newEmptyInstr(op), op, cond, Rd1, R1, R2)
newInstrI(op, cond, Rd1, R1, R2, imm) == InstrI(newEmptyInstr(op), op, cond, Rd1, R1, R2, imm)
newInstrS(op, cond, Rd1, R1, R2) == InstrS(newEmptyInstr(op), op, cond, Rd1, R1, R2)
newInstrIS(op, cond, Rd1, R1, R2, imm) == InstrIS(newEmptyInstr(op), op, cond, Rd1, R1, R2, imm)
newInstrPUSH(mask) == [newEmptyInstr("ARM_STM") EXCEPT !.R1 = SP, !.Rmask = mask]
newInstrPOP(mask) == [newEmptyInstr("ARM_LDM") EXCEPT !.R1 = SP, !.Rmask = mask]

\* ins->shift, ins->shiftType and ins->R3 are set after the constructor.
By(i, type, n) == [i EXCEPT !.shift = n, !.shiftType = type]
ByReg(i, type, r) == [i EXCEPT !.R3 = r, !.shiftType = type]

\* The commonest shapes.
MOV(d, r) == newInstr("ARM_MOV", "AL", d, NOT_USED, r)
MOVI(d, n) == newInstrI("ARM_MOV", "AL", d, NOT_USED, NOT_USED, n)
If(cond, i) == [i EXCEPT !.cond = cond]

-----------------------------------------------------------------------------
\* Calls of the C helpers: their address is loaded from the literal pool.  A
\* helper is known by its number; its address lies beyond every word.

Helpers == <<"div32", "mod", "divu", "modu", "ddiv", "dmod", "ddivu", "dmodu",
             "lsr", "asr", "storeWord", "loadWord", "C_ldl", "C_ldr", "cc_interrupt">>
IndexOf(h) == CHOOSE k \in DOMAIN Helpers : Helpers[k] = h
Pool(d, n) == [newEmptyInstr("ARM_LDR_LIT") EXCEPT !.Rd1 = d, !.imm = n, !.I = TRUE]
Literal(d, h) == Pool(d, Words + IndexOf(h))

\* insertCall_To_C: LR is saved around the call, with what the mask adds.
insertCall_To_C(cond, h, mask) ==
  << Literal(CALL2C, h), newInstrPUSH(mask \cup {LR}),
     [newInstr("ARM_BX", cond, NOT_USED, CALL2C, NOT_USED) EXCEPT !.Ln = TRUE],
     newInstrPOP(mask \cup {LR}) >>

-----------------------------------------------------------------------------
\* Imm8Shift: by how many bits a byte has to be shifted to give val; -1 when no
\* byte does.  The passes ask it whether an immediate can be encoded.

Imm8Shift(val) ==
  IF val < 2^Byte THEN 0
  ELSE LET i == CHOOSE k \in 0..W - 1 : val % 2^k = 0 /\ val % 2^(k + 1) # 0
       IN  IF val \div 2^i < 2^Byte THEN i ELSE -1

\* ALU_OP2 looks for the byte at even distances only, and reads a negative
\* immediate as a large one.
Encodable(imm) ==
  LET v == imm % Words
      x == CHOOSE k \in 0..2 * Byte - 1 : v % 4^k = 0 /\ v % 4^(k + 1) # 0
  IN  v < 2^Byte \/ v \div 4^x < 2^Byte

DataOps == {"ARM_ADC", "ARM_ADD", "ARM_AND", "ARM_BIC", "ARM_CMP", "ARM_EOR", "ARM_MOV",
            "ARM_MVN", "ARM_ORR", "ARM_RSB", "ARM_SBC", "ARM_SUB", "ARM_TST", "ARM_TEQ"}
LoadOps == {"ARM_LDR", "ARM_LDRB", "ARM_LDRSB", "ARM_LDR_LIT"}
OtherOps == {"ARM_B", "ARM_BL", "ARM_BX", "ARM_BLX", "ARM_STM", "ARM_LDM", "ARM_STR",
             "ARM_MUL", "ARM_UMULL", "ARM_UMLAL"}

\* arm_encode stops on an operation it does not know, on an immediate ALU_OP2
\* cannot write, and on a shift by a whole word or more.
Refused(i) ==
  \/ i.op \notin DataOps \cup LoadOps \cup OtherOps
  \/ i.op \in DataOps /\ i.I /\ ~Encodable(i.imm)
  \/ i.op \in DataOps /\ ~i.I /\ i.R3 = NOT_USED /\ i.shift \notin 0..W - 1

=============================================================================
