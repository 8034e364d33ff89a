-------------------------------- MODULE ALU --------------------------------
(***************************************************************************)
(* Translate_ALU, src/Translations/ALU.c: one operator per MIPS operation  *)
(* (or group of operations translated alike), giving the instructions that *)
(* take the place of the decoded record i.  The first of them reuses i,    *)
(* the others are new.                                                     *)
(***************************************************************************)
EXTENDS ArmMachine

R0 == R(0)
R1w(i) == Wide(i.R1)
R2w(i) == Wide(i.R2)
Rdw(i) == Wide(i.Rd1)
HI == REG_MULTHI
LO == REG_MULTLO

\* A record that only names a register, for the passes that load registers.
Naming(i, r) == Instr(i, "NO_OP", "AL", NOT_USED, r, NOT_USED)
NewNaming(r) == newInstr("NO_OP", "AL", NOT_USED, r, NOT_USED)

-----------------------------------------------------------------------------
\* Shifts of a word: one MOV with a shifted operand.

ShiftWord(i) ==
  << By(Instr(i, "ARM_MOV", "AL", i.Rd1, NOT_USED, i.R1), ShiftTypeOf(i.op), i.shift) >>

ShiftWordBy(i) ==
  << ByReg(Instr(i, "ARM_MOV", "AL", i.Rd1, NOT_USED, i.R1), ShiftTypeOf(i.op), i.R2) >>

\* Shifts of a doubleword by a register.  DSLLV is written out; the bits that
\* cross the words are or-ed into the low word, and the word shifted by more
\* than a word into the high one.
DSLLV(i) ==
  << ByReg(Instr(i, "ARM_MOV", "AL", R0, NOT_USED, i.R1), "LSL", i.R2),
     ByReg(MOV(R(1), R1w(i)), "LSL", i.R2),
     newInstrIS("ARM_RSB", "AL", R(2), i.R2, NOT_USED, W),
     ByReg(newInstr("ARM_ORR", "GT", R0, R0, i.R1), "LSR", R(2)),
     newInstrIS("ARM_SUB", "AL", R(2), i.R2, NOT_USED, W),
     ByReg(newInstr("ARM_ORR", "PL", R(1), R(1), i.R1), "LSL", R(2)),
     MOV(Rdw(i), R(1)),
     MOV(i.Rd1, R0) >>

\* A variant: what was pushed stays on the stack.
CallThrough_NoPop(r, h, saved) ==
  << newInstrPUSH(saved), Literal(r, h), newInstr("ARM_BLX", "AL", NOT_USED, r, NOT_USED) >>

\* A helper called through a register, with what is saved around the call.
CallThrough(r, h, saved) ==
  << newInstrPUSH(saved), Literal(r, h), newInstr("ARM_BLX", "AL", NOT_USED, r, NOT_USED),
     newInstrPOP(saved) >>

\* DSRLV and DSRAV call lsr and asr.
ShiftDoubleBy(i, h) ==
  << Instr(i, "ARM_MOV", "AL", R0, NOT_USED, i.R1), MOV(R(1), R1w(i)), MOV(R(2), i.R2) >>
  \o CallThrough(R(3), h, {R(12), LR})
  \o << MOV(i.Rd1, R0), MOV(Rdw(i), R(1)) >>

\* A variant: the low word is shifted before its upper bits are taken.
DSLL_InPlace(i) ==
  << By(Instr(i, "ARM_MOV", "AL", Rdw(i), NOT_USED, R1w(i)), "LSL", i.shift),
     By(MOV(i.Rd1, i.R1), "LSL", i.shift),
     By(newInstr("ARM_ORR", "AL", Rdw(i), Rdw(i), i.R1), "LSR", W - i.shift) >>

\* Shifts of a doubleword by a constant.
DSLL(i) ==
  << By(Instr(i, "ARM_MOV", "AL", Rdw(i), NOT_USED, R1w(i)), "LSL", i.shift),
     MOV(R0, i.R1),
     By(MOV(i.Rd1, i.R1), "LSL", i.shift),
     By(newInstr("ARM_ORR", "AL", Rdw(i), Rdw(i), R0), "LSR", W - i.shift) >>

DSRL(i) ==
  << By(Instr(i, "ARM_MOV", "AL", R0, NOT_USED, R1w(i)), "LSR", i.shift),
     By(MOV(R(1), i.R1), "LSR", i.shift),
     By(newInstr("ARM_ORR", "AL", i.Rd1, R(1), R1w(i)), "LSL", W - i.shift),
     MOV(Rdw(i), R0) >>

DSRA(i) ==
  << By(Instr(i, "ARM_MOV", "AL", i.Rd1, NOT_USED, i.R1), "LSR", i.shift),
     By(MOV(Rdw(i), R1w(i)), "ASR", i.shift),
     By(newInstr("ARM_ORR", "AL", i.Rd1, i.Rd1, R1w(i)), "LSL", W - i.shift) >>

\* A variant: the distance counts from the low word.
DSLL32_Whole(i) ==
  << By(Instr(i, "ARM_MOV", "AL", Rdw(i), NOT_USED, i.R1), "LSL", W + i.shift), MOVI(i.Rd1, 0) >>

DSLL32(i) ==
  << By(Instr(i, "ARM_MOV", "AL", Rdw(i), NOT_USED, i.R1), "LSL", i.shift), MOVI(i.Rd1, 0) >>

DSRL32(i) ==
  << By(Instr(i, "ARM_MOV", "AL", i.Rd1, NOT_USED, R1w(i)), "LSR", i.shift), MOVI(Rdw(i), 0) >>

DSRA32(i) ==
  << By(InstrS(i, "ARM_MOV", "AL", i.Rd1, NOT_USED, R1w(i)), "ASR", i.shift),
     newInstrI("ARM_MVN", "MI", Rdw(i), NOT_USED, NOT_USED, 0),
     newInstrI("ARM_MOV", "PL", Rdw(i), NOT_USED, NOT_USED, 0) >>

-----------------------------------------------------------------------------
\* Multiplication and division.

\* MULT and MULTU: MUL has no high word, what R1 holds goes into HI.
MULT(i) ==
  << [Instr(i, "ARM_MUL", "AL", R0, i.R1, i.R2) EXCEPT !.Rd2 = R(1)],
     MOV(LO, R0), MOVI(Wide(LO), 0), MOV(HI, R(1)), MOVI(Wide(HI), 0) >>

\* DIV and DIVU: one call for the quotient, one for the remainder.
DIV(i, quotient, remainder) ==
  LET divide(first, h) ==
        << first, MOV(R(1), i.R2) >> \o CallThrough(R(4), h, {R(4), R(12), LR})
  IN  divide(Instr(i, "ARM_MOV", "AL", R0, NOT_USED, i.R1), quotient)
        \o << MOV(LO, R0), MOVI(Wide(LO), 0) >>
      \o divide(MOV(R0, i.R1), remainder) \o << MOV(HI, R0), MOVI(Wide(HI), 0) >>

DDIV(i, quotient, remainder) ==
  LET divide(first, h) ==
        << first, MOV(R(1), R1w(i)), MOV(R(2), i.R2), MOV(R(3), R2w(i)) >>
        \o CallThrough(R(4), h, {R(4), R(12), LR})
  IN  divide(Instr(i, "ARM_MOV", "AL", R0, NOT_USED, i.R1), quotient)
        \o << MOV(LO, R0), MOV(Wide(LO), R(1)) >>
      \o divide(MOV(R0, i.R1), remainder) \o << MOV(HI, R0), MOV(Wide(HI), R(1)) >>

\* UMULL and UMLAL: hi:lo (+)= a * b.
Long(op, hi, lo, a, b) == [newInstr(op, "AL", hi, a, b) EXCEPT !.Rd2 = lo]

\* The 128 bits of R1:R0 times R3:R2 are built in HI and LO from four products.
CrossProducts ==
  << Long("ARM_UMLAL", HI, Wide(LO), R(1), R(2)),
     Long("ARM_UMLAL", HI, Wide(LO), R0, R(3)),
     Long("ARM_UMLAL", Wide(HI), HI, R(1), R(3)) >>

\* A variant: HI is not cleared before products are accumulated in it.
DMULTU_NotCleared(i) ==
  << InstrI(i, "ARM_MOV", "AL", Wide(HI), NOT_USED, NOT_USED, 0),
     MOV(R0, i.R1), MOV(R(1), R1w(i)), MOV(R(2), i.R2), MOV(R(3), R2w(i)),
     Long("ARM_UMULL", Wide(LO), LO, R0, R(2)) >> \o CrossProducts

DMULTU(i) ==
  << InstrI(i, "ARM_MOV", "AL", HI, NOT_USED, NOT_USED, 0), MOVI(Wide(HI), 0),
     MOV(R0, i.R1), MOV(R(1), R1w(i)), MOV(R(2), i.R2), MOV(R(3), R2w(i)),
     Long("ARM_UMULL", Wide(LO), LO, R0, R(2)) >> \o CrossProducts

\* DMULT multiplies the magnitudes and changes the sign of the product back.
\* A sign is changed by 0 - x in the low word and ~x in the words above it.
Magnitude(lo, hi, r) ==
  << If("PL", MOV(lo, r)), If("PL", MOV(hi, Wide(r))),
     newInstrI("ARM_RSB", "MI", lo, r, NOT_USED, 0),
     newInstr("ARM_MVN", "MI", hi, NOT_USED, Wide(r)) >>

DMULT(i) ==
  << InstrI(i, "ARM_CMP", "AL", NOT_USED, R1w(i), NOT_USED, 0) >> \o Magnitude(R0, R(1), i.R1)
  \o << newInstrI("ARM_CMP", "AL", NOT_USED, R2w(i), NOT_USED, 0) >>
  \o Magnitude(R(2), R(3), i.R2)
  \o << Long("ARM_UMULL", Wide(LO), LO, R0, R(2)), MOVI(HI, 0), MOVI(Wide(HI), 0) >>
  \o CrossProducts
  \o << newInstr("ARM_TEQ", "AL", NOT_USED, R1w(i), R2w(i)),
        newInstrI("ARM_RSB", "MI", LO, LO, NOT_USED, 0),
        newInstr("ARM_MVN", "MI", Wide(LO), NOT_USED, Wide(LO)),
        newInstr("ARM_MVN", "MI", HI, NOT_USED, HI),
        newInstr("ARM_MVN", "MI", Wide(HI), NOT_USED, Wide(HI)) >>

-----------------------------------------------------------------------------
\* Sums.  What may overflow computes in a temporary and moves the result where
\* it did not (VC); the naming records in front make the old target be loaded.

ADD(i) ==
  << Naming(i, i.Rd1), newInstrS("ARM_ADD", "AL", SCRATCH0, i.R1, i.R2),
     If("VC", MOV(i.Rd1, SCRATCH0)) >>

ADDU(i) == << Instr(i, "ARM_ADD", "AL", i.Rd1, i.R1, i.R2) >>

\* A variant: the low word is written before the high one has overflowed.
TrappingDouble_Early(i, lowOp, highOp) ==
  << Naming(i, i.Rd1), NewNaming(Rdw(i)),
     newInstrS(lowOp, "AL", SCRATCH0, i.R1, i.R2),
     If("VC", MOV(i.Rd1, SCRATCH0)),
     newInstrS(highOp, "AL", SCRATCH1, R1w(i), R2w(i)),
     If("VC", MOV(Rdw(i), SCRATCH1)) >>

\* Both words in the temporaries, moved where the high one did not overflow.
TrappingDouble(i, lowOp, highOp) ==
  << Naming(i, i.Rd1), NewNaming(Rdw(i)),
     newInstrS(lowOp, "AL", SCRATCH0, i.R1, i.R2),
     newInstrS(highOp, "AL", SCRATCH1, R1w(i), R2w(i)),
     If("VC", MOV(i.Rd1, SCRATCH0)), If("VC", MOV(Rdw(i), SCRATCH1)) >>

PlainDouble(i, lowOp, highOp) ==
  << InstrS(i, lowOp, "AL", i.Rd1, i.R1, i.R2), newInstr(highOp, "AL", Rdw(i), R1w(i), R2w(i)) >>

\* The immediate forms.  An immediate ARM can encode takes one instruction; any
\* other is added (or, when it is negative, subtracted) in two halves.
WithoutByte(n) == Imm8Shift(n % 2^ImmBits) = -1

\* Rd1 = 0 + n and Rd1 = 0 - n in two halves.
FromZero(i, op, n) ==
  << InstrI(i, "ARM_MOV", "AL", i.Rd1, NOT_USED, NOT_USED, Lo(n)),
     newInstrI(op, "AL", i.Rd1, i.Rd1, NOT_USED, Hi(n)) >>

Rejoin(i, cond) == << newInstr("ARM_ADD", cond, i.Rd1, i.Rd1, SCRATCH0) >>

\* The halves of a negative immediate: the low one is taken from the operand,
\* the high one from the temporary.
SubtractHalves(i, cond) ==
  << newInstrI("ARM_SUB", "AL", i.Rd1, i.R1, NOT_USED, Lo(-i.imm)),
     newInstrI("ARM_SUB", "AL", SCRATCH0, SCRATCH0, NOT_USED, Hi(-i.imm)) >> \o Rejoin(i, cond)

\* Imm = 0: nothing to do when the target is the operand, and otherwise left
\* as it is, for the encoder to refuse.
AddNothing(i) ==
  IF i.Rd1 = i.R1 THEN << Instr(i, "NO_OP", "AL", NOT_USED, NOT_USED, NOT_USED) >> ELSE << i >>

ADDI(i) ==
  CASE i.imm = 0 -> AddNothing(i)
    [] i.imm < 0 /\ WithoutByte(-i.imm) ->
         IF i.R1 = 0 THEN FromZero(i, "ARM_SUB", -i.imm)
         ELSE << Instr(i, "NO_OP", "AL", i.Rd1, i.Rd1, NOT_USED) >> \o SubtractHalves(i, "VC")
    [] i.imm < 0 /\ ~WithoutByte(-i.imm) ->
         << InstrI(i, "ARM_SUB", "AL", i.Rd1, i.R1, NOT_USED, -i.imm) >>
    [] i.imm > 0 /\ WithoutByte(i.imm) ->
         IF i.R1 = 0 THEN FromZero(i, "ARM_ADD", i.imm)
         ELSE << Naming(i, i.Rd1),
                 newInstrIS("ARM_ADD", "AL", SCRATCH0, i.R1, NOT_USED, Lo(i.imm)),
                 newInstrIS("ARM_ADD", "VC", SCRATCH0, SCRATCH0, NOT_USED, Hi(i.imm)) >>
              \o Rejoin(i, "VC")
    [] i.imm > 0 /\ ~WithoutByte(i.imm) ->
         IF i.R1 = 0 THEN << InstrI(i, "ARM_MOV", "AL", i.Rd1, NOT_USED, NOT_USED, i.imm) >>
         ELSE << InstrIS(i, "ARM_ADD", "AL", SCRATCH0, i.R1, NOT_USED, i.imm),
                 If("VC", MOV(i.Rd1, SCRATCH0)) >>

ADDIU(i) ==
  CASE i.imm = 0 -> AddNothing(i)
    [] i.imm < 0 /\ WithoutByte(-i.imm) ->
         IF i.R1 = 0 THEN FromZero(i, "ARM_SUB", -i.imm)
         ELSE << InstrI(i, "ARM_SUB", "AL", i.Rd1, i.R1, NOT_USED, Lo(-i.imm)),
                 newInstrI("ARM_SUB", "AL", SCRATCH0, i.R1, NOT_USED, Hi(-i.imm)) >>
              \o Rejoin(i, "AL")
    [] i.imm < 0 /\ ~WithoutByte(-i.imm) ->
         << InstrI(i, "ARM_SUB", "AL", i.Rd1, i.R1, NOT_USED, -i.imm) >>
    [] i.imm > 0 /\ WithoutByte(i.imm) ->
         IF i.R1 = 0 THEN FromZero(i, "ARM_ADD", i.imm)
         ELSE << InstrI(i, "ARM_ADD", "AL", SCRATCH0, i.R1, NOT_USED, Lo(i.imm)),
                 newInstrI("ARM_ADD", "AL", SCRATCH0, SCRATCH0, NOT_USED, Hi(i.imm)) >>
              \o Rejoin(i, "AL")
    [] i.imm > 0 /\ ~WithoutByte(i.imm) ->
         IF i.R1 = 0 THEN << InstrI(i, "ARM_MOV", "AL", i.Rd1, NOT_USED, NOT_USED, i.imm) >>
         ELSE << InstrI(i, "ARM_ADD", "AL", i.Rd1, i.R1, NOT_USED, i.imm) >>

\* The high word of a sum from zero.
Above(i, op) == << newInstrI(op, "AL", Rdw(i), NOT_USED, NOT_USED, 0) >>
NamingBoth(i) == << Naming(i, i.Rd1), NewNaming(Rdw(i)) >>
NamingTargets(i) ==
  << Instr(i, "NO_OP", "AL", i.Rd1, i.Rd1, NOT_USED),
     newInstr("NO_OP", "AL", Rdw(i), Rdw(i), NOT_USED) >>

\* The low sum is in SCRATCH0, its carry in the flags.
CarryUp(i) ==
  << newInstrIS("ARM_ADC", "AL", SCRATCH1, R1w(i), NOT_USED, 0),
     If("VC", MOV(i.Rd1, SCRATCH0)), If("VC", MOV(Rdw(i), SCRATCH1)) >>

DADDI(i) ==
  CASE i.imm = 0 -> AddNothing(i)
    [] i.imm < 0 /\ WithoutByte(-i.imm) ->
         IF i.R1 = 0 THEN FromZero(i, "ARM_SUB", -i.imm)
         ELSE NamingTargets(i) \o SubtractHalves(i, "VC")
    [] i.imm < 0 /\ ~WithoutByte(-i.imm) ->
         << InstrI(i, "ARM_SUB", "AL", i.Rd1, i.R1, NOT_USED, -i.imm) >>
    [] i.imm > 0 /\ i.R1 = 0 ->
         (IF WithoutByte(i.imm) THEN FromZero(i, "ARM_ADD", i.imm)
          ELSE << InstrI(i, "ARM_MOV", "AL", i.Rd1, NOT_USED, NOT_USED, i.imm) >>)
         \o Above(i, "ARM_MOV")
    [] i.imm > 0 /\ i.R1 # 0 ->
         NamingBoth(i)
         \o (IF WithoutByte(i.imm)
             THEN << newInstrIS("ARM_ADD", "AL", SCRATCH0, i.R1, NOT_USED, Lo(i.imm)),
                     newInstrIS("ARM_ADD", "AL", SCRATCH0, SCRATCH0, NOT_USED, Hi(i.imm)) >>
             ELSE << newInstrIS("ARM_ADD", "AL", SCRATCH0, i.R1, NOT_USED, i.imm) >>)
         \o CarryUp(i)

DADDIU(i) ==
  CASE i.imm = 0 -> AddNothing(i)
    [] i.imm < 0 /\ WithoutByte(-i.imm) ->
         IF i.R1 = 0 THEN FromZero(i, "ARM_SUB", -i.imm) \o Above(i, "ARM_MVN")
         ELSE NamingTargets(i) \o SubtractHalves(i, "AL")
    [] i.imm < 0 /\ ~WithoutByte(-i.imm) ->
         << InstrIS(i, "ARM_SUB", "AL", i.Rd1, i.R1, NOT_USED, -i.imm), MOV(Rdw(i), R1w(i)),
            newInstrI("ARM_SUB", "VS", Rdw(i), Rdw(i), NOT_USED, 1) >>
    [] i.imm > 0 /\ i.R1 = 0 ->
         (IF WithoutByte(i.imm) THEN FromZero(i, "ARM_ADD", i.imm)
          ELSE << InstrI(i, "ARM_MOV", "AL", i.Rd1, NOT_USED, NOT_USED, i.imm) >>)
         \o Above(i, "ARM_MOV")
    [] i.imm > 0 /\ i.R1 # 0 ->
         NamingBoth(i)
         \o (IF WithoutByte(i.imm)
             THEN << newInstrIS("ARM_ADD", "AL", SCRATCH0, i.R1, NOT_USED, Lo(i.imm)),
                     newInstrIS("ARM_ADD", "AL", i.Rd1, SCRATCH0, NOT_USED, Hi(i.imm)) >>
             ELSE << newInstrIS("ARM_ADD", "AL", i.Rd1, i.R1, NOT_USED, i.imm) >>)
         \o << newInstrI("ARM_ADC", "AL", Rdw(i), R1w(i), NOT_USED, 0) >>

-----------------------------------------------------------------------------
\* Logic and comparison.

Logic(i, op) ==
  << Instr(i, op, "AL", i.Rd1, i.R1, i.R2), newInstr(op, "AL", Rdw(i), R1w(i), R2w(i)) >>

NOR(i) ==
  << Instr(i, "ARM_MVN", "AL", SCRATCH0, NOT_USED, i.R2),
     newInstr("ARM_ORR", "AL", i.Rd1, SCRATCH0, i.R2) >>

\* 1 under one condition, 0 under its opposite.
OneOrZero(i, one, zero) ==
  << newInstrI("ARM_MOV", one, i.Rd1, NOT_USED, NOT_USED, 1),
     newInstrI("ARM_MOV", zero, i.Rd1, NOT_USED, NOT_USED, 0) >>

SetLess(i, one, zero) ==
  << Instr(i, "ARM_CMP", "AL", NOT_USED, i.R1, i.R2) >> \o OneOrZero(i, one, zero)

\* A variant: an immediate of 256 is taken for one byte.
SetLessImmediate_Above(i, one, zero) ==
  << InstrI(i, "ARM_MOV", "AL", SCRATCH0, NOT_USED, NOT_USED, Lo(i.imm)) >>
  \o (IF i.imm > 2^Byte
      THEN << newInstrI("ARM_ADD", "AL", SCRATCH0, NOT_USED, NOT_USED, Hi(i.imm)) >>
      ELSE << >>)
  \o << newInstr("ARM_CMP", "AL", NOT_USED, i.R1, SCRATCH0) >> \o OneOrZero(i, one, zero)

\* The immediate is built in SCRATCH0.  Every negative one is below 255, so the
\* subtraction is always there.
SetLessImmediate(i, one, zero) ==
  (IF i.imm < 0
   THEN << InstrI(i, "ARM_MVN", "AL", SCRATCH0, NOT_USED, NOT_USED, Lo(i.imm)),
           newInstrI("ARM_SUB", "AL", i.Rd1, i.R1, NOT_USED, Hi(-i.imm)) >>
   ELSE << InstrI(i, "ARM_MOV", "AL", SCRATCH0, NOT_USED, NOT_USED, Lo(i.imm)) >>
        \o IF i.imm >= 2^Byte
           THEN << newInstrI("ARM_ADD", "AL", SCRATCH0, NOT_USED, NOT_USED, Hi(i.imm)) >>
           ELSE << >>)
  \o << newInstr("ARM_CMP", "AL", NOT_USED, i.R1, SCRATCH0) >> \o OneOrZero(i, one, zero)

\* A variant: the first half goes into the target, which may be the operand.
ANDI_InPlace(i) ==
  (IF WithoutByte(i.imm)
   THEN << InstrI(i, "ARM_AND", "AL", i.Rd1, i.R1, NOT_USED, Lo(i.imm)),
           newInstrI("ARM_AND", "AL", SCRATCH0, i.R1, NOT_USED, Hi(i.imm)),
           newInstr("ARM_ORR", "AL", i.Rd1, i.Rd1, SCRATCH0) >>
   ELSE << InstrI(i, "ARM_AND", "AL", i.Rd1, i.R1, NOT_USED, i.imm) >>)
  \o << MOVI(Rdw(i), 0) >>

ANDI(i) ==
  (IF WithoutByte(i.imm)
   THEN << InstrI(i, "ARM_AND", "AL", SCRATCH0, i.R1, NOT_USED, Hi(i.imm)),
           newInstrI("ARM_AND", "AL", i.Rd1, i.R1, NOT_USED, Lo(i.imm)),
           newInstr("ARM_ORR", "AL", i.Rd1, i.Rd1, SCRATCH0) >>
   ELSE << InstrI(i, "ARM_AND", "AL", i.Rd1, i.R1, NOT_USED, i.imm) >>)
  \o << MOVI(Rdw(i), 0) >>

\* ORI and XORI: the halves one after the other; the high word is copied.
OrImmediate(i, op) ==
  (IF WithoutByte(i.imm)
   THEN << InstrI(i, op, "AL", i.Rd1, i.R1, NOT_USED, Hi(i.imm)),
           newInstrI(op, "AL", i.Rd1, i.Rd1, NOT_USED, Lo(i.imm)) >>
   ELSE << InstrI(i, op, "AL", i.Rd1, i.R1, NOT_USED, i.imm) >>)
  \o << MOV(Rdw(i), R1w(i)) >>

-----------------------------------------------------------------------------
\* TRANSLATE_ABORT: a record no later pass knows.
ABORT == newInstr("ABORT", "AL", NOT_USED, NOT_USED, NOT_USED)

Translate_ALU(i) ==
  CASE i.op \in {"SLL", "SRL", "SRA"} -> ShiftWord(i)
    [] i.op \in {"SLLV", "SRLV", "SRAV"} -> ShiftWordBy(i)
    [] i.op = "DSLLV" -> DSLLV(i)
    [] i.op = "DSRLV" -> ShiftDoubleBy(i, "lsr")
    [] i.op = "DSRAV" -> ShiftDoubleBy(i, "asr")
    [] i.op = "DSLL" -> DSLL(i)
    [] i.op = "DSRL" -> DSRL(i)
    [] i.op = "DSRA" -> DSRA(i)
    [] i.op = "DSLL32" -> DSLL32(i)
    [] i.op = "DSRL32" -> DSRL32(i)
    [] i.op = "DSRA32" -> DSRA32(i)
    [] i.op \in {"MULT", "MULTU"} -> MULT(i)
    [] i.op = "DIV" -> DIV(i, "div32", "mod")
    [] i.op = "DIVU" -> DIV(i, "divu", "modu")
    [] i.op = "DMULT" -> DMULT(i)
    [] i.op = "DMULTU" -> DMULTU(i)
    [] i.op = "DDIV" -> DDIV(i, "ddiv", "dmod")
    [] i.op = "DDIVU" -> DDIV(i, "ddivu", "dmodu")
    [] i.op = "ADD" -> ADD(i)
    [] i.op = "ADDU" -> ADDU(i)
    [] i.op = "AND" -> Logic(i, "ARM_AND")
    [] i.op = "OR" -> Logic(i, "ARM_ORR")
    [] i.op = "XOR" -> Logic(i, "ARM_EOR")
    [] i.op = "NOR" -> NOR(i)
    [] i.op = "SLT" -> SetLess(i, "LT", "GE")
    [] i.op = "SLTU" -> SetLess(i, "CC", "CS")
    [] i.op = "DADD" -> TrappingDouble(i, "ARM_ADD", "ARM_ADC")
    [] i.op = "DADDU" -> PlainDouble(i, "ARM_ADD", "ARM_ADC")
    [] i.op = "DSUB" -> TrappingDouble(i, "ARM_SUB", "ARM_SBC")
    [] i.op = "DSUBU" -> PlainDouble(i, "ARM_SUB", "ARM_SBC")
    [] i.op = "ADDI" -> ADDI(i)
    [] i.op = "ADDIU" -> ADDIU(i)
    [] i.op = "DADDI" -> DADDI(i)
    [] i.op = "DADDIU" -> DADDIU(i)
    [] i.op = "SLTI" -> SetLessImmediate(i, "LT", "GE")
    [] i.op = "SLTIU" -> SetLessImmediate(i, "CC", "CS")
    [] i.op = "ANDI" -> ANDI(i)
    [] i.op = "ORI" -> OrImmediate(i, "ARM_ORR")
    [] i.op = "XORI" -> OrImmediate(i, "ARM_EOR")
    [] i.op \in Traps \cup TrapsImmediate -> << ABORT >>
    [] OTHER -> << i >>

=============================================================================
