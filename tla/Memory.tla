------------------------------- MODULE Memory -------------------------------
(***************************************************************************)
(* Translate_Memory, src/Translations/Memory.c, and the four small passes  *)
(* around it: Translate_Constants, Translate_Generic (Misc.c),             *)
(* Translate_FPU and Translate_CleanUp.  As in ALU, an operator gives the  *)
(* instructions that take the place of the record i.                       *)
(***************************************************************************)
EXTENDS ALU

OffsetMax == 2^(Byte + Byte \div 2) - 1      \* 0xFFF

\* The base plus or minus the high half of the offset, in R0.
Rebased(i) ==
  IF i.imm < 0 THEN InstrI(i, "ARM_SUB", "AL", R0, i.R1, NOT_USED, Hi(-i.imm))
  ELSE InstrI(i, "ARM_ADD", "AL", R0, i.R1, NOT_USED, Hi(i.imm))

\* A variant: the word at the lower address goes into the low register.
LoadDouble_Swapped(i) ==
  << InstrI(i, "ARM_LDR", "AL", i.Rd1, NOT_USED, i.R1, i.imm),
     newInstrI("ARM_LDR", "AL", Rdw(i), NOT_USED, i.R1, i.imm + 4) >>

\* LL, LWC1, LLD, LDC1 and LD: two words, the low one at the higher address.
LoadDouble(i) ==
  CASE i.imm < -OffsetMax ->
         << Rebased(i),
            [newInstrI("ARM_LDR", "AL", i.Rd1, NOT_USED, R0, Lo(-i.imm) + 4) EXCEPT !.U = FALSE],
            newInstrI("ARM_LDR", "AL", Rdw(i), NOT_USED, R0, -Lo(i.imm)) >>
    [] i.imm > OffsetMax + 4 ->
         << Rebased(i), newInstrI("ARM_LDR", "AL", i.Rd1, NOT_USED, R0, Lo(i.imm) + 4),
            newInstrI("ARM_LDR", "AL", Rdw(i), NOT_USED, R0, Lo(i.imm)) >>
    [] OTHER ->
         << InstrI(i, "ARM_LDR", "AL", i.Rd1, NOT_USED, i.R1, i.imm + 4),
            newInstrI("ARM_LDR", "AL", Rdw(i), NOT_USED, i.R1, i.imm) >>

\* The effective address of a word, in SCRATCH0.
WordAddress(i) ==
  << Instr(i, "ARM_MOV", "AL", SCRATCH0, NOT_USED, i.R1) >>
  \o CASE i.imm < 0 -> << newInstrI("ARM_SUB", "AL", SCRATCH0, SCRATCH0, NOT_USED, -i.imm) >>
       [] i.imm > 0 -> << newInstrI("ARM_ADD", "AL", SCRATCH0, SCRATCH0, NOT_USED, i.imm) >>
       [] i.imm = 0 -> << >>

SW(i) == WordAddress(i) \o << MOV(SCRATCH1, i.R2) >> \o insertCall_To_C("AL", "storeWord", {})
LW(i) == WordAddress(i) \o insertCall_To_C("AL", "loadWord", {}) \o << MOV(i.Rd1, SCRATCH0) >>

\* LDL and LDR: the address in R0 (the second half is added to an operand that
\* is not there, which is encoded as R0), the old target in R1 and R2.
LoadPart(i, h) ==
  LET op == IF i.imm < 0 THEN "ARM_SUB" ELSE "ARM_ADD"
      n == IF i.imm < 0 THEN -i.imm ELSE i.imm
  IN  << InstrI(i, op, "AL", R0, i.R1, NOT_USED, Lo(n)) >>
      \o (IF n >= 2^Byte THEN << newInstrI(op, "AL", R0, NOT_USED, R0, Hi(n)) >> ELSE << >>)
      \o << MOV(R(1), Rdw(i)), MOV(R(2), i.Rd1) >> \o insertCall_To_C("AL", h, {})
      \o << MOV(i.Rd1, R0), MOV(Rdw(i), R(1)) >>

\* LB and LBU: an offset of more than a byte is split.
LoadByte(i, op) ==
  CASE i.imm <= -(2^Byte) ->
         << Rebased(i), newInstrI(op, "AL", i.Rd1, NOT_USED, R0, -Lo(i.imm)) >>
    [] i.imm >= 2^Byte ->
         << Rebased(i), newInstrI(op, "AL", i.Rd1, NOT_USED, R0, Lo(i.imm)) >>
    [] OTHER -> << InstrI(i, op, "AL", i.Rd1, NOT_USED, i.R1, i.imm) >>

\* The high word of a signed byte: the sign of the low one.
LB(i) ==
  LoadByte(i, "ARM_LDRSB")
  \o << newInstrI("ARM_CMP", "AL", NOT_USED, i.Rd1, NOT_USED, 0),
        newInstrI("ARM_MVN", "MI", Rdw(i), NOT_USED, NOT_USED, 0),
        newInstrI("ARM_MOV", "PL", Rdw(i), NOT_USED, NOT_USED, 0) >>

NotTranslated == {"SC", "SWC1", "SCD", "SDC1", "SD", "SB", "SH", "SWL", "SDL", "SDR", "SWR",
                  "LH", "LWL", "LHU", "LWR", "LWU"}

Translate_Memory(i) ==
  CASE i.op \in {"LL", "LWC1", "LLD", "LDC1", "LD"} -> LoadDouble(i)
    [] i.op = "SW" -> SW(i)
    [] i.op = "LW" -> LW(i)
    [] i.op = "LDL" -> LoadPart(i, "C_ldl")
    [] i.op = "LDR" -> LoadPart(i, "C_ldr")
    [] i.op = "LB" -> LB(i)
    [] i.op = "LBU" -> LoadByte(i, "ARM_LDRB")
    [] i.op \in NotTranslated -> << ABORT >>
    [] OTHER -> << i >>

-----------------------------------------------------------------------------
\* LUI: from the literal pool, or, when Imm8Shift finds a byte for it, with a
\* MOV of the immediate as it is and the sign of it in the high word.  (The
\* state RS_CONSTANT that the pass notes in the operands is read by no pass.)

Translate_Constants(i) ==
  CASE i.op = "LUI" /\ WithoutByte(i.imm) ->
         << InstrI(i, "ARM_LDR_LIT", "AL", i.Rd1, NOT_USED, NOT_USED, (i.imm * 2^ImmBits) % Words) >>
    [] i.op = "LUI" /\ ~WithoutByte(i.imm) ->
         << InstrI(i, "ARM_MOV", "AL", i.Rd1, NOT_USED, NOT_USED, i.imm) >>
         \o Above(i, IF i.imm >= 2^(ImmBits - 1) THEN "ARM_MVN" ELSE "ARM_MOV")
    [] OTHER -> << i >>

Translate_Generic(i) ==
  CASE i.op \in {"MFHI", "MTHI", "MFLO", "MTLO", "MFC0", "ERET"} -> << ABORT >>
    [] i.op = "MTC0" -> IF i.R1 = 0
                        THEN << InstrI(i, "ARM_MOV", "AL", i.Rd1, NOT_USED, NOT_USED, 0) >>
                        ELSE << Instr(i, "ARM_MOV", "AL", i.Rd1, NOT_USED, i.R1) >>
    [] OTHER -> << i >>

\* Every operation of the floating-point unit that is named stops the program.
FloatOps ==
  FloatBranches \cup {"MFC1", "DMFC1", "CFC1", "MTC1", "DMTC1", "CTC1"}
  \cup {names[f][k] : names \in {Arith, Compare}, f \in {"S", "D"}, k \in 1..16}
  \cup {"CVT_D_S", "CVT_W_S", "CVT_L_S", "CVT_S_D", "CVT_W_D", "CVT_L_D",
        "CVT_S_W", "CVT_D_W", "CVT_S_L", "CVT_D_L"}

Translate_FPU(i) == IF i.op \in FloatOps THEN << ABORT >> ELSE << i >>

\* What CleanUp drops.
Dropped(i) ==
  \/ i.op \in {"NO_OP", "LUI", "CACHE", "SYSCALL", "BREAK", "SYNC"}
  \/ i.op = "SLL" /\ i.Rd1 = 0

Translate_CleanUp(i) == IF Dropped(i) THEN << >> ELSE << i >>

=============================================================================
