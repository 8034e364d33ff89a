---------------------------- MODULE Correctness ----------------------------
(***************************************************************************)
(* What must hold of the life of an instruction.  The properties compare   *)
(* the processor after the emitted code with the meaning of the operation. *)
(* Where the code is known to deviate, the case is named here, as narrowly *)
(* as it can be, and left out of the property; README.md lists the cases.  *)
(***************************************************************************)
EXTENDS Operations, Meaning

I == mips_decode(word)
b == before.reg
a == after.reg
Done(ops) == phase = "done" /\ ~after.stopped /\ I.op \in ops

\* The low word, or the doubleword, the operation leaves in its target.
Got(doubles) == IF I.op \in doubles THEN Full(a, I.Rd1) ELSE Low(a, I.Rd1)
Had(doubles) == IF I.op \in doubles THEN Full(b, I.Rd1) ELSE Low(b, I.Rd1)

Phases == {"fetched", "init", "Constants", "ALU", "Generic", "FPU", "Memory", "CleanUp",
           "written", "done", "aborted", "refused"}

\* The word is one of the encoding; the list only ever grows records of one shape, and a processor state keeps
\* its registers whatever the emitted code does.
TypeOK ==
  /\ word \in MipsWord /\ phase \in Phases
  /\ \A k \in DOMAIN code : DOMAIN code[k] = DOMAIN newEmptyInstr(X)
  /\ \A s \in {before, after} : DOMAIN s = DOMAIN Idle /\ DOMAIN s.reg = Registers

-----------------------------------------------------------------------------
\* Shifts.  Deviations: a written LSR or ASR #0 shifts by a whole word; DSRA
\* shifts its operand away before it takes the bits that cross the words, when
\* it is also its target; distances in a register are not cut to five or six
\* bits; DSLLV ors the bits that cross the words into the low word.

ShiftedByNothing == I.op \in {"SRL", "SRA", "DSRL32", "DSRA32"} /\ I.shift = 0
OperandShiftedAway == I.op = "DSRA" /\ I.Rd1 = I.R1
DistanceNotCut ==
  /\ I.R2 # NOT_USED
  /\ Low(b, I.R2) >= IF I.op \in WordShifts THEN W ELSE 2 * W
CrossedIntoLow ==
  /\ I.op = "DSLLV"
  /\ LET n == Low(b, I.R2) IN n \in 1..W - 1 /\ Low(b, I.R1) \div 2^(W - n) # 0

\* The shifts of words and doublewords, by a field and by a register, leave in
\* rd what their comments say, on every edge of the distance: the bits that
\* cross from one host register to the other are neither lost nor doubled.
ShiftsRight ==
  /\ Done(WordShifts \cup DoubleShifts)
  /\ ~ShiftedByNothing /\ ~OperandShiftedAway /\ ~DistanceNotCut /\ ~CrossedIntoLow
  => Got(DoubleShifts) = ShiftMeaning(I, b)

-----------------------------------------------------------------------------
\* Sums.  Deviations, all with an immediate: one of two bytes is put together
\* wrongly (a temporary nobody set, or the old target, is added; from zero the
\* high byte is subtracted from the low one); the carry of its low byte is lost;
\* a negative one never traps, and DADDI and DADDIU with one leave the high word
\* as it was or follow the overflow instead of the borrow.

TwoBytes == I.I /\ WithoutByte(IF I.imm < 0 THEN -I.imm ELSE I.imm)
PutTogetherWrongly ==
  /\ TwoBytes
  /\ \/ I.imm < 0
     \/ I.R1 # 0 /\ I.op \in WordSums
     \/ Low(b, I.R1) + Lo(I.imm) >= Words
NegativeUnnoticed == I.op \in {"ADDI", "DADDI"} /\ I.imm < 0 /\ Overflows(I, b)
HighWordStale ==
  /\ I.imm < 0
  /\ \/ I.op = "DADDI"
     \/ I.op = "DADDIU" /\ LET lo == Low(b, I.R1)
                           IN  (lo < -I.imm) # (Signed(lo) + I.imm < -(2^(W - 1)))

\* Sums and differences leave in rd the sum, with the carry between the two host
\* registers of a doubleword; one that traps and overflows leaves rd as it was,
\* both halves of it, although the halves are written by separate instructions.
SumsRight ==
  /\ Done(WordSums \cup DoubleSums)
  /\ ~PutTogetherWrongly /\ ~NegativeUnnoticed /\ ~HighWordStale
  => Got(DoubleSums) =
       IF I.op \in Trapping /\ Overflows(I, b) THEN Had(DoubleSums)
       ELSE Sum(I, b) % 2^Bits(I)

-----------------------------------------------------------------------------
\* Comparisons look at the low words only, and SLTI and SLTIU cannot build a
\* negative immediate (a comment there says "no idea if this is right").
FitsWord(r) == Wide(r) \in DOMAIN b /\ SignedFull(b, r) = SignedLow(b, r)

\* Of operands that fit a word the comparisons give the order of the registers,
\* signed and unsigned, for an immediate of one and of two bytes.
ComparesRight ==
  /\ Done(Compares)
  /\ FitsWord(I.R1)
  /\ IF I.I THEN I.imm >= 0 ELSE FitsWord(I.R2)
  => Low(a, I.Rd1) = CompareMeaning(I, b)

\* The logical operations work bit by bit on both words of the register; a
\* zero-extended immediate clears (ANDI) or keeps (ORI, XORI) the high one, also
\* when it needs two instructions and rd is rs.  LUI gives its immediate in the
\* upper half.  (NOR gives all ones.  InstructionSet.h:298 says
\* rt = imm16 << 16, but Constants.c:77 gives an immediate that Imm8Shift finds a
\* byte for to a MOV as it is.)
LogicRight ==
  /\ Done(Bitwise2 \ {"NOR"}) => Full(a, I.Rd1) = BitwiseMeaning(I, b)
  /\ Done({"LUI"}) /\ WithoutByte(I.imm)
     => Low(a, I.Rd1) = LuiMeaning(I) % Words

-----------------------------------------------------------------------------
\* Products and quotients.  Deviations: MULT and MULTU put what R1 held into HI;
\* DMULT and DMULTU lose the carry of the two middle products out of the middle
\* words; a sign is changed by 0 - x in the low word and ~x in the ones above,
\* which is wrong when the low word is 0.

ZeroDivisor ==
  /\ I.op \in {"DIV", "DIVU", "DDIV", "DDIVU"}
  /\ IF I.op \in {"DIV", "DIVU"} THEN Low(b, I.R2) = 0 ELSE Full(b, I.R2) = 0

MiddleCarryLost(x, y) ==
  LET x0 == x % Words  x1 == x \div Words
      y0 == y % Words  y1 == y \div Words
      middle == (x0 * y0) \div Words + ((x0 * y1) % Words) + ((x1 * y0) % Words)
  IN  middle \div Words + (x0 * y1) \div Words + (x1 * y0) \div Words >= Words
SignLost(r) == SignedFull(b, r) < 0 /\ Low(b, r) = 0
ProductDeviates ==
  LET x == SignedFull(b, I.R1)
      y == SignedFull(b, I.R2)
  IN  CASE I.op = "DMULTU" -> MiddleCarryLost(Full(b, I.R1), Full(b, I.R2))
        [] I.op = "DMULT" -> \/ SignLost(I.R1) \/ SignLost(I.R2)
                             \/ MiddleCarryLost(Abs(x), Abs(y))
                             \/ (x < 0) # (y < 0) /\ (Low(b, I.R1) * Low(b, I.R2)) % Words = 0
        [] OTHER -> FALSE

\* Products, quotients and remainders of words and doublewords are in LO and HI,
\* built from four products of words or by two calls of a C helper each of which
\* overwrites R0..R3, R12 and LR.
ProductsRight ==
  /\ Done(IntoHiLo) /\ ~ZeroDivisor /\ ~ProductDeviates
  => LET p == ProductMeaning(I, b)
     IN  CASE I.op \in {"MULT", "MULTU"} -> Low(a, LO) = p.lo
           [] I.op \in {"DIV", "DIVU"} -> Low(a, LO) = p.lo /\ Low(a, HI) = p.hi
           [] OTHER -> Full(a, LO) = p.lo /\ Full(a, HI) = p.hi

-----------------------------------------------------------------------------
\* Accesses.  Deviations: LB and LBU lose the sign of a negative offset; LD
\* splits offsets beyond a load's reach only from 4 bytes too far on, reads a far
\* negative one from the wrong side, and overwrites its base before the second
\* load; LL, LWC1, LLD and LDC1 are translated as LD.

OffsetWrong ==
  \/ I.op \in {"LB", "LBU"} /\ I.imm < 0
  \/ I.op = "LD" /\ (I.imm < -OffsetMax \/ I.imm \in OffsetMax - 3 .. OffsetMax + 4)

Spots(kinds) == {<<access.kind, access.addr>> : access \in {after.log[k] : k \in kinds}}
ByteAt(x) == LET v == Lo(Content(x))
             IN  IF I.op = "LB" /\ v >= 2^(Byte - 1) THEN InDouble(v - 2^Byte) ELSE v

\* A load or store touches base + offset and nothing else, whether the offset
\* fits the instruction or is split over two, below and above the base; the
\* window of the address does not matter to LW and SW; what is loaded goes into
\* rd, sign-extended over both words by LB.  A word access outside the two raw
\* windows stops the program and never reaches the memory.
AccessesRight ==
  LET x == Effective(I, b)
      window == Uncached(x)
  IN  /\ Done({"LW"}) => Spots(DOMAIN after.log) = {<<"loadWord", window>>} /\ a[I.Rd1] = window
      /\ Done({"SW"}) => after.log = << Access("storeWord", window, b[I.R2]) >>
      /\ Done({"LD"}) /\ ~OffsetWrong /\ I.Rd1 # I.R1 => Full(a, I.Rd1) = Double(x, x + 4)
      /\ Done({"LB"}) /\ ~OffsetWrong => Full(a, I.Rd1) = ByteAt(x)
      /\ Done({"LBU"}) /\ ~OffsetWrong => a[I.Rd1] = ByteAt(x)
      /\ phase = "done" /\ after.stopped => ~Raw(x) /\ after.log = << >>

\* The registers an operation may change, and those a C call must give back.
Targets ==
  {I.Rd1, Wide(I.Rd1)} \cup IF I.op \in IntoHiLo THEN {HI, LO, Wide(HI), Wide(LO)} ELSE {}
Scratch == {R(0), R(1), R(2), R(3), R(12), CALL2C}

\* Nothing but the target changes: no other MIPS register, not the callee-saved
\* R4, not the link register (a segment returns through it), and what is pushed
\* around a call is popped in the same order.
OnlyTargetChanges ==
  phase = "done" /\ ~after.stopped =>
    /\ \A r \in Registers \ (Targets \cup Scratch) : a[r] = b[r]
    /\ after.stack = << >>

-----------------------------------------------------------------------------
\* What stops the program at translation time.

NoByteAtEvenDistance(n) == Imm8Shift(n % 2^ImmBits) # -1 /\ ~Encodable(n)
Immediate == IF I.imm < 0 THEN -I.imm ELSE I.imm

\* Operations no pass translates.
Untranslated ==
  {"SUB", "SUBU", "UNKNOWN", "TLBR", "TLBWI", "TLBWR", "TLBP"}

\* The encoder refuses an operation the passes know in these cases only: a byte
\* Imm8Shift found at an odd distance, an immediate 0 with rd other than rs, a
\* doubleword shifted by 0, the offset of a word access that is no shifted byte.
\* Whatever else the passes write for it can be encoded.
RefusalsKnown ==
  phase = "refused" =>
    CASE I.op \in {"ADDI", "ADDIU", "DADDI", "DADDIU"} ->
           (I.imm = 0 /\ I.Rd1 # I.R1) \/ NoByteAtEvenDistance(Immediate)
      [] I.op \in {"ANDI", "ORI", "XORI", "LUI"} -> NoByteAtEvenDistance(I.imm)
      [] I.op \in {"DSLL", "DSRL", "DSRA"} -> I.shift = 0
      [] I.op \in {"LW", "SW"} -> ~Encodable(Immediate)
      [] OTHER -> I.op \in Untranslated

=============================================================================
