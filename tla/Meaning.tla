------------------------------ MODULE Meaning ------------------------------
(***************************************************************************)
(* What a MIPS operation promises: the reference the emitted instructions  *)
(* are compared with.  It states, in terms of the registers b of the       *)
(* machine before and the decoded record i, what the comment of the        *)
(* operation in src/InstructionSets/InstructionSet.h says.                 *)
(*                                                                         *)
(* Word and doubleword operations are kept apart.  Of a word operation     *)
(* only the low word is stated here.                                       *)
(***************************************************************************)
EXTENDS ArmProcessor

Low(b, r) == b[r]
Full(b, r) == Double(b[Wide(r)], b[r])
SignedLow(b, r) == Signed(b[r])
SignedFull(b, r) == SignedDouble(Full(b, r))
InDouble(n) == n % 2^(2 * W)

-----------------------------------------------------------------------------
WordShifts == {"SLL", "SRL", "SRA", "SLLV", "SRAV"}
DoubleShifts == {"DSLL", "DSRL", "DSRA", "DSLL32", "DSRL32", "DSRA32", "DSLLV", "DSRLV", "DSRAV"}

\* The distance: a field of the word (+ W in the ...32 forms), or the low five
\* (six) bits of rs.
Distance(i, b) ==
  CASE i.op \in {"SLLV", "SRAV"} -> Low(b, i.R2) % W
    [] i.op \in {"DSLLV", "DSRLV", "DSRAV"} -> Low(b, i.R2) % (2 * W)
    [] i.op \in {"DSLL32", "DSRL32", "DSRA32"} -> i.shift + W
    [] OTHER -> i.shift

\* x * 2^n modulo 2^bits, without leaving the integers TLC has.
LeftBy(x, n, bits) == IF n >= bits THEN 0 ELSE (x % 2^(bits - n)) * 2^n

ShiftMeaning(i, b) ==
  LET n == Distance(i, b)
  IN  CASE i.op \in {"SLL", "SLLV"} -> LeftBy(Low(b, i.R1), n, W)
        [] i.op = "SRL" -> Low(b, i.R1) \div 2^n
        [] i.op \in {"SRA", "SRAV"} -> (SignedLow(b, i.R1) \div 2^n) % Words
        [] i.op \in {"DSLL", "DSLL32", "DSLLV"} -> LeftBy(Full(b, i.R1), n, 2 * W)
        [] i.op \in {"DSRL", "DSRL32", "DSRLV"} -> Full(b, i.R1) \div 2^n
        [] i.op \in {"DSRA", "DSRA32", "DSRAV"} -> InDouble(SignedFull(b, i.R1) \div 2^n)

-----------------------------------------------------------------------------
WordSums == {"ADD", "ADDU", "ADDI", "ADDIU"}
DoubleSums == {"DADD", "DADDU", "DSUB", "DSUBU", "DADDI", "DADDIU"}
Trapping == {"ADD", "ADDI", "DADD", "DSUB", "DADDI"}

\* The sum as an integer, before it is cut to a word or a doubleword.
Sum(i, b) ==
  CASE i.op \in {"ADD", "ADDU"} -> SignedLow(b, i.R1) + SignedLow(b, i.R2)
    [] i.op \in {"ADDI", "ADDIU"} -> SignedLow(b, i.R1) + i.imm
    [] i.op \in {"DADD", "DADDU"} -> SignedFull(b, i.R1) + SignedFull(b, i.R2)
    [] i.op \in {"DSUB", "DSUBU"} -> SignedFull(b, i.R1) - SignedFull(b, i.R2)
    [] i.op \in {"DADDI", "DADDIU"} -> SignedFull(b, i.R1) + i.imm

Bits(i) == IF i.op \in WordSums THEN W ELSE 2 * W
Overflows(i, b) == Sum(i, b) \notin -(2^(Bits(i) - 1)) .. 2^(Bits(i) - 1) - 1

-----------------------------------------------------------------------------
Compares == {"SLT", "SLTU", "SLTI", "SLTIU"}

Truth(p) == IF p THEN 1 ELSE 0
CompareMeaning(i, b) ==
  CASE i.op = "SLT" -> Truth(SignedFull(b, i.R1) < SignedFull(b, i.R2))
    [] i.op = "SLTU" -> Truth(Full(b, i.R1) < Full(b, i.R2))
    [] i.op = "SLTI" -> Truth(SignedFull(b, i.R1) < i.imm)
    [] i.op = "SLTIU" -> Truth(Full(b, i.R1) < InDouble(i.imm))

Bitwise2 == {"AND", "OR", "XOR", "NOR", "ANDI", "ORI", "XORI"}

\* Bit by bit on the two words; an immediate has no high word.
BitwiseMeaning(i, b) ==
  LET second(hi) == IF i.op \in ZeroImmediate THEN (IF hi THEN 0 ELSE i.imm)
                    ELSE IF hi THEN Low(b, Wide(i.R2)) ELSE Low(b, i.R2)
      one(x, y) == CASE i.op \in {"AND", "ANDI"} -> BitAnd(x, y)
                     [] i.op \in {"OR", "ORI"} -> BitOr(x, y)
                     [] i.op \in {"XOR", "XORI"} -> BitXor(x, y)
                     [] i.op = "NOR" -> Words - 1 - BitOr(x, y)
  IN  Double(one(Low(b, Wide(i.R1)), second(TRUE)), one(Low(b, i.R1), second(FALSE)))

LuiMeaning(i) == InDouble(SignedDouble(Double(IF i.imm >= 2^(ImmBits - 1) THEN Words - 1 ELSE 0,
                                              i.imm * 2^ImmBits)))

-----------------------------------------------------------------------------
\* HI and LO.  A product of doublewords is put together from four products of
\* words; a negative factor takes the other one from the high half.

UnsignedHalves(x, y) ==
  LET x0 == x % Words  x1 == x \div Words
      y0 == y % Words  y1 == y \div Words
      mid == (x0 * y0) \div Words + ((x0 * y1) % Words) + ((x1 * y0) % Words)
  IN  [lo |-> Double(mid % Words, (x0 * y0) % Words),
       hi |-> x1 * y1 + (x0 * y1) \div Words + (x1 * y0) \div Words + mid \div Words]

SignedHalves(x, y) ==
  LET u == UnsignedHalves(x, y)
      less(p, q) == IF SignedDouble(p) < 0 THEN q ELSE 0
  IN  [u EXCEPT !.hi = InDouble(@ - less(x, y) - less(y, x))]

\* Of the word forms only the low words of HI and LO are stated.
Divided(q, r) == [lo |-> q, hi |-> r]

ProductMeaning(i, b) ==
  LET x == Full(b, i.R1)
      y == Full(b, i.R2)
  IN  CASE i.op = "MULT" -> LET p == InDouble(SignedLow(b, i.R1) * SignedLow(b, i.R2))
                            IN  Divided(p % Words, p \div Words)
        [] i.op = "MULTU" -> LET p == Low(b, i.R1) * Low(b, i.R2)
                             IN  Divided(p % Words, p \div Words)
        [] i.op = "DIV" -> Divided(Quotient(SignedLow(b, i.R1), SignedLow(b, i.R2)) % Words,
                                   Remainder(SignedLow(b, i.R1), SignedLow(b, i.R2)) % Words)
        [] i.op = "DIVU" -> Divided(Low(b, i.R1) \div Low(b, i.R2), Low(b, i.R1) % Low(b, i.R2))
        [] i.op = "DMULT" -> SignedHalves(x, y)
        [] i.op = "DMULTU" -> UnsignedHalves(x, y)
        [] i.op = "DDIV" -> Divided(InDouble(Quotient(SignedDouble(x), SignedDouble(y))),
                                    InDouble(Remainder(SignedDouble(x), SignedDouble(y))))
        [] i.op = "DDIVU" -> Divided(x \div y, x % y)

\* Memory.
Effective(i, b) == (Low(b, i.R1) + i.imm) % Words

=============================================================================
