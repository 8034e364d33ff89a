---------------------------- MODULE ArmProcessor ----------------------------
(***************************************************************************)
(* The ARM processor the emitted instructions run on, and the C helpers    *)
(* they call (src/Translations/ALU.c, Memory.c).                           *)
(*                                                                         *)
(* A state is a record: reg, the register file over the register numbers   *)
(* of the intermediate code (before the registers are allocated); the      *)
(* flags n, z, c, v; stack, the words pushed; log, the accesses to the     *)
(* memory of the machine; stopped, when a helper has ended the program.    *)
(* The word at address a holds Content(a): its own address, so that a load *)
(* from a wrong place shows.                                               *)
(***************************************************************************)
EXTENDS ArmMachine

Content(a) == a % Words

Value(s, r) == s.reg[Physical(r)]
Set(s, r, v) == [s EXCEPT !.reg[Physical(r)] = v % Words]

Holds(s, cond) ==
  CASE cond = "AL" -> TRUE
    [] cond = "EQ" -> s.z [] cond = "NE" -> ~s.z
    [] cond = "CS" -> s.c [] cond = "CC" -> ~s.c
    [] cond = "MI" -> s.n [] cond = "PL" -> ~s.n
    [] cond = "VS" -> s.v [] cond = "VC" -> ~s.v
    [] cond = "GE" -> s.n = s.v [] cond = "LT" -> s.n # s.v
    [] cond = "GT" -> ~s.z /\ s.n = s.v
    [] cond = "LE" -> s.z \/ s.n # s.v

-----------------------------------------------------------------------------
\* The second operand.  A shift by a register takes its low byte; a written
\* LSR or ASR by 0 means a shift by a whole word.

Shifted2(v, type, n) ==
  CASE type = "LSL" -> IF n >= W THEN 0 ELSE (v * 2^n) % Words
    [] type = "LSR" -> IF n >= W THEN 0 ELSE v \div 2^n
    [] type = "ASR" -> (Signed(v) \div 2^(IF n >= W THEN W - 1 ELSE n)) % Words

LowByte(v) == Signed(v) % (8 * W)

Operand2(s, i) ==
  IF i.I THEN i.imm % Words
  ELSE IF i.R3 # NOT_USED
  THEN Shifted2(Value(s, i.R2), i.shiftType, LowByte(Value(s, i.R3)))
  ELSE Shifted2(Value(s, i.R2), i.shiftType,
                IF i.shift = 0 /\ i.shiftType # "LSL" THEN W ELSE i.shift)

-----------------------------------------------------------------------------
\* Data processing.

Flipped(v) == Words - 1 - v
Carried(s) == IF s.c THEN 1 ELSE 0

\* The sum a + b + c as the adder computes it: value, carry and overflow.
Adder(a, b, c) ==
  LET sum == a + b + c
  IN  [val |-> sum % Words, c |-> sum >= Words,
       v |-> Signed(a) + Signed(b) + c # Signed(sum % Words)]

Plain(s, v) == [val |-> v, c |-> s.c, v |-> s.v]

\* The logical operations, bit by bit: rule gives the bit for two bits.
Bit(x, k) == (x \div 2^k) % 2
BitByBit(rule, x, y) ==
  LET sum[k \in 0..W] ==
        IF k = 0 THEN 0 ELSE sum[k - 1] + rule[Bit(x, k - 1)][Bit(y, k - 1)] * 2^(k - 1)
  IN  sum[W]
BitAnd(x, y) == BitByBit([p \in 0..1 |-> [q \in 0..1 |-> p * q]], x, y)
BitOr(x, y) == BitByBit([p \in 0..1 |-> [q \in 0..1 |-> p + q - p * q]], x, y)
BitXor(x, y) == BitByBit([p \in 0..1 |-> [q \in 0..1 |-> (p + q) % 2]], x, y)

Result(s, i) ==
  LET a == Value(s, i.R1)
      b == Operand2(s, i)
  IN  CASE i.op = "ARM_ADD" -> Adder(a, b, 0)
        [] i.op = "ARM_ADC" -> Adder(a, b, Carried(s))
        [] i.op \in {"ARM_SUB", "ARM_CMP"} -> Adder(a, Flipped(b), 1)
        [] i.op = "ARM_SBC" -> Adder(a, Flipped(b), Carried(s))
        [] i.op = "ARM_RSB" -> Adder(b, Flipped(a), 1)
        [] i.op \in {"ARM_AND", "ARM_TST"} -> Plain(s, BitAnd(a, b))
        [] i.op = "ARM_BIC" -> Plain(s, BitAnd(a, Flipped(b)))
        [] i.op = "ARM_ORR" -> Plain(s, BitOr(a, b))
        [] i.op \in {"ARM_EOR", "ARM_TEQ"} -> Plain(s, BitXor(a, b))
        [] i.op = "ARM_MOV" -> Plain(s, b)
        [] i.op = "ARM_MVN" -> Plain(s, Flipped(b))

Flags(s, r) == [s EXCEPT !.n = Signed(r.val) < 0, !.z = r.val = 0, !.c = r.c, !.v = r.v]

Comparing == {"ARM_CMP", "ARM_TST", "ARM_TEQ"}

DataProcessing(s, i) ==
  LET r == Result(s, i)
      t == IF i.op \in Comparing THEN s ELSE Set(s, i.Rd1, r.val)
  IN  IF i.S \/ i.op \in Comparing THEN Flags(t, r) ELSE t

\* MUL writes Rd1 only; the long forms write Rd1 (high) and Rd2 (low).
Multiply(s, i) ==
  LET p == Value(s, i.R1) * Value(s, i.R2)
      q == (IF i.op = "ARM_UMLAL" THEN p + Double(Value(s, i.Rd1), Value(s, i.Rd2)) ELSE p)
             % 2^(2 * W)
  IN  IF i.op = "ARM_MUL" THEN Set(s, i.Rd1, p % Words)
      ELSE Set(Set(s, i.Rd2, q % Words), i.Rd1, q \div Words)

-----------------------------------------------------------------------------
\* Memory.  The offset has one and a half bytes, the one of LDRSB a byte; a
\* negative one loses its sign there.  (The file of the MIPS registers that the
\* register allocation addresses through the frame pointer is not this memory.)

Offset(i) == i.imm % (IF i.op = "ARM_LDRSB" THEN 2^Byte ELSE 2^(Byte + Byte \div 2))
Address(s, i) == (Value(s, i.R2) + (IF i.U THEN Offset(i) ELSE -Offset(i))) % Words
Access(kind, a, v) == [kind |-> kind, addr |-> a, val |-> v]

Loaded(i, a) ==
  CASE i.op = "ARM_LDR" -> Content(a)
    [] i.op = "ARM_LDRB" -> Lo(Content(a))
    [] i.op = "ARM_LDRSB" -> LET b == Lo(Content(a))
                             IN  IF b >= 2^(Byte - 1) THEN Words - 2^Byte + b ELSE b

Load(s, i) ==
  LET a == Address(s, i)
  IN  IF i.op = "ARM_LDR_LIT" THEN [s EXCEPT !.reg[Physical(i.Rd1)] = i.imm]
      ELSE [Set(s, i.Rd1, Loaded(i, a)) EXCEPT !.log = Append(@, Access(i.op, a, Loaded(i, a)))]

\* The lowest register of the mask has the lowest address.
Position(m, r) == CHOOSE k \in DOMAIN m : m[k] = r
InOrder(mask) ==
  [k \in 1..Cardinality(mask) |-> CHOOSE r \in mask : Cardinality({q \in mask : q < r}) = k - 1]
Push(s, i) ==
  LET m == InOrder(i.Rmask)
  IN  [s EXCEPT !.stack = [k \in DOMAIN m |-> s.reg[m[k]]] \o @]
Pop(s, i) ==
  LET m == InOrder(i.Rmask)
  IN  [s EXCEPT !.stack = SubSeq(@, Len(m) + 1, Len(@)),
                !.reg = [r \in DOMAIN @ |-> IF r \in i.Rmask /\ Len(s.stack) >= Len(m)
                                            THEN s.stack[Position(m, r)] ELSE s.reg[r]]]

-----------------------------------------------------------------------------
\* The C helpers.  Their arguments are in R0..R3, a 64-bit one in two of them
\* (low word first), their result in R0 or R0 and R1.  R0..R3, R12, LR and the
\* flags hold anything (junk) afterwards, and so does a result that C leaves
\* undefined (a shift by 64 or more).

Abs(x) == IF x < 0 THEN -x ELSE x
Quotient(x, y) == IF (x < 0) = (y < 0) THEN Abs(x) \div Abs(y) ELSE -(Abs(x) \div Abs(y))
Remainder(x, y) == x - y * Quotient(x, y)

div32(x, y) == IF Signed(y) # 0 THEN Quotient(Signed(x), Signed(y)) % Words ELSE 0
divu(x, y) == IF y # 0 THEN x \div y ELSE 0
ddiv(x, y) == IF y # 0 THEN Quotient(SignedDouble(x), SignedDouble(y)) % 2^(2 * W) ELSE 0
ddivu(x, y) == IF y # 0 THEN x \div y ELSE 0
mod(x, y) == IF Signed(y) # 0 THEN Remainder(Signed(x), Signed(y)) % 2^(2 * W) ELSE 0
modu(x, y) == IF y # 0 THEN x % y ELSE 0
dmod(x, y) == IF y # 0 THEN Remainder(SignedDouble(x), SignedDouble(y)) % 2^(2 * W) ELSE 0
dmodu(x, y) == IF y # 0 THEN x % y ELSE 0
lsr(r1, r2, junk) == IF r2 < 2 * W THEN r1 \div 2^r2 ELSE Double(junk, junk)
asr(r1, r2, junk) == IF r2 < 2 * W THEN (SignedDouble(r1) \div 2^r2) % 2^(2 * W)
                     ELSE Double(junk, junk)

\* A raw address: the cached and the uncached window of the memory; the bit
\* that tells them apart is cleared.
Raw(a) == a \div 2^(W - 4) \in {8, 10}
Uncached(a) == IF a \div 2^(W - 4) = 10 THEN a - 2^(W - 3) ELSE a

\* The two words at an address, the second as the high one ("swap words").
Swapped(a) == Double(Content(a + 4), Content(a))

C_ldl(a, r1, r2) ==
  LET k == (a % 8) * Byte
      v == Swapped(Uncached(a))
  IN  v - (v % 2^k) + (Double(r1, r2) % 2^k)

C_ldr(a, r1, r2) ==
  LET k == ((a % 8) + 1) * Byte
      old == Double(r1, r2)
  IN  (Swapped(Uncached(a)) % 2^k) + old - (old % 2^k)

Returned(h, r0, r1, r2, r3, junk) ==
  CASE h = "div32" -> Double(junk, div32(r0, r1))
    [] h = "divu" -> Double(junk, divu(r0, r1))
    [] h = "mod" -> mod(r0, r1)
    [] h = "modu" -> modu(r0, r1)
    [] h = "ddiv" -> ddiv(Double(r1, r0), Double(r3, r2))
    [] h = "ddivu" -> ddivu(Double(r1, r0), Double(r3, r2))
    [] h = "dmod" -> dmod(Double(r1, r0), Double(r3, r2))
    [] h = "dmodu" -> dmodu(Double(r1, r0), Double(r3, r2))
    [] h = "lsr" -> lsr(Double(r1, r0), r2, junk)
    [] h = "asr" -> asr(Double(r1, r0), r2, junk)
    [] h = "loadWord" -> Double(junk, Content(Uncached(r0)))
    [] h = "C_ldl" -> C_ldl(r0, r1, r2)
    [] h = "C_ldr" -> C_ldr(r0, r1, r2)
    [] h \in {"storeWord", "cc_interrupt"} -> Double(junk, junk)

Touching == {"storeWord", "loadWord", "C_ldl", "C_ldr"}
Volatile == {R(0), R(1), R(2), R(3), R(12), LR}

Call(s, i, junk) ==
  LET h == Helpers[Value(s, i.R1) - Words]
      a == s.reg[R(0)]
      d == Returned(h, a, s.reg[R(1)], s.reg[R(2)], s.reg[R(3)], junk)
      odd == junk % 2 = 1
  IN  IF h \in Touching /\ ~Raw(a) THEN [s EXCEPT !.stopped = TRUE]
      ELSE [s EXCEPT !.reg = [r \in DOMAIN @ |-> CASE r = R(0) -> d % Words
                                                   [] r = R(1) -> d \div Words
                                                   [] r \in Volatile \ {R(0), R(1)} -> junk
                                                   [] OTHER -> s.reg[r]],
                     !.log = IF h \in Touching
                             THEN Append(@, Access(h, Uncached(a), s.reg[R(1)])) ELSE @,
                     !.n = odd, !.z = ~odd, !.c = odd, !.v = odd]

-----------------------------------------------------------------------------
\* One instruction, and a sequence of them.

Step(s, i, junk) ==
  CASE s.stopped \/ ~Holds(s, i.cond) -> s
    [] OTHER ->
         CASE i.op \in DataOps -> DataProcessing(s, i)
           [] i.op \in LoadOps -> Load(s, i)
           [] i.op \in {"ARM_MUL", "ARM_UMULL", "ARM_UMLAL"} -> Multiply(s, i)
           [] i.op = "ARM_STM" -> Push(s, i)
           [] i.op = "ARM_LDM" -> Pop(s, i)
           [] i.op = "ARM_BLX" \/ (i.op = "ARM_BX" /\ i.Ln) -> Call(s, i, junk)

Execute(s, code, junk) ==
  LET state[k \in 0..Len(code)] ==
        IF k = 0 THEN s ELSE Step(state[k - 1], code[k], junk)
  IN  state[Len(code)]

=============================================================================
