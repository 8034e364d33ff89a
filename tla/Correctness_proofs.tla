------------------------- MODULE Correctness_proofs -------------------------
(* Proofs about the life of an instruction: what the passes keep in the list *)
(* of records, and what the emitted code keeps of the processor.             *)
EXTENDS Execution_proofs, Decode_proofs

-----------------------------------------------------------------------------
\* The records a pass writes.  A quiet one changes no register but those the
\* operation may change, and leaves the stack alone.

Shaped(i) == DOMAIN i = DOMAIN newEmptyInstr(X)

Quiet(i, d) == Shaped(i) /\ (i.op \in {"NO_OP", "ABORT"} \/ Tame(i, d))

\* A register operand that stands for a register the operation may change.
Ours(r, d) == r \in Dest(d) \cup {NOT_USED, SCRATCH0, SCRATCH1}

\* The constructors keep the fields of a record and set those they name.
LEMMA Empty ==
    ASSUME NEW op
    PROVE  Shaped(newEmptyInstr(op)) /\ newEmptyInstr(op).op = op /\ newEmptyInstr(op).cond = "AL"
BY DEF Shaped, newEmptyInstr

LEMMA Made ==
    ASSUME NEW i, Shaped(i), NEW op, NEW cond, NEW r, NEW r1, NEW r2, NEW n
    PROVE  /\ \A x \in {Instr(i, op, cond, r, r1, r2), InstrI(i, op, cond, r, r1, r2, n),
                        InstrS(i, op, cond, r, r1, r2), InstrIS(i, op, cond, r, r1, r2, n)} :
                Shaped(x) /\ x.op = op /\ x.cond = cond /\ x.Rd1 = r
BY ZenonT(40) DEF Shaped, newEmptyInstr, Instr, InstrI, InstrS, InstrIS

LEMMA OursPhysical == ASSUME NEW d, NEW r, Ours(r, d) PROVE Physical(r) \in Dest(d)
BY DEF Ours, Dest, Physical, Scratch, R, REG_HOST, REG_TEMP, SCRATCH0, SCRATCH1, NOT_USED

Plain1 == (DataOps \cup LoadOps) \cup {"NO_OP"}

LEMMA QuietIf ==
    ASSUME NEW d, NEW i, Shaped(i), i.op \in Plain1, Ours(i.Rd1, d)
    PROVE  Quiet(i, d)
<1>1. CASE i.op = "NO_OP"
  BY <1>1 DEF Quiet
<1>2. CASE i.op \in DataOps \cup LoadOps
  <2>1. i.op \notin Products
    BY <1>2 DEF DataOps, LoadOps, Products
  <2> QED BY <1>2, <2>1, OursPhysical DEF Quiet, Tame
<1> QED BY <1>1, <1>2 DEF Plain1

LEMMA QuietMade ==
    ASSUME NEW d, NEW i, Shaped(i), NEW op \in Plain1, NEW cond, NEW r, Ours(r, d),
           NEW r1, NEW r2, NEW n
    PROVE  /\ Quiet(Instr(i, op, cond, r, r1, r2), d)
           /\ Quiet(InstrI(i, op, cond, r, r1, r2, n), d)
           /\ Quiet(InstrS(i, op, cond, r, r1, r2), d)
           /\ Quiet(InstrIS(i, op, cond, r, r1, r2, n), d)
           /\ Quiet(newInstr(op, cond, r, r1, r2), d)
           /\ Quiet(newInstrI(op, cond, r, r1, r2, n), d)
           /\ Quiet(newInstrS(op, cond, r, r1, r2), d)
           /\ Quiet(newInstrIS(op, cond, r, r1, r2, n), d)
<1>1. ASSUME NEW e, Shaped(e)
      PROVE  /\ Quiet(Instr(e, op, cond, r, r1, r2), d)
             /\ Quiet(InstrI(e, op, cond, r, r1, r2, n), d)
             /\ Quiet(InstrS(e, op, cond, r, r1, r2), d)
             /\ Quiet(InstrIS(e, op, cond, r, r1, r2, n), d)
  BY <1>1, Made, QuietIf
<1> QED BY <1>1, Empty DEF newInstr, newInstrI, newInstrS, newInstrIS

LEMMA QuietMoved ==
    ASSUME NEW d, NEW r, Ours(r, d), NEW s, NEW n
    PROVE  Quiet(MOV(r, s), d) /\ Quiet(MOVI(r, n), d)
<1>1. "ARM_MOV" \in Plain1 /\ Shaped(newEmptyInstr(X))
  BY Empty DEF Plain1, DataOps
<1> QED BY <1>1, QuietMade DEF MOV, MOVI

\* What is set after the constructor.
LEMMA QuietStays ==
    ASSUME NEW d, NEW i, Quiet(i, d), NEW t, NEW n, NEW cond
    PROVE  /\ Quiet(By(i, t, n), d) /\ Quiet(ByReg(i, t, n), d) /\ Quiet(If(cond, i), d)
<1>1. \A x \in {By(i, t, n), ByReg(i, t, n), If(cond, i)} :
        Shaped(x) /\ x.op = i.op /\ x.Rd1 = i.Rd1 /\ x.Rd2 = i.Rd2
  BY DEF Quiet, Shaped, newEmptyInstr, By, ByReg, If
<1> QED BY <1>1 DEF Quiet, Tame

-----------------------------------------------------------------------------
\* Lists of quiet records.
QuietList(L, d) == IsList(L) /\ \A k \in 1 .. Len(L) : Quiet(L[k], d)

LEMMA QuietGuards ==
    ASSUME NEW d, NEW L, QuietList(L, d), NEW m \in Masks
    PROVE  Guards(L, d, m, m)
<1>1. \A k \in 1 .. Len(L) : Leads(L[k], d, m, m)
  BY DEF QuietList, Quiet, Shaped, Leads
<1> QED BY <1>1, GuardsStill DEF QuietList

LEMMA QuietJoin ==
    ASSUME NEW d, NEW A, NEW B, QuietList(A, d), QuietList(B, d)
    PROVE  QuietList(A \o B, d)
<1>1. /\ IsList(A) /\ IsList(B) /\ Len(A) \in Nat /\ Len(B) \in Nat
      /\ IsList(A \o B) /\ Len(A \o B) = Len(A) + Len(B)
      /\ \A k \in 1 .. Len(A) : (A \o B)[k] = A[k]
      /\ \A k \in Len(A) + 1 .. Len(A) + Len(B) : (A \o B)[k] = B[k - Len(A)]
  BY ListsAreFunctions, ListsJoin DEF QuietList
<1> DEFINE J == A \o B
<1>2. ASSUME NEW k \in 1 .. Len(J) PROVE Quiet(J[k], d)
  <2>1. CASE k <= Len(A)
    BY <2>1, <1>1 DEF QuietList
  <2>2. CASE ~(k <= Len(A))
    <3>1. k - Len(A) \in 1 .. Len(B) /\ J[k] = B[k - Len(A)]
      BY <2>2, <1>1
    <3> QED BY <3>1 DEF QuietList
  <2> QED BY <2>1, <2>2
<1> QED BY <1>1, <1>2 DEF QuietList

LEMMA QuietSeq ==
    ASSUME NEW d, NEW S, \A e \in S : Quiet(e, d), NEW L, L \in Seq(S)
    PROVE  QuietList(L, d)
BY DEF QuietList, IsList

\* Lists that are written out.
LEMMA QuietNone == ASSUME NEW d PROVE QuietList(<< >>, d)
BY DEF QuietList, IsList

LEMMA QuietOne ==
    ASSUME NEW d, NEW p,
           Quiet(p, d)
    PROVE  QuietList(<< p >>, d)
<1> DEFINE S == {p}
<1>1. << p >> \in Seq(S) /\ \A e \in S : Quiet(e, d)
  OBVIOUS
<1> HIDE DEF S
<1> QED BY <1>1, QuietSeq

LEMMA QuietTwo ==
    ASSUME NEW d, NEW p, NEW q,
           Quiet(p, d), Quiet(q, d)
    PROVE  QuietList(<< p, q >>, d)
<1> DEFINE S == {p, q}
<1>1. << p, q >> \in Seq(S) /\ \A e \in S : Quiet(e, d)
  OBVIOUS
<1> HIDE DEF S
<1> QED BY <1>1, QuietSeq

LEMMA QuietThree ==
    ASSUME NEW d, NEW p, NEW q, NEW r,
           Quiet(p, d), Quiet(q, d), Quiet(r, d)
    PROVE  QuietList(<< p, q, r >>, d)
<1> DEFINE S == {p, q, r}
<1>1. << p, q, r >> \in Seq(S) /\ \A e \in S : Quiet(e, d)
  OBVIOUS
<1> HIDE DEF S
<1> QED BY <1>1, QuietSeq

LEMMA QuietFour ==
    ASSUME NEW d, NEW p, NEW q, NEW r, NEW s,
           Quiet(p, d), Quiet(q, d), Quiet(r, d), Quiet(s, d)
    PROVE  QuietList(<< p, q, r, s >>, d)
<1> DEFINE S == {p, q, r, s}
<1>1. << p, q, r, s >> \in Seq(S) /\ \A e \in S : Quiet(e, d)
  OBVIOUS
<1> HIDE DEF S
<1> QED BY <1>1, QuietSeq

LEMMA QuietFive ==
    ASSUME NEW d, NEW p, NEW q, NEW r, NEW s, NEW t,
           Quiet(p, d), Quiet(q, d), Quiet(r, d), Quiet(s, d),
           Quiet(t, d)
    PROVE  QuietList(<< p, q, r, s, t >>, d)
<1> DEFINE S == {p, q, r, s, t}
<1>1. << p, q, r, s, t >> \in Seq(S) /\ \A e \in S : Quiet(e, d)
  OBVIOUS
<1> HIDE DEF S
<1> QED BY <1>1, QuietSeq

LEMMA QuietSix ==
    ASSUME NEW d, NEW p, NEW q, NEW r, NEW s, NEW t, NEW u,
           Quiet(p, d), Quiet(q, d), Quiet(r, d), Quiet(s, d),
           Quiet(t, d), Quiet(u, d)
    PROVE  QuietList(<< p, q, r, s, t, u >>, d)
<1> DEFINE S == {p, q, r, s, t, u}
<1>1. << p, q, r, s, t, u >> \in Seq(S) /\ \A e \in S : Quiet(e, d)
  OBVIOUS
<1> HIDE DEF S
<1> QED BY <1>1, QuietSeq

LEMMA QuietSeven ==
    ASSUME NEW d, NEW p, NEW q, NEW r, NEW s, NEW t, NEW u, NEW v,
           Quiet(p, d), Quiet(q, d), Quiet(r, d), Quiet(s, d),
           Quiet(t, d), Quiet(u, d), Quiet(v, d)
    PROVE  QuietList(<< p, q, r, s, t, u, v >>, d)
<1> DEFINE S == {p, q, r, s, t, u, v}
<1>1. << p, q, r, s, t, u, v >> \in Seq(S) /\ \A e \in S : Quiet(e, d)
  OBVIOUS
<1> HIDE DEF S
<1> QED BY <1>1, QuietSeq

LEMMA QuietEight ==
    ASSUME NEW d, NEW p, NEW q, NEW r, NEW s, NEW t, NEW u, NEW v, NEW x,
           Quiet(p, d), Quiet(q, d), Quiet(r, d), Quiet(s, d),
           Quiet(t, d), Quiet(u, d), Quiet(v, d), Quiet(x, d)
    PROVE  QuietList(<< p, q, r, s, t, u, v, x >>, d)
<1> DEFINE S == {p, q, r, s, t, u, v, x}
<1>1. << p, q, r, s, t, u, v, x >> \in Seq(S) /\ \A e \in S : Quiet(e, d)
  OBVIOUS
<1> HIDE DEF S
<1> QED BY <1>1, QuietSeq

LEMMA FourListed ==
    ASSUME NEW p, NEW q, NEW u, NEW v, NEW L, L = << p, q, u, v >>
    PROVE  IsList(L) /\ Len(L) = 4 /\ L[1] = p /\ L[2] = q /\ L[3] = u /\ L[4] = v
<1>1. L \in Seq({p, q, u, v})
  OBVIOUS
<1>2. Len(L) = 4 /\ L[1] = p /\ L[2] = q /\ L[3] = u /\ L[4] = v
  OBVIOUS
<1> QED BY <1>1, <1>2 DEF IsList

\* A call keeps what it pushes.
LEMMA CallGuards ==
    ASSUME NEW d, NEW r, NEW h, NEW saved \in Masks \ {{}}, Ours(r, d) \/ Physical(r) \in saved
    PROVE  Guards(CallThrough(r, h, saved), d, {}, {})
<1> DEFINE p == newInstrPUSH(saved)
           q == Literal(r, h)
           u == newInstr("ARM_BLX", "AL", NOT_USED, r, NOT_USED)
           v == newInstrPOP(saved)
           L == << p, q, u, v >>
           open == [k \in 0 .. 4 |-> IF k \in {0, 4} THEN {} ELSE saved]
<1>1. IsList(L) /\ Len(L) = 4 /\ L[1] = p /\ L[2] = q /\ L[3] = u /\ L[4] = v
  BY FourListed
<1>2. LR \in saved /\ saved \in Masks /\ {} \in Masks
  BY DEF Masks
<1>3. open \in [0 .. 4 -> Masks]
  BY <1>2
<1>4. Leads(p, d, {}, saved)
  BY DEF Leads, newInstrPUSH, newEmptyInstr
<1>5. Leads(v, d, saved, {})
  BY DEF Leads, newInstrPOP, newEmptyInstr
<1>6. Leads(u, d, saved, saved)
  <2>1. Shaped(u) /\ u.op = "ARM_BLX"
    <3>1. Shaped(newEmptyInstr("ARM_BLX"))
      BY Empty
    <3> QED BY <3>1, Made DEF newInstr
  <2> QED BY <2>1, <1>2 DEF Leads, Shaped
<1>7. Leads(q, d, saved, saved)
  <2>1. Shaped(q) /\ q.op = "ARM_LDR_LIT" /\ q.Rd1 = r
    BY DEF Literal, Pool, Shaped, newEmptyInstr
  <2>2. CASE Physical(r) \in saved
    BY <2>1, <2>2 DEF Leads, Shaped
  <2>3. CASE Ours(r, d)
    <3>1. Quiet(q, d)
      BY <2>1, <2>3, QuietIf DEF Plain1, LoadOps
    <3> QED BY <3>1 DEF Leads, Shaped, Quiet
  <2> QED BY <2>2, <2>3
<1>8. \A k \in 1 .. 4 : Leads(L[k], d, open[k - 1], open[k])
  <2> HIDE DEF p, q, u, v, L
  <2>1. /\ open[0] = {} /\ open[1] = saved /\ open[2] = saved /\ open[3] = saved /\ open[4] = {}
    OBVIOUS
  <2> HIDE DEF open
  <2> QED BY <2>1, <1>1, <1>4, <1>5, <1>6, <1>7
<1>9. open[0] = {} /\ open[4] = {}
  OBVIOUS
<1> HIDE DEF open, L
<1>10. Guards(L, d, {}, {})
  BY <1>1, <1>3, <1>8, <1>9 DEF Guards
<1> QED BY <1>10 DEF L, CallThrough

LEMMA InsertedGuards ==
    ASSUME NEW d, NEW h
    PROVE  Guards(insertCall_To_C("AL", h, {}), d, {}, {})
<1> DEFINE p == newInstrPUSH({LR})
           q == Literal(CALL2C, h)
           u == [newInstr("ARM_BX", "AL", NOT_USED, CALL2C, NOT_USED) EXCEPT !.Ln = TRUE]
           v == newInstrPOP({LR})
           L == << q, p, u, v >>
           open == [k \in 0 .. 4 |-> IF k \in {0, 1, 4} THEN {} ELSE {LR}]
<1>1. IsList(L) /\ Len(L) = 4 /\ L[1] = q /\ L[2] = p /\ L[3] = u /\ L[4] = v
  BY FourListed
<1>2. {LR} \in Masks /\ {} \in Masks
  BY DEF Masks
<1>3. open \in [0 .. 4 -> Masks]
  BY <1>2
<1>4. Leads(p, d, {}, {LR})
  BY DEF Leads, newInstrPUSH, newEmptyInstr
<1>5. Leads(v, d, {LR}, {})
  BY DEF Leads, newInstrPOP, newEmptyInstr
<1>6. Leads(u, d, {LR}, {LR})
  <2>1. DOMAIN u = DOMAIN newEmptyInstr(X) /\ u.op = "ARM_BX" /\ u.Ln
    BY DEF newInstr, newEmptyInstr, Instr
  <2> QED BY <2>1 DEF Leads
<1>7. Leads(q, d, {}, {})
  <2>1. Shaped(q) /\ q.op = "ARM_LDR_LIT" /\ q.Rd1 = CALL2C
    BY DEF Literal, Pool, Shaped, newEmptyInstr
  <2>2. Ours(CALL2C, d)
    BY DEF Ours, Dest, Scratch
  <2>3. Quiet(q, d)
    BY <2>1, <2>2, QuietIf DEF Plain1, LoadOps
  <2> QED BY <2>3 DEF Leads, Shaped, Quiet
<1>8. \A k \in 1 .. 4 : Leads(L[k], d, open[k - 1], open[k])
  <2> HIDE DEF p, q, u, v, L
  <2>1. /\ open[0] = {} /\ open[1] = {} /\ open[2] = {LR} /\ open[3] = {LR} /\ open[4] = {}
    OBVIOUS
  <2> HIDE DEF open
  <2> QED BY <2>1, <1>1, <1>4, <1>5, <1>6, <1>7
<1>9. open[0] = {} /\ open[4] = {}
  OBVIOUS
<1> HIDE DEF open, L, p, v, q, u
<1>10. Guards(L, d, {}, {})
  BY <1>1, <1>3, <1>8, <1>9 DEF Guards
<1> QED BY <1>10 DEF L, p, q, u, v, insertCall_To_C

-----------------------------------------------------------------------------
\* What the passes may write to, and with which operations.
LEMMA OursAll ==
    ASSUME NEW d
    PROVE  /\ Ours(d.Rd1, d) /\ Ours(Wide(d.Rd1), d) /\ Ours(NOT_USED, d)
           /\ Ours(SCRATCH0, d) /\ Ours(SCRATCH1, d) /\ Ours(R(0), d) /\ Ours(R(1), d)
           /\ Ours(R(2), d) /\ Ours(R(3), d) /\ Ours(CALL2C, d) /\ Ours(R0, d)
           /\ Ours(Rdw(d), d)
           /\ d.op \in IntoHiLo
              => Ours(HI, d) /\ Ours(LO, d) /\ Ours(Wide(HI), d) /\ Ours(Wide(LO), d)
BY DEF Ours, Dest, Scratch, R0, Rdw

LEMMA Plains ==
    {"ARM_MOV", "ARM_MVN", "ARM_ADD", "ARM_ADC", "ARM_SUB", "ARM_SBC", "ARM_RSB", "ARM_AND",
     "ARM_ORR", "ARM_EOR", "ARM_CMP", "ARM_TEQ", "ARM_LDR", "ARM_LDRB", "ARM_LDRSB",
     "ARM_LDR_LIT", "NO_OP"} \subseteq Plain1
BY DEF Plain1, DataOps, LoadOps

\* Shifts of words and doublewords.
LEMMA ShiftsQuiet ==
    ASSUME NEW d, Shaped(d)
    PROVE  /\ QuietList(DSLL(d), d)
           /\ QuietList(DSRL(d), d)
           /\ QuietList(DSRA(d), d)
           /\ QuietList(DSLL32(d), d)
           /\ QuietList(DSRL32(d), d)
           /\ QuietList(DSRA32(d), d)
           /\ QuietList(ShiftWord(d), d)
           /\ QuietList(ShiftWordBy(d), d)
<1>1. QuietList(DSLL(d), d)
  BY OursAll, Plains, QuietMade, QuietMoved, QuietStays,
     QuietFour DEF DSLL
<1>2. QuietList(DSRL(d), d)
  BY OursAll, Plains, QuietMade, QuietMoved, QuietStays,
     QuietFour DEF DSRL
<1>3. QuietList(DSRA(d), d)
  BY OursAll, Plains, QuietMade, QuietMoved, QuietStays,
     QuietThree DEF DSRA
<1>4. QuietList(DSLL32(d), d)
  BY OursAll, Plains, QuietMade, QuietMoved, QuietStays,
     QuietTwo DEF DSLL32
<1>5. QuietList(DSRL32(d), d)
  BY OursAll, Plains, QuietMade, QuietMoved, QuietStays,
     QuietTwo DEF DSRL32
<1>6. QuietList(DSRA32(d), d)
  BY OursAll, Plains, QuietMade, QuietMoved, QuietStays,
     QuietThree DEF DSRA32
<1>7. QuietList(ShiftWord(d), d)
  BY OursAll, Plains, QuietMade, QuietMoved, QuietStays,
     QuietOne DEF ShiftWord
<1>8. QuietList(ShiftWordBy(d), d)
  BY OursAll, Plains, QuietMade, QuietMoved, QuietStays,
     QuietOne DEF ShiftWordBy
<1> QED BY <1>1, <1>2, <1>3, <1>4, <1>5, <1>6, <1>7, <1>8

LEMMA DSLLVQuiet == ASSUME NEW d, Shaped(d) PROVE QuietList(DSLLV(d), d)
<1> DEFINE p == ByReg(Instr(d, "ARM_MOV", "AL", R0, NOT_USED, d.R1), "LSL", d.R2)
           q == ByReg(MOV(R(1), R1w(d)), "LSL", d.R2)
           r == newInstrIS("ARM_RSB", "AL", R(2), d.R2, NOT_USED, W)
           s == ByReg(newInstr("ARM_ORR", "GT", R0, R0, d.R1), "LSR", R(2))
           t == newInstrIS("ARM_SUB", "AL", R(2), d.R2, NOT_USED, W)
           u == ByReg(newInstr("ARM_ORR", "PL", R(1), R(1), d.R1), "LSL", R(2))
           v == MOV(Rdw(d), R(1))
           x == MOV(d.Rd1, R0)
<1>1. Quiet(p, d) /\ Quiet(q, d) /\ Quiet(r, d) /\ Quiet(s, d)
  BY OursAll, Plains, QuietMade, QuietMoved, QuietStays
<1>2. Quiet(t, d) /\ Quiet(u, d) /\ Quiet(v, d) /\ Quiet(x, d)
  BY OursAll, Plains, QuietMade, QuietMoved, QuietStays
<1> HIDE DEF p, q, r, s, t, u, v, x
<1>3. QuietList(<< p, q, r, s, t, u, v, x >>, d)
  BY <1>1, <1>2, QuietEight
<1> QED BY <1>3 DEF DSLLV, p, q, r, s, t, u, v, x

\* DSRLV and DSRAV: quiet on both sides of the call.
LEMMA ShiftDoubleByGuards ==
    ASSUME NEW d, Shaped(d), NEW h
    PROVE  Guards(ShiftDoubleBy(d, h), d, {}, {})
<1> DEFINE A == << Instr(d, "ARM_MOV", "AL", R0, NOT_USED, d.R1), MOV(R(1), R1w(d)), MOV(R(2), d.R2) >>
           B == CallThrough(R(3), h, {R(12), LR})
           C == << MOV(d.Rd1, R0), MOV(Rdw(d), R(1)) >>
<1>0. {} \in Masks /\ {R(12), LR} \in Masks \ {{}}
  BY DEF Masks
<1>1. QuietList(A, d)
  BY OursAll, Plains, QuietMade, QuietMoved, QuietThree
<1>2. QuietList(C, d)
  BY OursAll, QuietMoved, QuietTwo
<1>3. Guards(B, d, {}, {})
  BY <1>0, OursAll, CallGuards
<1> HIDE DEF A, B, C
<1>4. Guards(A, d, {}, {}) /\ Guards(C, d, {}, {})
  BY <1>0, <1>1, <1>2, QuietGuards
<1>5. Guards(A \o B, d, {}, {})
  BY <1>3, <1>4, GuardsJoin
<1>6. Guards(A \o B \o C, d, {}, {})
  BY <1>4, <1>5, GuardsJoin
<1> QED BY <1>6 DEF ShiftDoubleBy, A, B, C

-----------------------------------------------------------------------------
\* Products and quotients.
LEMMA QuietLong ==
    ASSUME NEW d, NEW op \in {"ARM_UMULL", "ARM_UMLAL"}, NEW hi, NEW lo, Ours(hi, d), Ours(lo, d),
           NEW x, NEW y
    PROVE  Quiet(Long(op, hi, lo, x, y), d)
<1> DEFINE i == Long(op, hi, lo, x, y)
<1>1. Shaped(i) /\ i.op = op /\ i.Rd1 = hi /\ i.Rd2 = lo
  BY DEF Shaped, newInstr, newEmptyInstr, Instr, Long
<1> HIDE DEF i
<1>2. Quiet(i, d)
  BY <1>1, OursPhysical DEF Quiet, Tame, Products
<1> QED BY <1>2 DEF i

LEMMA MULTQuiet ==
    ASSUME NEW d, Shaped(d), d.op \in IntoHiLo
    PROVE  QuietList(MULT(d), d)
<1> DEFINE p == [Instr(d, "ARM_MUL", "AL", R0, d.R1, d.R2) EXCEPT !.Rd2 = R(1)]
<1>1. Shaped(p) /\ p.op = "ARM_MUL" /\ p.Rd1 = R0 /\ p.Rd2 = R(1)
  BY DEF Shaped, newEmptyInstr, Instr
<1> HIDE DEF p
<1>2. Quiet(p, d)
  BY <1>1, OursAll, OursPhysical DEF Quiet, Tame, Products
<1>3. /\ Quiet(MOV(LO, R0), d) /\ Quiet(MOVI(Wide(LO), 0), d)
      /\ Quiet(MOV(HI, R(1)), d) /\ Quiet(MOVI(Wide(HI), 0), d)
  BY OursAll, QuietMoved
<1>4. QuietList(<< p, MOV(LO, R0), MOVI(Wide(LO), 0), MOV(HI, R(1)), MOVI(Wide(HI), 0) >>, d)
  BY <1>2, <1>3, QuietFive
<1> QED BY <1>4 DEF MULT, p

LEMMA CrossProductsQuiet ==
    ASSUME NEW d, d.op \in IntoHiLo
    PROVE  QuietList(CrossProducts, d)
BY OursAll, QuietLong, QuietThree DEF CrossProducts

LEMMA DMULTUQuiet ==
    ASSUME NEW d, Shaped(d), d.op \in IntoHiLo
    PROVE  QuietList(DMULTU(d), d)
<1> DEFINE p == InstrI(d, "ARM_MOV", "AL", HI, NOT_USED, NOT_USED, 0)
           q == MOVI(Wide(HI), 0)
           r == MOV(R0, d.R1)
           s == MOV(R(1), R1w(d))
           t == MOV(R(2), d.R2)
           u == MOV(R(3), R2w(d))
           v == Long("ARM_UMULL", Wide(LO), LO, R0, R(2))
<1>1. Quiet(p, d) /\ Quiet(q, d) /\ Quiet(r, d) /\ Quiet(s, d)
  BY OursAll, Plains, QuietMade, QuietMoved
<1>2. Quiet(t, d) /\ Quiet(u, d) /\ Quiet(v, d)
  BY OursAll, QuietMoved, QuietLong
<1> HIDE DEF p, q, r, s, t, u, v
<1>3. QuietList(<< p, q, r, s, t, u, v >>, d)
  BY <1>1, <1>2, QuietSeven
<1>4. QuietList(<< p, q, r, s, t, u, v >> \o CrossProducts, d)
  BY <1>3, CrossProductsQuiet, QuietJoin
<1> QED BY <1>4 DEF DMULTU, p, q, r, s, t, u, v

LEMMA MagnitudeQuiet ==
    ASSUME NEW d, NEW lo, NEW hi, Ours(lo, d), Ours(hi, d), NEW r
    PROVE  QuietList(Magnitude(lo, hi, r), d)
<1>1. Shaped(newEmptyInstr(X))
  BY Empty
<1> QED BY <1>1, Plains, QuietMade, QuietMoved, QuietStays, QuietFour DEF Magnitude

LEMMA DMULTQuiet ==
    ASSUME NEW d, Shaped(d), d.op \in IntoHiLo
    PROVE  QuietList(DMULT(d), d)
<1> DEFINE A == << InstrI(d, "ARM_CMP", "AL", NOT_USED, R1w(d), NOT_USED, 0) >>
           B == Magnitude(R0, R(1), d.R1)
           C == << newInstrI("ARM_CMP", "AL", NOT_USED, R2w(d), NOT_USED, 0) >>
           E == Magnitude(R(2), R(3), d.R2)
           F == << Long("ARM_UMULL", Wide(LO), LO, R0, R(2)), MOVI(HI, 0), MOVI(Wide(HI), 0) >>
           p == newInstr("ARM_TEQ", "AL", NOT_USED, R1w(d), R2w(d))
           q == newInstrI("ARM_RSB", "MI", LO, LO, NOT_USED, 0)
           r == newInstr("ARM_MVN", "MI", Wide(LO), NOT_USED, Wide(LO))
           s == newInstr("ARM_MVN", "MI", HI, NOT_USED, HI)
           t == newInstr("ARM_MVN", "MI", Wide(HI), NOT_USED, Wide(HI))
           G == << p, q, r, s, t >>
<1>1. QuietList(A, d) /\ QuietList(C, d)
  BY OursAll, Plains, QuietMade, QuietOne
<1>2. QuietList(B, d) /\ QuietList(E, d)
  BY OursAll, MagnitudeQuiet
<1>3. QuietList(F, d)
  BY OursAll, QuietMoved, QuietLong, QuietThree
<1>4. Quiet(p, d) /\ Quiet(q, d) /\ Quiet(r, d) /\ Quiet(s, d) /\ Quiet(t, d)
  BY OursAll, Plains, QuietMade
<1>5. QuietList(G, d)
  <2> HIDE DEF p, q, r, s, t
  <2> QED BY <1>4, QuietFive
<1> HIDE DEF A, B, C, E, F, G
<1>6. QuietList(A \o B \o C \o E, d)
  BY <1>1, <1>2, QuietJoin
<1>7. QuietList(A \o B \o C \o E \o F \o CrossProducts \o G, d)
  BY <1>3, <1>5, <1>6, CrossProductsQuiet, QuietJoin
<1> QED BY <1>7 DEF DMULT, A, B, C, E, F, G

\* Two calls, and what is moved around them.
LEMMA DivideGuards ==
    ASSUME NEW d, NEW A, NEW B, NEW C, NEW E, NEW h, NEW k,
           QuietList(A, d), QuietList(B, d), QuietList(C, d), QuietList(E, d)
    PROVE  Guards((A \o CallThrough(R(4), h, {R(4), R(12), LR})) \o B
                  \o (C \o CallThrough(R(4), k, {R(4), R(12), LR})) \o E, d, {}, {})
<1> DEFINE Y == CallThrough(R(4), h, {R(4), R(12), LR})
           Z == CallThrough(R(4), k, {R(4), R(12), LR})
<1>1. {} \in Masks /\ {R(4), R(12), LR} \in Masks \ {{}}
  BY DEF Masks
<1>2. Physical(R(4)) \in {R(4), R(12), LR}
  BY DEF Physical, R, REG_HOST, SCRATCH0, REG_TEMP, NOT_USED
<1>3. Guards(Y, d, {}, {}) /\ Guards(Z, d, {}, {})
  BY <1>1, <1>2, CallGuards
<1> HIDE DEF Y, Z
<1>4. Guards(A, d, {}, {}) /\ Guards(B, d, {}, {}) /\ Guards(C, d, {}, {}) /\ Guards(E, d, {}, {})
  BY <1>1, QuietGuards
<1>5. Guards(A \o Y, d, {}, {}) /\ Guards(C \o Z, d, {}, {})
  BY <1>3, <1>4, GuardsJoin
<1>6. Guards((A \o Y) \o B, d, {}, {})
  BY <1>4, <1>5, GuardsJoin
<1>7. Guards((A \o Y) \o B \o (C \o Z), d, {}, {})
  BY <1>5, <1>6, GuardsJoin
<1>8. Guards((A \o Y) \o B \o (C \o Z) \o E, d, {}, {})
  BY <1>4, <1>7, GuardsJoin
<1> QED BY <1>8 DEF Y, Z

LEMMA DIVGuards ==
    ASSUME NEW d, Shaped(d), d.op \in IntoHiLo, NEW h, NEW k
    PROVE  Guards(DIV(d, h, k), d, {}, {}) /\ Guards(DDIV(d, h, k), d, {}, {})
<1> DEFINE first == Instr(d, "ARM_MOV", "AL", R0, NOT_USED, d.R1)
           A == << first, MOV(R(1), d.R2) >>
           B == << MOV(LO, R0), MOVI(Wide(LO), 0) >>
           C == << MOV(R0, d.R1), MOV(R(1), d.R2) >>
           E == << MOV(HI, R0), MOVI(Wide(HI), 0) >>
           AA == << first, MOV(R(1), R1w(d)), MOV(R(2), d.R2), MOV(R(3), R2w(d)) >>
           BB == << MOV(LO, R0), MOV(Wide(LO), R(1)) >>
           CC2 == << MOV(R0, d.R1), MOV(R(1), R1w(d)), MOV(R(2), d.R2), MOV(R(3), R2w(d)) >>
           EE == << MOV(HI, R0), MOV(Wide(HI), R(1)) >>
<1>1. Quiet(first, d)
  BY OursAll, Plains, QuietMade
<1> HIDE DEF first
<1>2. QuietList(A, d) /\ QuietList(B, d) /\ QuietList(C, d) /\ QuietList(E, d)
  BY <1>1, OursAll, QuietMoved, QuietTwo
<1>3. QuietList(AA, d) /\ QuietList(CC2, d)
  BY <1>1, OursAll, QuietMoved, QuietFour
<1>4. QuietList(BB, d) /\ QuietList(EE, d)
  BY OursAll, QuietMoved, QuietTwo
<1> HIDE DEF A, B, C, E, AA, BB, CC2, EE
<1> DEFINE Y == CallThrough(R(4), h, {R(4), R(12), LR})
           Z == CallThrough(R(4), k, {R(4), R(12), LR})
<1>5. Guards((A \o Y) \o B \o (C \o Z) \o E, d, {}, {})
  BY <1>2, DivideGuards
<1>6. Guards((AA \o Y) \o BB \o (CC2 \o Z) \o EE, d, {}, {})
  BY <1>3, <1>4, DivideGuards
<1> HIDE DEF Y, Z
<1>7. DIV(d, h, k) = (A \o Y) \o B \o (C \o Z) \o E
  BY DEF DIV, A, B, C, E, Y, Z, first
<1>8. DDIV(d, h, k) = (AA \o Y) \o BB \o (CC2 \o Z) \o EE
  BY DEF DDIV, AA, BB, CC2, EE, Y, Z, first
<1> QED BY <1>5, <1>6, <1>7, <1>8

-----------------------------------------------------------------------------
\* Sums, logic and comparisons.
LEMMA WordSumsQuiet ==
    ASSUME NEW d, Shaped(d)
    PROVE  /\ QuietList(ADD(d), d)
           /\ QuietList(ADDU(d), d)
           /\ QuietList(NOR(d), d)
<1>1. QuietList(ADD(d), d)
  BY OursAll, Plains, QuietMade, QuietMoved, QuietStays,
     QuietThree DEF ADD, Naming
<1>2. QuietList(ADDU(d), d)
  BY OursAll, Plains, QuietMade, QuietMoved, QuietStays,
     QuietOne DEF ADDU
<1>3. QuietList(NOR(d), d)
  BY OursAll, Plains, QuietMade, QuietMoved, QuietStays,
     QuietTwo DEF NOR
<1> QED BY <1>1, <1>2, <1>3

LEMMA DoublesQuiet ==
    ASSUME NEW d, Shaped(d), NEW low \in Plain1, NEW high \in Plain1
    PROVE  /\ QuietList(PlainDouble(d, low, high), d)
           /\ QuietList(Logic(d, low), d)
<1>1. QuietList(PlainDouble(d, low, high), d)
  BY OursAll, Plains, QuietMade, QuietMoved, QuietStays,
     QuietTwo DEF PlainDouble
<1>2. QuietList(Logic(d, low), d)
  BY OursAll, Plains, QuietMade, QuietMoved, QuietStays,
     QuietTwo DEF Logic
<1> QED BY <1>1, <1>2

LEMMA TrappingDoubleQuiet ==
    ASSUME NEW d, Shaped(d), NEW low \in Plain1, NEW high \in Plain1
    PROVE  QuietList(TrappingDouble(d, low, high), d)
<1> DEFINE p == Naming(d, d.Rd1)
           q == NewNaming(Rdw(d))
           r == newInstrS(low, "AL", SCRATCH0, d.R1, d.R2)
           s == newInstrS(high, "AL", SCRATCH1, R1w(d), R2w(d))
           t == If("VC", MOV(d.Rd1, SCRATCH0))
           u == If("VC", MOV(Rdw(d), SCRATCH1))
<1>1. Quiet(p, d) /\ Quiet(q, d)
  BY OursAll, Plains, QuietMade DEF Naming, NewNaming
<1>2. Quiet(r, d) /\ Quiet(s, d) /\ Quiet(t, d) /\ Quiet(u, d)
  BY OursAll, QuietMade, QuietMoved, QuietStays
<1> HIDE DEF p, q, r, s, t, u
<1>3. QuietList(<< p, q, r, s, t, u >>, d)
  BY <1>1, <1>2, QuietSix
<1> QED BY <1>3 DEF TrappingDouble, p, q, r, s, t, u

LEMMA HalvesQuiet ==
    ASSUME NEW d, Shaped(d), NEW op \in Plain1, NEW n, NEW cond
    PROVE  /\ QuietList(FromZero(d, op, n), d)
           /\ QuietList(Rejoin(d, cond), d)
           /\ QuietList(Above(d, op), d)
           /\ QuietList(NamingBoth(d), d)
           /\ QuietList(NamingTargets(d), d)
           /\ QuietList(CarryUp(d), d)
           /\ QuietList(OneOrZero(d, cond, op), d)
<1>1. QuietList(FromZero(d, op, n), d)
  BY OursAll, Plains, QuietMade, QuietMoved, QuietStays,
     QuietTwo DEF FromZero
<1>2. QuietList(Rejoin(d, cond), d)
  BY OursAll, Plains, QuietMade, QuietMoved, QuietStays,
     QuietOne DEF Rejoin
<1>3. QuietList(Above(d, op), d)
  BY OursAll, Plains, QuietMade, QuietMoved, QuietStays,
     QuietOne DEF Above
<1>4. QuietList(NamingBoth(d), d)
  BY OursAll, Plains, QuietMade, QuietMoved, QuietStays,
     QuietTwo DEF NamingBoth, Naming, NewNaming
<1>5. QuietList(NamingTargets(d), d)
  BY OursAll, Plains, QuietMade, QuietMoved, QuietStays,
     QuietTwo DEF NamingTargets
<1>6. QuietList(CarryUp(d), d)
  BY OursAll, Plains, QuietMade, QuietMoved, QuietStays,
     QuietThree DEF CarryUp
<1>7. QuietList(OneOrZero(d, cond, op), d)
  BY OursAll, Plains, QuietMade, QuietMoved, QuietStays,
     QuietTwo DEF OneOrZero
<1> QED BY <1>1, <1>2, <1>3, <1>4, <1>5, <1>6, <1>7

LEMMA SubtractHalvesQuiet ==
    ASSUME NEW d, Shaped(d), NEW cond
    PROVE  QuietList(SubtractHalves(d, cond), d)
<1> DEFINE A == << newInstrI("ARM_SUB", "AL", d.Rd1, d.R1, NOT_USED, Lo(-d.imm)),
                   newInstrI("ARM_SUB", "AL", SCRATCH0, SCRATCH0, NOT_USED, Hi(-d.imm)) >>
<1>1. QuietList(A, d)
  BY OursAll, Plains, QuietMade, QuietTwo
<1>2. QuietList(Rejoin(d, cond), d)
  BY Plains, HalvesQuiet
<1> HIDE DEF A
<1>3. QuietList(A \o Rejoin(d, cond), d)
  BY <1>1, <1>2, QuietJoin
<1> QED BY <1>3 DEF SubtractHalves, A

\* The decoded record, while no pass has translated it.
Ready(d) == Shaped(d) /\ d.op \notin Encoded /\ d.imm \in Int

LEMMA NoMask == {} \in Masks
BY DEF Masks

LEMMA QuietOpen ==
    ASSUME NEW d, NEW L, QuietList(L, d)
    PROVE  Guards(L, d, {}, {})
BY NoMask, QuietGuards

\* What a pass leaves as it is.
LEMMA LeftGuards ==
    ASSUME NEW d, NEW i, NEW m \in Masks, NEW p \in Masks, Leads(i, d, m, p)
    PROVE  Guards(<< i >>, d, m, p)
<1> DEFINE L == << i >>
           open == [k \in 0 .. 1 |-> IF k = 0 THEN m ELSE p]
<1>1. L \in Seq({i}) /\ Len(L) = 1 /\ L[1] = i
  OBVIOUS
<1>2. open \in [0 .. 1 -> Masks] /\ open[0] = m /\ open[1] = p
  OBVIOUS
<1> HIDE DEF open, L
<1>3. \A k \in 1 .. 1 : Leads(L[k], d, open[k - 1], open[k])
  BY <1>1, <1>2
<1>4. Guards(L, d, m, p)
  BY <1>1, <1>2, <1>3 DEF Guards, IsList
<1> QED BY <1>4 DEF L

LEMMA ReadyGuards ==
    ASSUME NEW d, Ready(d)
    PROVE  Guards(<< d >>, d, {}, {})
BY NoMask, LeftGuards DEF Leads, Ready, Shaped

LEMMA AddNothingGuards ==
    ASSUME NEW d, Ready(d)
    PROVE  Guards(AddNothing(d), d, {}, {})
<1>1. QuietList(<< Instr(d, "NO_OP", "AL", NOT_USED, NOT_USED, NOT_USED) >>, d)
  BY OursAll, Plains, QuietMade, QuietOne DEF Ready
<1> QED BY <1>1, QuietOpen, ReadyGuards DEF AddNothing

LEMMA ADDIGuards ==
    ASSUME NEW d, Ready(d)
    PROVE  Guards(ADDI(d), d, {}, {})
<1> USE DEF Ready
<1>1. CASE d.imm = 0
  BY <1>1, AddNothingGuards DEF ADDI
<1>2. CASE d.imm < 0 /\ WithoutByte(-d.imm)
  <2> DEFINE A == << Instr(d, "NO_OP", "AL", d.Rd1, d.Rd1, NOT_USED) >>
  <2>1. ADDI(d) = IF d.R1 = 0 THEN FromZero(d, "ARM_SUB", -d.imm)
                  ELSE A \o SubtractHalves(d, "VC")
    BY <1>2 DEF ADDI
  <2>2. QuietList(FromZero(d, "ARM_SUB", -d.imm), d)
    BY Plains, HalvesQuiet
  <2>3. QuietList(A, d)
    BY OursAll, Plains, QuietMade, QuietOne
  <2> HIDE DEF A
  <2>4. QuietList(A \o SubtractHalves(d, "VC"), d)
    BY <2>3, SubtractHalvesQuiet, QuietJoin
  <2> QED BY <2>1, <2>2, <2>4, QuietOpen
<1>3. CASE d.imm < 0 /\ ~WithoutByte(-d.imm)
  <2>1. ADDI(d) = << InstrI(d, "ARM_SUB", "AL", d.Rd1, d.R1, NOT_USED, -d.imm) >>
    BY <1>3 DEF ADDI
  <2>2. QuietList(ADDI(d), d)
    BY <2>1, OursAll, Plains, QuietMade, QuietOne
  <2> QED BY <2>2, QuietOpen
<1>4. CASE d.imm > 0 /\ WithoutByte(d.imm)
  <2> DEFINE A == << Naming(d, d.Rd1),
                     newInstrIS("ARM_ADD", "AL", SCRATCH0, d.R1, NOT_USED, Lo(d.imm)),
                     newInstrIS("ARM_ADD", "VC", SCRATCH0, SCRATCH0, NOT_USED, Hi(d.imm)) >>
  <2>1. ADDI(d) = IF d.R1 = 0 THEN FromZero(d, "ARM_ADD", d.imm) ELSE A \o Rejoin(d, "VC")
    BY <1>4 DEF ADDI
  <2>2. QuietList(FromZero(d, "ARM_ADD", d.imm), d) /\ QuietList(Rejoin(d, "VC"), d)
    BY Plains, HalvesQuiet
  <2>3. QuietList(A, d)
    BY OursAll, Plains, QuietMade, QuietThree DEF Naming
  <2> HIDE DEF A
  <2>4. QuietList(A \o Rejoin(d, "VC"), d)
    BY <2>2, <2>3, QuietJoin
  <2> QED BY <2>1, <2>2, <2>4, QuietOpen
<1>5. CASE d.imm > 0 /\ ~WithoutByte(d.imm)
  <2> DEFINE A == << InstrI(d, "ARM_MOV", "AL", d.Rd1, NOT_USED, NOT_USED, d.imm) >>
             B == << InstrIS(d, "ARM_ADD", "AL", SCRATCH0, d.R1, NOT_USED, d.imm),
                     If("VC", MOV(d.Rd1, SCRATCH0)) >>
  <2>1. ADDI(d) = IF d.R1 = 0 THEN A ELSE B
    BY <1>5 DEF ADDI
  <2>2. QuietList(A, d)
    BY OursAll, Plains, QuietMade, QuietOne
  <2>3. QuietList(B, d)
    BY OursAll, Plains, QuietMade, QuietMoved, QuietStays, QuietTwo
  <2> QED BY <2>1, <2>2, <2>3, QuietOpen
<1> QED BY <1>1, <1>2, <1>3, <1>4, <1>5

LEMMA ADDIUGuards ==
    ASSUME NEW d, Ready(d)
    PROVE  Guards(ADDIU(d), d, {}, {})
<1> USE DEF Ready
<1>1. CASE d.imm = 0
  BY <1>1, AddNothingGuards DEF ADDIU
<1>2. CASE d.imm < 0 /\ WithoutByte(-d.imm)
  <2> DEFINE A == << InstrI(d, "ARM_SUB", "AL", d.Rd1, d.R1, NOT_USED, Lo(-d.imm)),
                     newInstrI("ARM_SUB", "AL", SCRATCH0, d.R1, NOT_USED, Hi(-d.imm)) >>
  <2>1. ADDIU(d) = IF d.R1 = 0 THEN FromZero(d, "ARM_SUB", -d.imm) ELSE A \o Rejoin(d, "AL")
    BY <1>2 DEF ADDIU
  <2>2. QuietList(FromZero(d, "ARM_SUB", -d.imm), d) /\ QuietList(Rejoin(d, "AL"), d)
    BY Plains, HalvesQuiet
  <2>3. QuietList(A, d)
    BY OursAll, Plains, QuietMade, QuietTwo
  <2> HIDE DEF A
  <2>4. QuietList(A \o Rejoin(d, "AL"), d)
    BY <2>2, <2>3, QuietJoin
  <2> QED BY <2>1, <2>2, <2>4, QuietOpen
<1>3. CASE d.imm < 0 /\ ~WithoutByte(-d.imm)
  <2>1. ADDIU(d) = << InstrI(d, "ARM_SUB", "AL", d.Rd1, d.R1, NOT_USED, -d.imm) >>
    BY <1>3 DEF ADDIU
  <2>2. QuietList(ADDIU(d), d)
    BY <2>1, OursAll, Plains, QuietMade, QuietOne
  <2> QED BY <2>2, QuietOpen
<1>4. CASE d.imm > 0 /\ WithoutByte(d.imm)
  <2> DEFINE A == << InstrI(d, "ARM_ADD", "AL", SCRATCH0, d.R1, NOT_USED, Lo(d.imm)),
                     newInstrI("ARM_ADD", "AL", SCRATCH0, SCRATCH0, NOT_USED, Hi(d.imm)) >>
  <2>1. ADDIU(d) = IF d.R1 = 0 THEN FromZero(d, "ARM_ADD", d.imm) ELSE A \o Rejoin(d, "AL")
    BY <1>4 DEF ADDIU
  <2>2. QuietList(FromZero(d, "ARM_ADD", d.imm), d) /\ QuietList(Rejoin(d, "AL"), d)
    BY Plains, HalvesQuiet
  <2>3. QuietList(A, d)
    BY OursAll, Plains, QuietMade, QuietTwo
  <2> HIDE DEF A
  <2>4. QuietList(A \o Rejoin(d, "AL"), d)
    BY <2>2, <2>3, QuietJoin
  <2> QED BY <2>1, <2>2, <2>4, QuietOpen
<1>5. CASE d.imm > 0 /\ ~WithoutByte(d.imm)
  <2> DEFINE A == << InstrI(d, "ARM_MOV", "AL", d.Rd1, NOT_USED, NOT_USED, d.imm) >>
             B == << InstrI(d, "ARM_ADD", "AL", d.Rd1, d.R1, NOT_USED, d.imm) >>
  <2>1. ADDIU(d) = IF d.R1 = 0 THEN A ELSE B
    BY <1>5 DEF ADDIU
  <2>2. QuietList(A, d) /\ QuietList(B, d)
    BY OursAll, Plains, QuietMade, QuietOne
  <2> QED BY <2>1, <2>2, QuietOpen
<1> QED BY <1>1, <1>2, <1>3, <1>4, <1>5

\* The low word from zero, in one instruction or two, and the high word above it.
LEMMA FromZeroQuiet ==
    ASSUME NEW d, Shaped(d), NEW n, NEW op \in Plain1
    PROVE  QuietList((IF WithoutByte(n) THEN FromZero(d, "ARM_ADD", n)
                      ELSE << InstrI(d, "ARM_MOV", "AL", d.Rd1, NOT_USED, NOT_USED, n) >>)
                     \o Above(d, op), d)
<1> DEFINE A == << InstrI(d, "ARM_MOV", "AL", d.Rd1, NOT_USED, NOT_USED, n) >>
           B == IF WithoutByte(n) THEN FromZero(d, "ARM_ADD", n) ELSE A
<1>1. QuietList(A, d)
  BY OursAll, Plains, QuietMade, QuietOne
<1>2. QuietList(B, d) /\ QuietList(Above(d, op), d)
  BY <1>1, Plains, HalvesQuiet
<1> HIDE DEF B
<1>3. QuietList(B \o Above(d, op), d)
  BY <1>2, QuietJoin
<1> QED BY <1>3 DEF B

LEMMA DADDIGuards ==
    ASSUME NEW d, Ready(d)
    PROVE  Guards(DADDI(d), d, {}, {})
<1> USE DEF Ready
<1>1. CASE d.imm = 0
  BY <1>1, AddNothingGuards DEF DADDI
<1>2. CASE d.imm < 0 /\ WithoutByte(-d.imm)
  <2>1. DADDI(d) = IF d.R1 = 0 THEN FromZero(d, "ARM_SUB", -d.imm)
                   ELSE NamingTargets(d) \o SubtractHalves(d, "VC")
    BY <1>2 DEF DADDI
  <2>2. QuietList(FromZero(d, "ARM_SUB", -d.imm), d) /\ QuietList(NamingTargets(d), d)
    BY Plains, HalvesQuiet
  <2>3. QuietList(NamingTargets(d) \o SubtractHalves(d, "VC"), d)
    BY <2>2, SubtractHalvesQuiet, QuietJoin
  <2> QED BY <2>1, <2>2, <2>3, QuietOpen
<1>3. CASE d.imm < 0 /\ ~WithoutByte(-d.imm)
  <2>1. DADDI(d) = << InstrI(d, "ARM_SUB", "AL", d.Rd1, d.R1, NOT_USED, -d.imm) >>
    BY <1>3 DEF DADDI
  <2>2. QuietList(DADDI(d), d)
    BY <2>1, OursAll, Plains, QuietMade, QuietOne
  <2> QED BY <2>2, QuietOpen
<1>4. CASE d.imm > 0 /\ d.R1 = 0
  <2>1. QuietList(DADDI(d), d)
    BY <1>4, Plains, FromZeroQuiet DEF DADDI
  <2> QED BY <2>1, QuietOpen
<1>5. CASE d.imm > 0 /\ d.R1 # 0
  <2> DEFINE A == << newInstrIS("ARM_ADD", "AL", SCRATCH0, d.R1, NOT_USED, Lo(d.imm)),
                     newInstrIS("ARM_ADD", "AL", SCRATCH0, SCRATCH0, NOT_USED, Hi(d.imm)) >>
             B == << newInstrIS("ARM_ADD", "AL", SCRATCH0, d.R1, NOT_USED, d.imm) >>
             C == IF WithoutByte(d.imm) THEN A ELSE B
  <2>1. DADDI(d) = NamingBoth(d) \o C \o CarryUp(d)
    BY <1>5 DEF DADDI
  <2>2. QuietList(NamingBoth(d), d) /\ QuietList(CarryUp(d), d)
    BY Plains, HalvesQuiet
  <2>3. QuietList(A, d)
    BY OursAll, Plains, QuietMade, QuietTwo
  <2>4. QuietList(B, d)
    BY OursAll, Plains, QuietMade, QuietOne
  <2> HIDE DEF A, B
  <2>5. QuietList(C, d)
    BY <2>3, <2>4
  <2> HIDE DEF C
  <2>6. QuietList(NamingBoth(d) \o C \o CarryUp(d), d)
    BY <2>2, <2>5, QuietJoin
  <2> QED BY <2>1, <2>6, QuietOpen
<1> QED BY <1>1, <1>2, <1>3, <1>4, <1>5

LEMMA DADDIUGuards ==
    ASSUME NEW d, Ready(d)
    PROVE  Guards(DADDIU(d), d, {}, {})
<1> USE DEF Ready
<1>1. CASE d.imm = 0
  BY <1>1, AddNothingGuards DEF DADDIU
<1>2. CASE d.imm < 0 /\ WithoutByte(-d.imm)
  <2>1. DADDIU(d) = IF d.R1 = 0 THEN FromZero(d, "ARM_SUB", -d.imm) \o Above(d, "ARM_MVN")
                    ELSE NamingTargets(d) \o SubtractHalves(d, "AL")
    BY <1>2 DEF DADDIU
  <2>2. /\ QuietList(FromZero(d, "ARM_SUB", -d.imm), d) /\ QuietList(NamingTargets(d), d)
        /\ QuietList(Above(d, "ARM_MVN"), d)
    BY Plains, HalvesQuiet
  <2>3. QuietList(NamingTargets(d) \o SubtractHalves(d, "AL"), d)
    BY <2>2, SubtractHalvesQuiet, QuietJoin
  <2>4. QuietList(FromZero(d, "ARM_SUB", -d.imm) \o Above(d, "ARM_MVN"), d)
    BY <2>2, QuietJoin
  <2> QED BY <2>1, <2>3, <2>4, QuietOpen
<1>3. CASE d.imm < 0 /\ ~WithoutByte(-d.imm)
  <2> DEFINE A == << InstrIS(d, "ARM_SUB", "AL", d.Rd1, d.R1, NOT_USED, -d.imm),
                     MOV(Rdw(d), R1w(d)),
                     newInstrI("ARM_SUB", "VS", Rdw(d), Rdw(d), NOT_USED, 1) >>
  <2>1. DADDIU(d) = A
    BY <1>3 DEF DADDIU
  <2>2. QuietList(A, d)
    BY OursAll, Plains, QuietMade, QuietMoved, QuietThree
  <2> QED BY <2>1, <2>2, QuietOpen
<1>4. CASE d.imm > 0 /\ d.R1 = 0
  <2>1. QuietList(DADDIU(d), d)
    BY <1>4, Plains, FromZeroQuiet DEF DADDIU
  <2> QED BY <2>1, QuietOpen
<1>5. CASE d.imm > 0 /\ d.R1 # 0
  <2> DEFINE A == << newInstrIS("ARM_ADD", "AL", SCRATCH0, d.R1, NOT_USED, Lo(d.imm)),
                     newInstrIS("ARM_ADD", "AL", d.Rd1, SCRATCH0, NOT_USED, Hi(d.imm)) >>
             B == << newInstrIS("ARM_ADD", "AL", d.Rd1, d.R1, NOT_USED, d.imm) >>
             C == IF WithoutByte(d.imm) THEN A ELSE B
             E == << newInstrI("ARM_ADC", "AL", Rdw(d), R1w(d), NOT_USED, 0) >>
  <2>1. DADDIU(d) = NamingBoth(d) \o C \o E
    BY <1>5 DEF DADDIU
  <2>2. QuietList(NamingBoth(d), d)
    BY Plains, HalvesQuiet
  <2>3. QuietList(A, d)
    BY OursAll, Plains, QuietMade, QuietTwo
  <2>4. QuietList(B, d) /\ QuietList(E, d)
    BY OursAll, Plains, QuietMade, QuietOne
  <2> HIDE DEF A, B, E
  <2>5. QuietList(C, d)
    BY <2>3, <2>4
  <2> HIDE DEF C
  <2>6. QuietList(NamingBoth(d) \o C \o E, d)
    BY <2>2, <2>4, <2>5, QuietJoin
  <2> QED BY <2>1, <2>6, QuietOpen
<1> QED BY <1>1, <1>2, <1>3, <1>4, <1>5

LEMMA SetLessQuiet ==
    ASSUME NEW d, Shaped(d), NEW one, NEW zero
    PROVE  QuietList(SetLess(d, one, zero), d)
<1> DEFINE A == << Instr(d, "ARM_CMP", "AL", NOT_USED, d.R1, d.R2) >>
<1>1. QuietList(A, d)
  BY OursAll, Plains, QuietMade, QuietOne
<1>2. QuietList(OneOrZero(d, one, zero), d)
  BY OursAll, Plains, QuietMade, QuietTwo DEF OneOrZero
<1> HIDE DEF A
<1>3. QuietList(A \o OneOrZero(d, one, zero), d)
  BY <1>1, <1>2, QuietJoin
<1> QED BY <1>3 DEF A, SetLess

LEMMA SetLessImmediateQuiet ==
    ASSUME NEW d, Shaped(d), NEW one, NEW zero
    PROVE  QuietList(SetLessImmediate(d, one, zero), d)
<1> DEFINE A == << InstrI(d, "ARM_MVN", "AL", SCRATCH0, NOT_USED, NOT_USED, Lo(d.imm)),
                   newInstrI("ARM_SUB", "AL", d.Rd1, d.R1, NOT_USED, Hi(-d.imm)) >>
           B == << InstrI(d, "ARM_MOV", "AL", SCRATCH0, NOT_USED, NOT_USED, Lo(d.imm)) >>
           C == << newInstrI("ARM_ADD", "AL", SCRATCH0, NOT_USED, NOT_USED, Hi(d.imm)) >>
           E == IF d.imm >= 2^Byte THEN C ELSE << >>
           F == IF d.imm < 0 THEN A ELSE B \o E
           G == << newInstr("ARM_CMP", "AL", NOT_USED, d.R1, SCRATCH0) >>
<1>1. QuietList(A, d)
  BY OursAll, Plains, QuietMade, QuietTwo
<1>2. QuietList(B, d) /\ QuietList(C, d) /\ QuietList(G, d)
  BY OursAll, Plains, QuietMade, QuietOne
<1>3. QuietList(OneOrZero(d, one, zero), d)
  BY OursAll, Plains, QuietMade, QuietTwo DEF OneOrZero
<1> HIDE DEF A, B, C, G
<1>4. QuietList(E, d)
  BY <1>2, QuietNone
<1> HIDE DEF E
<1>5. QuietList(F, d)
  BY <1>1, <1>2, <1>4, QuietJoin
<1> HIDE DEF F
<1>6. QuietList(F \o G \o OneOrZero(d, one, zero), d)
  BY <1>2, <1>3, <1>5, QuietJoin
<1> QED BY <1>6 DEF SetLessImmediate, A, B, C, E, F, G

LEMMA ImmediatesQuiet ==
    ASSUME NEW d, Shaped(d), NEW op \in Plain1
    PROVE  QuietList(ANDI(d), d) /\ QuietList(OrImmediate(d, op), d)
<1> DEFINE A == << InstrI(d, "ARM_AND", "AL", SCRATCH0, d.R1, NOT_USED, Hi(d.imm)),
                   newInstrI("ARM_AND", "AL", d.Rd1, d.R1, NOT_USED, Lo(d.imm)),
                   newInstr("ARM_ORR", "AL", d.Rd1, d.Rd1, SCRATCH0) >>
           B == << InstrI(d, "ARM_AND", "AL", d.Rd1, d.R1, NOT_USED, d.imm) >>
           C == IF WithoutByte(d.imm) THEN A ELSE B
           E == << MOVI(Rdw(d), 0) >>
           F == << InstrI(d, op, "AL", d.Rd1, d.R1, NOT_USED, Hi(d.imm)),
                   newInstrI(op, "AL", d.Rd1, d.Rd1, NOT_USED, Lo(d.imm)) >>
           G == << InstrI(d, op, "AL", d.Rd1, d.R1, NOT_USED, d.imm) >>
           H == IF WithoutByte(d.imm) THEN F ELSE G
           K == << MOV(Rdw(d), R1w(d)) >>
<1>1. QuietList(A, d)
  BY OursAll, Plains, QuietMade, QuietThree
<1>2. QuietList(B, d) /\ QuietList(E, d) /\ QuietList(G, d) /\ QuietList(K, d)
  BY OursAll, Plains, QuietMade, QuietMoved, QuietOne
<1>3. QuietList(F, d)
  BY OursAll, Plains, QuietMade, QuietTwo
<1> HIDE DEF A, B, E, F, G, K
<1>4. QuietList(C, d) /\ QuietList(H, d)
  BY <1>1, <1>2, <1>3
<1> HIDE DEF C, H
<1>5. QuietList(C \o E, d) /\ QuietList(H \o K, d)
  BY <1>2, <1>4, QuietJoin
<1>6. ANDI(d) = C \o E
  BY DEF ANDI, A, B, C, E
<1>7. OrImmediate(d, op) = H \o K
  BY DEF OrImmediate, F, G, H, K
<1> QED BY <1>5, <1>6, <1>7

-----------------------------------------------------------------------------
\* The passes, record by record.
\* The operations Translate_ALU has an arm for, apart from the traps.
Computed == {"SLL", "SRL", "SRA", "SLLV", "SRLV", "SRAV", "DSLLV", "DSRLV", "DSRAV",
             "DSLL", "DSRL", "DSRA", "DSLL32", "DSRL32", "DSRA32", "MULT", "MULTU", "DIV",
             "DIVU", "DMULT", "DMULTU", "DDIV", "DDIVU", "ADD", "ADDU", "AND", "OR",
             "XOR", "NOR", "SLT", "SLTU", "DADD", "DADDU", "DSUB", "DSUBU", "ADDI",
             "ADDIU", "DADDI", "DADDIU", "SLTI", "SLTIU", "ANDI", "ORI", "XORI"}

\* What Translate_ALU has no arm for stays.
LEMMA ALUOthers ==
    ASSUME NEW i, i.op \notin Computed
    PROVE  Translate_ALU(i) = IF i.op \in Traps \cup TrapsImmediate THEN << ABORT >> ELSE << i >>
BY DEF Translate_ALU, Computed, Traps, TrapsImmediate

LEMMA ALUReady ==
    ASSUME NEW d, Ready(d)
    PROVE  Guards(Translate_ALU(d), d, {}, {})
<1> USE DEF Ready
<1>1. CASE d.op \in {"SLL", "SRL", "SRA"}
  <2>1. Translate_ALU(d) = ShiftWord(d)
    BY <1>1 DEF Translate_ALU, Traps, TrapsImmediate
  <2> QED BY <2>1, <1>1, Plains, ShiftsQuiet, QuietOpen
<1>2. CASE d.op \in {"SLLV", "SRLV", "SRAV"}
  <2>1. Translate_ALU(d) = ShiftWordBy(d)
    BY <1>2 DEF Translate_ALU, Traps, TrapsImmediate
  <2> QED BY <2>1, <1>2, Plains, ShiftsQuiet, QuietOpen
<1>3. CASE d.op = "DSLLV"
  <2>1. Translate_ALU(d) = DSLLV(d)
    BY <1>3 DEF Translate_ALU, Traps, TrapsImmediate
  <2> QED BY <2>1, <1>3, Plains, DSLLVQuiet, QuietOpen
<1>4. CASE d.op = "DSRLV"
  <2>1. Translate_ALU(d) = ShiftDoubleBy(d, "lsr")
    BY <1>4 DEF Translate_ALU, Traps, TrapsImmediate
  <2> QED BY <2>1, <1>4, Plains, ShiftDoubleByGuards
<1>5. CASE d.op = "DSRAV"
  <2>1. Translate_ALU(d) = ShiftDoubleBy(d, "asr")
    BY <1>5 DEF Translate_ALU, Traps, TrapsImmediate
  <2> QED BY <2>1, <1>5, Plains, ShiftDoubleByGuards
<1>6. CASE d.op = "DSLL"
  <2>1. Translate_ALU(d) = DSLL(d)
    BY <1>6 DEF Translate_ALU, Traps, TrapsImmediate
  <2> QED BY <2>1, <1>6, Plains, ShiftsQuiet, QuietOpen
<1>7. CASE d.op = "DSRL"
  <2>1. Translate_ALU(d) = DSRL(d)
    BY <1>7 DEF Translate_ALU, Traps, TrapsImmediate
  <2> QED BY <2>1, <1>7, Plains, ShiftsQuiet, QuietOpen
<1>8. CASE d.op = "DSRA"
  <2>1. Translate_ALU(d) = DSRA(d)
    BY <1>8 DEF Translate_ALU, Traps, TrapsImmediate
  <2> QED BY <2>1, <1>8, Plains, ShiftsQuiet, QuietOpen
<1>9. CASE d.op = "DSLL32"
  <2>1. Translate_ALU(d) = DSLL32(d)
    BY <1>9 DEF Translate_ALU, Traps, TrapsImmediate
  <2> QED BY <2>1, <1>9, Plains, ShiftsQuiet, QuietOpen
<1>10. CASE d.op = "DSRL32"
  <2>1. Translate_ALU(d) = DSRL32(d)
    BY <1>10 DEF Translate_ALU, Traps, TrapsImmediate
  <2> QED BY <2>1, <1>10, Plains, ShiftsQuiet, QuietOpen
<1>11. CASE d.op = "DSRA32"
  <2>1. Translate_ALU(d) = DSRA32(d)
    BY <1>11 DEF Translate_ALU, Traps, TrapsImmediate
  <2> QED BY <2>1, <1>11, Plains, ShiftsQuiet, QuietOpen
<1>12. CASE d.op \in {"MULT", "MULTU"}
  <2>1. Translate_ALU(d) = MULT(d)
    BY <1>12 DEF Translate_ALU, Traps, TrapsImmediate
  <2>2. d.op \in IntoHiLo
    BY <1>12 DEF IntoHiLo
  <2> QED BY <2>1, <2>2, Plains, MULTQuiet, QuietOpen
<1>13. CASE d.op = "DIV"
  <2>1. Translate_ALU(d) = DIV(d, "div32", "mod")
    BY <1>13 DEF Translate_ALU, Traps, TrapsImmediate
  <2>2. d.op \in IntoHiLo
    BY <1>13 DEF IntoHiLo
  <2> QED BY <2>1, <2>2, Plains, DIVGuards
<1>14. CASE d.op = "DIVU"
  <2>1. Translate_ALU(d) = DIV(d, "divu", "modu")
    BY <1>14 DEF Translate_ALU, Traps, TrapsImmediate
  <2>2. d.op \in IntoHiLo
    BY <1>14 DEF IntoHiLo
  <2> QED BY <2>1, <2>2, Plains, DIVGuards
<1>15. CASE d.op = "DMULT"
  <2>1. Translate_ALU(d) = DMULT(d)
    BY <1>15 DEF Translate_ALU, Traps, TrapsImmediate
  <2>2. d.op \in IntoHiLo
    BY <1>15 DEF IntoHiLo
  <2> QED BY <2>1, <2>2, Plains, DMULTQuiet, QuietOpen
<1>16. CASE d.op = "DMULTU"
  <2>1. Translate_ALU(d) = DMULTU(d)
    BY <1>16 DEF Translate_ALU, Traps, TrapsImmediate
  <2>2. d.op \in IntoHiLo
    BY <1>16 DEF IntoHiLo
  <2> QED BY <2>1, <2>2, Plains, DMULTUQuiet, QuietOpen
<1>17. CASE d.op = "DDIV"
  <2>1. Translate_ALU(d) = DDIV(d, "ddiv", "dmod")
    BY <1>17 DEF Translate_ALU, Traps, TrapsImmediate
  <2>2. d.op \in IntoHiLo
    BY <1>17 DEF IntoHiLo
  <2> QED BY <2>1, <2>2, Plains, DIVGuards
<1>18. CASE d.op = "DDIVU"
  <2>1. Translate_ALU(d) = DDIV(d, "ddivu", "dmodu")
    BY <1>18 DEF Translate_ALU, Traps, TrapsImmediate
  <2>2. d.op \in IntoHiLo
    BY <1>18 DEF IntoHiLo
  <2> QED BY <2>1, <2>2, Plains, DIVGuards
<1>19. CASE d.op = "ADD"
  <2>1. Translate_ALU(d) = ADD(d)
    BY <1>19 DEF Translate_ALU, Traps, TrapsImmediate
  <2> QED BY <2>1, <1>19, Plains, WordSumsQuiet, QuietOpen
<1>20. CASE d.op = "ADDU"
  <2>1. Translate_ALU(d) = ADDU(d)
    BY <1>20 DEF Translate_ALU, Traps, TrapsImmediate
  <2> QED BY <2>1, <1>20, Plains, WordSumsQuiet, QuietOpen
<1>21. CASE d.op = "AND"
  <2>1. Translate_ALU(d) = Logic(d, "ARM_AND")
    BY <1>21 DEF Translate_ALU, Traps, TrapsImmediate
  <2> QED BY <2>1, <1>21, Plains, DoublesQuiet, QuietOpen
<1>22. CASE d.op = "OR"
  <2>1. Translate_ALU(d) = Logic(d, "ARM_ORR")
    BY <1>22 DEF Translate_ALU, Traps, TrapsImmediate
  <2> QED BY <2>1, <1>22, Plains, DoublesQuiet, QuietOpen
<1>23. CASE d.op = "XOR"
  <2>1. Translate_ALU(d) = Logic(d, "ARM_EOR")
    BY <1>23 DEF Translate_ALU, Traps, TrapsImmediate
  <2> QED BY <2>1, <1>23, Plains, DoublesQuiet, QuietOpen
<1>24. CASE d.op = "NOR"
  <2>1. Translate_ALU(d) = NOR(d)
    BY <1>24 DEF Translate_ALU, Traps, TrapsImmediate
  <2> QED BY <2>1, <1>24, Plains, WordSumsQuiet, QuietOpen
<1>25. CASE d.op = "SLT"
  <2>1. Translate_ALU(d) = SetLess(d, "LT", "GE")
    BY <1>25 DEF Translate_ALU, Traps, TrapsImmediate
  <2> QED BY <2>1, <1>25, Plains, SetLessQuiet, QuietOpen
<1>26. CASE d.op = "SLTU"
  <2>1. Translate_ALU(d) = SetLess(d, "CC", "CS")
    BY <1>26 DEF Translate_ALU, Traps, TrapsImmediate
  <2> QED BY <2>1, <1>26, Plains, SetLessQuiet, QuietOpen
<1>27. CASE d.op = "DADD"
  <2>1. Translate_ALU(d) = TrappingDouble(d, "ARM_ADD", "ARM_ADC")
    BY <1>27 DEF Translate_ALU, Traps, TrapsImmediate
  <2> QED BY <2>1, <1>27, Plains, TrappingDoubleQuiet, QuietOpen
<1>28. CASE d.op = "DADDU"
  <2>1. Translate_ALU(d) = PlainDouble(d, "ARM_ADD", "ARM_ADC")
    BY <1>28 DEF Translate_ALU, Traps, TrapsImmediate
  <2> QED BY <2>1, <1>28, Plains, DoublesQuiet, QuietOpen
<1>29. CASE d.op = "DSUB"
  <2>1. Translate_ALU(d) = TrappingDouble(d, "ARM_SUB", "ARM_SBC")
    BY <1>29 DEF Translate_ALU, Traps, TrapsImmediate
  <2> QED BY <2>1, <1>29, Plains, TrappingDoubleQuiet, QuietOpen
<1>30. CASE d.op = "DSUBU"
  <2>1. Translate_ALU(d) = PlainDouble(d, "ARM_SUB", "ARM_SBC")
    BY <1>30 DEF Translate_ALU, Traps, TrapsImmediate
  <2> QED BY <2>1, <1>30, Plains, DoublesQuiet, QuietOpen
<1>31. CASE d.op = "ADDI"
  <2>1. Translate_ALU(d) = ADDI(d)
    BY <1>31 DEF Translate_ALU, Traps, TrapsImmediate
  <2> QED BY <2>1, <1>31, Plains, ADDIGuards
<1>32. CASE d.op = "ADDIU"
  <2>1. Translate_ALU(d) = ADDIU(d)
    BY <1>32 DEF Translate_ALU, Traps, TrapsImmediate
  <2> QED BY <2>1, <1>32, Plains, ADDIUGuards
<1>33. CASE d.op = "DADDI"
  <2>1. Translate_ALU(d) = DADDI(d)
    BY <1>33 DEF Translate_ALU, Traps, TrapsImmediate
  <2> QED BY <2>1, <1>33, Plains, DADDIGuards
<1>34. CASE d.op = "DADDIU"
  <2>1. Translate_ALU(d) = DADDIU(d)
    BY <1>34 DEF Translate_ALU, Traps, TrapsImmediate
  <2> QED BY <2>1, <1>34, Plains, DADDIUGuards
<1>35. CASE d.op = "SLTI"
  <2>1. Translate_ALU(d) = SetLessImmediate(d, "LT", "GE")
    BY <1>35 DEF Translate_ALU, Traps, TrapsImmediate
  <2> QED BY <2>1, <1>35, Plains, SetLessImmediateQuiet, QuietOpen
<1>36. CASE d.op = "SLTIU"
  <2>1. Translate_ALU(d) = SetLessImmediate(d, "CC", "CS")
    BY <1>36 DEF Translate_ALU, Traps, TrapsImmediate
  <2> QED BY <2>1, <1>36, Plains, SetLessImmediateQuiet, QuietOpen
<1>37. CASE d.op = "ANDI"
  <2>1. Translate_ALU(d) = ANDI(d)
    BY <1>37 DEF Translate_ALU, Traps, TrapsImmediate
  <2> QED BY <2>1, <1>37, Plains, ImmediatesQuiet, QuietOpen
<1>38. CASE d.op = "ORI"
  <2>1. Translate_ALU(d) = OrImmediate(d, "ARM_ORR")
    BY <1>38 DEF Translate_ALU, Traps, TrapsImmediate
  <2> QED BY <2>1, <1>38, Plains, ImmediatesQuiet, QuietOpen
<1>39. CASE d.op = "XORI"
  <2>1. Translate_ALU(d) = OrImmediate(d, "ARM_EOR")
    BY <1>39 DEF Translate_ALU, Traps, TrapsImmediate
  <2> QED BY <2>1, <1>39, Plains, ImmediatesQuiet, QuietOpen
<1>40. CASE d.op \notin Computed
  <2>1. Quiet(ABORT, d)
    <3>1. Shaped(ABORT) /\ ABORT.op = "ABORT"
      BY DEF ABORT, Shaped, newInstr, Instr, newEmptyInstr
    <3> QED BY <3>1 DEF Quiet
  <2>2. Guards(<< ABORT >>, d, {}, {})
    BY <2>1, QuietOne, QuietOpen
  <2> QED BY <1>40, <2>2, ALUOthers, ReadyGuards
<1> QED
  BY <1>1, <1>2, <1>3, <1>4, <1>5, <1>6, <1>7, <1>8, <1>9, <1>10, <1>11, <1>12,
     <1>13, <1>14, <1>15, <1>16, <1>17, <1>18, <1>19, <1>20, <1>21, <1>22, <1>23, <1>24,
     <1>25, <1>26, <1>27, <1>28, <1>29, <1>30, <1>31, <1>32, <1>33, <1>34, <1>35, <1>36,
     <1>37, <1>38, <1>39, <1>40 DEF Computed

\* What a pass has nothing to do with.
LEMMA LeadsKinds ==
    ASSUME NEW d, NEW i, NEW m, NEW p, Leads(i, d, m, p)
    PROVE  (i = d /\ m = {} /\ p = {}) \/ i.op \in Encoded \cup {"NO_OP", "ABORT"}
BY DEF Leads, Tame, Encoded, OtherOps, LoadOps, Products

LEMMA ArithmeticNames ==
    ASSUME NEW n \in 1 .. 16, NEW f \in {"S", "D"}
    PROVE  /\ Arith[f][n] \notin Encoded \cup {"NO_OP", "ABORT"}
           /\ Compare[f][n] \notin Encoded \cup {"NO_OP", "ABORT"}
BY SMTT(60) DEF Arith, Compare, Encoded, DataOps, LoadOps, OtherOps

LEMMA Settled ==
    ASSUME NEW i, i.op \in Encoded \cup {"NO_OP", "ABORT"}
    PROVE  /\ Translate_Constants(i) = << i >> /\ Translate_ALU(i) = << i >>
           /\ Translate_Generic(i) = << i >> /\ Translate_FPU(i) = << i >>
           /\ Translate_Memory(i) = << i >>
           /\ Dropped(i) <=> i.op = "NO_OP"
<1> USE DEF Encoded, DataOps, LoadOps, OtherOps
<1>1. Translate_Constants(i) = << i >>
  BY DEF Translate_Constants
<1>2. Translate_ALU(i) = << i >>
  <2>1. i.op \notin Computed /\ i.op \notin Traps \cup TrapsImmediate
    BY DEF Computed, Traps, TrapsImmediate
  <2> QED BY <2>1, ALUOthers
<1>3. Translate_Generic(i) = << i >>
  BY DEF Translate_Generic
<1>4. Translate_FPU(i) = << i >>
  <2>1. \A n \in 1 .. 16 : \A f \in {"S", "D"} : Arith[f][n] # i.op /\ Compare[f][n] # i.op
    <3> HIDE DEF Encoded
    <3> QED BY ArithmeticNames
  <2>2. i.op \notin {names[f][k] : names \in {Arith, Compare}, f \in {"S", "D"}, k \in 1 .. 16}
    BY <2>1
  <2>3. i.op \notin FloatBranches \cup {"MFC1", "DMFC1", "CFC1", "MTC1", "DMTC1", "CTC1"}
                    \cup {"CVT_D_S", "CVT_W_S", "CVT_L_S", "CVT_S_D", "CVT_W_D", "CVT_L_D",
                          "CVT_S_W", "CVT_D_W", "CVT_S_L", "CVT_D_L"}
    BY DEF FloatBranches
  <2>4. i.op \notin FloatOps
    <3> HIDE DEF Encoded
    <3> QED BY <2>2, <2>3 DEF FloatOps
  <2> QED BY <2>4 DEF Translate_FPU
<1>5. Translate_Memory(i) = << i >>
  BY DEF Translate_Memory, NotTranslated
<1>6. Dropped(i) <=> i.op = "NO_OP"
  BY DEF Dropped
<1> QED BY <1>1, <1>2, <1>3, <1>4, <1>5, <1>6

\* The small passes and the accesses to the memory.
LEMMA AbortGuards == ASSUME NEW d PROVE Guards(<< ABORT >>, d, {}, {})
<1>1. Shaped(ABORT) /\ ABORT.op = "ABORT"
  BY DEF ABORT, Shaped, newInstr, Instr, newEmptyInstr
<1>2. Quiet(ABORT, d)
  BY <1>1 DEF Quiet
<1> QED BY <1>2, QuietOne, QuietOpen

LEMMA ConstantsReady ==
    ASSUME NEW d, Ready(d)
    PROVE  Guards(Translate_Constants(d), d, {}, {})
<1> USE DEF Ready
<1>1. CASE d.op = "LUI" /\ WithoutByte(d.imm)
  <2>1. Translate_Constants(d) = << InstrI(d, "ARM_LDR_LIT", "AL", d.Rd1, NOT_USED, NOT_USED,
                                           (d.imm * 2^ImmBits) % Words) >>
    BY <1>1 DEF Translate_Constants
  <2>2. QuietList(Translate_Constants(d), d)
    BY <2>1, OursAll, Plains, QuietMade, QuietOne
  <2> QED BY <2>2, QuietOpen
<1>2. CASE d.op = "LUI" /\ ~WithoutByte(d.imm)
  <2> DEFINE A == << InstrI(d, "ARM_MOV", "AL", d.Rd1, NOT_USED, NOT_USED, d.imm) >>
             op == IF d.imm >= 2^(ImmBits - 1) THEN "ARM_MVN" ELSE "ARM_MOV"
  <2>1. Translate_Constants(d) = A \o Above(d, op)
    BY <1>2 DEF Translate_Constants
  <2>2. QuietList(A, d)
    BY OursAll, Plains, QuietMade, QuietOne
  <2>3. op \in Plain1
    BY Plains
  <2> HIDE DEF A, op
  <2>4. QuietList(Above(d, op), d)
    BY <2>3, HalvesQuiet
  <2>5. QuietList(A \o Above(d, op), d)
    BY <2>2, <2>4, QuietJoin
  <2> QED BY <2>1, <2>5, QuietOpen
<1>3. CASE d.op # "LUI"
  BY <1>3, ReadyGuards DEF Translate_Constants
<1> QED BY <1>1, <1>2, <1>3

LEMMA GenericReady ==
    ASSUME NEW d, Ready(d)
    PROVE  Guards(Translate_Generic(d), d, {}, {})
<1> DEFINE A == << InstrI(d, "ARM_MOV", "AL", d.Rd1, NOT_USED, NOT_USED, 0) >>
           B == << Instr(d, "ARM_MOV", "AL", d.Rd1, NOT_USED, d.R1) >>
<1>1. Translate_Generic(d) \in {<< ABORT >>, A, B, << d >>}
  BY DEF Translate_Generic
<1>2. QuietList(A, d) /\ QuietList(B, d)
  BY OursAll, Plains, QuietMade, QuietOne DEF Ready
<1> HIDE DEF A, B
<1> QED BY <1>1, <1>2, QuietOpen, AbortGuards, ReadyGuards

LEMMA FPUReady ==
    ASSUME NEW d, Ready(d)
    PROVE  Guards(Translate_FPU(d), d, {}, {})
BY AbortGuards, ReadyGuards DEF Translate_FPU

LEMMA RebasedQuiet ==
    ASSUME NEW d, Shaped(d)
    PROVE  Quiet(Rebased(d), d)
BY OursAll, Plains, QuietMade DEF Rebased

LEMMA LoadDoubleQuiet ==
    ASSUME NEW d, Shaped(d)
    PROVE  QuietList(LoadDouble(d), d)
<1> DEFINE down == [newInstrI("ARM_LDR", "AL", d.Rd1, NOT_USED, R0, Lo(-d.imm) + 4)
                      EXCEPT !.U = FALSE]
           A == << Rebased(d), down, newInstrI("ARM_LDR", "AL", Rdw(d), NOT_USED, R0, -Lo(d.imm)) >>
           B == << Rebased(d), newInstrI("ARM_LDR", "AL", d.Rd1, NOT_USED, R0, Lo(d.imm) + 4),
                   newInstrI("ARM_LDR", "AL", Rdw(d), NOT_USED, R0, Lo(d.imm)) >>
           C == << InstrI(d, "ARM_LDR", "AL", d.Rd1, NOT_USED, d.R1, d.imm + 4),
                   newInstrI("ARM_LDR", "AL", Rdw(d), NOT_USED, d.R1, d.imm) >>
<1>1. Quiet(down, d)
  <2> DEFINE i == newInstrI("ARM_LDR", "AL", d.Rd1, NOT_USED, R0, Lo(-d.imm) + 4)
  <2>1. Quiet(i, d)
    BY OursAll, Plains, QuietMade
  <2> HIDE DEF i
  <2>2. /\ Shaped([i EXCEPT !.U = FALSE]) /\ [i EXCEPT !.U = FALSE].op = i.op
        /\ [i EXCEPT !.U = FALSE].Rd1 = i.Rd1 /\ [i EXCEPT !.U = FALSE].Rd2 = i.Rd2
    BY <2>1 DEF Quiet, Shaped, newEmptyInstr
  <2>3. Quiet([i EXCEPT !.U = FALSE], d)
    BY <2>1, <2>2 DEF Quiet, Tame
  <2> QED BY <2>3 DEF i
<1> HIDE DEF down
<1>2. QuietList(A, d)
  BY <1>1, OursAll, Plains, QuietMade, RebasedQuiet, QuietThree
<1>3. QuietList(B, d)
  BY OursAll, Plains, QuietMade, RebasedQuiet, QuietThree
<1>4. QuietList(C, d)
  BY OursAll, Plains, QuietMade, QuietTwo
<1>5. LoadDouble(d) \in {A, B, C}
  BY DEF LoadDouble, down
<1> HIDE DEF A, B, C
<1> QED BY <1>2, <1>3, <1>4, <1>5

LEMMA WordAddressQuiet ==
    ASSUME NEW d, Ready(d)
    PROVE  QuietList(WordAddress(d), d)
<1> DEFINE A == << Instr(d, "ARM_MOV", "AL", SCRATCH0, NOT_USED, d.R1) >>
           B == << newInstrI("ARM_SUB", "AL", SCRATCH0, SCRATCH0, NOT_USED, -d.imm) >>
           C == << newInstrI("ARM_ADD", "AL", SCRATCH0, SCRATCH0, NOT_USED, d.imm) >>
           E == CASE d.imm < 0 -> B [] d.imm > 0 -> C [] d.imm = 0 -> << >>
<1>1. QuietList(A, d) /\ QuietList(B, d) /\ QuietList(C, d)
  BY OursAll, Plains, QuietMade, QuietOne DEF Ready
<1> HIDE DEF A, B, C
<1>2. E \in {B, C, << >>}
  BY DEF Ready
<1> HIDE DEF E
<1>3. QuietList(E, d)
  BY <1>1, <1>2, QuietNone
<1>4. QuietList(A \o E, d)
  BY <1>1, <1>3, QuietJoin
<1> QED BY <1>4 DEF WordAddress, A, B, C, E

LEMMA WordsGuards ==
    ASSUME NEW d, Ready(d)
    PROVE  Guards(SW(d), d, {}, {}) /\ Guards(LW(d), d, {}, {})
<1> DEFINE A == WordAddress(d)
           B == << MOV(SCRATCH1, d.R2) >>
           C == insertCall_To_C("AL", "storeWord", {})
           E == insertCall_To_C("AL", "loadWord", {})
           F == << MOV(d.Rd1, SCRATCH0) >>
<1>1. QuietList(A, d) /\ QuietList(B, d) /\ QuietList(F, d)
  BY OursAll, QuietMoved, QuietOne, WordAddressQuiet
<1>2. Guards(C, d, {}, {}) /\ Guards(E, d, {}, {})
  BY InsertedGuards
<1> HIDE DEF A, B, C, E, F
<1>3. Guards(A, d, {}, {}) /\ Guards(A \o B, d, {}, {}) /\ Guards(F, d, {}, {})
  BY <1>1, QuietJoin, QuietOpen
<1>4. Guards(A \o B \o C, d, {}, {}) /\ Guards(A \o E, d, {}, {})
  BY <1>2, <1>3, GuardsJoin
<1>5. Guards(A \o E \o F, d, {}, {})
  BY <1>3, <1>4, GuardsJoin
<1> QED BY <1>4, <1>5 DEF SW, LW, A, B, C, E, F

LEMMA LoadPartGuards ==
    ASSUME NEW d, Ready(d), NEW h
    PROVE  Guards(LoadPart(d, h), d, {}, {})
<1> DEFINE op == IF d.imm < 0 THEN "ARM_SUB" ELSE "ARM_ADD"
           n == IF d.imm < 0 THEN -d.imm ELSE d.imm
           A == << InstrI(d, op, "AL", R0, d.R1, NOT_USED, Lo(n)) >>
           B == << newInstrI(op, "AL", R0, NOT_USED, R0, Hi(n)) >>
           C == IF n >= 2^Byte THEN B ELSE << >>
           E == << MOV(R(1), Rdw(d)), MOV(R(2), d.Rd1) >>
           F == insertCall_To_C("AL", h, {})
           G == << MOV(d.Rd1, R0), MOV(Rdw(d), R(1)) >>
<1>0. op \in Plain1
  BY Plains
<1> HIDE DEF op, n
<1>1. QuietList(A, d) /\ QuietList(B, d)
  BY <1>0, OursAll, QuietMade, QuietOne DEF Ready
<1>2. QuietList(E, d) /\ QuietList(G, d)
  BY OursAll, QuietMoved, QuietTwo
<1>3. Guards(F, d, {}, {})
  BY InsertedGuards
<1> HIDE DEF A, B, E, F, G
<1>4. QuietList(C, d)
  BY <1>1, QuietNone
<1> HIDE DEF C
<1>5. Guards(A \o C \o E, d, {}, {}) /\ Guards(G, d, {}, {})
  BY <1>1, <1>2, <1>4, QuietJoin, QuietOpen
<1>6. Guards(A \o C \o E \o F, d, {}, {})
  BY <1>3, <1>5, GuardsJoin
<1>7. Guards(A \o C \o E \o F \o G, d, {}, {})
  BY <1>5, <1>6, GuardsJoin
<1>8. LoadPart(d, h) = A \o C \o E \o F \o G
  BY DEF LoadPart, op, n, A, B, C, E, F, G
<1> QED BY <1>7, <1>8

LEMMA BytesQuiet ==
    ASSUME NEW d, Shaped(d)
    PROVE  QuietList(LB(d), d) /\ QuietList(LoadByte(d, "ARM_LDRB"), d)
<1>1. ASSUME NEW op \in {"ARM_LDRB", "ARM_LDRSB"} PROVE QuietList(LoadByte(d, op), d)
  <2> DEFINE A == << Rebased(d), newInstrI(op, "AL", d.Rd1, NOT_USED, R0, -Lo(d.imm)) >>
             B == << Rebased(d), newInstrI(op, "AL", d.Rd1, NOT_USED, R0, Lo(d.imm)) >>
             C == << InstrI(d, op, "AL", d.Rd1, NOT_USED, d.R1, d.imm) >>
  <2>1. op \in Plain1
    BY Plains
  <2>2. QuietList(A, d) /\ QuietList(B, d)
    BY <2>1, OursAll, QuietMade, RebasedQuiet, QuietTwo
  <2>3. QuietList(C, d)
    BY <2>1, OursAll, QuietMade, QuietOne
  <2>4. LoadByte(d, op) \in {A, B, C}
    BY DEF LoadByte
  <2> HIDE DEF A, B, C
  <2> QED BY <2>2, <2>3, <2>4
<1> DEFINE F == << newInstrI("ARM_CMP", "AL", NOT_USED, d.Rd1, NOT_USED, 0),
                   newInstrI("ARM_MVN", "MI", Rdw(d), NOT_USED, NOT_USED, 0),
                   newInstrI("ARM_MOV", "PL", Rdw(d), NOT_USED, NOT_USED, 0) >>
<1>2. QuietList(F, d)
  BY OursAll, Plains, QuietMade, QuietThree
<1> HIDE DEF F
<1>3. QuietList(LoadByte(d, "ARM_LDRSB") \o F, d)
  BY <1>1, <1>2, QuietJoin
<1> QED BY <1>1, <1>3 DEF LB, F

LEMMA MemoryReady ==
    ASSUME NEW d, Ready(d)
    PROVE  Guards(Translate_Memory(d), d, {}, {})
<1>1. Translate_Memory(d) \in {LoadDouble(d), SW(d), LW(d), LoadPart(d, "C_ldl"),
                               LoadPart(d, "C_ldr"), LB(d), LoadByte(d, "ARM_LDRB"),
                               << ABORT >>, << d >>}
  BY DEF Translate_Memory, NotTranslated
<1>2. /\ Guards(LoadDouble(d), d, {}, {}) /\ Guards(LB(d), d, {}, {})
      /\ Guards(LoadByte(d, "ARM_LDRB"), d, {}, {})
  BY LoadDoubleQuiet, BytesQuiet, QuietOpen DEF Ready
<1> QED BY <1>1, <1>2, WordsGuards, LoadPartGuards, AbortGuards, ReadyGuards

-----------------------------------------------------------------------------
\* A pass over a whole list.
LEMMA PassGuards ==
    ASSUME NEW d, NEW L, Guards(L, d, {}, {}), NEW Q, Q = [k \in DOMAIN L |-> Q[k]],
           \A k \in DOMAIN L : \A m, p \in Masks :
               Leads(L[k], d, m, p) => Guards(Q[k], d, m, p)
    PROVE  Guards(FlattenSeq(Q), d, {}, {})
<1>1. IsList(L) /\ Len(L) \in Nat /\ DOMAIN L = 1 .. Len(L)
  BY ListsAreFunctions DEF Guards
<1>2. PICK open \in [0 .. Len(L) -> Masks] :
        /\ open[0] = {} /\ open[Len(L)] = {}
        /\ \A k \in 1 .. Len(L) : Leads(L[k], d, open[k - 1], open[k])
  BY DEF Guards
<1>3. IsList(Q) /\ Len(Q) = Len(L)
  BY <1>1, FunctionsAreLists
<1>4. \A k \in 1 .. Len(Q) : Guards(Q[k], d, open[k - 1], open[k])
  BY <1>1, <1>2, <1>3
<1>5. open \in [0 .. Len(Q) -> Masks]
  BY <1>2, <1>3
<1>6. Guards(FlattenSeq(Q), d, open[0], open[Len(Q)])
  BY <1>3, <1>4, <1>5, GuardsFlatten
<1> QED BY <1>2, <1>3, <1>6

LEMMA RecordGuards ==
    ASSUME NEW d, Ready(d), NEW i, NEW m \in Masks, NEW p \in Masks, Leads(i, d, m, p)
    PROVE  /\ Guards(Translate_Constants(i), d, m, p) /\ Guards(Translate_ALU(i), d, m, p)
           /\ Guards(Translate_Generic(i), d, m, p) /\ Guards(Translate_FPU(i), d, m, p)
           /\ Guards(Translate_Memory(i), d, m, p) /\ Guards(Translate_CleanUp(i), d, m, p)
<1>1. CASE i = d /\ m = {} /\ p = {}
  <2>1. Guards(Translate_CleanUp(d), d, {}, {})
    BY NoMask, GuardsNothing, ReadyGuards DEF Translate_CleanUp
  <2> QED BY <1>1, <2>1, ConstantsReady, ALUReady, GenericReady, FPUReady, MemoryReady
<1>2. CASE i.op \in Encoded \cup {"NO_OP", "ABORT"}
  <2>1. Guards(<< i >>, d, m, p)
    BY LeftGuards
  <2>2. CASE i.op = "NO_OP"
    <3>1. "NO_OP" \notin Encoded
      BY DEF Encoded, DataOps, LoadOps, OtherOps
    <3>2. CASE i = d /\ m = {} /\ p = {}
      <4>1. Guards(<< >>, d, m, p)
        BY <3>2, GuardsNothing
      <4> QED BY <2>1, <2>2, <4>1, Settled DEF Translate_CleanUp
    <3>3. CASE ~(i = d /\ m = {} /\ p = {})
      <4>1. p = m
        BY <2>2, <3>3 DEF Leads, Tame, DataOps, LoadOps, Products
      <4>2. Guards(<< >>, d, m, p)
        BY <4>1, GuardsNothing
      <4> QED BY <2>1, <2>2, <4>2, Settled DEF Translate_CleanUp
    <3> QED BY <3>2, <3>3
  <2>3. CASE i.op # "NO_OP"
    BY <1>2, <2>1, <2>3, Settled DEF Translate_CleanUp
  <2> QED BY <2>2, <2>3
<1> QED BY <1>1, <1>2, LeadsKinds

-----------------------------------------------------------------------------
\* What is decoded: a record of the shape, with a number, that is no instruction of the host.
LEMMA HostNames ==
    /\ \A n \in 0 .. 63 : Major[n + 1] \notin Encoded /\ Special[n + 1] \notin Encoded
    /\ \A n \in 0 .. 31 : Regimm[n + 1] \notin Encoded
    /\ \A w : Cop0(w) \notin Encoded
<1> USE DEF Encoded, DataOps, LoadOps, OtherOps, X
<1>1. \A n \in 0 .. 63 : Major[n + 1] \notin Encoded
  BY SMTT(90) DEF Major
<1>2. \A n \in 0 .. 63 : Special[n + 1] \notin Encoded
  BY SMTT(90) DEF Special
<1>3. \A n \in 0 .. 31 : Regimm[n + 1] \notin Encoded
  BY SMTT(90) DEF Regimm
<1>4. \A w : Cop0(w) \notin Encoded
  BY SMTT(90) DEF Cop0
<1> QED BY <1>1, <1>2, <1>3, <1>4

LEMMA HostFloats ==
    ASSUME NEW w \in MipsWord
    PROVE  Cop1(w) \notin Encoded
<1>0. X \notin Encoded /\ w.rs \in 0 .. 31 /\ w.rt \in 0 .. 31 /\ w.fn \in 0 .. 63
  BY DEF X, Encoded, DataOps, LoadOps, OtherOps, MipsWord
<1>1. \A f \in {"S", "D", "W", "L"} : Convert(w, f) \notin Encoded
  BY SMTT(60) DEF Convert, Encoded, DataOps, LoadOps, OtherOps, X
<1>2. \A f \in {"S", "D", "W", "L"} : Float(w, f) \notin Encoded
  BY <1>0, <1>1, ArithmeticNames DEF Float
<1>3. CASE w.rs \in {0, 1, 2}
  <2>1. Cop1(w) = <<"MFC1", "DMFC1", "CFC1">>[w.rs + 1]
    BY <1>3 DEF Cop1
  <2> QED BY <1>3, <2>1 DEF Encoded, DataOps, LoadOps, OtherOps
<1>4. CASE w.rs \in {4, 5, 6}
  <2>1. Cop1(w) = <<"MTC1", "DMTC1", "CTC1">>[w.rs - 3]
    BY <1>4 DEF Cop1
  <2> QED BY <1>4, <2>1 DEF Encoded, DataOps, LoadOps, OtherOps
<1>5. CASE w.rs = 8
  <2>1. Cop1(w) = <<"BC1F", "BC1T", "BC1FL", "BC1TL">>[(w.rt % 4) + 1]
    BY <1>5 DEF Cop1
  <2>2. w.rt % 4 \in 0 .. 3
    BY <1>0
  <2> QED BY <1>5, <2>1, <2>2 DEF Encoded, DataOps, LoadOps, OtherOps
<1>6. CASE w.rs \notin {0, 1, 2, 4, 5, 6, 8}
  <2>1. Cop1(w) \in {Float(w, "S"), Float(w, "D"), Float(w, "W"), Float(w, "L"), X}
    BY <1>6 DEF Cop1
  <2> QED BY <1>0, <1>2, <2>1
<1> QED BY <1>3, <1>4, <1>5, <1>6

LEMMA HostTypes ==
    ASSUME NEW w \in MipsWord
    PROVE  ops_type(w) \notin Encoded
<1>1. w.op \in 0 .. 63 /\ w.fn \in 0 .. 63 /\ w.rt \in 0 .. 31
  BY DEF MipsWord
<1>2. "NO_OP" \notin Encoded
  BY DEF Encoded, DataOps, LoadOps, OtherOps
<1>3. \/ ops_type(w) \in {"NO_OP", Special[w.fn + 1], Regimm[w.rt + 1], Cop0(w), Cop1(w),
                          Major[w.op + 1]}
  BY DEF ops_type
<1> QED BY <1>1, <1>2, <1>3, HostNames, HostFloats

\* A decoder below mips_decode sets fields of the new record.
LEMMA Filled1 ==
    ASSUME NEW w \in MipsWord, NEW e, Shaped(e), e.imm = 0, e.op \notin Encoded
    PROVE  /\ Ready(DecodeBranch(w, e)) /\ Ready(DecodeJump(w, e)) /\ Ready(DecodeSpecial(w, e))
           /\ Ready(DecodeCop(w, e)) /\ Ready(DecodeImmediate(w, e)) /\ Ready(DecodeMemory(w, e))
<1>1. PICK n : n = IMM(w) /\ n \in Int
  BY ImmBitsAssumption DEF IMM, MipsWord
<1>2. PICK k : k = IMMU(w) /\ k \in Int
  BY Offsets
<1>3. "MFC1" \notin Encoded
  BY DEF Encoded, DataOps, LoadOps, OtherOps
<1>4. Ready(e)
  BY DEF Ready
<1> USE DEF Ready, Shaped, newEmptyInstr
<1>5. Ready(DecodeBranch(w, e))
  BY <1>1 DEF DecodeBranch
<1>6. Ready(DecodeJump(w, e))
  BY <1>2 DEF DecodeJump
<1>7. Ready(DecodeSpecial(w, e))
  BY <1>4 DEF DecodeSpecial
<1>8. Ready(DecodeFloat(w, e))
  BY <1>4 DEF DecodeFloat
<1>9. Ready(DecodeCop(w, e))
  BY <1>1, <1>3, <1>8 DEF DecodeCop
<1>10. Ready(DecodeImmediate(w, e))
  BY <1>1, <1>2 DEF DecodeImmediate
<1>11. Ready(DecodeMemory(w, e))
  BY <1>1, <1>4 DEF DecodeMemory
<1> QED BY <1>5, <1>6, <1>7, <1>9, <1>10, <1>11

LEMMA DecodedReady ==
    ASSUME NEW w \in MipsWord
    PROVE  Ready(mips_decode(w))
<1> DEFINE e == newEmptyInstr(ops_type(w))
<1>1. Shaped(e) /\ e.op = ops_type(w) /\ e.imm = 0
  BY Empty, EmptyInstr
<1>2. e.op \notin Encoded
  BY <1>1, HostTypes
<1>3. mips_decode(w) \in {newEmptyInstr("UNKNOWN"), DecodeBranch(w, e), DecodeJump(w, e),
                          DecodeSpecial(w, e), DecodeCop(w, e), DecodeImmediate(w, e),
                          DecodeMemory(w, e)}
  BY DEF mips_decode
<1>4. Ready(newEmptyInstr("UNKNOWN"))
  <2>1. "UNKNOWN" \notin Encoded
    BY DEF Encoded, DataOps, LoadOps, OtherOps
  <2>2. newEmptyInstr("UNKNOWN").imm = 0 /\ newEmptyInstr("UNKNOWN").op = "UNKNOWN"
    BY EmptyInstr
  <2>3. Shaped(newEmptyInstr("UNKNOWN"))
    BY Empty
  <2> QED BY <2>1, <2>2, <2>3 DEF Ready
<1> HIDE DEF e
<1> QED BY <1>1, <1>2, <1>3, <1>4, Filled1

-----------------------------------------------------------------------------
\* What the processor keeps while it runs a guarded list.

\* Outside D and m the registers hold what h says, and what was pushed lies on
\* the stack in the order of the registers; a stopped processor owes nothing.
Agrees(s, D, m, h) ==
    /\ DOMAIN s = DOMAIN Idle /\ DOMAIN s.reg = Registers
    /\ ~s.stopped =>
         /\ \A r \in Registers \ (D \cup m) : s.reg[r] = h[r]
         /\ IsList(s.stack) /\ Len(s.stack) = Len(InOrder(m))
         /\ \A k \in 1 .. Len(InOrder(m)) :
              InOrder(m)[k] \notin D => s.stack[k] = h[InOrder(m)[k]]

LEMMA MaskFacts ==
    ASSUME NEW m \in Masks
    PROVE  /\ m \subseteq Registers
           /\ IsList(InOrder(m))
           /\ \A k \in 1 .. Len(InOrder(m)) : InOrder(m)[k] \in m
           /\ \A r \in m : \E k \in 1 .. Len(InOrder(m)) : InOrder(m)[k] = r
           /\ m = {} => Len(InOrder(m)) = 0
<1>1. m \subseteq Registers
  BY DEF Masks, Registers
<1>2. CASE m = {}
  <2>1. InOrder(m) = << >>
    BY <1>2, MaskOrder
  <2>2. << >> \in Seq({}) /\ Len(<< >>) = 0
    OBVIOUS
  <2>3. IsList(InOrder(m)) /\ Len(InOrder(m)) = 0
    BY <2>1, <2>2 DEF IsList
  <2> QED BY <1>1, <1>2, <2>3
<1>3. CASE m = {LR}
  <2> DEFINE L == << LR >>
  <2>1. InOrder(m) = L
    BY <1>3, MaskOrder
  <2>2. L \in Seq(m)
    BY <1>3
  <2>3. Len(L) = 1 /\ L[1] = LR
    OBVIOUS
  <2> HIDE DEF L
  <2>4. IsList(L)
    BY <2>2 DEF IsList
  <2>5. ASSUME NEW k \in 1 .. Len(L) PROVE L[k] \in m
    BY <2>2
  <2>6. ASSUME NEW r \in m PROVE \E k \in 1 .. Len(L) : L[k] = r
    <3>1. ASSUME r = LR PROVE \E k \in 1 .. Len(L) : L[k] = r
      <4>1. 1 \in 1 .. Len(L) /\ L[1] = r
        BY <2>3, <3>1
      <4> QED BY <4>1, Zenon
    <3> QED BY <1>3, <3>1
  <2>7. m # {}
    BY <1>3
  <2> QED BY <1>1, <2>1, <2>4, <2>5, <2>6, <2>7
<1>4. CASE m = {R(12), LR}
  <2> DEFINE L == << R(12), LR >>
  <2>1. InOrder(m) = L
    BY <1>4, MaskOrder
  <2>2. L \in Seq(m)
    BY <1>4
  <2>3. Len(L) = 2 /\ L[1] = R(12) /\ L[2] = LR
    OBVIOUS
  <2> HIDE DEF L
  <2>4. IsList(L)
    BY <2>2 DEF IsList
  <2>5. ASSUME NEW k \in 1 .. Len(L) PROVE L[k] \in m
    BY <2>2
  <2>6. ASSUME NEW r \in m PROVE \E k \in 1 .. Len(L) : L[k] = r
    <3>1. ASSUME r = R(12) PROVE \E k \in 1 .. Len(L) : L[k] = r
      <4>1. 1 \in 1 .. Len(L) /\ L[1] = r
        BY <2>3, <3>1
      <4> QED BY <4>1, Zenon
    <3>2. ASSUME r = LR PROVE \E k \in 1 .. Len(L) : L[k] = r
      <4>1. 2 \in 1 .. Len(L) /\ L[2] = r
        BY <2>3, <3>2
      <4> QED BY <4>1, Zenon
    <3> QED BY <1>4, <3>1, <3>2
  <2>7. m # {}
    BY <1>4
  <2> QED BY <1>1, <2>1, <2>4, <2>5, <2>6, <2>7
<1>5. CASE m = {R(4), R(12), LR}
  <2> DEFINE L == << R(4), R(12), LR >>
  <2>1. InOrder(m) = L
    BY <1>5, MaskOrder
  <2>2. L \in Seq(m)
    BY <1>5
  <2>3. Len(L) = 3 /\ L[1] = R(4) /\ L[2] = R(12) /\ L[3] = LR
    OBVIOUS
  <2> HIDE DEF L
  <2>4. IsList(L)
    BY <2>2 DEF IsList
  <2>5. ASSUME NEW k \in 1 .. Len(L) PROVE L[k] \in m
    BY <2>2
  <2>6. ASSUME NEW r \in m PROVE \E k \in 1 .. Len(L) : L[k] = r
    <3>1. ASSUME r = R(4) PROVE \E k \in 1 .. Len(L) : L[k] = r
      <4>1. 1 \in 1 .. Len(L) /\ L[1] = r
        BY <2>3, <3>1
      <4> QED BY <4>1, Zenon
    <3>2. ASSUME r = R(12) PROVE \E k \in 1 .. Len(L) : L[k] = r
      <4>1. 2 \in 1 .. Len(L) /\ L[2] = r
        BY <2>3, <3>2
      <4> QED BY <4>1, Zenon
    <3>3. ASSUME r = LR PROVE \E k \in 1 .. Len(L) : L[k] = r
      <4>1. 3 \in 1 .. Len(L) /\ L[3] = r
        BY <2>3, <3>3
      <4> QED BY <4>1, Zenon
    <3> QED BY <1>5, <3>1, <3>2, <3>3
  <2>7. m # {}
    BY <1>5
  <2> QED BY <1>1, <2>1, <2>4, <2>5, <2>6, <2>7
<1> QED BY <1>2, <1>3, <1>4, <1>5 DEF Masks

LEMMA IdleFields ==
    DOMAIN Idle = {"reg", "n", "z", "c", "v", "stack", "log", "stopped"}
BY DEF Idle, Machine

\* A register of D or m is set.
LEMMA RegisterSet ==
    ASSUME NEW s, NEW D, NEW m, NEW h, Agrees(s, D, m, h), NEW r \in D \cup m, NEW v
    PROVE  Agrees([s EXCEPT !.reg[r] = v], D, m, h)
<1> DEFINE t == [s EXCEPT !.reg[r] = v]
<1>1. /\ DOMAIN t = DOMAIN s /\ t.stack = s.stack /\ t.stopped = s.stopped
      /\ t.reg = [s.reg EXCEPT ![r] = v]
  BY IdleFields DEF Agrees
<1> HIDE DEF t
<1>2. Agrees(t, D, m, h)
  BY <1>1 DEF Agrees
<1> QED BY <1>2 DEF t

LEMMA SetAgrees ==
    ASSUME NEW s, NEW D, NEW m, NEW h, Agrees(s, D, m, h), NEW r, Physical(r) \in D \cup m, NEW v
    PROVE  Agrees(Set(s, r, v), D, m, h)
BY RegisterSet DEF Set

\* Flags and the log are no registers.
LEMMA FlagsAgree ==
    ASSUME NEW s, NEW D, NEW m, NEW h, Agrees(s, D, m, h), NEW f, NEW x
    PROVE  Agrees(Flags(s, f), D, m, h) /\ Agrees([s EXCEPT !.log = x], D, m, h)
<1>1. ASSUME NEW t, DOMAIN t = DOMAIN s, t.stack = s.stack, t.stopped = s.stopped, t.reg = s.reg
      PROVE  Agrees(t, D, m, h)
  BY <1>1 DEF Agrees
<1> DEFINE t == Flags(s, f)
           u == [s EXCEPT !.log = x]
<1>2. DOMAIN t = DOMAIN s /\ t.stack = s.stack /\ t.stopped = s.stopped /\ t.reg = s.reg
  BY IdleFields DEF Agrees, Flags
<1>3. DOMAIN u = DOMAIN s /\ u.stack = s.stack /\ u.stopped = s.stopped /\ u.reg = s.reg
  BY IdleFields DEF Agrees
<1> HIDE DEF t, u
<1>4. Agrees(t, D, m, h) /\ Agrees(u, D, m, h)
  BY <1>1, <1>2, <1>3
<1> QED BY <1>4 DEF t, u

LEMMA StoppedAgrees ==
    ASSUME NEW s, NEW D, NEW m, NEW h, Agrees(s, D, m, h), s.stopped, NEW p
    PROVE  Agrees(s, D, p, h)
BY DEF Agrees

LEMMA DataAgrees ==
    ASSUME NEW s, NEW D, NEW m, NEW h, Agrees(s, D, m, h), NEW i, Physical(i.Rd1) \in D
    PROVE  Agrees(DataProcessing(s, i), D, m, h)
<1> DEFINE f == Result(s, i)
           t == IF i.op \in Comparing THEN s ELSE Set(s, i.Rd1, f.val)
<1> HIDE DEF f
<1>1. Agrees(t, D, m, h)
  BY SetAgrees
<1> HIDE DEF t
<1>2. Agrees(Flags(t, f), D, m, h)
  BY <1>1, FlagsAgree
<1> QED BY <1>1, <1>2 DEF DataProcessing, t, f

LEMMA MultiplyAgrees ==
    ASSUME NEW s, NEW D, NEW m, NEW h, Agrees(s, D, m, h), NEW i,
           Physical(i.Rd1) \in D, Physical(i.Rd2) \in D
    PROVE  Agrees(Multiply(s, i), D, m, h)
<1> DEFINE p == Value(s, i.R1) * Value(s, i.R2)
           q == (IF i.op = "ARM_UMLAL" THEN p + Double(Value(s, i.Rd1), Value(s, i.Rd2)) ELSE p)
                  % 2^(2 * W)
<1> HIDE DEF p, q
<1>1. Agrees(Set(s, i.Rd1, p % Words), D, m, h)
  BY SetAgrees
<1>2. Agrees(Set(s, i.Rd2, q % Words), D, m, h)
  BY SetAgrees
<1>3. Agrees(Set(Set(s, i.Rd2, q % Words), i.Rd1, q \div Words), D, m, h)
  BY <1>2, SetAgrees
<1>4. Multiply(s, i) = IF i.op = "ARM_MUL" THEN Set(s, i.Rd1, p % Words)
                       ELSE Set(Set(s, i.Rd2, q % Words), i.Rd1, q \div Words)
  BY DEF Multiply, p, q
<1> QED BY <1>1, <1>3, <1>4

LEMMA LoadAgrees ==
    ASSUME NEW s, NEW D, NEW m, NEW h, Agrees(s, D, m, h), NEW i, Physical(i.Rd1) \in D \cup m
    PROVE  Agrees(Load(s, i), D, m, h)
<1> DEFINE x == Address(s, i)
           t == Set(s, i.Rd1, Loaded(i, x))
           u == [s EXCEPT !.reg[Physical(i.Rd1)] = i.imm]
<1>1. Agrees(t, D, m, h)
  BY SetAgrees
<1>2. Agrees(u, D, m, h)
  BY RegisterSet
<1>3. Load(s, i) = IF i.op = "ARM_LDR_LIT" THEN u
                   ELSE [t EXCEPT !.log = Append(@, Access(i.op, x, Loaded(i, x)))]
  BY DEF Load
<1> HIDE DEF t, u
<1>4. Agrees([t EXCEPT !.log = Append(t.log, Access(i.op, x, Loaded(i, x)))], D, m, h)
  BY <1>1, FlagsAgree
<1> QED BY <1>2, <1>3, <1>4

\* A helper overwrites registers that were pushed or are not kept.
LEMMA CallAgrees ==
    ASSUME NEW s, NEW D, NEW m, NEW h, Agrees(s, D, m, h), NEW i, NEW junk,
           Volatile \subseteq D \cup m
    PROVE  Agrees(Call(s, i, junk), D, m, h)
<1> DEFINE stop == [s EXCEPT !.stopped = TRUE]
           name == Helpers[Value(s, i.R1) - Words]
           x == s.reg[R(0)]
           y == Returned(name, x, s.reg[R(1)], s.reg[R(2)], s.reg[R(3)], junk)
           odd == junk % 2 = 1
           reg == [r \in DOMAIN s.reg |-> CASE r = R(0) -> y % Words
                                           [] r = R(1) -> y \div Words
                                           [] r \in Volatile \ {R(0), R(1)} -> junk
                                           [] OTHER -> s.reg[r]]
           log == IF name \in Touching
                  THEN Append(s.log, Access(name, Uncached(x), s.reg[R(1)])) ELSE s.log
           t == [s EXCEPT !.reg = reg, !.log = log, !.n = odd, !.z = ~odd, !.c = odd, !.v = odd]
<1>1. Call(s, i, junk) \in {stop, t}
  BY DEF Call
<1>5. DOMAIN reg = DOMAIN s.reg
  OBVIOUS
<1> HIDE DEF y
<1>6. ASSUME NEW r \in DOMAIN s.reg, r \notin Volatile PROVE reg[r] = s.reg[r]
  <2>1. r # R(0) /\ r # R(1)
    BY <1>6 DEF Volatile
  <2> QED BY <1>6, <2>1
<1> HIDE DEF reg, log, odd, name, x
<1>2. Agrees(stop, D, m, h)
  <2>1. DOMAIN stop = DOMAIN s /\ stop.stopped /\ stop.reg = s.reg
    BY IdleFields DEF Agrees
  <2> HIDE DEF stop
  <2> QED BY <2>1 DEF Agrees
<1>3. DOMAIN t = DOMAIN s /\ t.reg = reg /\ t.stack = s.stack /\ t.stopped = s.stopped
  BY IdleFields DEF Agrees
<1> HIDE DEF t, stop
<1>4. Agrees(t, D, m, h)
  BY <1>3, <1>5, <1>6 DEF Agrees
<1> QED BY <1>1, <1>2, <1>4

\* A push saves the registers of the mask, a pop gives them back.
LEMMA PushAgrees ==
    ASSUME NEW s, NEW D, NEW h, Agrees(s, D, {}, h), ~s.stopped, NEW i, i.Rmask \in Masks
    PROVE  Agrees(Push(s, i), D, i.Rmask, h)
<1> DEFINE L == InOrder(i.Rmask)
           saved == [k \in DOMAIN L |-> s.reg[L[k]]]
           t == [s EXCEPT !.stack = saved \o s.stack]
<1>0. /\ IsList(L) /\ Len(L) \in Nat /\ DOMAIN L = 1 .. Len(L)
      /\ \A k \in 1 .. Len(L) : L[k] \in i.Rmask
      /\ i.Rmask \subseteq Registers
  BY MaskFacts, ListsAreFunctions
<1> HIDE DEF L
<1>1. IsList(s.stack) /\ Len(s.stack) = 0
  BY MaskFacts, NoMask DEF Agrees
<1>2. IsList(saved) /\ Len(saved) = Len(L)
  BY <1>0, FunctionsAreLists
<1>3. /\ IsList(saved \o s.stack) /\ Len(saved \o s.stack) = Len(L)
      /\ \A k \in 1 .. Len(L) : (saved \o s.stack)[k] = s.reg[L[k]]
  <2>1. \A k \in 1 .. Len(L) : saved[k] = s.reg[L[k]]
    BY <1>0
  <2> HIDE DEF saved
  <2>2. /\ IsList(saved \o s.stack) /\ Len(saved \o s.stack) = Len(saved) + Len(s.stack)
        /\ \A k \in 1 .. Len(saved) : (saved \o s.stack)[k] = saved[k]
    BY <1>1, <1>2, ListsJoin
  <2>3. Len(saved) + Len(s.stack) = Len(L)
    BY <1>0, <1>1, <1>2
  <2>4. Len(saved \o s.stack) = Len(L) /\ IsList(saved \o s.stack)
    BY <2>2, <2>3
  <2>5. \A k \in 1 .. Len(L) : (saved \o s.stack)[k] = s.reg[L[k]]
    BY <1>2, <2>1, <2>2
  <2> QED BY <2>4, <2>5
<1>4. /\ DOMAIN t = DOMAIN s /\ t.reg = s.reg /\ t.stopped = s.stopped
      /\ t.stack = saved \o s.stack
  BY IdleFields DEF Agrees
<1>5. Push(s, i) = t
  BY DEF Push, L
<1> HIDE DEF t, saved
<1>6. \A r \in Registers \ D : t.reg[r] = h[r]
  BY <1>4 DEF Agrees
<1>7. \A k \in 1 .. Len(L) : L[k] \notin D => t.stack[k] = h[L[k]]
  BY <1>0, <1>3, <1>4, <1>6, ZenonT(40)
<1>8. Agrees(t, D, i.Rmask, h)
  BY <1>3, <1>4, <1>6, <1>7 DEF Agrees, L
<1> QED BY <1>5, <1>8

LEMMA PopAgrees ==
    ASSUME NEW s, NEW D, NEW h, NEW i, Agrees(s, D, i.Rmask, h), ~s.stopped, i.Rmask \in Masks
    PROVE  Agrees(Pop(s, i), D, {}, h)
<1> DEFINE L == InOrder(i.Rmask)
           stack == SubSeq(s.stack, Len(L) + 1, Len(s.stack))
           reg == [r \in DOMAIN s.reg |-> IF r \in i.Rmask /\ Len(s.stack) >= Len(L)
                                          THEN s.stack[Position(L, r)] ELSE s.reg[r]]
           t == [s EXCEPT !.stack = stack, !.reg = reg]
<1>0. /\ IsList(L) /\ Len(L) \in Nat /\ DOMAIN L = 1 .. Len(L)
      /\ \A k \in 1 .. Len(L) : L[k] \in i.Rmask
      /\ \A r \in i.Rmask : \E k \in 1 .. Len(L) : L[k] = r
  BY MaskFacts, ListsAreFunctions
<1>1. /\ IsList(s.stack) /\ Len(s.stack) = Len(L)
      /\ \A k \in 1 .. Len(L) : L[k] \notin D => s.stack[k] = h[L[k]]
      /\ \A r \in Registers \ (D \cup i.Rmask) : s.reg[r] = h[r]
      /\ DOMAIN s.reg = Registers
  BY DEF Agrees
<1>2. Pop(s, i) = t
  BY DEF Pop
<1>3. /\ DOMAIN t = DOMAIN s /\ t.reg = reg /\ t.stopped = s.stopped /\ t.stack = stack
  BY IdleFields DEF Agrees
<1> HIDE DEF L, t
<1>4. IsList(stack) /\ Len(stack) = 0
  <2>1. PICK S : s.stack \in Seq(S)
    BY <1>1 DEF IsList
  <2>2. stack \in Seq(S) /\ Len(stack) = 0
    BY <1>0, <1>1, <2>1
  <2> QED BY <2>2 DEF IsList
<1>5. ASSUME NEW r \in Registers \ D PROVE reg[r] = h[r]
  <2>1. CASE r \in i.Rmask
    <3>1. Position(L, r) \in 1 .. Len(L) /\ L[Position(L, r)] = r
      BY <1>0, <2>1 DEF Position
    <3>2. reg[r] = s.stack[Position(L, r)]
      BY <1>0, <1>1, <1>5, <2>1
    <3> QED BY <1>1, <1>5, <3>1, <3>2
  <2>2. CASE r \notin i.Rmask
    BY <1>1, <1>5, <2>2
  <2> QED BY <2>1, <2>2
<1>6. DOMAIN reg = Registers
  BY <1>1
<1> HIDE DEF reg, stack
<1>7. Agrees(t, D, {}, h)
  <2>1. Len(InOrder({})) = 0
    BY MaskFacts, NoMask
  <2> QED BY <1>3, <1>4, <1>5, <1>6, <2>1 DEF Agrees
<1> QED BY <1>2, <1>7

LEMMA ScratchKept ==
    ASSUME NEW d, NEW m, LR \in m
    PROVE  Volatile \subseteq Dest(d) \cup m
BY DEF Volatile, Dest, Scratch

\* One instruction.
LEMMA StepAgrees ==
    ASSUME NEW d, NEW i, NEW m \in Masks, NEW p \in Masks, Leads(i, d, m, p), i.op \in Encoded,
           NEW s, NEW h, Agrees(s, Dest(d), m, h), NEW junk
    PROVE  Agrees(Step(s, i, junk), Dest(d), p, h)
<1> USE DEF Encoded, DataOps, LoadOps, OtherOps
<1>1. CASE s.stopped
  BY <1>1, StoppedAgrees DEF Step
<1>2. CASE ~s.stopped /\ p = m
  <2>1. CASE ~Holds(s, i.cond)
    BY <1>2, <2>1 DEF Step
  <2>2. CASE Holds(s, i.cond)
    <3>1. CASE Tame(i, d) /\ i.op \in DataOps
      <4>1. Step(s, i, junk) = DataProcessing(s, i)
        BY <1>2, <2>2, <3>1 DEF Step
      <4> HIDE DEF Encoded, DataOps, LoadOps, OtherOps
      <4> QED BY <1>2, <3>1, <4>1, DataAgrees DEF Tame
    <3>2. CASE i.op \in LoadOps /\ Physical(i.Rd1) \in Dest(d) \cup m
      <4>1. Step(s, i, junk) = Load(s, i)
        BY <1>2, <2>2, <3>2 DEF Step
      <4> HIDE DEF Encoded, DataOps, LoadOps, OtherOps
      <4> QED BY <1>2, <3>2, <4>1, LoadAgrees
    <3>3. CASE Tame(i, d) /\ i.op \in Products
      <4>1. Step(s, i, junk) = Multiply(s, i)
        BY <1>2, <2>2, <3>3 DEF Step, Products
      <4> HIDE DEF Encoded, DataOps, LoadOps, OtherOps
      <4> QED BY <1>2, <3>3, <4>1, MultiplyAgrees DEF Tame
    <3>4. CASE (i.op = "ARM_BLX" \/ (i.op = "ARM_BX" /\ i.Ln)) /\ LR \in m
      <4>1. Step(s, i, junk) = Call(s, i, junk)
        BY <1>2, <2>2, <3>4 DEF Step
      <4> HIDE DEF Encoded, DataOps, LoadOps, OtherOps
      <4> QED BY <1>2, <3>4, <4>1, CallAgrees, ScratchKept
    <3>5. CASE i.op = "ARM_STM" /\ i.cond = "AL" /\ m = {} /\ p = i.Rmask
      <4>1. Step(s, i, junk) = Push(s, i)
        BY <1>2, <2>2, <3>5 DEF Step
      <4> HIDE DEF Encoded, DataOps, LoadOps, OtherOps
      <4> QED BY <1>2, <3>5, <4>1, PushAgrees
    <3>6. CASE i.op = "ARM_LDM" /\ i.cond = "AL" /\ m = i.Rmask /\ p = {}
      <4>1. Step(s, i, junk) = Pop(s, i)
        BY <1>2, <2>2, <3>6 DEF Step
      <4> HIDE DEF Encoded, DataOps, LoadOps, OtherOps
      <4> QED BY <1>2, <3>6, <4>1, PopAgrees
    <3> QED BY <3>1, <3>2, <3>3, <3>4, <3>5, <3>6 DEF Leads, Tame
  <2> QED BY <2>1, <2>2
<1>3. CASE ~s.stopped /\ p # m
  <2>1. \/ i.op = "ARM_STM" /\ i.cond = "AL" /\ m = {} /\ p = i.Rmask
        \/ i.op = "ARM_LDM" /\ i.cond = "AL" /\ m = i.Rmask /\ p = {}
    BY <1>3 DEF Leads
  <2>2. Holds(s, i.cond)
    BY <2>1 DEF Holds
  <2>3. CASE i.op = "ARM_STM" /\ m = {} /\ p = i.Rmask
    <3>1. Step(s, i, junk) = Push(s, i)
      BY <1>3, <2>2, <2>3 DEF Step
    <3> HIDE DEF Encoded, DataOps, LoadOps, OtherOps
    <3> QED BY <1>3, <2>3, <3>1, PushAgrees
  <2>4. CASE i.op = "ARM_LDM" /\ m = i.Rmask /\ p = {}
    <3>1. Step(s, i, junk) = Pop(s, i)
      BY <1>3, <2>2, <2>4 DEF Step
    <3> HIDE DEF Encoded, DataOps, LoadOps, OtherOps
    <3> QED BY <1>3, <2>4, <3>1, PopAgrees
  <2> QED BY <2>1, <2>3, <2>4
<1> QED BY <1>1, <1>2, <1>3

\* The whole list.
LEMMA ExecuteAgrees ==
    ASSUME NEW d, NEW L, Guards(L, d, {}, {}), \A k \in 1 .. Len(L) : L[k].op \in Encoded,
           NEW s, NEW h, Agrees(s, Dest(d), {}, h), NEW junk
    PROVE  Agrees(Execute(s, L, junk), Dest(d), {}, h)
<1>1. Len(L) \in Nat
  BY ListsAreFunctions DEF Guards
<1>2. PICK open \in [0 .. Len(L) -> Masks] :
        /\ open[0] = {} /\ open[Len(L)] = {}
        /\ \A k \in 1 .. Len(L) : Leads(L[k], d, open[k - 1], open[k])
  BY DEF Guards
<1>3. PICK state : Trace(state, s, L, junk) /\ Execute(s, L, junk) = state[Len(L)]
  BY <1>1, ExecuteStates
<1> DEFINE T == {k \in 0 .. Len(L) : ~Agrees(state[k], Dest(d), open[k], h)}
<1>4. T = {}
  <2> SUFFICES ASSUME T # {} PROVE FALSE
    OBVIOUS
  <2>1. PICK n \in T : \A j \in T : n <= j
    <3>1. T \in SUBSET Nat
      BY <1>1
    <3> HIDE DEF T
    <3> QED BY <3>1, LeastNumber
  <2>2. n \in 0 .. Len(L) /\ ~Agrees(state[n], Dest(d), open[n], h)
    BY <2>1
  <2>3. state[0] = s
    BY <1>3 DEF Trace
  <2>4. n # 0
    BY <2>2, <2>3, <1>2
  <2>5. n \in 1 .. Len(L) /\ n - 1 \in 0 .. Len(L) /\ ~(n <= n - 1)
    BY <2>2, <2>4, <1>1
  <2>6. Agrees(state[n - 1], Dest(d), open[n - 1], h)
    BY <2>1, <2>5
  <2>7. state[n] = Step(state[n - 1], L[n], junk)
    BY <1>3, <2>5 DEF Trace
  <2>8. open[n - 1] \in Masks /\ open[n] \in Masks /\ Leads(L[n], d, open[n - 1], open[n])
    BY <1>2, <2>5
  <2>9. Agrees(Step(state[n - 1], L[n], junk), Dest(d), open[n], h)
    BY <2>5, <2>6, <2>8, StepAgrees
  <2> QED BY <2>2, <2>7, <2>9
<1>5. Agrees(state[Len(L)], Dest(d), open[Len(L)], h)
  BY <1>1, <1>4
<1> QED BY <1>2, <1>3, <1>5

-----------------------------------------------------------------------------
\* The life of an instruction.

LEMMA RefusedOps ==
    ASSUME NEW i, ~Refused(i)
    PROVE  i.op \in Encoded
BY DEF Refused, Encoded

\* The processor enters the code with nothing on the stack.
LEMMA MachineAgrees ==
    ASSUME NEW reg, DOMAIN reg = Registers, NEW junk, NEW D
    PROVE  LET s == Machine(reg, junk) IN Agrees(s, D, {}, s.reg)
<1> DEFINE s == Machine(reg, junk)
<1>1. /\ s.stack = << >> /\ DOMAIN s = {"reg", "n", "z", "c", "v", "stack", "log", "stopped"}
      /\ s.reg = reg
  BY DEF Machine
<1> HIDE DEF s
<1>3. Len(InOrder({})) = 0
  BY MaskFacts, NoMask
<1>4. << >> \in Seq({}) /\ Len(<< >>) = 0
  OBVIOUS
<1>5. IsList(s.stack) /\ Len(s.stack) = 0
  BY <1>1, <1>4 DEF IsList
<1>6. Agrees(s, D, {}, s.reg)
  BY <1>1, <1>3, <1>5, IdleFields DEF Agrees
<1> QED BY <1>6 DEF s

\* A pass keeps the list guarded.
LEMMA PassKeeps ==
    ASSUME NEW d, Ready(d), NEW L, Guards(L, d, {}, {})
    PROVE  /\ Guards(FlattenSeq([k \in DOMAIN L |-> Translate_Constants(L[k])]), d, {}, {})
           /\ Guards(FlattenSeq([k \in DOMAIN L |-> Translate_ALU(L[k])]), d, {}, {})
           /\ Guards(FlattenSeq([k \in DOMAIN L |-> Translate_Generic(L[k])]), d, {}, {})
           /\ Guards(FlattenSeq([k \in DOMAIN L |-> Translate_FPU(L[k])]), d, {}, {})
           /\ Guards(FlattenSeq([k \in DOMAIN L |-> Translate_Memory(L[k])]), d, {}, {})
           /\ Guards(FlattenSeq([k \in DOMAIN L |-> Translate_CleanUp(L[k])]), d, {}, {})
<1>1. Guards(FlattenSeq([k \in DOMAIN L |-> Translate_Constants(L[k])]), d, {}, {})
  <2> DEFINE Q == [k \in DOMAIN L |-> Translate_Constants(L[k])]
  <2>1. Q = [k \in DOMAIN L |-> Q[k]]
    OBVIOUS
  <2>2. \A k \in DOMAIN L : Q[k] = Translate_Constants(L[k])
    OBVIOUS
  <2> HIDE DEF Q
  <2>3. ASSUME NEW k \in DOMAIN L, NEW m \in Masks, NEW p \in Masks, Leads(L[k], d, m, p)
        PROVE  Guards(Q[k], d, m, p)
    BY <2>2, <2>3, RecordGuards
  <2>4. Guards(FlattenSeq(Q), d, {}, {})
    BY <2>1, <2>3, PassGuards
  <2> QED BY <2>4 DEF Q
<1>2. Guards(FlattenSeq([k \in DOMAIN L |-> Translate_ALU(L[k])]), d, {}, {})
  <2> DEFINE Q == [k \in DOMAIN L |-> Translate_ALU(L[k])]
  <2>1. Q = [k \in DOMAIN L |-> Q[k]]
    OBVIOUS
  <2>2. \A k \in DOMAIN L : Q[k] = Translate_ALU(L[k])
    OBVIOUS
  <2> HIDE DEF Q
  <2>3. ASSUME NEW k \in DOMAIN L, NEW m \in Masks, NEW p \in Masks, Leads(L[k], d, m, p)
        PROVE  Guards(Q[k], d, m, p)
    BY <2>2, <2>3, RecordGuards
  <2>4. Guards(FlattenSeq(Q), d, {}, {})
    BY <2>1, <2>3, PassGuards
  <2> QED BY <2>4 DEF Q
<1>3. Guards(FlattenSeq([k \in DOMAIN L |-> Translate_Generic(L[k])]), d, {}, {})
  <2> DEFINE Q == [k \in DOMAIN L |-> Translate_Generic(L[k])]
  <2>1. Q = [k \in DOMAIN L |-> Q[k]]
    OBVIOUS
  <2>2. \A k \in DOMAIN L : Q[k] = Translate_Generic(L[k])
    OBVIOUS
  <2> HIDE DEF Q
  <2>3. ASSUME NEW k \in DOMAIN L, NEW m \in Masks, NEW p \in Masks, Leads(L[k], d, m, p)
        PROVE  Guards(Q[k], d, m, p)
    BY <2>2, <2>3, RecordGuards
  <2>4. Guards(FlattenSeq(Q), d, {}, {})
    BY <2>1, <2>3, PassGuards
  <2> QED BY <2>4 DEF Q
<1>4. Guards(FlattenSeq([k \in DOMAIN L |-> Translate_FPU(L[k])]), d, {}, {})
  <2> DEFINE Q == [k \in DOMAIN L |-> Translate_FPU(L[k])]
  <2>1. Q = [k \in DOMAIN L |-> Q[k]]
    OBVIOUS
  <2>2. \A k \in DOMAIN L : Q[k] = Translate_FPU(L[k])
    OBVIOUS
  <2> HIDE DEF Q
  <2>3. ASSUME NEW k \in DOMAIN L, NEW m \in Masks, NEW p \in Masks, Leads(L[k], d, m, p)
        PROVE  Guards(Q[k], d, m, p)
    BY <2>2, <2>3, RecordGuards
  <2>4. Guards(FlattenSeq(Q), d, {}, {})
    BY <2>1, <2>3, PassGuards
  <2> QED BY <2>4 DEF Q
<1>5. Guards(FlattenSeq([k \in DOMAIN L |-> Translate_Memory(L[k])]), d, {}, {})
  <2> DEFINE Q == [k \in DOMAIN L |-> Translate_Memory(L[k])]
  <2>1. Q = [k \in DOMAIN L |-> Q[k]]
    OBVIOUS
  <2>2. \A k \in DOMAIN L : Q[k] = Translate_Memory(L[k])
    OBVIOUS
  <2> HIDE DEF Q
  <2>3. ASSUME NEW k \in DOMAIN L, NEW m \in Masks, NEW p \in Masks, Leads(L[k], d, m, p)
        PROVE  Guards(Q[k], d, m, p)
    BY <2>2, <2>3, RecordGuards
  <2>4. Guards(FlattenSeq(Q), d, {}, {})
    BY <2>1, <2>3, PassGuards
  <2> QED BY <2>4 DEF Q
<1>6. Guards(FlattenSeq([k \in DOMAIN L |-> Translate_CleanUp(L[k])]), d, {}, {})
  <2> DEFINE Q == [k \in DOMAIN L |-> Translate_CleanUp(L[k])]
  <2>1. Q = [k \in DOMAIN L |-> Q[k]]
    OBVIOUS
  <2>2. \A k \in DOMAIN L : Q[k] = Translate_CleanUp(L[k])
    OBVIOUS
  <2> HIDE DEF Q
  <2>3. ASSUME NEW k \in DOMAIN L, NEW m \in Masks, NEW p \in Masks, Leads(L[k], d, m, p)
        PROVE  Guards(Q[k], d, m, p)
    BY <2>2, <2>3, RecordGuards
  <2>4. Guards(FlattenSeq(Q), d, {}, {})
    BY <2>1, <2>3, PassGuards
  <2> QED BY <2>4 DEF Q
<1> QED BY <1>1, <1>2, <1>3, <1>4, <1>5, <1>6

-----------------------------------------------------------------------------
\* The list is guarded from the decoder to the encoder, only what the encoder
\* knows is written, and the processor that has run it agrees with itself before.
Wired(s) == DOMAIN s = DOMAIN Idle /\ DOMAIN s.reg = Registers
Guarded ==
    /\ word \in Programs /\ word \in MipsWord /\ phase \in Phases
    /\ Guards(code, I, {}, {})
    /\ phase \in {"written", "done"} => \A k \in DOMAIN code : code[k].op \in Encoded
    /\ Wired(before) /\ Wired(after)
    /\ phase = "done" => Agrees(after, Dest(I), {}, before.reg)

LEMMA GuardedInit == Init => Guarded
<1> SUFFICES ASSUME Init PROVE Guarded
  OBVIOUS
<1>1. word \in Programs /\ word \in MipsWord /\ phase = "fetched" /\ code = << >> /\ before = Idle /\ after = Idle
  BY ProgramsAssumption DEF Init
<1>2. Wired(Idle)
  <2> DEFINE reg == [r \in Registers |-> 0]
  <2>1. DOMAIN reg = Registers
    OBVIOUS
  <2> HIDE DEF reg
  <2>2. Agrees(Machine(reg, 0), {}, {}, Machine(reg, 0).reg)
    BY <2>1, MachineAgrees
  <2> QED BY <2>2 DEF Wired, Idle, Agrees, reg
<1>3. Guards(code, I, {}, {})
  BY <1>1, GuardsNothing, NoMask
<1> QED BY <1>1, <1>2, <1>3 DEF Guarded, Phases

LEMMA GuardedNext == Guarded /\ [Next]_vars => Guarded'
<1> SUFFICES ASSUME Guarded, [Next]_vars PROVE Guarded'
  OBVIOUS
<1>1. word \in Programs /\ word \in MipsWord /\ Guards(code, I, {}, {}) /\ Wired(before) /\ Wired(after)
  BY DEF Guarded
<1>2. Ready(I)
  BY <1>1, DecodedReady DEF I
\* A pass: the word and the processor stay, the code is not written yet.
<1>3. ASSUME word' = word, before' = before, after' = after, Guards(code', I, {}, {}),
             phase' \in Phases \ {"written", "done"}
      PROVE  Guarded'
  <2>1. I' = I
    BY <1>3 DEF I
  <2>2. Wired(before)' /\ Wired(after)'
    BY <1>1, <1>3 DEF Wired
  <2> QED BY <1>1, <1>3, <2>1, <2>2 DEF Guarded
<1> HIDE DEF I
<1>4. CASE Translate_init
  <2>1. code' = << I >>
    BY <1>4 DEF Translate_init, I
  <2>2. Guards(code', I, {}, {})
    BY <1>2, <2>1, ReadyGuards
  <2> QED BY <1>3, <1>4, <2>2 DEF Translate_init, Phases
<1>5. CASE Constants
  <2>1. /\ code' = FlattenSeq([k \in DOMAIN code |-> Translate_Constants(code[k])])
        /\ phase' \in {"aborted", "Constants"} /\ word' = word /\ before' = before /\ after' = after
    BY <1>5 DEF Constants, Pass
  <2>2. Guards(code', I, {}, {})
    BY <1>1, <1>2, <2>1, PassKeeps
  <2> QED BY <1>3, <2>1, <2>2 DEF Phases
<1>6. CASE Arithmetic
  <2>1. /\ code' = FlattenSeq([k \in DOMAIN code |-> Translate_ALU(code[k])])
        /\ phase' \in {"aborted", "ALU"} /\ word' = word /\ before' = before /\ after' = after
    BY <1>6 DEF Arithmetic, Pass
  <2>2. Guards(code', I, {}, {})
    BY <1>1, <1>2, <2>1, PassKeeps
  <2> QED BY <1>3, <2>1, <2>2 DEF Phases
<1>7. CASE Generic
  <2>1. /\ code' = FlattenSeq([k \in DOMAIN code |-> Translate_Generic(code[k])])
        /\ phase' \in {"aborted", "Generic"} /\ word' = word /\ before' = before /\ after' = after
    BY <1>7 DEF Generic, Pass
  <2>2. Guards(code', I, {}, {})
    BY <1>1, <1>2, <2>1, PassKeeps
  <2> QED BY <1>3, <2>1, <2>2 DEF Phases
<1>8. CASE FPU
  <2>1. /\ code' = FlattenSeq([k \in DOMAIN code |-> Translate_FPU(code[k])])
        /\ phase' \in {"aborted", "FPU"} /\ word' = word /\ before' = before /\ after' = after
    BY <1>8 DEF FPU, Pass
  <2>2. Guards(code', I, {}, {})
    BY <1>1, <1>2, <2>1, PassKeeps
  <2> QED BY <1>3, <2>1, <2>2 DEF Phases
<1>9. CASE Accesses
  <2>1. /\ code' = FlattenSeq([k \in DOMAIN code |-> Translate_Memory(code[k])])
        /\ phase' \in {"aborted", "Memory"} /\ word' = word /\ before' = before /\ after' = after
    BY <1>9 DEF Accesses, Pass
  <2>2. Guards(code', I, {}, {})
    BY <1>1, <1>2, <2>1, PassKeeps
  <2> QED BY <1>3, <2>1, <2>2 DEF Phases
<1>10. CASE CleanUp
  <2>1. /\ code' = FlattenSeq([k \in DOMAIN code |-> Translate_CleanUp(code[k])])
        /\ phase' \in {"aborted", "CleanUp"} /\ word' = word /\ before' = before /\ after' = after
    BY <1>10 DEF CleanUp, Pass
  <2>2. Guards(code', I, {}, {})
    BY <1>1, <1>2, <2>1, PassKeeps
  <2> QED BY <1>3, <2>1, <2>2 DEF Phases
<1>11. CASE Write
  <2>1. /\ word' = word /\ code' = code /\ before' = before /\ after' = after
        /\ \/ phase' = "refused"
           \/ phase' = "written" /\ \A k \in DOMAIN code : ~Refused(code[k])
    BY <1>11 DEF Write
  <2>2. I' = I
    BY <2>1 DEF I
  <2>3. Wired(before)' /\ Wired(after)'
    BY <1>1, <2>1 DEF Wired
  <2>4. phase' = "written" => \A k \in DOMAIN code' : code'[k].op \in Encoded
    BY <2>1, RefusedOps
  <2> QED BY <1>1, <2>1, <2>2, <2>3, <2>4 DEF Guarded, Phases
<1>12. CASE Run
  <2>1. PICK reg \in Operands(word), junk \in Junk :
          /\ before' = Machine(reg, junk)
          /\ after' = Execute(Machine(reg, junk), code, junk)
    BY <1>12 DEF Run
  <2>12. DOMAIN reg = Registers
    <3>1. word \in Programs
      BY DEF Guarded
    <3> QED BY <2>1, <3>1, OperandsAssumption DEF Files
  <2>2. /\ word' = word /\ code' = code /\ phase = "written" /\ phase' = "done"
    BY <1>12 DEF Run
  <2>3. I' = I
    BY <2>2 DEF I
  <2> DEFINE s == Machine(reg, junk)
  <2>4. Agrees(s, Dest(I), {}, s.reg)
    BY <2>12, MachineAgrees
  <2>5. before' = s /\ after' = Execute(s, code, junk)
    BY <2>1
  <2> HIDE DEF s
  <2>6. \A k \in DOMAIN code : code[k].op \in Encoded
    BY <2>2 DEF Guarded
  <2>7. DOMAIN code = 1 .. Len(code)
    BY <1>1, ListsAreFunctions DEF Guards
  <2>8. Agrees(Execute(s, code, junk), Dest(I), {}, s.reg)
    BY <1>1, <2>4, <2>6, <2>7, ExecuteAgrees
  <2>9. Agrees(after', Dest(I), {}, before'.reg)
    BY <2>5, <2>8
  <2>10. Wired(before)' /\ Wired(after)'
    BY <2>4, <2>5, <2>9 DEF Wired, Agrees
  <2>11. Agrees(after, Dest(I), {}, before.reg)'
    BY <2>3, <2>9 DEF Agrees
  <2> QED BY <1>1, <2>2, <2>3, <2>6, <2>10, <2>11 DEF Guarded, Phases
<1>13. CASE UNCHANGED vars
  BY <1>13 DEF Guarded, vars, I, Wired, Agrees
<1> QED
  BY <1>4, <1>5, <1>6, <1>7, <1>8, <1>9, <1>10, <1>11, <1>12, <1>13 DEF Next

\* From the fetched word to the processor that has run its code, the passes keep
\* records of one shape in the list, and neither the code nor a C helper adds or
\* drops a register of the processor.
THEOREM OperationsTypeOK == Spec => []TypeOK
<1>1. Guarded => TypeOK
  <2> SUFFICES ASSUME Guarded PROVE TypeOK
    OBVIOUS
  <2>1. word \in MipsWord /\ phase \in Phases /\ Guards(code, I, {}, {})
    BY DEF Guarded
  <2>2. DOMAIN code = 1 .. Len(code)
    BY <2>1, ListsAreFunctions DEF Guards
  <2>3. \A k \in DOMAIN code : DOMAIN code[k] = DOMAIN newEmptyInstr(X)
    BY <2>1, <2>2 DEF Guards, Leads
  <2>4. Wired(before) /\ Wired(after)
    BY DEF Guarded
  <2> QED BY <2>1, <2>3, <2>4 DEF TypeOK, Wired
<1> QED BY <1>1, GuardedInit, GuardedNext, PTL DEF Spec

\* Whatever the word, its operands and what the helpers leave in the registers
\* they may overwrite: code that runs to its end has changed no register but the
\* operation's own and the scratch registers, and left nothing on the stack.
THEOREM NothingElseChanges == Spec => []OnlyTargetChanges
<1>1. Guarded => OnlyTargetChanges
  <2> SUFFICES ASSUME Guarded, phase = "done", ~after.stopped
               PROVE  /\ \A r \in Registers \ (Targets \cup Scratch) : a[r] = b[r]
                      /\ after.stack = << >>
    BY DEF OnlyTargetChanges
  <2>1. Agrees(after, Dest(I), {}, before.reg)
    BY DEF Guarded
  <2>2. Dest(I) = Targets \cup Scratch
    BY DEF Dest, Targets
  <2>3. \A r \in Registers \ Dest(I) : after.reg[r] = before.reg[r]
    BY <2>1 DEF Agrees
  <2>4. IsList(after.stack) /\ Len(after.stack) = 0
    <3>1. Len(InOrder({})) = 0
      BY MaskFacts, NoMask
    <3> QED BY <2>1, <3>1 DEF Agrees
  <2>5. after.stack = << >>
    BY <2>4 DEF IsList
  <2> QED BY <2>2, <2>3, <2>5 DEF a, b
<1> QED BY <1>1, GuardedInit, GuardedNext, PTL DEF Spec

=============================================================================
