---------------------------- MODULE Decode_proofs ----------------------------
(***************************************************************************)
(* Proofs about the tables of the decoder, for every instruction word and  *)
(* every width of the immediate: a word is classified by the codes that    *)
(* name its operation, the arms of each table exclude each other, and so   *)
(* two tables are compared arm by arm.                                     *)
(***************************************************************************)
EXTENDS DecodeTables, TLAPS

-----------------------------------------------------------------------------
\* The names of the operations: which codes are branches and jumps.

\* By operation code: codes 4 to 7 and 20 to 23 branch, 2 and 3 jump.
LEMMA MajorNames ==
    \A n \in 0 .. 63 :
        /\ Major[n + 1] \in Branches <=> n \in 4 .. 7 \cup 20 .. 23
        /\ Major[n + 1] \in Jumps <=> n \in {2, 3}
        /\ Major[n + 1] \notin FloatBranches
BY SMTT(60) DEF Major, Branches, Jumps, FloatBranches, X

\* By function code under SPECIAL: no branch; JR and JALR jump.
LEMMA SpecialNames ==
    \A n \in 0 .. 63 :
        /\ Special[n + 1] \notin Branches \cup FloatBranches
        /\ Special[n + 1] \in Jumps <=> n \in {8, 9}
BY SMTT(60) DEF Special, Branches, Jumps, FloatBranches, X

\* By rt under REGIMM: codes 0 to 3 and 16 to 19 branch.
LEMMA RegimmNames ==
    \A n \in 0 .. 31 :
        /\ Regimm[n + 1] \in Branches <=> n \in 0 .. 3 \cup 16 .. 19
        /\ Regimm[n + 1] \notin Jumps \cup FloatBranches
BY SMTT(60) DEF Regimm, Branches, Jumps, FloatBranches, X

\* Coprocessor 0 neither branches nor jumps.
LEMMA Cop0Names ==
    ASSUME NEW w \in MipsWord
    PROVE  Cop0(w) \notin Branches \cup Jumps \cup FloatBranches
BY SMTT(60) DEF Cop0, Branches, Jumps, FloatBranches, X

\* Floating-point arithmetic and compares are no branches.
LEMMA FloatNames ==
    ASSUME NEW n \in 1 .. 16, NEW f \in {"S", "D"}
    PROVE  /\ Arith[f][n] \notin Branches \cup Jumps \cup FloatBranches
           /\ Compare[f][n] \notin Branches \cup Jumps \cup FloatBranches
BY SMTT(60) DEF Arith, Compare, Branches, Jumps, FloatBranches, X

\* Nor are conversions.
LEMMA ConvertNames ==
    ASSUME NEW w \in MipsWord, NEW f \in {"S", "D", "W", "L"}
    PROVE  Convert(w, f) \notin Branches \cup Jumps \cup FloatBranches
BY SMTT(60) DEF Convert, Branches, Jumps, FloatBranches, X

\* Coprocessor 1 branches under rs = 8 only.
LEMMA Cop1Names ==
    ASSUME NEW w \in MipsWord
    PROVE  Cop1(w) \notin Branches \cup Jumps /\ (Cop1(w) \in FloatBranches <=> w.rs = 8)
<1>1. \A f \in {"S", "D", "W", "L"} : Float(w, f) \notin Branches \cup Jumps \cup FloatBranches
  BY FloatNames, ConvertNames DEF Float, MipsWord
<1>2. w.rs \in 0 .. 31 /\ w.rt \in 0 .. 31
  BY DEF MipsWord
<1>3. CASE w.rs \in {0, 1, 2}
  <2>1. Cop1(w) = <<"MFC1", "DMFC1", "CFC1">>[w.rs + 1]
    BY <1>3 DEF Cop1
  <2> QED
    BY <1>3, <2>1 DEF Branches, Jumps, FloatBranches
<1>4. CASE w.rs \in {4, 5, 6}
  <2>1. Cop1(w) = <<"MTC1", "DMTC1", "CTC1">>[w.rs - 3]
    BY <1>4 DEF Cop1
  <2> QED
    BY <1>4, <2>1 DEF Branches, Jumps, FloatBranches
<1>5. CASE w.rs = 8
  <2>1. Cop1(w) = <<"BC1F", "BC1T", "BC1FL", "BC1TL">>[(w.rt % 4) + 1]
    BY <1>5 DEF Cop1
  <2>2. w.rt % 4 \in 0 .. 3
    BY <1>2
  <2> QED
    BY <1>5, <2>1, <2>2 DEF Branches, Jumps, FloatBranches
<1>6. CASE w.rs \notin {0, 1, 2, 4, 5, 6, 8}
  <2>1. Cop1(w) \in {Float(w, "S"), Float(w, "D"), Float(w, "W"), Float(w, "L"), X}
    BY <1>6 DEF Cop1
  <2>2. X \notin Branches \cup Jumps \cup FloatBranches
    BY DEF X, Branches, Jumps, FloatBranches
  <2> QED
    BY <1>1, <1>6, <2>1, <2>2
<1> QED
  BY <1>3, <1>4, <1>5, <1>6

-----------------------------------------------------------------------------
\* What the segment builder is told, and what ops_type says of the same word.

\* No distance and no index is one of the answers for "none".
LEMMA Offsets ==
    ASSUME NEW w \in MipsWord
    PROVE  IMM(w) # NoOffset /\ IMMU(w) \in Nat
BY ImmBitsAssumption, OffsetsAssumption DEF IMM, IMMU, NoOffset, MipsWord

\* The class ops_type gives a word is the one its codes give it.
LEMMA TypeNames ==
    ASSUME NEW w \in MipsWord
    PROVE  /\ ops_type(w) \in Branches <=>
                \/ w.op = 1 /\ w.rt \in 0 .. 3 \cup 16 .. 19
                \/ w.op \in 4 .. 7 \cup 20 .. 23
           /\ ops_type(w) \in FloatBranches <=> w.op = 17 /\ w.rs = 8
           /\ ops_type(w) \in Jumps <=> (w.op = 0 /\ w.fn \in {8, 9}) \/ w.op \in {2, 3}
<1>1. w.op \in 0 .. 63 /\ w.fn \in 0 .. 63 /\ w.rt \in 0 .. 31
  BY DEF MipsWord
<1>2. CASE IsNop(w)
  <2>1. ops_type(w) = "NO_OP" /\ w.op = 0 /\ w.fn = 0
    BY <1>2 DEF ops_type, IsNop, Word
  <2> QED
    BY <2>1 DEF Branches, FloatBranches, Jumps
<1>3. CASE ~IsNop(w) /\ w.op = 0
  <2>1. ops_type(w) = Special[w.fn + 1]
    BY <1>3 DEF ops_type
  <2> QED
    BY <1>1, <1>3, <2>1, SpecialNames
<1>4. CASE w.op = 1
  <2>1. ops_type(w) = Regimm[w.rt + 1]
    BY <1>4 DEF ops_type, IsNop, Word
  <2> QED
    BY <1>1, <1>4, <2>1, RegimmNames
<1>5. CASE w.op = 16
  <2>1. ops_type(w) = Cop0(w)
    BY <1>5 DEF ops_type, IsNop, Word
  <2> QED
    BY <1>1, <1>5, <2>1, Cop0Names
<1>6. CASE w.op = 17
  <2>1. ops_type(w) = Cop1(w)
    BY <1>6 DEF ops_type, IsNop, Word
  <2> QED
    BY <1>1, <1>6, <2>1, Cop1Names
<1>7. CASE w.op \notin {0, 1, 16, 17}
  <2>1. ops_type(w) = Major[w.op + 1]
    BY <1>7 DEF ops_type, IsNop, Word
  <2> QED
    BY <1>1, <1>7, <2>1, MajorNames
<1> QED
  BY <1>2, <1>3, <1>4, <1>5, <1>6, <1>7

\* Register jumps are SPECIAL, the others have an operation code of their own.
LEMMA JumpNames ==
    ASSUME NEW w \in MipsWord, ops_type(w) \in Jumps
    PROVE  IF w.op = 0 THEN ops_type(w) \in {"JR", "JALR"} ELSE ops_type(w) \in {"J", "JAL"}
<1>1. (w.op = 0 /\ w.fn \in {8, 9}) \/ w.op \in {2, 3}
  BY TypeNames
<1>2. CASE w.op = 0 /\ w.fn \in {8, 9}
  <2>1. ops_type(w) = Special[w.fn + 1]
    BY <1>2 DEF ops_type, IsNop, Word
  <2> QED
    BY <1>2, <2>1 DEF Special, X
<1>3. CASE w.op \in {2, 3}
  <2>1. ops_type(w) = Major[w.op + 1]
    BY <1>3 DEF ops_type, IsNop, Word
  <2> QED
    BY <1>3, <2>1 DEF Major, X
<1> QED
  BY <1>1, <1>2, <1>3

-----------------------------------------------------------------------------
\* What mips_decode fills in for branches and jumps.

\* The fields of a new record.
LEMMA EmptyInstr ==
    ASSUME NEW op
    PROVE  /\ newEmptyInstr(op).op = op
           /\ newEmptyInstr(op).Ln = FALSE
           /\ newEmptyInstr(op).imm = 0
           /\ newEmptyInstr(op).Rd1 = NOT_USED
           /\ newEmptyInstr(op).R1 = NOT_USED
           /\ newEmptyInstr(op).R2 = NOT_USED
BY DEF newEmptyInstr

\* The operations DecodeImmediate fills the record of.
ImmediateOps == SignedImmediate \cup ZeroImmediate \cup TrapsImmediate \cup {"LUI"}

\* The arms of mips_decode exclude each other: which of the decoders below it
\* fills the record.
LEMMA DecodedAs ==
    ASSUME NEW w, ops_type(w) # X
    PROVE  LET op == ops_type(w)
               e  == newEmptyInstr(op)
           IN  /\ op \in Branches /\ op \notin {"J", "JAL"} \cup ImmediateOps /\ w.op \notin {0, 16, 17} =>
                    mips_decode(w) = DecodeBranch(w, e)
               /\ op \in {"J", "JAL"} /\ op \notin Branches \cup ImmediateOps /\ w.op \notin {0, 16, 17} =>
                    mips_decode(w) = DecodeJump(w, e)
               /\ op \notin {"J", "JAL"} \cup Branches \cup ImmediateOps /\ w.op = 0 =>
                    mips_decode(w) = DecodeSpecial(w, e)
               /\ op \notin {"J", "JAL"} \cup Branches \cup ImmediateOps /\ w.op \in {16, 17} =>
                    mips_decode(w) = DecodeCop(w, e)
               /\ op \in ImmediateOps \ ({"J", "JAL"} \cup Branches) /\ w.op \notin {0, 16, 17} =>
                    mips_decode(w) = DecodeImmediate(w, e)
               /\ op \notin {"J", "JAL"} \cup Branches \cup ImmediateOps /\ w.op \notin {0, 16, 17} =>
                    mips_decode(w) = DecodeMemory(w, e)
<1>1. PICK op : op = ops_type(w)
  OBVIOUS
<1>2. PICK e : e = newEmptyInstr(op)
  OBVIOUS
<1>3. e.op = op /\ op # X
  BY <1>1, <1>2, EmptyInstr
<1>4. op \in Branches /\ op \notin {"J", "JAL"} \cup ImmediateOps /\ w.op \notin {0, 16, 17} =>
        mips_decode(w) = DecodeBranch(w, e)
  BY <1>1, <1>2, <1>3 DEF mips_decode, ImmediateOps
<1>5. op \in {"J", "JAL"} /\ op \notin Branches \cup ImmediateOps /\ w.op \notin {0, 16, 17} =>
        mips_decode(w) = DecodeJump(w, e)
  BY <1>1, <1>2, <1>3 DEF mips_decode, ImmediateOps
<1>6. op \notin {"J", "JAL"} \cup Branches \cup ImmediateOps /\ w.op = 0 =>
        mips_decode(w) = DecodeSpecial(w, e)
  BY <1>1, <1>2, <1>3 DEF mips_decode, ImmediateOps
<1>7. op \notin {"J", "JAL"} \cup Branches \cup ImmediateOps /\ w.op \in {16, 17} =>
        mips_decode(w) = DecodeCop(w, e)
  BY <1>1, <1>2, <1>3 DEF mips_decode, ImmediateOps
<1>8. op \in ImmediateOps \ ({"J", "JAL"} \cup Branches) /\ w.op \notin {0, 16, 17} =>
        mips_decode(w) = DecodeImmediate(w, e)
  BY <1>1, <1>2, <1>3 DEF mips_decode, ImmediateOps
<1>9. op \notin {"J", "JAL"} \cup Branches \cup ImmediateOps /\ w.op \notin {0, 16, 17} =>
        mips_decode(w) = DecodeMemory(w, e)
  BY <1>1, <1>2, <1>3 DEF mips_decode, ImmediateOps
<1> QED
  BY <1>1, <1>2, <1>4, <1>5, <1>6, <1>7, <1>8, <1>9

\* The distance and the link of a decoded branch.
LEMMA DecodedBranch ==
    ASSUME NEW w \in MipsWord
    PROVE  /\ ops_type(w) \in Branches =>
                /\ mips_decode(w).imm = IMM(w)
                /\ mips_decode(w).Ln = (ops_type(w) \in Linking)
           /\ ops_type(w) \in FloatBranches => mips_decode(w).imm = IMM(w)
<1>1. CASE ops_type(w) \in Branches
  <2>1. mips_decode(w) = DecodeBranch(w, newEmptyInstr(ops_type(w)))
    <3>1. ops_type(w) \notin {X, "J", "JAL"} \cup ImmediateOps
      BY <1>1 DEF Branches, X, ImmediateOps, SignedImmediate, ZeroImmediate, TrapsImmediate
    <3>2. w.op \notin {0, 16, 17}
      BY <1>1, TypeNames
    <3> QED
      BY <1>1, <3>1, <3>2, DecodedAs
  <2>2. ops_type(w) \notin FloatBranches
    BY <1>1 DEF Branches, FloatBranches
  <2> QED
    BY <2>1, <2>2 DEF DecodeBranch, newEmptyInstr
<1>2. CASE ops_type(w) \in FloatBranches
  <2>0. w.op = 17
    BY <1>2, TypeNames
  <2>1. mips_decode(w) = DecodeCop(w, newEmptyInstr(ops_type(w)))
    <3>1. ops_type(w) \notin {X, "J", "JAL"} \cup Branches \cup ImmediateOps
      BY <1>2 DEF Branches, FloatBranches, X, ImmediateOps, SignedImmediate, ZeroImmediate, TrapsImmediate
    <3> QED
      BY <2>0, <3>1, DecodedAs
  <2>2. mips_decode(w) = [newEmptyInstr(ops_type(w)) EXCEPT !.imm = IMM(w)]
    BY <1>2, <2>1 DEF DecodeCop, FloatBranches, newEmptyInstr
  <2>3. ops_type(w) \notin Branches
    BY <1>2 DEF Branches, FloatBranches
  <2> QED
    BY <2>2, <2>3 DEF newEmptyInstr
<1> QED
  BY <1>1, <1>2

\* The index and the link of a decoded jump.
LEMMA DecodedJump ==
    ASSUME NEW w \in MipsWord, ops_type(w) \in Jumps
    PROVE  /\ ops_type(w) \in {"J", "JAL"} => mips_decode(w).imm = IMMU(w)
           /\ mips_decode(w).Ln = (ops_type(w) \in {"JAL", "JALR"})
<1>1. CASE w.op = 0
  <2>1. ops_type(w) \in {"JR", "JALR"}
    BY <1>1, JumpNames
  <2>2. mips_decode(w) = DecodeSpecial(w, newEmptyInstr(ops_type(w)))
    <3>1. ops_type(w) \notin {X, "J", "JAL"} \cup Branches \cup ImmediateOps
      BY <2>1 DEF Branches, X, ImmediateOps, SignedImmediate, ZeroImmediate, TrapsImmediate
    <3> QED
      BY <1>1, <3>1, DecodedAs
  <2>3. DecodeSpecial(w, newEmptyInstr(ops_type(w))).Ln = (ops_type(w) = "JALR")
    <3> DEFINE e == newEmptyInstr(ops_type(w))
    <3>1. e.op \notin Shifted \cup ShiftedBy \cup ThreeOperand \cup IntoHiLo \cup Traps
      BY <2>1 DEF Shifted, ShiftedBy, ThreeOperand, IntoHiLo, Traps, newEmptyInstr
    <3>2. CASE ops_type(w) = "JR"
      BY <3>1, <3>2 DEF DecodeSpecial, newEmptyInstr
    <3>3. CASE ops_type(w) = "JALR"
      BY <3>1, <3>3 DEF DecodeSpecial, newEmptyInstr
    <3> QED
      BY <2>1, <3>2, <3>3
  <2> QED
    BY <2>1, <2>2, <2>3
<1>2. CASE w.op # 0
  <2>1. ops_type(w) \in {"J", "JAL"}
    BY <1>2, JumpNames
  <2>2. mips_decode(w) = DecodeJump(w, newEmptyInstr(ops_type(w)))
    <3>1. ops_type(w) \notin {X} \cup Branches \cup ImmediateOps
      BY <2>1 DEF Branches, X, ImmediateOps, SignedImmediate, ZeroImmediate, TrapsImmediate
    <3>2. w.op \in {2, 3}
      BY <1>2, TypeNames
    <3> QED
      BY <2>1, <3>1, <3>2, DecodedAs
  <2> QED
    BY <2>1, <2>2 DEF DecodeJump, newEmptyInstr
<1> QED
  BY <1>1, <1>2

\* The table of outputs names r31 for the linking operations only.
LEMMA LinkRegister ==
    ASSUME NEW w \in MipsWord
    PROVE  /\ ops_type(w) \in Branches \cup {"J", "JAL"} =>
                (31 \in ops_regs_output(w).regs <=> ops_type(w) \in Linking)
           /\ ops_type(w) = "JR" => 31 \notin ops_regs_output(w).regs
<1>1. ops_type(w) \in Branches \cup {"J", "JAL", "JR"} => ~GivenUp(w) /\ w.op # 17 /\ ~IsNop(w)
  BY TypeNames DEF GivenUp, Branches, Jumps, IsNop, Word, ops_type
<1>2. CASE ops_type(w) \in Branches \cup {"J", "JAL"}
  <2>1. ops_type(w) \notin {X, "JALR", "MFHI", "MFLO", "MTHI", "MTLO"}
                            \cup Shifted \cup ShiftedBy \cup ThreeOperand
                            \cup IntoHiLo \cup Traps \cup TrapsImmediate
    BY <1>2 DEF Branches, X, Shifted, ShiftedBy, ThreeOperand, IntoHiLo, Traps, TrapsImmediate
  <2>2. ops_regs_output(w) = Table(0, IF ops_type(w) \in Linking THEN {31, REG_PC} ELSE {REG_PC})
    <3>1. w.op # 17 /\ ~GivenUp(w) /\ ~IsNop(w)
      BY <1>1, <1>2
    <3>2. ops_type(w) \notin Silent \cup {"JR", "MTC0", "LL", "LWC1", "LDC1", "LWR", "LWU", "LD"}
      BY <1>2 DEF Branches, Silent, Stores
    <3> QED
      BY <1>2, <2>1, <3>1, <3>2 DEF ops_regs_output
  <2>3. ops_type(w) # "JR"
    BY <1>2 DEF Branches
  <2> QED
    BY <2>2, <2>3 DEF Table, REG_PC
<1>3. CASE ops_type(w) = "JR"
  <2>1. ops_regs_output(w) = Table(0, {})
    BY <1>1, <1>3 DEF ops_regs_output, Branches, X, Shifted, ShiftedBy, ThreeOperand, IntoHiLo,
        Traps, TrapsImmediate, Silent
  <2>2. ops_type(w) \notin Branches \cup {"J", "JAL"}
    BY <1>3 DEF Branches
  <2> QED
    BY <2>1, <2>2 DEF Table
<1> QED
  BY <1>2, <1>3

\* The parts of SameBranches, for any word.
LEMMA BranchesSame == \A w \in MipsWord : SameBranches(w)
<1> SUFFICES ASSUME NEW w \in MipsWord PROVE SameBranches(w)
  OBVIOUS
<1> DEFINE op == ops_type(w)
           ins == mips_decode(w)
<1>1. (op \in Branches \cup FloatBranches) = (ops_BranchOffset(w) # NoOffset)
  BY TypeNames, Offsets DEF ops_BranchOffset
<1>2. (op \in Jumps) = (ops_JumpAddress(w) # NoAddress)
  BY TypeNames, Offsets DEF ops_JumpAddress, NoAddress
<1>3. op \in Branches \cup FloatBranches => ins.imm = ops_BranchOffset(w)
  BY TypeNames, DecodedBranch DEF ops_BranchOffset
<1>4. op \in {"J", "JAL"} => 4 * ins.imm = ops_JumpAddress(w)
  <2> SUFFICES ASSUME op \in {"J", "JAL"} PROVE 4 * ins.imm = ops_JumpAddress(w)
    OBVIOUS
  <2>1. op \in Jumps /\ w.op \in {2, 3}
    BY TypeNames, JumpNames DEF Jumps
  <2> QED
    BY <2>1, DecodedJump DEF ops_JumpAddress
<1>5. op \in Branches \cup Jumps => ins.Ln = (31 \in ops_regs_output(w).regs \/ op = "JALR")
  <2>1. CASE op \in Branches
    BY <2>1, DecodedBranch, LinkRegister DEF Branches
  <2>2. CASE op \in Jumps
    BY <2>2, DecodedJump, LinkRegister DEF Jumps, Linking
  <2> QED
    BY <2>1, <2>2
<1> QED
  BY <1>1, <1>2, <1>3, <1>4, <1>5 DEF SameBranches

\* ops_type, ops_BranchOffset, ops_JumpAddress and mips_decode agree on every
\* word: it is a branch to all of them or to none, at the same distance; it is a
\* jump to all of them or to none, to the same address; and r31 is listed as
\* written just when the decoded record links (JALR lists its rd).  This holds of
\* any behaviour along which the word has fields of the width they are given.
THEOREM BranchesAgree == [](word \in MipsWord) => []ClassifiersAgree
<1>1. word \in MipsWord => ClassifiersAgree
  BY BranchesSame DEF ClassifiersAgree
<1> QED
  BY <1>1, PTL

-----------------------------------------------------------------------------
\* The arms of the two register tables.

\* The branches and sums that the table of inputs reads rt for.
Pairs == {"BEQ", "BNE", "BEQL", "BNEL", "DADDI", "DADDIU"}

\* What the table of inputs answers, by the class of the operation.
LEMMA InputArms ==
    ASSUME NEW w, ~GivenUp(w), w.op # 17, ~IsNop(w), NEW op, op = ops_type(w)
    PROVE  /\ op \in Shifted => ops_regs_input(w) = Table(0, {w.rt})
           /\ op \in ShiftedBy \cup ThreeOperand \cup IntoHiLo \cup Traps \cup Pairs \cup Stores =>
                ops_regs_input(w) = Table(0, {w.rs, w.rt})
           /\ op \in (Branches \cup ImmediateOps \cup Loads \cup {"JR", "JALR"}) \ Pairs =>
                ops_regs_input(w) = Table(0, {w.rs})
<1>1. CASE op \in Shifted
  BY <1>1 DEF ops_regs_input, Shifted, ShiftedBy, ThreeOperand, IntoHiLo, Traps, Pairs, Stores,
      Branches, ImmediateOps, SignedImmediate, ZeroImmediate, TrapsImmediate, Loads, X
<1>2. CASE op \in ShiftedBy \cup ThreeOperand \cup IntoHiLo \cup Traps \cup Pairs
  BY <1>2 DEF ops_regs_input, Shifted, ShiftedBy, ThreeOperand, IntoHiLo, Traps, Pairs, Stores,
      Branches, ImmediateOps, SignedImmediate, ZeroImmediate, TrapsImmediate, Loads, X
<1>3. CASE op \in Stores
  BY <1>3 DEF ops_regs_input, Shifted, ShiftedBy, ThreeOperand, IntoHiLo, Traps, Pairs, Stores,
      Branches, ImmediateOps, SignedImmediate, ZeroImmediate, TrapsImmediate, Loads, X
<1>4. CASE op \in (Branches \cup ImmediateOps \cup Loads \cup {"JR", "JALR"}) \ Pairs
  BY <1>4 DEF ops_regs_input, Shifted, ShiftedBy, ThreeOperand, IntoHiLo, Traps, Pairs, Stores,
      Branches, ImmediateOps, SignedImmediate, ZeroImmediate, TrapsImmediate, Loads, X
<1> QED
  BY <1>1, <1>2, <1>3, <1>4

\* What the table of outputs answers, by the class of the operation.
LEMMA OutputArms ==
    ASSUME NEW w, ~GivenUp(w), w.op # 17, ~IsNop(w), NEW op, op = ops_type(w)
    PROVE  /\ op \in Shifted \cup ShiftedBy \cup ThreeOperand \cup {"JALR"} =>
                ops_regs_output(w) = Table(0, {w.rd})
           /\ op \in (SignedImmediate \cup ZeroImmediate \cup {"LUI"} \cup Loads) \ NamedOtherwise =>
                ops_regs_output(w) = Table(0, {w.rt})
<1>1. CASE op \in Shifted \cup ShiftedBy \cup ThreeOperand \cup {"JALR"}
  BY <1>1 DEF ops_regs_output, Shifted, ShiftedBy, ThreeOperand, IntoHiLo, Traps, Branches,
      SignedImmediate, ZeroImmediate, TrapsImmediate, Loads, X, Silent, Stores, NamedOtherwise
<1>2. CASE op \in (SignedImmediate \cup ZeroImmediate \cup {"LUI"} \cup Loads) \ NamedOtherwise
  BY <1>2 DEF ops_regs_output, Shifted, ShiftedBy, ThreeOperand, IntoHiLo, Traps, Branches,
      SignedImmediate, ZeroImmediate, TrapsImmediate, Loads, X, Silent, Stores, NamedOtherwise
<1> QED
  BY <1>1, <1>2

\* A record that was only named has no registers to be listed.
LEMMA NothingNamed ==
    ASSUME NEW w, NEW op, mips_decode(w) = newEmptyInstr(op)
    PROVE  NamesRegisters(w)
<1>1. /\ mips_decode(w).Rd1 = NOT_USED
      /\ mips_decode(w).R1 = NOT_USED
      /\ mips_decode(w).R2 = NOT_USED
  BY EmptyInstr
<1> QED
  BY <1>1 DEF NamesRegisters

-----------------------------------------------------------------------------
\* Words of operation code 0 (SPECIAL) and 1 (REGIMM).

\* No operation of SPECIAL has an immediate, nor does one branch.
LEMMA SpecialKinds ==
    \A n \in 0 .. 63 : Special[n + 1] \notin Branches \cup {"J", "JAL"} \cup ImmediateOps
BY SMTT(60) DEF Special, Branches, ImmediateOps, SignedImmediate, ZeroImmediate, TrapsImmediate, X

\* Every operation of REGIMM is a branch or a trap with an immediate.
LEMMA RegimmKinds ==
    \A n \in 0 .. 31 : Regimm[n + 1] \in Branches \cup TrapsImmediate \cup {X}
BY SMTT(60) DEF Regimm, Branches, TrapsImmediate, X

\* The register tables name the operands of SPECIAL words.
LEMMA SpecialNamed ==
    ASSUME NEW w \in MipsWord, w.op = 0
    PROVE  NamesRegisters(w)
<1> DEFINE op == ops_type(w)
           e == newEmptyInstr(op)
<1>1. w.fn \in 0 .. 63
  BY DEF MipsWord
<1>2. CASE IsNop(w)
  <2>1. op = "NO_OP"
    BY <1>2 DEF ops_type
  <2>2. mips_decode(w) = DecodeSpecial(w, e)
    <3>1. op \notin {X, "J", "JAL"} \cup Branches \cup ImmediateOps
      BY <2>1 DEF Branches, X, ImmediateOps, SignedImmediate, ZeroImmediate, TrapsImmediate
    <3> QED
      BY <3>1, DecodedAs
  <2>3. e.op = "NO_OP"
    BY <2>1, EmptyInstr
  <2>4. DecodeSpecial(w, e) = e
    <3> HIDE DEF e
    <3> QED
      BY <2>3 DEF DecodeSpecial, Shifted, ShiftedBy, ThreeOperand, IntoHiLo, Traps
  <2> QED
    BY <2>2, <2>4, NothingNamed
<1>3. CASE ~IsNop(w) /\ op # X /\ op \notin NamedOtherwise
  <2>1. op = Special[w.fn + 1]
    BY <1>3 DEF ops_type
  <2>2. op \notin Branches \cup {"J", "JAL"} \cup ImmediateOps
    BY <1>1, <2>1, SpecialKinds
  <2>3. mips_decode(w) = DecodeSpecial(w, e)
    BY <1>3, <2>2, DecodedAs
  <2>4. ~GivenUp(w) /\ w.op # 17
    BY DEF GivenUp
  <2>5. e.op = op
    BY EmptyInstr
  <2> HIDE DEF op
  <2>6. CASE op \in Shifted
    <3>1. /\ DecodeSpecial(w, e).Rd1 = w.rd
          /\ DecodeSpecial(w, e).R1 = w.rt
          /\ DecodeSpecial(w, e).R2 = NOT_USED
      BY <2>5, <2>6 DEF DecodeSpecial, newEmptyInstr, Shifted, ShiftedBy, ThreeOperand,
          IntoHiLo, Traps
    <3>2. ops_regs_input(w) = Table(0, {w.rt}) /\ ops_regs_output(w) = Table(0, {w.rd})
      BY <1>3, <2>4, <2>6, InputArms, OutputArms DEF op
    <3> QED
      BY <2>3, <3>1, <3>2 DEF NamesRegisters, Table
  <2>7. CASE op \in ShiftedBy \cup ThreeOperand
    <3>1. /\ DecodeSpecial(w, e).Rd1 = w.rd
          /\ DecodeSpecial(w, e).R1 \in {w.rs, w.rt}
          /\ DecodeSpecial(w, e).R2 \in {w.rs, w.rt}
      BY <2>5, <2>7 DEF DecodeSpecial, newEmptyInstr, Shifted, ShiftedBy, ThreeOperand,
          IntoHiLo, Traps
    <3>2. ops_regs_input(w) = Table(0, {w.rs, w.rt}) /\ ops_regs_output(w) = Table(0, {w.rd})
      BY <1>3, <2>4, <2>7, InputArms, OutputArms DEF op
    <3> QED
      BY <2>3, <3>1, <3>2 DEF NamesRegisters, Table
  <2>8. CASE op \in IntoHiLo \cup Traps
    <3>1. /\ DecodeSpecial(w, e).Rd1 = NOT_USED
          /\ DecodeSpecial(w, e).R1 = w.rs
          /\ DecodeSpecial(w, e).R2 = w.rt
      BY <2>5, <2>8 DEF DecodeSpecial, newEmptyInstr, Shifted, ShiftedBy, ThreeOperand,
          IntoHiLo, Traps
    <3>2. ops_regs_input(w) = Table(0, {w.rs, w.rt})
      BY <1>3, <2>4, <2>8, InputArms DEF op
    <3> QED
      BY <2>3, <3>1, <3>2 DEF NamesRegisters, Table
  <2>9. CASE op \in {"JR", "JALR"}
    <3>1. /\ DecodeSpecial(w, e).R1 = w.rs /\ DecodeSpecial(w, e).R2 = NOT_USED
          /\ DecodeSpecial(w, e).Rd1 = IF op = "JALR" THEN w.rd ELSE NOT_USED
      BY <2>5, <2>9 DEF DecodeSpecial, newEmptyInstr, Shifted, ShiftedBy, ThreeOperand,
          IntoHiLo, Traps
    <3>2. /\ ops_regs_input(w) = Table(0, {w.rs})
          /\ op = "JALR" => ops_regs_output(w) = Table(0, {w.rd})
      BY <1>3, <2>4, <2>9, InputArms, OutputArms DEF op, Pairs
    <3> QED
      BY <2>3, <3>1, <3>2 DEF NamesRegisters, Table
  <2>10. CASE op \notin {"JR", "JALR"} \cup Shifted \cup ShiftedBy \cup ThreeOperand
                       \cup IntoHiLo \cup Traps
    <3>1. op \notin {"MFHI", "MFLO", "MTHI", "MTLO"}
      BY <1>3 DEF NamedOtherwise
    <3>2. DecodeSpecial(w, e) = e
      <4> HIDE DEF e
      <4> QED
        BY <2>5, <2>10, <3>1 DEF DecodeSpecial
    <3> QED
      BY <2>3, <3>2, NothingNamed
  <2> QED
    BY <2>6, <2>7, <2>8, <2>9, <2>10
<1>4. CASE ops_type(w) \in NamedOtherwise \cup {X}
  BY <1>4 DEF NamesRegisters
<1> QED
  BY <1>2, <1>3, <1>4

-----------------------------------------------------------------------------
\* Branches, immediates, accesses and jumps.

\* They name the operands of branches, BLEZ excepted.
LEMMA BranchNamed ==
    ASSUME NEW w \in MipsWord, ops_type(w) \in Branches
    PROVE  NamesRegisters(w)
<1> DEFINE op == ops_type(w)
           e == newEmptyInstr(op)
<1>1. op \notin {X, "J", "JAL", "JR", "JALR"} \cup ImmediateOps
  BY DEF Branches, X, ImmediateOps, SignedImmediate, ZeroImmediate, TrapsImmediate
<1>2. w.op \notin {0, 16, 17} /\ ~IsNop(w) /\ ~GivenUp(w)
  BY TypeNames DEF IsNop, Word, GivenUp
<1>3. mips_decode(w) = DecodeBranch(w, e)
  BY <1>1, <1>2, DecodedAs
<1>4. e.op = op
  BY EmptyInstr
<1>5. /\ DecodeBranch(w, e).Rd1 = NOT_USED /\ DecodeBranch(w, e).R1 = w.rs
      /\ DecodeBranch(w, e).R2 =
           IF op \in {"BEQ", "BNE", "BEQL", "BNEL", "BLEZ"} THEN w.rt ELSE NOT_USED
  <2> HIDE DEF op
  <2> QED
    BY <1>4 DEF DecodeBranch, newEmptyInstr
<1>6. CASE op \in Pairs
  BY <1>2, <1>3, <1>5, <1>6, InputArms DEF NamesRegisters, Table
<1>7. CASE op \notin Pairs
  <2>1. op \in NamedOtherwise \/ op \notin {"BEQ", "BNE", "BEQL", "BNEL", "BLEZ"}
    BY <1>7 DEF NamedOtherwise, Pairs
  <2>2. ops_regs_input(w) = Table(0, {w.rs})
    BY <1>2, <1>7, InputArms
  <2> QED
    BY <1>3, <1>5, <2>1, <2>2 DEF NamesRegisters, Table
<1> QED
  BY <1>6, <1>7

\* They name the operands of arithmetic and traps with an immediate.
LEMMA ImmediateNamed ==
    ASSUME NEW w \in MipsWord, ops_type(w) \in ImmediateOps, w.op \notin {0, 16, 17}
    PROVE  NamesRegisters(w)
<1> DEFINE op == ops_type(w)
           e == newEmptyInstr(op)
<1>1. op \notin {X, "J", "JAL", "JR", "JALR"} \cup Branches \cup NamedOtherwise
  BY DEF Branches, X, ImmediateOps, SignedImmediate, ZeroImmediate, TrapsImmediate, NamedOtherwise
<1>2. ~IsNop(w) /\ ~GivenUp(w)
  BY DEF IsNop, Word, GivenUp
<1>3. mips_decode(w) = DecodeImmediate(w, e)
  BY <1>1, DecodedAs
<1>4. e.op = op
  BY EmptyInstr
<1>5. op \in Pairs => ops_regs_input(w) = Table(0, {w.rs, w.rt})
  BY <1>2, InputArms
<1>6. op \notin Pairs => ops_regs_input(w) = Table(0, {w.rs})
  BY <1>2, InputArms
<1>7. op \notin TrapsImmediate => ops_regs_output(w) = Table(0, {w.rt})
  BY <1>1, <1>2, OutputArms DEF ImmediateOps
<1>8. /\ DecodeImmediate(w, e).R1 \in {w.rs, NOT_USED}
      /\ DecodeImmediate(w, e).R2 = NOT_USED
      /\ DecodeImmediate(w, e).Rd1 = IF op \in TrapsImmediate THEN NOT_USED ELSE w.rt
  <2> HIDE DEF op
  <2>1. CASE op = "LUI"
    BY <1>4, <2>1 DEF DecodeImmediate, newEmptyInstr, TrapsImmediate, ZeroImmediate
  <2>2. CASE op \in ZeroImmediate
    BY <1>4, <2>2 DEF DecodeImmediate, newEmptyInstr, TrapsImmediate, ZeroImmediate
  <2>3. CASE op \in TrapsImmediate
    BY <1>4, <2>3 DEF DecodeImmediate, newEmptyInstr, TrapsImmediate, ZeroImmediate
  <2>4. CASE op \in SignedImmediate
    BY <1>4, <2>4 DEF DecodeImmediate, newEmptyInstr, TrapsImmediate, ZeroImmediate,
        SignedImmediate
  <2> QED
    BY <2>1, <2>2, <2>3, <2>4 DEF op, ImmediateOps
<1> QED
  BY <1>3, <1>5, <1>6, <1>7, <1>8 DEF NamesRegisters, Table

\* They name the operands of every word whose operation code is no escape.
LEMMA MajorNamed ==
    ASSUME NEW w \in MipsWord, w.op \notin {0, 1, 16, 17}
    PROVE  NamesRegisters(w)
<1> DEFINE op == ops_type(w)
           e == newEmptyInstr(op)
<1>1. CASE op \in Branches
  BY <1>1, BranchNamed
<1>2. CASE op \in ImmediateOps
  BY <1>2, ImmediateNamed
<1>3. CASE op \in {"J", "JAL"}
  <2>1. op \notin {X} \cup Branches \cup ImmediateOps
    BY <1>3 DEF Branches, X, ImmediateOps, SignedImmediate, ZeroImmediate, TrapsImmediate
  <2>2. mips_decode(w) = DecodeJump(w, e)
    BY <1>3, <2>1, DecodedAs
  <2>3. /\ DecodeJump(w, e).Rd1 = NOT_USED
        /\ DecodeJump(w, e).R1 = NOT_USED
        /\ DecodeJump(w, e).R2 = NOT_USED
    BY DEF DecodeJump, newEmptyInstr
  <2> QED
    BY <2>2, <2>3 DEF NamesRegisters
<1>4. CASE op \notin {X, "J", "JAL"} \cup Branches \cup ImmediateOps \cup NamedOtherwise
  <2>1. mips_decode(w) = DecodeMemory(w, e)
    BY <1>4, DecodedAs
  <2>2. ~IsNop(w) /\ ~GivenUp(w)
    BY DEF IsNop, Word, GivenUp
  <2>3. e.op = op
    BY EmptyInstr
  <2> HIDE DEF op
  <2>4. CASE op \in Loads
    <3>1. /\ DecodeMemory(w, e).Rd1 = w.rt
          /\ DecodeMemory(w, e).R1 = w.rs
          /\ DecodeMemory(w, e).R2 = NOT_USED
      BY <2>3, <2>4 DEF DecodeMemory, newEmptyInstr, Loads, Stores
    <3>2. op \notin Pairs
      BY <2>4 DEF Loads, Pairs
    <3>3. ops_regs_input(w) = Table(0, {w.rs}) /\ ops_regs_output(w) = Table(0, {w.rt})
      BY <1>4, <2>2, <2>4, <3>2, InputArms, OutputArms DEF op
    <3> QED
      BY <2>1, <3>1, <3>3 DEF NamesRegisters, Table
  <2>5. CASE op \in Stores
    <3>1. /\ DecodeMemory(w, e).Rd1 = NOT_USED
          /\ DecodeMemory(w, e).R1 = w.rs
          /\ DecodeMemory(w, e).R2 = w.rt
      BY <2>3, <2>5 DEF DecodeMemory, newEmptyInstr, Loads, Stores
    <3>2. ops_regs_input(w) = Table(0, {w.rs, w.rt})
      BY <2>2, <2>5, InputArms DEF op
    <3> QED
      BY <2>1, <3>1, <3>2 DEF NamesRegisters, Table
  <2>6. CASE op \notin Loads \cup Stores
    <3>1. DecodeMemory(w, e) = e
      <4> HIDE DEF e
      <4> QED
        BY <2>3, <2>6 DEF DecodeMemory
    <3> QED
      BY <2>1, <3>1, NothingNamed
  <2> QED
    BY <2>4, <2>5, <2>6
<1>5. CASE op \in NamedOtherwise \cup {X}
  BY <1>5 DEF NamesRegisters
<1> QED
  BY <1>1, <1>2, <1>3, <1>4, <1>5

\* They name the operands of REGIMM words.
LEMMA RegimmNamed ==
    ASSUME NEW w \in MipsWord, w.op = 1
    PROVE  NamesRegisters(w)
<1>1. ops_type(w) = Regimm[w.rt + 1] /\ w.rt \in 0 .. 31
  BY DEF ops_type, IsNop, Word, MipsWord
<1>2. ops_type(w) \in Branches \cup TrapsImmediate \cup {X}
  BY <1>1, RegimmKinds
<1>3. CASE ops_type(w) = X
  BY <1>3 DEF NamesRegisters
<1> QED
  BY <1>2, <1>3, BranchNamed, ImmediateNamed DEF ImmediateOps

\* The operations that have an arm of their own in one of the register tables.
ListedOps ==
  {X, "JR", "JALR", "J", "JAL", "MFHI", "MFLO", "MTHI", "MTLO", "MFC0", "MTC0", "LWR",
   "LWU", "LD", "LDC1", "LL", "LWC1", "SC", "SCD", "DADDI", "DADDIU"}
  \cup Shifted \cup ShiftedBy \cup ThreeOperand \cup IntoHiLo \cup Traps
  \cup TrapsImmediate \cup Branches \cup Silent

\* The first arm of both tables: the words they give up on.
LEMMA GivenUpArm ==
    ASSUME NEW w, ~IsNop(w), GivenUp(w), ops_type(w) \notin ListedOps
    PROVE  ops_regs_output(w) = Table(2, ALL)
BY DEF ops_regs_output, ListedOps

\* The second arm: coprocessor 1 has tables of its own.
LEMMA CoprocessorArm ==
    ASSUME NEW w, ~IsNop(w), ~GivenUp(w), w.op = 17, ops_type(w) \notin ListedOps
    PROVE  ops_regs_output(w) = FloatOut(w) /\ ops_regs_input(w) = FloatIn(w)
<1>1. ops_regs_output(w) = FloatOut(w)
  BY DEF ops_regs_output, ListedOps
<1>2. ops_regs_input(w) = FloatIn(w)
  BY DEF ops_regs_input, ListedOps, Silent, Branches
<1> QED
  BY <1>1, <1>2

\* Coprocessor 0: the moves are slips, the tables give up on the others.
LEMMA Cop0Named ==
    ASSUME NEW w \in MipsWord, w.op = 16
    PROVE  NamesRegisters(w)
<1>1. ops_type(w) = Cop0(w)
  BY DEF ops_type, IsNop, Word
<1>2. Cop0(w) \in {"MFC0", "MTC0", X, "TLBR", "TLBWI", "TLBWR", "TLBP", "ERET"}
  BY DEF Cop0
<1>3. CASE Cop0(w) \in {"MFC0", "MTC0", X}
  BY <1>1, <1>3 DEF NamesRegisters, NamedOtherwise
<1>4. CASE Cop0(w) \in {"TLBR", "TLBWI", "TLBWR", "TLBP", "ERET"}
  <2>1. GivenUp(w)
    BY <1>1, <1>4 DEF GivenUp
  <2>2. ops_regs_output(w) = Table(2, ALL)
    BY <1>1, <1>4, <2>1, GivenUpArm DEF ListedOps, Branches, X, Shifted, ShiftedBy,
        ThreeOperand, IntoHiLo, Traps, TrapsImmediate, Silent, Stores, IsNop, Word
  <2> QED
    BY <2>2 DEF NamesRegisters, Table
<1> QED
  BY <1>2, <1>3, <1>4

-----------------------------------------------------------------------------
\* Coprocessor 1: moves, branches, arithmetic, compares and conversions.  Only
\* sums and differences have operands.

\* The moves between the processor and coprocessor 1, and what has operands.
Moves == {"MFC1", "DMFC1", "CFC1", "MTC1", "DMTC1", "CTC1"}
AddSub == {"ADD_S", "SUB_S", "ADD_D", "SUB_D"}

\* What no arithmetic, compare or conversion is.
RemainingOps == ListedOps \cup ImmediateOps \cup FloatBranches \cup Moves

\* Arithmetic and compares are none of the other operations.
LEMMA FloatKinds ==
    ASSUME NEW n \in 1 .. 16, NEW f \in {"S", "D"}
    PROVE  /\ Arith[f][n] \notin RemainingOps
           /\ Compare[f][n] \notin RemainingOps \cup AddSub
           /\ Arith[f][n] \in AddSub => n \in {1, 2}
BY SMTT(60) DEF Arith, Compare, AddSub, RemainingOps, Moves, ListedOps, ImmediateOps, SignedImmediate,
    ZeroImmediate, TrapsImmediate, Branches, X, Shifted, ShiftedBy, ThreeOperand, IntoHiLo,
    Traps, Silent, Stores, FloatBranches

\* Nor are conversions, unless there is none.
LEMMA ConvertKinds ==
    ASSUME NEW w \in MipsWord, NEW f \in {"S", "D", "W", "L"}
    PROVE  Convert(w, f) \notin (RemainingOps \cup AddSub) \ {X}
BY SMTT(60) DEF Convert, AddSub, RemainingOps, Moves, ListedOps, ImmediateOps,
    SignedImmediate, ZeroImmediate, TrapsImmediate, Branches, X, Shifted, ShiftedBy,
    ThreeOperand, IntoHiLo, Traps, Silent, Stores, FloatBranches

\* The same for whatever a word of format S, D, W or L names.
LEMMA FloatOpKinds ==
    ASSUME NEW w \in MipsWord, NEW f \in {"S", "D", "W", "L"}, Float(w, f) # X
    PROVE  /\ Float(w, f) \notin RemainingOps
           /\ Float(w, f) \in AddSub => f \in {"S", "D"} /\ w.fn \in {0, 1}
<1>1. w.fn \in 0 .. 63
  BY DEF MipsWord
<1>2. CASE w.fn \in 0 .. 15 /\ f \in {"S", "D"}
  <2>1. Float(w, f) = Arith[f][w.fn + 1]
    BY <1>2 DEF Float
  <2> QED
    BY <1>2, <2>1, FloatKinds
<1>3. CASE w.fn \in 48 .. 63 /\ f \in {"S", "D"}
  <2>1. Float(w, f) = Compare[f][w.fn - 47]
    BY <1>3 DEF Float
  <2> QED
    BY <1>3, <2>1, FloatKinds
<1>4. CASE ~(w.fn \in 0 .. 15 /\ f \in {"S", "D"}) /\ ~(w.fn \in 48 .. 63 /\ f \in {"S", "D"})
  <2>1. Float(w, f) = Convert(w, f)
    BY <1>4 DEF Float
  <2> QED
    BY <2>1, ConvertKinds
<1> QED
  BY <1>2, <1>3, <1>4

\* The register tables name the operands of coprocessor 1.
LEMMA Cop1Named ==
    ASSUME NEW w \in MipsWord, w.op = 17
    PROVE  NamesRegisters(w)
<1> DEFINE op == ops_type(w)
           e == newEmptyInstr(op)
<1>1. op = Cop1(w)
  BY DEF ops_type, IsNop, Word
<1>2. w.rs \in 0 .. 31 /\ w.rt \in 0 .. 31
  BY DEF MipsWord
<1>3. ~IsNop(w)
  BY DEF IsNop, Word
<1>4. e.op = op
  BY EmptyInstr
<1>5. CASE w.rs \in {0, 1, 2, 4, 5, 6}
  <2>1. op \in IF w.rs \in {0, 1, 2} THEN {"MFC1", "DMFC1", "CFC1"} ELSE {"MTC1", "DMTC1", "CTC1"}
    <3>1. CASE w.rs \in {0, 1, 2}
      <4>1. op = <<"MFC1", "DMFC1", "CFC1">>[w.rs + 1]
        BY <1>1, <3>1 DEF Cop1
      <4> QED
        BY <3>1, <4>1
    <3>2. CASE w.rs \in {4, 5, 6}
      <4>1. op = <<"MTC1", "DMTC1", "CTC1">>[w.rs - 3]
        BY <1>1, <3>2 DEF Cop1
      <4> QED
        BY <3>2, <4>1
    <3> QED
      BY <1>5, <3>1, <3>2
  <2>2. op \notin ListedOps \cup Branches \cup ImmediateOps
    BY <2>1 DEF ListedOps, ImmediateOps, SignedImmediate, ZeroImmediate, TrapsImmediate,
        Branches, X, Shifted, ShiftedBy, ThreeOperand, IntoHiLo, Traps, Silent, Stores
  <2>3. mips_decode(w) = DecodeCop(w, e)
    BY <2>2, DecodedAs DEF ListedOps
  <2>4. ~GivenUp(w)
    BY <1>5 DEF GivenUp
  <2>5. ops_regs_output(w) = FloatOut(w) /\ ops_regs_input(w) = FloatIn(w)
    BY <1>3, <2>2, <2>4, CoprocessorArm
  <2> HIDE DEF op
  <2>6. CASE w.rs \in {0, 1, 2}
    <3>1. FloatOut(w) = Table(0, {w.rt}) /\ FloatIn(w) = Table(0, {REG_FP + w.rd})
      BY <2>6 DEF FloatOut, FloatIn, FloatKnown
    <3>2. /\ DecodeCop(w, e).Rd1 = w.rt
          /\ DecodeCop(w, e).R1 = REG_FP + w.rd
          /\ DecodeCop(w, e).R2 = NOT_USED
      BY <1>4, <2>1, <2>6 DEF DecodeCop, newEmptyInstr, FloatBranches
    <3> QED
      BY <2>3, <2>5, <3>1, <3>2 DEF NamesRegisters, Table
  <2>7. CASE w.rs \in {4, 5, 6}
    <3>1. FloatOut(w) = Table(0, {REG_FP + w.rd}) /\ FloatIn(w) = Table(0, {w.rt})
      BY <2>7 DEF FloatOut, FloatIn, FloatKnown
    <3>2. /\ DecodeCop(w, e).Rd1 = REG_FP + w.rd
          /\ DecodeCop(w, e).R1 = w.rt
          /\ DecodeCop(w, e).R2 = NOT_USED
      <4>1. op \in {"MTC1", "DMTC1", "CTC1"}
        BY <2>1, <2>7
      <4>2. op \notin {"MFC0", "MTC0", "MFC1", "DMFC1", "CFC1"} \cup FloatBranches
        BY <4>1 DEF FloatBranches
      <4>3. DecodeCop(w, e) = [e EXCEPT !.Rd1 = REG_FP + w.rd, !.R1 = w.rt]
        <5> HIDE DEF e
        <5> QED
          BY <1>4, <4>1, <4>2 DEF DecodeCop
      <4> QED
        BY <4>3, ZenonT(40) DEF newEmptyInstr
    <3> QED
      BY <2>3, <2>5, <3>1, <3>2 DEF NamesRegisters, Table
  <2> QED
    BY <1>5, <2>6, <2>7
<1>6. CASE w.rs = 8
  <2>1. op \in FloatBranches
    BY <1>6, TypeNames
  <2>2. op \notin ListedOps \cup Branches \cup ImmediateOps \cup Moves
    BY <2>1 DEF ListedOps, ImmediateOps, SignedImmediate, ZeroImmediate, TrapsImmediate,
        Branches, X, Shifted, ShiftedBy, ThreeOperand, IntoHiLo, Traps, Silent, Stores,
        FloatBranches, Moves
  <2>3. mips_decode(w) = DecodeCop(w, e)
    BY <2>2, DecodedAs DEF ListedOps
  <2> HIDE DEF op
  <2>4. /\ DecodeCop(w, e).Rd1 = NOT_USED
        /\ DecodeCop(w, e).R1 = NOT_USED
        /\ DecodeCop(w, e).R2 = NOT_USED
    BY <1>4, <2>1, <2>2 DEF DecodeCop, newEmptyInstr, ListedOps, Moves
  <2> QED
    BY <2>3, <2>4 DEF NamesRegisters
<1>7. ASSUME NEW f \in {"S", "D", "W", "L"}, op = Float(w, f), op # X,
             w.rs \notin {0, 1, 2, 4, 5, 6, 8},
             f \in {"S", "D"} => w.rs \in {16, 17}
      PROVE  NamesRegisters(w)
  <2>1. op \notin RemainingOps \cup Branches
    BY <1>7, FloatOpKinds DEF RemainingOps, ListedOps
  <2>2. mips_decode(w) = DecodeCop(w, e)
    BY <2>1, DecodedAs DEF RemainingOps, ListedOps
  <2>3. CASE op \in AddSub
    <3>1. w.rs \in {16, 17} /\ w.fn \in {0, 1}
      BY <1>7, <2>3, FloatOpKinds
    <3>2. ~GivenUp(w)
      BY <3>1 DEF GivenUp
    <3>3. ops_regs_output(w) = FloatOut(w) /\ ops_regs_input(w) = FloatIn(w)
      BY <1>3, <2>1, <3>2, CoprocessorArm DEF RemainingOps
    <3>4. /\ FloatOut(w) = Table(0, {REG_FP + w.sa})
          /\ FloatIn(w) = Table(0, {REG_FP + w.rt, REG_FP + w.rd})
      BY <3>1 DEF FloatOut, FloatIn, FloatKnown
    <3> HIDE DEF op
    <3>5. DecodeCop(w, e) = DecodeFloat(w, e)
      BY <1>4, <2>1 DEF DecodeCop, RemainingOps, Moves, ListedOps
    <3>6. /\ DecodeFloat(w, e).Rd1 = REG_FP + w.sa
          /\ DecodeFloat(w, e).R1 = REG_FP + w.rd
          /\ DecodeFloat(w, e).R2 = REG_FP + w.rt
      BY <1>4, <2>3 DEF DecodeFloat, newEmptyInstr, AddSub
    <3> QED
      BY <2>2, <3>3, <3>4, <3>5, <3>6 DEF NamesRegisters, Table
  <2>4. CASE op \notin AddSub
    <3>1. DecodeCop(w, e) = e
      <4> HIDE DEF op, e
      <4> QED
        BY <1>4, <2>1, <2>4 DEF DecodeCop, DecodeFloat, RemainingOps, Moves, ListedOps, AddSub
    <3> QED
      BY <2>2, <3>1, NothingNamed
  <2> QED
    BY <2>3, <2>4
<1>8. CASE w.rs \notin {0, 1, 2, 4, 5, 6, 8} /\ op # X
  <2>1. PICK f \in {"S", "D", "W", "L"} :
          op = Float(w, f) /\ (f \in {"S", "D"} => w.rs \in {16, 17})
    BY <1>1, <1>8 DEF Cop1
  <2> QED
    BY <1>7, <1>8, <2>1
<1>9. CASE op = X
  BY <1>9 DEF NamesRegisters
<1> QED
  BY <1>5, <1>6, <1>8, <1>9

\* The words of all operation codes together.
LEMMA RegistersNamed == \A w \in MipsWord : NamesRegisters(w)
<1> SUFFICES ASSUME NEW w \in MipsWord PROVE NamesRegisters(w)
  OBVIOUS
<1>1. CASE w.op = 0
  BY <1>1, SpecialNamed
<1>2. CASE w.op = 1
  BY <1>2, RegimmNamed
<1>3. CASE w.op = 16
  BY <1>3, Cop0Named
<1>4. CASE w.op = 17
  BY <1>4, Cop1Named
<1>5. CASE w.op \notin {0, 1, 16, 17}
  BY <1>5, MajorNamed
<1> QED
  BY <1>1, <1>2, <1>3, <1>4, <1>5

\* Every register the decoded record of a word reads or writes is named by
\* ops_regs_input or ops_regs_output, for all operations these tables know,
\* apart from the slips listed in NamedOtherwise.
THEOREM RegistersAgree == [](word \in MipsWord) => []TablesAgree
<1>1. word \in MipsWord => TablesAgree
  BY RegistersNamed DEF TablesAgree
<1> QED
  BY <1>1, PTL

=============================================================================
