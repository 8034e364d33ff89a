------------------------------ MODULE Branching ------------------------------
(***************************************************************************)
(* The passes that work on a whole segment: Translate_CountRegister        *)
(* (CountReg.c), Translate_Branch and Translate_InterCode_Branch           *)
(* (Branching.c).                                                          *)
(*                                                                         *)
(* A segment seg has the words up to and including its branch (words), the *)
(* word in the delay slot behind them (delay), whether its first word is   *)
(* the delay slot of the segment in front (second: SEG_SANDWICH, SEG_END)  *)
(* and the offset Translate_Branch works with, in words from the end of    *)
(* the segment: the one in the branch, but in BLTZAL, BLTZALL, BGEZAL and  *)
(* BGEZALL the one in bytes of the literal with the return address, which  *)
(* addLiteral() has written over it (-4 * n for a new global literal n of  *)
(* a SEG_SANDWICH, 4 * n for one found there, else 0 or 4).  A list of     *)
(* instructions is code; the places branches inside the segment go to are  *)
(* called "head", "second" and "after".                                    *)
(***************************************************************************)
EXTENDS Memory

REG_COUNT == REG_CO + 9

IsControl(i) == i.op \in Branches \cup FloatBranches \cup Jumps
\* instruction > DR_NO_OP
Active(op) == op \notin {"NO_OP", "UNKNOWN", "INVALID"}

\* The indices from n on at which a branch stands, and the first of them.
ControlFrom(code, n) == {k \in n..Len(code) : IsControl(code[k])}
FirstOf(S) == CHOOSE k \in S : \A l \in S : k <= l

-----------------------------------------------------------------------------
\* COUNT.  Every MFC0 of it is followed by an update with the number of its word
\* in the segment; what is then left of the length is added in front of the branch,
\* and cc_interrupt is called when COUNT is not negative afterwards.

CountReads(code) == {k \in DOMAIN code : code[k].op = "MFC0" /\ code[k].R1 = REG_COUNT}
CountAdd(n) == newInstrI("ARM_ADD", "AL", REG_COUNT, REG_COUNT, NOT_USED, n)

\* instrCountRemaining, an unsigned word: every update takes the whole distance
\* from the head off it, not the one from the update before.
CountLeft(seg, code) == (Len(seg.words) - SumSet(CountReads(code))) % Words

CountUpdate(n) ==
  (IF n > 2^Byte - 1 THEN << CountAdd(Hi(n)) >> ELSE << >>)
  \o << newInstrIS("ARM_ADD", "AL", REG_COUNT, REG_COUNT, NOT_USED, Lo(n)) >>
  \o insertCall_To_C("PL", "cc_interrupt", {})

\* The search for a branch begins behind the head and knows no end of the list.
CountCrashes(seg, code) ==
  CountLeft(seg, code) > 0 /\ Len(code) > 1 /\ ControlFrom(code, 2) = {}

\* A variant that counts only the words in front of the branch.
Translate_CountRegister_Short(seg, code) ==
  LET before == IF Len(code) = 1 THEN 1 ELSE FirstOf(ControlFrom(code, 2)) - 1
  IN  SubSeq(code, 1, before) \o CountUpdate(Len(seg.words) - 1)
      \o SubSeq(code, before + 1, Len(code))

Translate_CountRegister(seg, code) ==
  LET read(k) == IF k \in CountReads(code) THEN << code[k], CountAdd(k) >> ELSE << code[k] >>
      before == IF Len(code) = 1 THEN 1 ELSE FirstOf(ControlFrom(code, 2)) - 1
      part(from, to) == FlattenSeq([k \in 1..to - from + 1 |-> read(from + k - 1)])
  IN  IF CountLeft(seg, code) = 0 THEN part(1, Len(code))
      ELSE part(1, before) \o CountUpdate(CountLeft(seg, code)) \o part(before + 1, Len(code))

-----------------------------------------------------------------------------
\* What a branch is made of.

\* Literals: the segment, and the address of the word behind the delay slot.
SegmentLiteral == Words - 5
ReturnAddress == Words - 9

newInstrIntB(cond, place) ==
  [newEmptyInstr("DR_INT_BRANCH") EXCEPT !.cond = cond, !.to = place]
newInstrIntBL(cond, place) ==
  [newEmptyInstr("DR_INT_BRANCH_LINK") EXCEPT !.cond = cond, !.to = place]
newInstrB(cond) == [newEmptyInstr("ARM_B") EXCEPT !.cond = cond, !.I = TRUE]
newInstrBL(cond) == [newEmptyInstr("ARM_BL") EXCEPT !.cond = cond, !.I = TRUE]
Placed(i, place) == [i EXCEPT !.at = @ \cup {place}]

\* The flag that tells the next segment to leave out its first word.
ClearFlag(i) == InstrI(i, "ARM_BIC", "AL", EMU_FLAGS, EMU_FLAGS, NOT_USED, 1)
SetFlag == newInstrI("ARM_ORR", "AL", EMU_FLAGS, EMU_FLAGS, NOT_USED, 1)
Fresh == newEmptyInstr("NO_OP")

\* The delay slot, unless there is nothing to execute.
DelaySlot(seg) ==
  LET i == mips_decode(seg.delay) IN IF Active(i.op) THEN << i >> ELSE << >>

\* The condition of the branch, from two compares: the high words first, the low
\* ones under a condition on the result.  BLTZL has the first only.
Likely == {"BLTZL", "BGEZL", "BEQL", "BNEL", "BLEZL", "BGTZL", "BLTZALL", "BGEZALL"}
OfTwo == {"BEQ", "BEQL", "BNE", "BNEL"}

CompareLow(op) ==
  CASE op \in {"BLTZ", "BLTZAL", "BLTZALL"} -> "MI"
    [] op \in {"BGEZ", "BGEZL", "BGEZAL", "BGEZALL"} -> "PL"
    [] OTHER -> "EQ"

Compares(i) ==
  LET zero == i.op \notin OfTwo \/ i.R2 = 0
      high == IF zero THEN InstrI(i, "ARM_CMP", "AL", NOT_USED, R1w(i), NOT_USED, 0)
              ELSE Instr(i, "ARM_CMP", "AL", NOT_USED, R1w(i), R2w(i))
      low == IF zero THEN newInstrI("ARM_CMP", CompareLow(i.op), NOT_USED, i.R1, NOT_USED, 0)
             ELSE newInstr("ARM_CMP", "EQ", NOT_USED, i.R1, i.R2)
  IN  IF i.op = "BLTZL" THEN << high >> ELSE << high, low >>

\* A variant that does not leave with zero.
LeavesIf_NotZero(op) ==
  CASE op \in {"BEQ", "BNE", "BLTZ", "BGEZ", "BLTZAL", "BGEZAL"} -> CondOf(op)
    [] op = "BLEZ" -> "LT" [] op = "BLEZL" -> "LE"
    [] op \in {"BGTZ", "BGTZL"} -> "GT"
    [] OTHER -> "AL"

\* The condition under which an ordinary branch leaves; of the likely ones only
\* BLEZL and BGTZL still ask.
LeavesIf(op) ==
  CASE op \in {"BEQ", "BNE", "BLTZ", "BGEZ", "BLTZAL", "BGEZAL"} -> CondOf(op)
    [] op \in {"BLEZ", "BLEZL"} -> "LE"
    [] op \in {"BGTZ", "BGTZL"} -> "GT"
    [] OTHER -> "AL"

\* The condition under which a likely branch is skipped, with its delay slot.
SkipsIf(op) ==
  CASE op = "BEQL" -> "NE" [] op = "BNEL" -> "EQ"
    [] op \in {"BLTZL", "BLTZALL"} -> "PL"
    [] op \in {"BGEZL", "BGEZALL"} -> "LT"
    [] op = "BLEZL" -> "GT" [] op = "BGTZL" -> "LE"

LoadSegment(i) == InstrI(i, "ARM_LDR_LIT", "AL", R0, NOT_USED, NOT_USED, SegmentLiteral)
LoadReturn(r) == Pool(r, ReturnAddress)

\* R1 is the address of the branch, for branchUnknown to patch: pc is two
\* instructions ahead.
BranchSite == newInstrI("ARM_SUB", "AL", R(1), PC, NOT_USED, 4)
\* A variant that counts the PUSH not.
CallSite_Short == newInstrI("ARM_SUB", "AL", R(1), PC, NOT_USED, 4)
CallSite == newInstrI("ARM_ADD", "AL", R(1), PC, NOT_USED, 0)

\* getSegmentAt(MIPScode + MIPScodeLen + offset) == codeSegment
LoopsBack(seg) == seg.offset \in -Len(seg.words)..-1

\* A branch out of the segment, or back to its head.  The one back that links
\* is made for BLTZAL and BGEZAL and put nowhere.
Leave(seg, op, cond) ==
  LET links == op \in Linking
  IN  CASE LoopsBack(seg) /\ ~links -> << newInstrIntB(cond, "head") >>
        [] LoopsBack(seg) /\ links -> << newInstrPUSH({LR}) >>
             \o (IF op \in Likely THEN << newInstrIntBL(cond, "head") >> ELSE << >>)
             \o << newInstrPOP({LR}) >>
        [] ~LoopsBack(seg) /\ ~links -> << LoadSegment(Fresh), BranchSite, newInstrB(cond) >>
        [] ~LoopsBack(seg) /\ links ->
             << LoadSegment(Fresh), CallSite, newInstrPUSH({LR}), newInstrBL(cond),
                newInstrPOP({LR}) >>

-----------------------------------------------------------------------------
\* The branch i, with its delay slot.

\* A variant that leaves the flag set.
Ordinary_FlagStays(seg, i) ==
  DelaySlot(seg) \o Compares(i)
  \o (IF i.op \in Linking THEN << LoadReturn(31) >> ELSE << >>)
  \o Leave(seg, i.op, LeavesIf(i.op)) \o << SetFlag >>

Ordinary(seg, i) ==
  DelaySlot(seg) \o Compares(i) \o << ClearFlag(Fresh) >>
  \o (IF i.op \in Linking THEN << LoadReturn(31) >> ELSE << >>)
  \o Leave(seg, i.op, LeavesIf(i.op)) \o << SetFlag >>

\* A variant that executes the delay slot in any case.
LikelyBranch_DelayFirst(seg, i) ==
  DelaySlot(seg) \o Compares(i)
  \o (IF i.op \in Linking THEN << LoadReturn(31) >> ELSE << >>)
  \o << newInstrIntB(SkipsIf(i.op), "after"), ClearFlag(Fresh) >>
  \o Leave(seg, i.op, LeavesIf(i.op)) \o << Placed(SetFlag, "after") >>

\* BEQL and BNEL without a delay slot are not skipped; BGEZL and BLTZALL do not
\* clear the flag.
LikelyBranch(seg, i) ==
  Compares(i)
  \o (IF i.op \in Linking THEN << LoadReturn(31) >> ELSE << >>)
  \o (IF DelaySlot(seg) = << >> /\ i.op \in OfTwo THEN << >>
      ELSE << newInstrIntB(SkipsIf(i.op), "after") >>)
  \o DelaySlot(seg)
  \o (IF i.op \in {"BGEZL", "BLTZALL"} THEN << >> ELSE << ClearFlag(Fresh) >>)
  \o Leave(seg, i.op, LeavesIf(i.op)) \o << Placed(SetFlag, "after") >>

Jump(seg, i) ==
  DelaySlot(seg) \o
  CASE i.op = "J" -> << ClearFlag(i), LoadSegment(Fresh), BranchSite, newInstrB("AL"), SetFlag >>
    [] i.op = "JAL" ->
         << ClearFlag(i), LoadReturn(31), LoadSegment(Fresh), CallSite, newInstrPUSH({LR}),
            newInstrBL("AL"), newInstrPOP({LR}), SetFlag >>
    [] i.op = "JALR" ->
         << ClearFlag(i), LoadReturn(i.Rd1), LoadSegment(Fresh), MOV(R(1), i.R1),
            newInstrPUSH({LR}), newInstrBL("AL"), newInstrPOP({LR}), SetFlag >>
    [] i.op = "JR" /\ i.R1 = 31 -> << Instr(i, "ARM_MOV", "AL", PC, NOT_USED, LR) >>
    [] i.op = "JR" /\ i.R1 # 31 ->
         << LoadSegment(i), MOV(R(1), i.R1), newInstrB("AL"), newInstrPOP({LR}) >>

Translated(seg, i) ==
  CASE i.op \in Likely -> LikelyBranch(seg, i)
    [] i.op \in Jumps -> Jump(seg, i)
    [] i.op \in FloatBranches -> << ABORT >>
    [] OTHER -> Ordinary(seg, i)

\* A segment that begins in a delay slot tests the flag and goes to its second
\* record when it is set.
SkipsFirst(seg) == seg.second /\ Active(ops_type(seg.words[1]))

WithHead(seg, code) ==
  IF SkipsFirst(seg)
  THEN << Placed(newInstrI("ARM_TST", "AL", NOT_USED, EMU_FLAGS, NOT_USED, 1), "head"),
          newInstrIntB("NE", "second") >>
       \o [code EXCEPT ![2] = Placed(@, "second")]
  ELSE [code EXCEPT ![1] = Placed(@, "head")]

\* The search looks behind the records: a branch at the head is not translated.
Translate_Branch(seg, code) ==
  LET list == WithHead(seg, code)
      k == FirstOf(ControlFrom(list, 2))
  IN  IF ControlFrom(list, 2) = {} THEN list
      ELSE SubSeq(list, 1, k - 1) \o Translated(seg, list[k]) \o SubSeq(list, k + 1, Len(list))

-----------------------------------------------------------------------------
\* A variant: the branches to the record are left as they are.
InstrFree_Dangling(code, k) == SubSeq(code, 1, k - 1) \o SubSeq(code, k + 1, Len(code))

\* Translate_CleanUp on the list: InstrFree makes the branches to a record it
\* frees go to the next one, except when it frees the head of the list.

InstrFree(code, k) ==
  LET rest == SubSeq(code, k + 1, Len(code))
  IN  IF k = 1 \/ rest = << >> THEN SubSeq(code, 1, k - 1) \o rest
      ELSE SubSeq(code, 1, k - 1)
           \o [rest EXCEPT ![1] = [@ EXCEPT !.at = @ \cup code[k].at]]

RECURSIVE CleanedUpFrom(_, _)
CleanedUpFrom(code, k) ==
  IF k > Len(code) THEN code
  ELSE IF Dropped(code[k]) THEN CleanedUpFrom(InstrFree(code, k), k)
  ELSE CleanedUpFrom(code, k + 1)
CleanedUp(code) == CleanedUpFrom(code, 1)

\* Translate_InterCode_Branch: the distance in records.  The place of a record
\* that was freed is not found, and the distance then leads behind the list; the
\* memory of that record may by then be another record of the list.  (The case of
\* a move to LR is for insertCall_To_C_Jump, which nothing calls.)
PlaceOf(code, place) ==
  LET found == {k \in DOMAIN code : place \in code[k].at}
  IN  IF found = {} THEN Len(code) + 1 ELSE FirstOf(found)

Translate_InterCode_Branch(code) ==
  [k \in DOMAIN code |->
     CASE code[k].op = "DR_INT_BRANCH" ->
            [code[k] EXCEPT !.op = "ARM_B", !.imm = PlaceOf(code, code[k].to) - k]
       [] code[k].op = "DR_INT_BRANCH_LINK" ->
            [code[k] EXCEPT !.op = "ARM_BL", !.imm = PlaceOf(code, code[k].to) - k]
       [] OTHER -> code[k]]

=============================================================================
