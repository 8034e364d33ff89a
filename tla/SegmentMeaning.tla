--------------------------- MODULE SegmentMeaning ---------------------------
(***************************************************************************)
(* What a segment should do, and the properties of the translated one.     *)
(* The reference executes the words one after the other, each by its own   *)
(* translation (which Correctness is about): what is asked here is that    *)
(* the passes put them together to what the MIPS processor does with the   *)
(* branch, its delay slot and the COUNT register.                          *)
(***************************************************************************)
EXTENDS SegmentCode

BranchWord == seg.words[Len(seg.words)]
Op == ops_type(BranchWord)
DelayCode == DelaySlot(seg)
Done == phase = "done"

\* The instructions one word is translated to on its own.
Alone(w) ==
  LET all(Rewrite(_), list) == FlattenSeq([k \in DOMAIN list |-> Rewrite(list[k])])
  IN  all(Translate_CleanUp, all(Translate_Memory, all(Translate_FPU, all(Translate_Generic,
        all(Translate_ALU, all(Translate_Constants, << mips_decode(w) >>))))))

\* The words in front of the branch, without the first when it has been executed
\* as the delay slot of the segment in front.
FirstWord == IF seg.second /\ entry.reg[EMU_FLAGS] % 2 = 1 THEN 2 ELSE 1
AtBranch(junk) ==
  Execute(entry, FlattenSeq([k \in 1..Len(seg.words) - FirstWord |->
                               Alone(seg.words[k + FirstWord - 1])]), junk)

AfterDelay(s, junk) == Execute(s, Alone(seg.delay), junk)
Doubleword(s, r) == IF r = 0 THEN 0 ELSE Double(s.reg[Wide(r)], s.reg[r])

\* The condition of the branch in the state s.
Decides(s) ==
  LET d == SignedDouble(Doubleword(s, BranchWord.rs))
  IN  CASE Op \in {"BEQ", "BEQL"} -> Doubleword(s, BranchWord.rs) = Doubleword(s, BranchWord.rt)
        [] Op \in {"BNE", "BNEL"} -> Doubleword(s, BranchWord.rs) # Doubleword(s, BranchWord.rt)
        [] Op \in {"BLTZ", "BLTZL", "BLTZAL", "BLTZALL"} -> d < 0
        [] Op \in {"BGEZ", "BGEZL", "BGEZAL", "BGEZALL"} -> d >= 0
        [] Op \in {"BLEZ", "BLEZL"} -> d <= 0
        [] Op \in {"BGTZ", "BGTZL"} -> d > 0
        [] Op \in Jumps -> TRUE

\* How the translated segment was left, and whether its branch was taken.
Taken(end) == end.exit \in {"taken", "loop", "return", "lost"} \/ end.calls # << >>
Links == Op \in Linking

-----------------------------------------------------------------------------
\* TypeOK: the passes keep a list of instructions; behind Translate_Registers all
\* of them are on host registers (which the pass asserts); a run ends in one of
\* the ways a segment can be left.
TypeOK ==
  /\ seg.second \in BOOLEAN /\ seg.offset \in Int /\ Len(seg.words) > 0
  /\ phase \in {"built", "init", "CountRegister", "Branch", "Constants", "ALU", "Generic", "FPU",
                "Memory", "LoadCached", "StoreCached", "CleanUp", "Registers", "InterCode_Branch",
                "written", "done", "aborted", "crashed", "pushpop", "refused"}
  /\ \A k \in DOMAIN code : DOMAIN code[k] = DOMAIN newEmptyInstr("NO_OP")
  /\ phase \in {"Registers", "InterCode_Branch", "written", "done"} =>
       \A k \in DOMAIN code :
         {code[k].Rd1, code[k].Rd2, code[k].R1, code[k].R2, code[k].R3} \subseteq Host \cup {NOT_USED}
  /\ Done => ends.code.exit \in {"over", "taken", "loop", "return", "lost"}

-----------------------------------------------------------------------------
\* DecisionRight: the branch is taken exactly when its condition holds.  Known
\* deviations, each excluded where it applies and only there.

WritesOperand == \E i \in ToSet(DelayCode) : i.Rd1 \in {BranchWord.rs, BranchWord.rt} \ {0}
DelaySetsFlags == \E i \in ToSet(Alone(seg.delay)) : i.S \/ i.op \in Comparing
SignExtended(d) == d < 2^(W - 1) \/ d >= 2^(2 * W) - 2^(W - 1)

\* The two compares read the sign of the low word as well; BLTZL does not.
ReadsLowSign == Op \notin OfTwo \cup {"BLTZL"} \cup Jumps
\* Without a delay slot BEQL and BNEL are taken always.
NeverSkipped == Op \in {"BEQL", "BNEL"} /\ DelayCode = << >>
\* The delay slot lies between the compares and the branch.
AsksAgain == Op \in {"BLEZL", "BGTZL"} /\ DelaySetsFlags
\* Where the offset of the literal with the return address, not of the branch,
\* leads into the segment, the BL is never put into the list: the branch is not
\* taken, wherever it goes (LinkingLoopsReturn of CodeSegments).
NotLinked == Op \in {"BLTZAL", "BGEZAL"} /\ LoopsBack(seg)

DecisionRight ==
  Done => \A junk \in Junk :
    LET atBranch == AtBranch(junk)
        \* An ordinary branch compares behind its delay slot.
        read == IF Op \in Likely THEN atBranch ELSE AfterDelay(atBranch, junk)
    IN  \/ ReadsLowSign /\ ~SignExtended(Doubleword(read, BranchWord.rs))
        \/ NeverSkipped \/ AsksAgain \/ NotLinked
        \/ Taken(ends.plain) = Decides(read)

\* SegmentRight: the registers at the end are those of the words executed in
\* the order of the MIPS processor: the first word unless it has been executed,
\* the delay slot unless a likely branch is not taken, the return address in the
\* link register.
LinkRegister == IF Op = "JALR" THEN BranchWord.rd ELSE 31

Expected(executed, junk) ==
  LET s == IF executed THEN AfterDelay(AtBranch(junk), junk) ELSE AtBranch(junk)
  IN  [r \in Guest \ {REG_COUNT} |-> IF Links /\ r = LinkRegister THEN ReturnAddress ELSE s.reg[r]]

\* Asked again, a likely branch may not be taken after its delay slot.
DelayExecuted ==
  CASE Op \notin Likely -> {TRUE}
    [] Op \in Likely /\ AsksAgain /\ ~Taken(ends.plain) -> BOOLEAN
    [] OTHER -> {Taken(ends.plain)}

SegmentRight ==
  Done => \E junk \in Junk, executed \in DelayExecuted :
            Restrict(ends.plain.reg, Guest \ {REG_COUNT}) = Expected(executed, junk)

-----------------------------------------------------------------------------
\* FlagRight: a segment that is entered by a branch executes its first word, the
\* one behind a branch that was not taken, or that has returned, does not.  (JR
\* hands on the flag it was entered with, and so do BGEZL and BLTZALL.)

FlagRight ==
  Done =>
    /\ ends.code.exit = "over" => ends.code.reg[EMU_FLAGS] % 2 = 1
    /\ Op \notin {"BGEZL", "BLTZALL", "JR"} =>
         /\ ends.code.exit \in {"taken", "loop"} => ends.code.reg[EMU_FLAGS] % 2 = 0
         /\ \A k \in DOMAIN ends.code.calls : ends.code.calls[k].flag = 0

\* CountCharged: whichever way the segment is left, COUNT has been raised by the
\* number of its words, and cc_interrupt was called when that made it positive,
\* with the new value in the file of the registers.
CountCharged ==
  Done =>
    LET count == (entry.reg[REG_COUNT] + Len(seg.words)) % Words
    IN  /\ ends.code.file[REG_COUNT] = count
        /\ Len(ends.code.raised) = IF Signed(count) < 0 THEN 0 ELSE 1
        /\ \A k \in DOMAIN ends.code.raised : ends.code.raised[k].file = count

\* SiteRight: where another segment is entered, R0 is the segment left and R1
\* the address of the branch instruction, which branchUnknown patches, or, for
\* JR and JALR, the address in the register; LR is what it was, or is on the
\* stack when the branch is a call.
SiteRight ==
  Done =>
    LET register == Op \in {"JR", "JALR"}
        end == IF register THEN ends.plain ELSE ends.code
        target == AfterDelay(AtBranch(0), 0).reg[BranchWord.rs]
        right(r0, r1, site) ==
          r0 = SegmentLiteral /\ r1 = IF register THEN target ELSE 4 * site
        link == entry.reg[LR]
    IN  /\ end.exit = "taken" => right(end.reg[R0], end.reg[R(1)], end.site)
        /\ end.exit # "lost" => end.stack = << >> /\ end.reg[LR] = link
        /\ \A k \in DOMAIN end.calls :
             LET c == end.calls[k]
             IN  c.stack = << link >> /\ (right(c.r0, c.r1, c.site) \/ LoopsBack(seg))

\* BranchesLand: a branch inside the segment lands on the record it was made
\* for.  (The head of the list is freed when it is a NO_OP, and the branches to
\* it keep its address.)
HeadFreed == LoopsBack(seg) /\ ~SkipsFirst(seg) /\ Dropped(mips_decode(seg.words[1]))
BranchesLand ==
  Done => \/ HeadFreed
          \/ /\ ends.code.exit # "lost"
             /\ ends.code.exit = "loop" => ends.code.site = 1

-----------------------------------------------------------------------------
\* AllocationFaithful: with the MIPS registers cached in host registers the
\* segment does what it does without: it is left the same way, calls the same,
\* and the file then holds what the registers would.

SameCall(c, p) == (\A r \in Guest : c.file[r] = p.reg[r]) /\ (Op = "JALR" => c.r1 = p.r1)
Same(c, p) ==
  /\ c.exit = p.exit
  /\ \A r \in Guest : c.file[r] = p.reg[r]
  /\ Op = "JR" => c.reg[R(1)] = p.reg[R(1)]
  /\ Len(c.calls) = Len(p.calls)
  /\ \A k \in DOMAIN c.calls : SameCall(c.calls[k], p.calls[k])


Mentions(i, r) == r \in {i.R1, i.R2, i.R3, i.Rd1, i.Rd2}
CachedOnes == {r \in Guest : \E k \in DOMAIN plain : Mentions(plain[k], r)}
Before(k) == 1..k - 1
Behind(k) == k + 1..Len(plain)

\* The load stands with the first mention, the store with the last update: when
\* a branch inside the segment skips that record, the register is not loaded, or
\* its last value not stored.
LoadSkipped == \E r \in CachedOnes : \E k \in DOMAIN plain \ ends.plain.ran :
  /\ Mentions(plain[k], r)
  /\ \A j \in Before(k) : ~Mentions(plain[j], r)
  /\ \E j \in Behind(k) : Reads(plain[j], r)
StoreSkipped == \E r \in CachedOnes : \E k \in DOMAIN plain \ ends.plain.ran :
  /\ Writes(plain[k], r)
  /\ \E j \in Before(k) : Writes(plain[j], r)
  /\ \A j \in Behind(k) : ~Writes(plain[j], r)

\* A host register is taken for free when its next use lies behind a branch
\* inside the segment ...
LiveAcross == \E r \in CachedOnes, k \in DOMAIN plain :
  /\ plain[k].op = "ARM_B" /\ ~plain[k].I /\ plain[k].imm > 0
  /\ \E j \in Before(k) : Mentions(plain[j], r)
  /\ \E j \in Behind(k) : Reads(plain[j], r)
\* ... and one of them is not kept by the C function.
HeldInR12 == ends.code.raised # << >> /\ \E k \in DOMAIN code, j \in DOMAIN code :
  /\ k < j /\ code[k].op = "ARM_BX" /\ Reads(code[j], R(12))
  /\ \A l \in k + 1..j - 1 : ~Writes(code[l], R(12))

\* ... or when its next mention, not the next record, overwrites it: another
\* register moves in and is there still when the first comes back.
SharedHost == \E r \in CachedOnes \cup {CALL2C}, j \in DOMAIN plain : \E k \in Behind(j) :
  /\ Mentions(plain[j], r) /\ Writes(plain[k], r)
  /\ \A l \in j + 1..k : ~Reads(plain[l], r)
  /\ \E q \in CachedOnes : /\ \E l \in j..k : Mentions(plain[l], q)
                           /\ \A l \in Before(j) : ~Mentions(plain[l], q)
                           /\ \E l \in k..Len(plain) : Mentions(plain[l], q)

AllocationFaithful ==
  Done => \/ LoadSkipped \/ StoreSkipped \/ LiveAcross \/ HeldInR12 \/ SharedHost
          \/ Same(ends.code, ends.plain)

=============================================================================
