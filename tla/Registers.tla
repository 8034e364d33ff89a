------------------------------ MODULE Registers ------------------------------
(***************************************************************************)
(* src/Translations/Registers.c: the passes that load the MIPS registers   *)
(* of a segment into host registers, store them back and choose the host   *)
(* registers.  The file of the MIPS registers lies at EMU_FP.              *)
(***************************************************************************)
EXTENDS Branching

\* RegMemByteOffset: a MIPS register has two words there, one of the
\* coprocessor or a special one a word.
Half(r) == IF r % (2 * REG_WIDE) >= REG_WIDE THEN 1 ELSE 0
Narrow(r) == r - REG_WIDE * Half(r)
RegMemByteOffset(r) ==
  4 * (Half(r) + (IF r >= REG_CO THEN Narrow(r)
                  ELSE IF Narrow(r) >= REG_FP THEN 64 + 2 * (Narrow(r) - REG_FP)
                  ELSE 2 * Narrow(r)))

Cached(r) == r < REG_TEMP
Reads(i, r) == r \in {i.R1, i.R2, i.R3}
Writes(i, r) == r \in {i.Rd1, i.Rd2} /\ i.cond = "AL"

FromFile(i, r) ==
  [InstrI(i, "ARM_LDR", "AL", r, NOT_USED, EMU_FP, RegMemByteOffset(r)) EXCEPT !.U = TRUE]
IsFromFile(i) == i.op = "ARM_LDR" /\ i.R2 = EMU_FP
IntoFile(r) == newInstrI("ARM_STR", "AL", NOT_USED, r, EMU_FP, RegMemByteOffset(r))

-----------------------------------------------------------------------------
\* FindRegNextUsedAgain looks behind record k, up to the next branch inside the
\* segment.  A write counts from the second record on, and one that is always
\* executed frees the register.

Overwritten == -1
Unused == -2

FindRegNextUsedAgain(code, k, r) ==
  LET branches == {j \in k + 1..Len(code) : code[j].op = "DR_INT_BRANCH"}
      end == IF branches = {} THEN Len(code) ELSE FirstOf(branches) - 1
      found == {j \in k + 1..end : Reads(code[j], r) \/ (j > k + 1 /\ Writes(code[j], r))}
      first == FirstOf(found)
  IN  IF found = {} THEN Unused
      ELSE IF Reads(code[first], r) THEN first - k - 1 ELSE Overwritten

FindRegNextUpdated(code, k, r) ==
  IF \E j \in k + 1..Len(code) : Writes(code[j], r) THEN Overwritten ELSE Unused

-----------------------------------------------------------------------------
\* Translate_LoadCachedRegisters: the first use of a register that has not been
\* written is preceded by its load.  The load takes the place of the record, a
\* copy of which is put behind it.

LoadCached(i, loaded) ==
  LET s == << i.R1, i.R2, i.R3 >>
      fresh(n) == IF Cached(s[n]) /\ s[n] \notin loaded \cup {s[m] : m \in 1..n - 1}
                  THEN << s[n] >> ELSE << >>
      order == fresh(1) \o fresh(2) \o fresh(3)
      inFront == [n \in DOMAIN order |->
                    IF n = 1 THEN FromFile(i, order[n]) ELSE FromFile([i EXCEPT !.at = {}], order[n])]
  IN  IF order = << >> THEN << i >> ELSE Append(inFront, [i EXCEPT !.at = {}])

Translate_LoadCachedRegisters(code) ==
  LET mentioned(i) == {i.R1, i.R2, i.R3, i.Rd1, i.Rd2}
      loaded(k) == UNION {mentioned(code[j]) : j \in 1..k - 1}
  IN  FlattenSeq([k \in DOMAIN code |-> LoadCached(code[k], loaded(k))])

\* A variant that stores behind the first update instead of the last.
StoreOne_Early(code, k) ==
  LET i == code[k]
  IN  << i >> \o IF Cached(i.Rd1) /\ ~IsFromFile(i) /\ ~\E j \in 1..k - 1 : Writes(code[j], i.Rd1)
                 THEN << IntoFile(i.Rd1) >> ELSE << >>

\* Translate_StoreCachedRegisters: behind the last unconditional update; the
\* second target is asked for its next use instead.
StoreOne(code, k) ==
  LET i == code[k]
      first == Cached(i.Rd1) /\ ~IsFromFile(i) /\ FindRegNextUpdated(code, k, i.Rd1) = Unused
      second == Cached(i.Rd2) /\ ~IsFromFile(i) /\ FindRegNextUsedAgain(code, k, i.Rd2) = Unused
  IN  << i >> \o (IF first THEN << IntoFile(i.Rd1) >> ELSE << >>)
      \o (IF second THEN << IntoFile(i.Rd2) >> ELSE << >>)

Translate_StoreCachedRegisters(code) == FlattenSeq([k \in DOMAIN code |-> StoreOne(code, k)])

-----------------------------------------------------------------------------
\* Translate_Registers.

RegsAvailable == << R(4), R(5), R(6), R(7), R(8), R(9), R(12) >>
Count == Len(RegsAvailable)

\* getNextRegister: the first register from the current one on that is not used
\* behind record k; 0 when they all are, and pushpopRegister ends the program.
getNextRegister(code, k, current) ==
  LET at(n) == ((current + n - 1) % Count) + 1
      free == {n \in 0..Count - 1 : FindRegNextUsedAgain(code, k, RegsAvailable[at(n)]) < 0}
  IN  IF free = {} THEN 0 ELSE at(FirstOf(free))

\* A variant that forgets the first source.
UpdateRegWithReg_NotR1(code, k, from, to) ==
  LET new(r) == IF r = from THEN to ELSE r
  IN  [j \in DOMAIN code |->
        IF j < k THEN code[j] ELSE [code[j] EXCEPT !.Rd1 = new(@), !.Rd2 = new(@), !.R2 = new(@)]]

\* UpdateRegWithReg: from record k to the end.
UpdateRegWithReg(code, k, from, to) ==
  LET new(r) == IF r = from THEN to ELSE r
  IN  SubSeq(code, 1, k - 1)
      \o [j \in 1..Len(code) - k + 1 |->
            [code[k + j - 1] EXCEPT !.Rd1 = new(@), !.Rd2 = new(@), !.R1 = new(@), !.R2 = new(@),
                                    !.R3 = new(@)]]

\* One operand of record k: a scratch register has its host register, another
\* one gets the current, and the next is looked for.
Allocate(acc, k, field) ==
  LET r == acc.code[k][field]
  IN  IF acc.current = 0 \/ r >= REG_HOST THEN acc
      ELSE IF r \in SCRATCH0..SCRATCH0 + 3
      THEN [acc EXCEPT !.code = UpdateRegWithReg(@, k, r, R(r - REG_TEMP))]
      ELSE LET new == UpdateRegWithReg(acc.code, k, r, RegsAvailable[acc.current])
           IN  [code |-> new, current |-> getNextRegister(new, k, acc.current)]

\* The code with host registers; current is 0 when there were not enough.
RECURSIVE AllocateFrom(_, _)
AllocateFrom(acc, k) ==
  LET targets == Allocate(Allocate(acc, k, "Rd1"), k, "Rd2")
      sources == Allocate(Allocate(Allocate(targets, k, "R1"), k, "R2"), k, "R3")
  IN  IF k > Len(acc.code) THEN acc ELSE AllocateFrom(sources, k + 1)

Translate_Registers(code) ==
  AllocateFrom([code |-> code, current |-> getNextRegister(code, 1, 1)], 1)

=============================================================================
