----------------------------- MODULE SegmentCode -----------------------------
(***************************************************************************)
(* The life of a code segment: it goes through the passes of the table     *)
(* Translations one after the other, is encoded, and runs.                 *)
(*                                                                         *)
(*   seg     the segment (see Branching)                                   *)
(*   phase   the pass that has run last                                    *)
(*   code    the intermediate code                                         *)
(*   plain   the code in front of the passes that cache and allocate       *)
(*           registers, for comparison                                     *)
(*   entry   the processor when the segment is entered                     *)
(*   ends    how it is left: by the code with host registers (code) and by *)
(*           the one on the registers of the intermediate code (plain)     *)
(***************************************************************************)
EXTENDS Registers, ArmProcessor

CONSTANTS Programs,       \* the segments
          Entries(_),     \* for a segment, the values it is entered with:
                          \* << r1, r2, flag, COUNT >>
          Junk            \* what a register nobody has written may hold

ASSUME ImmediateIsTwoBytes == ImmBits = 2 * Byte
ASSUME JunkAssumption == Junk \subseteq 0..Words - 1

VARIABLES seg, phase, code, plain, entry, ends
vars == << seg, phase, code, plain, entry, ends >>

-----------------------------------------------------------------------------
\* The processor.  To the state of ArmProcessor come the file of the MIPS
\* registers, the index at which execution goes on, how the segment was left,
\* the calls of other segments and the interrupts.

Guest == {0, 1, 2, 3, 4, 5, 31} \cup {Wide(r) : r \in {0, 1, 2, 3, 4, 5}}
         \cup {REG_COUNT, HI, LO, Wide(HI), Wide(LO)}
Host == {R(n) : n \in 0..15}

ValuesAt(v, junk) ==
  (1 :> v[1] % Words) @@ (Wide(1) :> v[1] \div Words)
  @@ (2 :> v[2] % Words) @@ (Wide(2) :> v[2] \div Words)
  @@ (EMU_FLAGS :> v[3]) @@ (REG_COUNT :> v[4])
  @@ [r \in Guest |-> IF r \in {0, Wide(0)} THEN 0 ELSE (3 * r + 1) % Words]
  @@ [r \in Host \cup {CALL2C} |-> (junk + r) % Words]

Entered(v, junk) ==
  LET reg == ValuesAt(v, junk)
  IN  [reg |-> reg, n |-> FALSE, z |-> FALSE, c |-> FALSE, v |-> FALSE,
       stack |-> << >>, log |-> << >>, stopped |-> FALSE,
       file |-> [r \in Guest |-> reg[r]], next |-> 1, ran |-> {}, exit |-> "", site |-> 0,
       calls |-> << >>, raised |-> << >>]

\* The register of the file that an offset from EMU_FP means.
InFile(i) == CHOOSE r \in Guest : RegMemByteOffset(r) = i.imm
Addresses(i) == i.op \in {"ARM_LDR", "ARM_STR"} /\ i.R2 = EMU_FP

\* Another segment, called by BL, changes what every segment changes.
Clobbered == {R(n) : n \in (0..9) \cup {12, 14}}
CallSegment(s, k, junk) ==
  [s EXCEPT !.calls = Append(@, [site |-> k, r0 |-> s.reg[R0], r1 |-> s.reg[R(1)],
                                 flag |-> s.reg[EMU_FLAGS] % 2, stack |-> s.stack,
                                 reg |-> [r \in Guest |-> s.reg[r]], file |-> s.file]),
            !.reg = [r \in Clobbered |-> junk] @@ @]

\* A branch inside the segment: forward, back (the segment is left to begin
\* again), or behind the last record.
Goto(s, k, target, end) ==
  CASE target \in k + 1..end -> [s EXCEPT !.next = target]
    [] target > end -> [s EXCEPT !.exit = "lost"]
    [] target <= k -> [s EXCEPT !.exit = "loop", !.site = target]

Interrupts(s, i) == i.op = "ARM_BX" /\ Value(s, i.R1) = Words + IndexOf("cc_interrupt")

Effect(s, k, i, end, junk) ==
  CASE i.op = "ARM_B" /\ i.I -> [s EXCEPT !.exit = "taken", !.site = k]
    [] i.op = "ARM_B" /\ ~i.I -> Goto(s, k, k + i.imm, end)
    [] i.op = "ARM_BL" -> CallSegment(s, k, junk)
    [] i.Rd1 = PC -> [s EXCEPT !.exit = "return"]
    [] Addresses(i) /\ i.op = "ARM_LDR" -> Set(s, i.Rd1, s.file[InFile(i)])
    [] Addresses(i) /\ i.op = "ARM_STR" -> [s EXCEPT !.file[InFile(i)] = Value(s, i.R1)]
    [] Interrupts(s, i) ->
         Step([s EXCEPT !.raised = Append(@, [reg |-> s.reg[REG_COUNT], file |-> s.file[REG_COUNT]])],
              i, junk)
    [] OTHER -> Step(s, i, junk)

\* pc is two instructions ahead of the one at address 4 * k.
StepAt(s, k, i, end, junk) ==
  LET t == [s EXCEPT !.next = k + 1, !.ran = @ \cup {k}, !.reg[PC] = 4 * k + 8]
  IN  IF Holds(t, i.cond) THEN Effect(t, k, i, end, junk) ELSE t

RECURSIVE RunOf(_, _, _)
RunOf(list, s, junk) ==
  IF s.exit # "" THEN s
  ELSE IF s.next > Len(list) THEN [s EXCEPT !.exit = "over"]
  ELSE RunOf(list, StepAt(s, s.next, list[s.next], Len(list), junk), junk)

-----------------------------------------------------------------------------
Idle == Entered(<< 0, 0, 0, 0 >>, 0)

Init ==
  /\ seg \in Programs
  /\ phase = "built"
  /\ code = << >>
  /\ plain = << >>
  /\ entry = Idle
  /\ ends = [code |-> Idle, plain |-> Idle]

\* A pass turns the list into a new one; TRANSLATE_ABORT ends the program.
Pass(from, to, new) ==
  /\ phase = from
  /\ code' = new
  /\ phase' = IF \E k \in DOMAIN new : new[k].op = "ABORT" THEN "aborted" ELSE to
  /\ UNCHANGED << seg, plain, entry, ends >>

Each(Rewrite(_)) == FlattenSeq([k \in DOMAIN code |-> Rewrite(code[k])])

Translate_init ==
  Pass("built", "init", [k \in DOMAIN seg.words |-> mips_decode(seg.words[k])])

CountRegister ==
  /\ ~CountCrashes(seg, code)
  /\ Pass("init", "CountRegister", Translate_CountRegister(seg, code))

\* The search dereferences the end of the list.
CountRegisterCrash ==
  /\ phase = "init"
  /\ CountCrashes(seg, code)
  /\ phase' = "crashed"
  /\ UNCHANGED << seg, code, plain, entry, ends >>

Branch == Pass("CountRegister", "Branch", Translate_Branch(seg, code))
Constants == Pass("Branch", "Constants", Each(Translate_Constants))
Arithmetic == Pass("Constants", "ALU", Each(Translate_ALU))
Generic == Pass("ALU", "Generic", Each(Translate_Generic))
FPU == Pass("Generic", "FPU", Each(Translate_FPU))
Accesses == Pass("FPU", "Memory", Each(Translate_Memory))

\* The list is noted for the comparison; the pass changes it.
LoadCachedRegisters ==
  /\ phase = "Memory"
  /\ plain' = Translate_InterCode_Branch(CleanedUp(code))
  /\ code' = Translate_LoadCachedRegisters(code)
  /\ phase' = "LoadCached"
  /\ UNCHANGED << seg, entry, ends >>

StoreCachedRegisters == Pass("LoadCached", "StoreCached", Translate_StoreCachedRegisters(code))
CleanUp == Pass("StoreCached", "CleanUp", CleanedUp(code))

AllocateRegisters ==
  LET r == Translate_Registers(code)
  IN  /\ phase = "CleanUp"
      /\ phase' = IF r.current = 0 THEN "pushpop" ELSE "Registers"
      /\ code' = r.code
      /\ UNCHANGED << seg, plain, entry, ends >>

InterCode_Branch == Pass("Registers", "InterCode_Branch", Translate_InterCode_Branch(code))

Write ==
  /\ phase = "InterCode_Branch"
  /\ phase' = IF \E k \in DOMAIN code : Refused(code[k]) THEN "refused" ELSE "written"
  /\ UNCHANGED << seg, code, plain, entry, ends >>

Run ==
  /\ phase = "written"
  /\ \E v \in Entries(seg), junk \in Junk :
       LET s == Entered(v, junk)
       IN  /\ entry' = s
           /\ ends' = [code |-> RunOf(code, s, junk), plain |-> RunOf(plain, s, junk)]
  /\ phase' = "done"
  /\ UNCHANGED << seg, code, plain >>

Next == Translate_init \/ CountRegister \/ CountRegisterCrash \/ Branch \/ Constants
        \/ Arithmetic \/ Generic \/ FPU \/ Accesses \/ LoadCachedRegisters
        \/ StoreCachedRegisters \/ CleanUp \/ AllocateRegisters \/ InterCode_Branch
        \/ Write \/ Run

Spec == Init /\ [][Next]_vars

=============================================================================
