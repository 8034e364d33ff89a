----------------------------- MODULE Operations -----------------------------
(***************************************************************************)
(* The life of one MIPS instruction in the recompiler: it is decoded       *)
(* (Translate_init), goes through the passes in the order of the table     *)
(* Translations, is encoded (emit_arm_code) and at last runs on the ARM    *)
(* processor.  Branches have a module of their own; the passes that        *)
(* allocate registers are left out, so the instructions run on the         *)
(* register numbers of the intermediate code.                              *)
(*                                                                         *)
(*   word    the instruction word (declared in DecodeTables)               *)
(*   phase   the pass that has run last                                    *)
(*   code    the intermediate code it has become                           *)
(*   before  the processor when the emitted code is entered                *)
(*   after   the processor when it is left                                 *)
(***************************************************************************)
EXTENDS Memory, ArmProcessor, DecodeTables

CONSTANTS Programs,       \* the instruction words
          Operands(_),    \* what the registers may hold, for a word
          Junk            \* what a register nobody has written may hold

VARIABLES phase, code, before, after
vars == << word, phase, code, before, after >>

Registers ==
  0..31 \cup {Wide(r) : r \in 0..31} \cup {HI, LO, Wide(HI), Wide(LO)}
  \cup {REG_CO + r : r \in 0..31} \cup {CALL2C} \cup {R(0), R(1), R(2), R(3), R(4), R(12), LR}

\* Words in every register; register 0 is zero.
Files == {reg \in [Registers -> 0..Words - 1] : reg[0] = 0 /\ reg[Wide(0)] = 0}

ASSUME ProgramsAssumption == Programs \subseteq MipsWord
ASSUME OperandsAssumption == \A w \in Programs : \A reg \in Operands(w) : reg \in Files
ASSUME ImmediateIsTwoBytes == ImmBits = 2 * Byte
ASSUME JunkAssumption == Junk \subseteq 0..Words - 1

Machine(reg, junk) ==
  [reg |-> reg, n |-> FALSE, z |-> FALSE, c |-> junk % 2 = 1, v |-> FALSE,
   stack |-> << >>, log |-> << >>, stopped |-> FALSE]

Idle == Machine([r \in Registers |-> 0], 0)

-----------------------------------------------------------------------------
Init ==
  /\ word \in Programs
  /\ phase = "fetched"
  /\ code = << >>
  /\ before = Idle
  /\ after = Idle

\* Translate_init: a word without a meaning leaves a record the encoder refuses.
Translate_init ==
  /\ phase = "fetched"
  /\ code' = << mips_decode(word) >>
  /\ phase' = "init"
  /\ UNCHANGED << word, before, after >>

\* A pass rewrites every record of the list, and skips what it put behind it.
Pass(from, to, Rewrite(_)) ==
  LET new == FlattenSeq([k \in DOMAIN code |-> Rewrite(code[k])])
  IN  /\ phase = from
      /\ code' = new
      /\ phase' = IF \E k \in DOMAIN new : new[k].op = "ABORT" THEN "aborted" ELSE to
      /\ UNCHANGED << word, before, after >>

Constants ==
  /\ ops_type(word) \notin Branches \cup Jumps
  /\ Pass("init", "Constants", Translate_Constants)
Arithmetic == Pass("Constants", "ALU", Translate_ALU)
Generic == Pass("ALU", "Generic", Translate_Generic)
FPU == Pass("Generic", "FPU", Translate_FPU)
Accesses == Pass("FPU", "Memory", Translate_Memory)
CleanUp == Pass("Memory", "CleanUp", Translate_CleanUp)

\* A variant that leaves a phase no step knows.
Write_Unknown ==
  /\ phase = "CleanUp"
  /\ phase' = "encoded"
  /\ UNCHANGED << word, code, before, after >>

\* emit_arm_code encodes the instructions; the first refused one ends the program.
Write ==
  /\ phase = "CleanUp"
  /\ phase' = IF \E k \in DOMAIN code : Refused(code[k]) THEN "refused" ELSE "written"
  /\ UNCHANGED << word, code, before, after >>

Run ==
  /\ phase = "written"
  /\ \E reg \in Operands(word), junk \in Junk :
       /\ before' = Machine(reg, junk)
       /\ after' = Execute(Machine(reg, junk), code, junk)
       /\ phase' = "done"
  /\ UNCHANGED << word, code >>

Next == Translate_init \/ Constants \/ Arithmetic \/ Generic \/ FPU \/ Accesses \/ CleanUp
        \/ Write \/ Run

Spec == Init /\ [][Next]_vars

=============================================================================
