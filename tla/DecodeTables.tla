---------------------------- MODULE DecodeTables ----------------------------
(***************************************************************************)
(* What the tables of the decoder owe each other.  The segment builder     *)
(* asks ops_type, ops_BranchOffset and ops_JumpAddress where a segment     *)
(* ends and goes; the translation asks mips_decode; the register tables    *)
(* say what a segment reads and writes.                                    *)
(***************************************************************************)
EXTENDS Decode

VARIABLE word      \* the instruction word that is decoded

\* Every word: each field has the bits the encoding gives it.
MipsWord ==
  [op : 0..63, rs : 0..31, rt : 0..31, rd : 0..31, sa : 0..31, fn : 0..63,
   imm : 0..2^ImmBits - 1]

\* A branch or jump to one table is one to all, with the same distance.
SameBranches(w) ==
  LET op == ops_type(w)
      ins == mips_decode(w)
  IN  /\ (op \in Branches \cup FloatBranches) = (ops_BranchOffset(w) # NoOffset)
      /\ (op \in Jumps) = (ops_JumpAddress(w) # NoAddress)
      /\ op \in Branches \cup FloatBranches => ins.imm = ops_BranchOffset(w)
      /\ op \in {"J", "JAL"} => 4 * ins.imm = ops_JumpAddress(w)
      /\ op \in Branches \cup Jumps => ins.Ln = (31 \in ops_regs_output(w).regs \/ op = "JALR")

\* The slips of the register tables: HI and LO are put into the mask of the
\* general registers, coprocessor 0 is counted among the floating-point
\* registers, and some loads name their base as the target.
NamedOtherwise == {"MFHI", "MFLO", "MTHI", "MTLO", "MFC0", "MTC0", "LD", "LWR", "LWU", "BLEZ"}

\* The tables of inputs and outputs name every operand of the decoded record.
NamesRegisters(w) ==
  LET ins == mips_decode(w)
      in  == ops_regs_input(w)
      out == ops_regs_output(w)
  IN  ops_type(w) \notin NamedOtherwise \cup {X} /\ out.ret = 0 /\ in.ret = 0
      => /\ {ins.Rd1} \ {NOT_USED} \subseteq out.regs
         /\ {ins.R1, ins.R2} \ {NOT_USED} \subseteq in.regs

-----------------------------------------------------------------------------
\* The segment builder and the translation agree on the word: it is a branch or
\* a jump to all of the tables or to none, with the same distance, and a jump
\* outside the linking ones leaves r31 alone.
ClassifiersAgree == SameBranches(word)

\* Apart from the slips the tables of inputs and outputs name every register that
\* the decoded record reads and writes.
TablesAgree == NamesRegisters(word)

=============================================================================
