# Dynamic-Recompiler in TLA+

This directory specifies and verifies the recompiler of `src/`: a program that
translates MIPS code of an N64 image, on demand, into ARM code and runs that.
Paths below are relative to `src/`; "words" are 32-bit words.

- [The system](#the-system)
- [The modules](#the-modules)
- [How the code cache is modelled](#how-the-code-cache-is-modelled)
- [The literal pools](#the-literal-pools)
- [Instructions and segments](#instructions-and-segments)
- [The runs](#the-runs)
- [What the code does differently from what it says](#what-the-code-does-differently-from-what-it-says)
- [What the translated code does differently](#what-the-translated-code-does-differently)
- [The proofs](#the-proofs)
- [What is not modelled](#what-is-not-modelled)
- [Plan](#plan)

## The system

| part | state it keeps | operations | correct when |
|---|---|---|---|
| Code segments, `Recompiler/CodeSegments.c` | `code_seg_t` objects: MIPS range, type, `pContinueNext`, `pBranchNext`, callers, `ARMEntryPoint` | `CompileCodeAt` cuts a super block into segments, chains and translates them; `delSegment` | no dangling pointer, no word of two segments, a chain follows memory |
| Caller lists, `Recompiler/callers.c` | per segment, the segments that branch or continue to it | `addToCallers`, `freeCallers` | every reference to a segment is in its list |
| Address map, `Recompiler/mem_state_full.c` | word -> segment, for two blocks of memory | `getSegmentAt`, `setMemState` | a table of disjoint intervals |
| C interface, `Translations/C_Interface.c` | the stubs the emitted code calls | `branchUnknown` (resolve, compile, link), `cc_interrupt` (DMA) | the guest goes where its branch says |
| Branch translation, `Translations/Branching.c` | none | the ARM code of each branch and jump | as above |
| Literal pools, `Recompiler/literals.c`, `Translations/Literals.c` | a list per segment; 1024 global slots | `addLiteral`, `Translate_Literals` | each load reads the word it was made for |
| ARM emission, `InstructionSets/InstructionSetARM6hf.c` | `emit_out`, which only moves forward | `emit_arm_code`, `arm_encode` | code contiguous along a chain, encodings exact |
| Translation passes, `Translations/*.c` | the list of intermediate instructions of one segment | one pass after the other, `Translate()` | each keeps the meaning of the code |
| MIPS decoding, `InstructionSets/InstructionSetMIPS4.c` | none | `mips_decode`, `ops_type`, registers read and written | agrees with the architecture and with itself |
| COUNT and interrupts, `Translations/CountReg.c` | COUNT | cycles added per segment | one per instruction executed |
| Debugger, `Recompiler/Debugger/Debugger.c` | the command line | `compile`, `start`, `translate`, `print` | can be used between any two steps |
| TLB, `tlb.c`; ROM, `rom.c` | lookup tables; the image | `tlb_map`, `tlb_unmap`; `swap_rom` | inverse to each other; byte order restored |

The parts meet in one loop. Emitted code runs until a branch whose target has
no code yet calls `FUNC_GEN_BRANCH_UNKNOWN` with its own segment and address;
`branchUnknown` looks the target up in the address map, calls `CompileCodeAt`
if nothing is there, links the segments, patches the branch and jumps to the
code. `CompileCodeAt` first deletes what is mapped in the super block, which
follows caller lists, deletes recursively and patches other code; then it cuts
and maps the new segments, and translates them in order.

There is one thread and no locking. What is hard is not concurrency but reach:
pointers kept in four places (map, callers, `pContinueNext`/`pBranchNext`,
emitted code) that every operation has to keep in step, operations that delete
objects which an outer call still uses, and addresses computed in two places
that have to agree. Which of that goes wrong depends on sequences of guest
branches and recompilations no unit test spells out. `PROJECT.json` lists the
hazards line by line.

## The modules

| module | models |
|---|---|
| `CodeSegments` | segments, address map, caller lists, `branchUnknown`, the links between emitted blocks, the guest's control flow, the debugger's `compile` and `start` |
| `SegmentTable` | abstract: the map as a set of disjoint intervals, which are installed and removed as a whole until the process stops |
| `MCCodeSegments` | the programs of the runs of the cache |
| `Literals`, `MCLiterals` | `addLiteral`, the correction of offsets, the layout of the pools |
| `Decode` | `InstructionSetMIPS4.c`: instruction words, `ops_type`, `ops_BranchOffset`, `ops_JumpAddress`, `mips_decode`, the register masks |
| `DecodeTables` | what the tables of `Decode` owe each other, for the word in hand |
| `ArmMachine` | the intermediate instruction, its constructors, `Imm8Shift`, what `arm_encode` can encode |
| `ArmProcessor` | external: what the encoded instructions do, and the C helpers they call |
| `ALU`, `Memory` | `Translate_ALU`; `Translate_Memory`, `Translate_Constants`, `Translate_Generic`, `Translate_FPU`, `Translate_CleanUp`: an operator per operation, from a decoded record to the records in its place |
| `Operations` | the life of one instruction: decoded, one pass after the other, encoded, run |
| `Meaning` | what the MIPS operations mean, written from `InstructionSet.h` and the architecture: the reference |
| `Correctness`, `MCOperations` | the properties of `Operations` and the instance |
| `Branching` | `Translate_CountRegister`, `Translate_Branch`, `Translate_InterCode_Branch`, `InstrFree`: the passes that work on a whole list |
| `Registers` | `Translate_LoadCachedRegisters`, `Translate_StoreCachedRegisters`, `Translate_Registers` |
| `SegmentCode` | the life of a segment: all passes in the order of the table, encoded, run with its branch taken or not, its calls and its interrupts |
| `SegmentMeaning`, `MCSegment` | the properties of `SegmentCode` and the instance |
| `CodeSegments_proofs` | `TypeCorrect`, `MapIsSound`, `EntryIsFaithful` |
| `CodeSegmentsChain_proofs` | `MappedAreTranslated`, `CodeFallsOn`: the chain being compiled, and the code behind a segment |
| `CodeSegmentsCallers_proofs` | `MapIsComplete`, `CacheImplementsTable`: the map and its refinement of `SegmentTable`; `JumpsLand`, `LoopsEnterAtHead`: where linked branches go; `ChainIsSound`: caller lists and nested deletion |
| `Literals_proofs` | `LiteralsTypeCorrect`, `GlobalsAreDistinct`, `GlobalsAreKept`, `GlobalsAreFetched`, `NewLocalsAreFetched` |
| `Decode_proofs` | `BranchesAgree`, `RegistersAgree`: the tables of the decoder, compared on every word |
| `Execution_proofs` | lemmas on lists of records, on flattening them and on running them |
| `Correctness_proofs` | `OperationsTypeOK`, `NothingElseChanges`: the registers emitted code may write |
| `Values_proofs` | `ComparisonsRight`, `SumsAreRight`, `LogicIsRight`: what emitted code computes |

The proof modules of the cache extend each other, in the order of the table, and
so do the last three.

There are three models: the cache (`CodeSegments`), in which a segment is its
range and its links; the pools (`Literals`), in which it is its loads; and the
translation (`Operations`, `SegmentCode`), in which it is its instructions.
They meet in what each takes from the next: the cache knows of a translated
block where it goes (`Translate`), which `SegmentCode` shows it does (`SiteRight`:
the words `branchUnknown` is given; `FlagRight`: what the next segment relies
on); a literal load of the translation reads what it was made for, which is
`NewLocalsFetch` and `GlobalsFetch`.

A definition of the translation stands for the place in the source that shows
it best. The cases of `Translate_Branch`, for one, repeat each other with
small differences; the operators name the differences (`LeavesIf`, `SkipsIf`,
`Compares`, `Leave`), and the map names for each the cases they can be read in.

## How the code cache is modelled

| variable | code |
|---|---|
| `code` | the MIPS memory; it does not change |
| `mem` | `mem_state_full.c`'s table for one block of memory |
| `heap`, `live` | every `code_seg_t`; those malloc has handed out. Freed ones keep their contents, as the code goes on reading them; `ZeroSegment` is the `memset` of `newSegment` |
| `arm` | the blocks `emit_arm_code` has written, in that order, which is their order in memory |
| `cc`, `dels`, `bu` | the locals of the `CompileCodeAt`, the nested `delSegment`s and the `branchUnknown` in progress |
| `cur`, `calls` | the block the guest is in; the blocks whose `BL` has not returned |
| `halted` | what ended the process: an abort, a NULL dereference, a jump into nowhere |

Each C function is a sequence of steps, since `delSegment` recurses and works
on objects that outer calls have freed:

- `CompileCodeAt`: `CompileScan` (length of the super block), `CompileExpire`
  per turn of the expiry loop with `DelCaller` and `DelFinish` for the
  `delSegment` it calls, `CompileSplit` per jump (`SplitJump`), internal loop
  (`SplitLoop`) and other branch (`SplitBranch`), `CompileChosen`, and
  `CompileTranslate` per segment.
- `branchUnknown`: `BranchLookup` up to the call of `CompileCodeAt`,
  `BranchLink` behind it.
- The guest: `GuestBranch`, `GuestCall`, `GuestFallThrough`, `GuestReturn`,
  one block per step. Which way a conditional branch goes is free.
- The debugger: `DebuggerCompile`, `DebuggerStart`, between steps of the guest.

`emit_arm_code` never moves backwards and the guest's stack of return addresses
is the host's, so code that has been replaced is still run by whoever links to
it or returns to it. `invalidateBranch` decodes the MIPS branch of a segment
and writes an ARM branch over the *last* word of its code; `tail` records that,
and what happens to a guest that reaches the word.

Abstractions:

- An instruction is its control flow: `op`, `br`, `bal` (BLTZAL, BGEZAL), `ball`
  (BLTZALL, BGEZALL), `j`, `jal`, `jr`, `ret` (JR r31), `jalr`, `inv`. `op` can be
  translated and is not a read of COUNT. Likely branches without link count as `br`.
- The branches that link are not translated with their own offset: they call
  `addLiteral` for the return address first, and that writes the literal's offset,
  in bytes, over it; `getSegmentAt` and `getTgtAddress` take it for words.
  `BranchOffsets` is the set of offsets this can be, and `TranslateTo` picks one:
  the pools are not part of this module, so which global slot has or gets the value
  is a constant, `GlobalSlots`. It lies in 2 to 1024, since
  `Translate_CountRegister` has asked for the address of `cc_interrupt` before any
  branch is translated, so the first slot never holds a return address. A block
  whose BL was made and put nowhere has `placed` FALSE. `branchUnknown` decodes the
  branch again and patches it by its own offset.
- Delay slots: an instruction stands for the pair with its slot. The code cuts
  segments at the branch; `Translate_Branch` copies the word behind the segment
  in front of the branch and sets a flag that makes the next segment skip its
  first instruction (Branching.c:170). That touches nothing of the cache and is
  modelled in `Branching`.
- Memory is one block of `NWords` words; an address outside it is
  `"wild_address"`, a block that `getSegmentAt` does not know.
- malloc returns any address that is not in use, including one just freed; no
  other allocation reuses a freed segment before it is read again.
- free() overwrites the field `ARMEntryPoint` of a freed segment, so
  `freeCallers` may or may not invalidate a freed caller: any subset is.
- A branch with its offset in a segment changed under it is decoded as what the
  segment holds; where that gives a wild address, the run ends.
- A segment with END type is taken to have literals behind it.
- Settings: `USE_HOST_MANAGED_BRANCHING` 1, `ABORT_MEMORY_LEAK` 0 (setMemState
  over a live word only prints), `ABORT_ARM_ENCODE` 1, `USE_TRANSLATE_DEBUG` 0.

`Translate` either emits a block, or stops the process: for a segment of
several words without a branch at its end (`NullInstruction`) and for a jump
that is all of a START segment (`NotEncoded`).

## The literal pools

`Literals` counts addresses and offsets in words. `Begin` is `Translate_init`,
`LoadKnownGlobal`, `LoadNewGlobal` and `LoadLocal` are the three outcomes of
`addLiteral` together with the load the caller inserts, `AddOther` any other
code a pass inserts, `TranslateLiterals` the pass that corrects offsets and
`Emit` what is written. `value` and `how` of a load say what it should read and
steer nothing. It assumes that 0 is never a literal (unused slots hold 0, and
every caller passes an address or a value no immediate holds) and that no load
stands behind the last instruction of a segment, which is its branch. The
12-bit offset and the number of slots are `Field`, 1024 in the code.

## Instructions and segments

`Operations` follows one instruction word, `SegmentCode` a whole segment,
through the table `Translations` (Translate.c): one action per pass, `Write` for
`emit_arm_code` and `Run` for the execution. A pass can end in `TRANSLATE_ABORT`
(phase `aborted`), the encoder can refuse (`refused`, as `ABORT_ARM_ENCODE` is
on), `Translate_CountRegister` can run off its list (`crashed`),
`pushpopRegister` aborts (`pushpop`).

- *Width.* Everything is computed modulo `2^W` with bytes of `Byte` bits, words of
  four bytes and immediates of two: 3 bits, 12-bit words, 6-bit immediates in the
  runs instead of 8, 32, 16. `Imm8Shift`, the split of immediates, carry,
  overflow and the condition codes are those of the code at that width. The
  decode tables keep the real fields: opcodes, functions and register numbers.
  With bytes of 3 bits a high byte begins at an odd bit, and the encoder, which
  looks at pairs of bits, cannot hold some that it holds at 8; `MCOperations`
  leaves those immediates (`EvenHigh`) out of the logical operations.
- *The processor* (`ArmProcessor`) has registers, the four flags, a stack and a log
  of memory accesses. What a load gives tells its address. C helpers return what
  they compute and leave junk in R0 to R3, R12 and LR.
- *Registers.* `Operations` runs on the register numbers of the intermediate code,
  as they are in front of the passes of `Registers.c`. `SegmentCode` runs both: the
  list as it was (`plain`), and the final one on host registers (`code`) with the
  file of MIPS registers behind EMU_FP. `AllocationFaithful` compares them.
- *A segment* has its words, the word in the delay slot behind it, whether it is
  entered with a delay slot as its first word (`second`), and whether its branch
  is taken for a loop onto the segment (`LoopsBack`, from the `offset` Translate_Branch
  works with: that of the branch, but of the literal with the return address for
  the four branches that link). A taken branch out of it ends the run (exit
  `taken`) with the site and R0 and R1 as `branchUnknown` will find them; BL calls
  a segment that overwrites every register segments overwrite, and comes back;
  BX to `cc_interrupt` notes COUNT and comes back. Exit `loop` is the branch to
  the head, `over` the fall-through, `return` JR r31, `lost` a branch inside the
  segment whose record is gone.
- *The reference* for a segment executes its words one by one, each by its own
  translation, which `Operations` is about, in the order of the MIPS processor. So
  the properties of `SegmentMeaning` speak of the composition only.
- A freed record to which a branch inside the segment still points is not found by
  `FindInstructionIndex`, and the distance then leads behind the list; that another
  record of the same list takes over the memory is possible in the code and only
  makes the result less certain.

## The runs

| run | shows | bounds |
|---|---|---|
| `CodeCache` | all invariants of the cache, and that the map implements `SegmentTable`, for the programs of six words from eight kinds that need at most five segments, those that jump forward and back into the gap included: these compile over segments that exist; and for longer ones with branches that link, whose links are made by the offset of a literal | ten words of memory, 5 segments, 8 blocks, calls two deep, global slots 2 and 3 |
| `CodeCacheDebugger` | map, chains, contiguity and the links of jumps while the debugger recompiles from heads and middles of segments between any two steps, until malloc reuses the address of a segment that lists and code still name | eight programs of six words, 4 segments, 6 blocks, three words to recompile |
| `CodeCacheReturns` | every call into the recompiler ends | five words, 5 segments, 4 blocks, one word to recompile |
| `Literals` | every order of loads and other code in segments of five instructions, five values for four slots, until they run out | `Field` 4 |
| `Operations` | every operation but branches and jumps: what the emitted code leaves in the registers is what the operation means; what the encoder refuses is known; the decode tables agree | every function and opcode; all 64 immediates; ten doublewords at the edges of both words; r0, and a target that is a source |
| `Segment` | every branch and jump, with bodies and delay slots that write its operands, its flags, its link register and its target, first word executed before or not, taken for a loop or not: decision, order, COUNT, flag, R0 and R1, and the allocation of registers | bodies of up to eight words; COUNT on either side of the interrupt and at both sizes of its update |

The other runs, `Finding_*.cfg`, are the subject of the next section.

*Why the bounds suffice.* The cache only compares addresses and follows
pointers. Six words hold a caller, a target block and a loop that overlap each
other in every way: super blocks that cover their caller, jumps into the middle
of a segment, loops onto the first and the second word, chains of three. Each
further compilation deletes and rebuilds what these bounds already contain;
only address reuse needs more of them, which is what `CodeCacheDebugger` is for.
The programs of branches that link need ten words: a segment that the offset of a
literal leads back into has eight at least.
`MaxBlocks` stops new compilations, never one in progress; `MaxCalls` the depth
of JAL nesting. `Fits` leaves out programs that could need more segments than
there are. When recompilations from the middle of a segment leave unreachable
ones behind, malloc can still run out in the runs with the debugger: such a
behaviour is simply not continued. Segments are symmetric; the run with liveness
does without symmetry. Every program ends in a jump, so the search for the end
of a super block stays in memory.

The translation of an operation depends on its fields and nothing else, so one
instruction at a time is enough for `Operations`; its operands are the values at
which a carry, a sign, an overflow or a bit that crosses the words changes. In
`Segment` what matters is how a body, a branch and a delay slot get in each
other's way: one body for each way registers can be used again, overwritten
before they are read, kept across a call of C or be more than the host has; three
of them are combined with loops as well. The values of the condition differ in
the low word, the high one and both.

*Fairness.* `FairSpec` has weak fairness of `Recompiler`, the C code: it is a
single thread which runs until it returns. Nothing is assumed of the guest or
of the debugger. A translation is a fixed number of steps, and no liveness is
stated for it.

*Deadlock* is not checked for the cache: the process stops in earnest, when the
guest's program returns or the code aborts, and the bounds stop the search.
The same holds of the literals; an instruction and a segment have been run
when they stop.

*What the invariants leave out.* `ChainSound` does not speak of segments that
end in JALR, for the reason given in the next section, nor of empty ones: a
segment can take the address of the one `branchUnknown` was called from while
that call compiles, and the call then records its branch in the new segment.
For the same reason `JumpsLandInSegment` speaks of the code segments have: code
left behind by a segment whose address was given to another is linked to the
target of that one. `SelfLoopsAtHead` excepts branches to the next word, which
`branchUnknown`, counting from the branch, takes for branches to themselves, and
the branches that link, which go by the offset of a literal: for these it is false,
as the run `LinkingLoops` shows.
`MapComplete` and the refinement are checked without the debugger, since a
recompilation from the middle of a segment breaks them. A segment freed twice
aborts the process with the map already cleared over words of others, which is
why `SegmentTable` promises whole intervals until the process stops. `NewLocalsFetch` is about distances that fit the offset. The properties of
the translation leave out the deviations that have a name there, and are listed
[below](#what-the-translated-code-does-differently); each is as narrow as it
could be made, and a case that comes out right all the same is rarely in it.

## What the code does differently from what it says

Each of these runs checks one statement of a comment, and TLC finds it violated.

| run | statement | what happens |
|---|---|---|
| `DoubleFree` | deleting a segment frees it (CodeSegments.c:147) | expiring a chain from its first segment frees that twice |
| `CallerGone` | the calling segment is patched (C_Interface.c:143) | it may have been freed by the compilation |
| `OffByOneTarget` | offsets count from the next instruction (InstructionSet.h:417) | branchUnknown counts from the branch |
| `LinkingLoops` | the test is whether the segment loops on itself (Branching.c:786) | for BLTZAL, BLTZALL, BGEZAL and BGEZALL it tests the offset of their return address: a branch to elsewhere is taken for a loop, and loses its BL |
| `InvalidateMisses` | invalidateBranch redirects the branch (CodeSegments.c:45) | it overwrites another word |
| `ReusedLiteral` | the value already exists (literals.c:112) | the load reads the word behind it |

The models of the cache and the pools hold more of them, which no run states:

- a branch to a word before the block passes the test for branches inside it,
  since the unsigned sum wraps (`IsInternal`; CodeSegments.c:325, 371);
- a branch linked while it is translated is in no caller list (`InitialLink`;
  Branching.c:36), so live code goes on branching to deleted code;
- a branch that links is linked to the segment as many words behind its end as the
  offset of its return address has bytes, if there is one, and its loops are rarely
  found to be loops (`BranchOffsets`; Branching.c:787, 799, 860, 873, 1047, 1059,
  1124, 1142);
- a jump into the middle of a segment enters at its first word (`BranchLink`,
  `EntryAt`; C_Interface.c:163), which is why `JumpsLandInSegment` says "lands
  in" and not "enters at";
- a JAL that is not the first jump of a super block makes a SEG_END with code
  behind it (`SplitJump`; CodeSegments.c:308);
- a JALR to the word behind it both branches and continues to one segment and
  survives its deletion (`DelCaller`; CodeSegments.c:190);
- expiring from the middle of a segment skips words of others (`CompileExpire`;
  CodeSegments.c:268), so segments stay allocated that the map has lost;
- the segment in front of an internal loop, if it has more than one word, makes
  `Translate_CountRegister` dereference NULL (`NullInstruction`; CountReg.c:92);
- a jump that is the first word compiled is never translated (`NotEncoded`;
  Branching.c:193);
- the last of the 1024 global literal slots cannot be addressed (`Encode`;
  literals.c:91), so `GlobalsFetch` is about offsets that fit.

## What the translated code does differently

The properties name these cases and hold outside them. TLC reaches every one.

*Branches* (`SegmentMeaning`):

- `ReadsLowSign`: branches on the sign of a register compare the low word under a
  condition on the high one, and take the sign of the low word when that
  condition holds; right for sign-extended words only (Branching.c:663, and in the
  other cases). BLTZL alone looks at the high word only.
- BEQ, BNE and the other ordinary branches, and JR and JALR, read their operands
  behind the delay slot; the reference for `DecisionRight` and `SiteRight` does so
  too.
- `NeverSkipped`: BEQL and BNEL with nothing to execute in the delay slot have no
  branch around them, and are taken always (Branching.c:264-460).
- `AsksAgain`: BLEZL and BGTZL test the flags a second time behind the delay slot
  (Branching.c:1279): when that sets them the delay slot may have been executed
  for a branch that is not taken.
- `NotLinked`: BLTZAL and BGEZAL are never taken when the offset of their return
  address leads back into the segment, wherever they go themselves: the BL is made
  and put into no list (Branching.c:792, 1052). That needs a SEG_SANDWICH of eight
  words or more, whose literal takes the second global slot, or more for later ones.
- BGEZL, BLTZALL and JR hand on the flag they were entered with (`FlagRight`).
- `HeadFreed`: a self loop whose first record is a NO_OP branches to a record that
  was freed (InstructionSet.c:797).
- A branch that is alone in its segment is not translated, and refused; a segment
  without a branch crashes `Translate_CountRegister`.

*Registers* (`AllocationFaithful`):

- `LoadSkipped`, `StoreSkipped`: the load of a register stands with its first
  mention, the store with its last update, also when a branch inside the segment
  skips that.
- `LiveAcross`: a register whose next use is behind such a branch counts as unused
  (Registers.c:108).
- `SharedHost`: one whose next mention overwrites it counts as free (Registers.c:115),
  though the record in hand may still read it. ADDU r3; ADDU r4,r4,r5; ADDU r3;
  XOR r5,r3,r4 is translated wrongly.
- `HeldInR12`: R12 is handed out, and `cc_interrupt` overwrites it.

*Operations* (`Correctness`):

- SRL, SRA, DSRL32, DSRA32 by 0 shift by a whole word, as ARM reads LSR #0
  (`ShiftedByNothing`); DSLL, DSRL, DSRA by 0 are refused.
- DSRA with rd = rt has shifted the low word away before it needs it.
- Distances in a register are not cut to 5 or 6 bits; DSLLV ors the bits that cross
  the words into the low one.
- MULT, MULTU leave HI stale; DMULT, DMULTU lose a carry of the middle products, and
  DMULT mistakes the sign when a low word is 0.
- NOR gives all ones. SLT, SLTU, SLTI, SLTIU look at low words, and the immediate
  ones cannot be negative.
- An immediate of two bytes in ADDI, ADDIU, DADDI, DADDIU is put together wrongly,
  a negative one never traps, and leaves the high word stale or wrong
  (`PutTogetherWrongly`, `NegativeUnnoticed`, `HighWordStale`).
- LUI of an immediate that one ARM byte can hold is loaded unshifted (Constants.c:77),
  where InstructionSet.h:298 says rt = imm16 << 16; `LogicRight` leaves it out.
- No operation on words writes the high word; any operation writes r0.
- LB and LBU lose the sign of a negative offset; LD cuts offsets around the limit
  of a load, and overwrites its base before the second load. LL, LWC1, LLD and LDC1
  are translated as LD.
- SRLV is in none of the tables; SUB and SUBU are decoded and translated by no pass.
- The register masks of the segment builder count HI and LO as general registers
  and coprocessor 0 as floating point, and name the base of some loads as a target
  (`NamedOtherwise`). Only the self-check of main.c:238 reads these masks.

*COUNT*: every MFC0 of COUNT would add its distance from the head, so that a second
one counts the first words again (CountReg.c:72-75). No pass translates MFC0, and a
segment that has it ends in an abort.

## The proofs

Proved of the cache for every memory size, program, number of segments and bound,
the debugger's compilations included unless the table says otherwise; of the
pools for any number of slots; of the translation for every instruction word,
every content of the registers and every width of a byte, of which a word has
four and an immediate two:

| theorem | states |
|---|---|
| `TypeCorrect` | `Spec => []TypeOK`. `TypeOK` is inductive as it stands; most of its weight is that block numbers stay in range while `arm` grows (`MoreBlocks`, `TranslateKeeps`) and that `cc.seg`, `bu.seg` name segments whenever they are used |
| `MapIsSound` | `Spec => []MapSound`: what `getSegmentAt` returns is allocated and covers the address |
| `EntryIsFaithful` | `Spec => []EntryFaithful`: `ARMEntryPoint` of every segment is the block emitted for it with its present range |
| `MappedAreTranslated` | `Spec => []MappedTranslated`: while the guest runs every mapped segment has code |
| `CodeFallsOn` | `Spec => []FallsIntoContinuation`: behind the code of a segment that continues stands the code of its continuation |
| `MapIsComplete` | `DebugTargets = {} => (Spec => []MapComplete)`: no segment is lost |
| `CacheImplementsTable` | `DebugTargets = {} => (Spec => ImplementsTable)`: the refinement, `Spec => Table!Spec` |
| `JumpsLand` | `Spec => []JumpsLandInSegment`: a linked J or JAL enters a block that holds its target |
| `LoopsEnterAtHead` | `Spec => []SelfLoopsAtHead`: a branch without link that is linked to its own block goes to its head, or to the next word |
| `ChainIsSound` | `Spec => []ChainSound`: continuations are allocated, adjacent and know their callers |
| `LiteralsTypeCorrect` | `Spec => []TypeOK` of the literal pools, for any number of slots |
| `GlobalsAreDistinct`, `GlobalsAreKept` | `Spec => []GlobalsDistinct` and `Spec => GlobalsKept`: slots are filled in order with different values and never changed |
| `GlobalsAreFetched` | `Spec => []GlobalsFetch`: every load of a global literal reads it |
| `NewLocalsAreFetched` | `Spec => []NewLocalsFetch`: so does every load of a local literal that was new to its segment |
| `BranchesAgree` | `[](word \in MipsWord) => []ClassifiersAgree`: what the segment builder takes for a branch or a jump is one to `mips_decode`, with the same distance, index and link |
| `RegistersAgree` | `[](word \in MipsWord) => []TablesAgree`: the register masks name all operands of the decoded record, `NamedOtherwise` excepted |
| `OperationsTypeOK` | `Spec => []TypeOK` of `Correctness`: records of one shape, a processor that keeps its registers |
| `NothingElseChanges` | `Spec => []OnlyTargetChanges`: emitted code that runs to its end changes its targets and the scratch registers only, and pops what it pushes |
| `ComparisonsRight` | `Spec => []ComparesRight`: SLT, SLTU, SLTI, SLTIU |
| `SumsAreRight` | `Spec => []SumsRight`: ADD, ADDU, ADDI, ADDIU, DADD, DADDU, DADDI, DADDIU, DSUB, DSUBU, but for the deviations the property names |
| `LogicIsRight` | `Spec => []LogicRight`: AND, OR, XOR, ANDI, ORI, XORI, and LUI of an immediate no byte can hold |

Every invariant of the cache and of the pools that a run checks is a theorem,
and so is every action property; each inductive invariant below was an invariant
of a TLC run before it was proved.

*The map, first half.* `MapSound` is inductive with `TypeOK`. The argument:
`setMemState` in `DelFinish` removes a segment at every word it covers in the
step that frees it (`DelFinishSound`), `SplitJump`, `SplitLoop` and `SplitBranch`
take segments that are not live, and other steps change no range of a segment
(`SameRanges`, `UnchangedSound`). It does not need to know how deletions nest,
and holds through double frees. `EntryFaithful` holds because a segment gets its
range and loses its entry point in the same step, and blocks are only appended:
even a reused address never has the entry point of its predecessor.

*The chain being compiled* (`ChainInv`). What `CompileCodeAt` has cut and not yet
translated is a state of its own: segments in the map without code, a list that
is only reachable through `pContinueNext`. `CompileOK` says where the locals of
`CompileCodeAt` stand in the super block; `ChainOK`, that the segments allocated
but untranslated are one chain in the order of memory, from the segment that is
translated next to the last one cut; `Enclosed`, that no word is mapped from which
`CompileCodeAt` would find a super block of no words, and so leave without
translating what it had mapped. `MappedTranslated` is the empty chain. `FallsOn` follows since the only step that emits code translates the
front of the chain, so that two neighbours in it get neighbouring blocks.

*The map, second half* (`MapInv`). Live segments do not overlap (`NoOverlap`) and
are mapped wherever they are (`Mapping`). The step that needs work is
`CompileSplit`, which maps the words of the new segment over whatever is
there: `Cleared` says that the expiry loop has left those words empty. That is
the case when the word it starts at is not mapped: then a segment it meets
begins at the word it is met at, and skipping its length skips exactly its words
(`CompileExpireMap`). The guest only asks for words that are not mapped. The
debugger may ask for any, in the middle of a segment too, and that breaks
`MapComplete`; hence the hypothesis `DebugTargets = {}`: the
debugger is not told to compile, whatever the program and the guest do. The refinement maps
`CompileSplit` to `Install`, `DelFinish` to `Remove`, the steps that set `halted`
to `Stop` and all others to stuttering (`NextTable`).

*Links* (`LinkInv`). A block is left by a branch whose target was computed from
the segment that owns it. `BuOwner` keeps that owner with the `branchUnknown` in
progress, `BuTarget` its target while the segment has the same code, and
`LoopHeads` says that a branch inside a super block never targets a word
strictly inside the segment it ends, since `SplitLoop` has cut there.
Nothing of the kind holds of the branches that link, whose links come from an
offset that `SplitLoop` has not seen.

*Deletion* (`CallersInv`). `delSegment` walks the caller list of a segment while
nested calls delete callers, so an invariant must speak of half-walked lists.
`Called` does: a segment in use that is not being deleted itself and continues to
`t` is in `t`'s list at or behind the place where every `delSegment` of `t` now
stands, and twice when it also branches to `t`, since one entry is spent on
clearing that branch. When a walk ends nobody continues to `t` any more, and
`DelFinish` may free it. `EndsOK` says that what ends a super block continues to
nothing, `PrevOK` the same of the segment `CompileCodeAt` will chain next, and
`BuKind` that a JALR is never recorded in a segment that does not end in one, but
for an address used again. No hypothesis about the debugger is needed: what it
breaks is the map, not the lists.

*Literals.* `GlobalsFetch` needs `LoadsSound`, which speaks of the loads of the
segment being translated as well: each names a slot that holds its value,
`Translate_Literals` turns its direction before it is emitted
(`CorrectedSound`), and slots are never changed (`SoundKept`). `NewLocalsFetch`
needs `LocalsSound`, which has a part for each stage of a segment. While it is
built (`Placed`) every load of a new literal carries the offset of the literal in
the list, whatever is inserted before or behind it (`InsertPlaced`);
`Translate_Literals` turns that into the distance for the position the load has
then (`Aimed`, `CorrectedAims`), with the pipeline's two words and the two
places a pool can have; and `Emit` lays out pool, code and pool so that the
distance leads to the literal (`EmittedWords`, `EmitReaches`). The step from one
part to the next is where inserting code after the correction would break it.

*The decoder's tables.* `Operations` tries every function and opcode, with a few
register numbers and 64 immediates; the two theorems speak of every word
whose fields have their width, immediates of any width up to 26 bits. `ops_type`
is one table by operation code and four below it; a lemma for each (`MajorNames`,
`SpecialNames`, `RegimmNames`, `Cop0Names`, `Cop1Names`) reads off which codes
name a branch or a jump, `TypeNames` puts them together, and
`ops_BranchOffset` and `ops_JumpAddress` ask for the same codes. `DecodedAs`
shows which of the decoders fills the record, `InputArms` and `OutputArms` what
the masks are for a class of operations: in all three the arms must be shown to
exclude each other, since a name stands in several sets. The operands are
then compared by operation code (`SpecialNamed`, `RegimmNamed`, `Cop0Named`,
`Cop1Named`, `MajorNamed`). The theorems are about the variable `word`
alone, so that they need nothing of `Operations` but the part of its `TypeOK`
that says `word \in MipsWord`.

*Which registers emitted code changes* (`Guarded`). A list of records is what the
passes have made of one decoded record `d`, so the invariant says what each of its
records can be: `d` itself, a record without effect, one that writes only `Dest(d)`
(the targets, HI and LO for products, the scratch registers), or a `PUSH`, a call
of a helper or a `POP`. `Leads` follows the list with the set of registers that
are pushed and have not been popped (`open`), since a helper leaves junk in
registers that are somebody's target only between the two. `ALUReady`,
`MemoryReady` and `ConstantsReady` show it of what each pass writes, operation by
operation; a pass leaves the records another pass wrote alone (`Settled`). Running
the list keeps `Agrees`: outside `Dest(d)` and what is open the registers are the
ones of the beginning, and the stack holds what `open` says. This is induction
along the list, done with the least index at which it would fail (`LeastNumber`),
since the induction theorems of the library are out of reach.

*What emitted code computes* (`Listed`). `Guarded` says too little for that, so
`Listed` says which list there is in every phase: the record as decoded, then
what the one pass that knows the operation writes for it, then that list without
the records `Translate_CleanUp` drops; and in phase `done`, that the processor is
what running it makes of a register file. `Through` shows that the dropped
records would not have mattered, so a theorem may run the list the translation
writes out (`Runs`), instruction by instruction: `SumByRegister`,
`LogicByImmediate`, `MoveByRegister` and the like say what one of them leaves.
The rest is arithmetic at a width nobody knows. Division by a power of two is
taken apart into quotient and remainder (`DivMod`, `Unique`, `Multiples`);
`AdderFacts` says of the adder what its sum, carry and overflow say of the
unsigned and the signed operands, `DoubleAdder` puts two of them together over the
carry flag, and `HighLow` compares doublewords by their words. Each property then
follows by operation, and the deviations appear where the proof needs them: the
carry of the low byte of a split immediate is needed to be none
(`PutTogetherWrongly`), the borrow to be the overflow (`HighWordStale`). The
logical operations compare words bit by bit: `AroundBit` separates a bit from what
is above and below it, `SameBits` says that words with the same bits are equal,
`BitsPicked` that the sum that defines the operations has the bits it was made of,
and `HalfByHalf` that an immediate may be applied one byte at a time.

Assumptions: `ConstantsAssumption` and `ProgramsAssumption` of `CodeSegments`,
`ConstantsAssumption` of `Literals`, `ImmBitsAssumption` and `OffsetsAssumption`
of `Decode` (no immediate reaches the answer `0x7FFFFFF` of `ops_BranchOffset`).
Of the translation: `ByteAssumption`, `ImmediateIsTwoBytes`; `ProgramsAssumption`,
`OperandsAssumption` and `JunkAssumption` of `Operations`, which say that words
have the fields of the encoding, registers hold words and register 0 holds zero;
and `PowersAssumption`, `2^0 = 1` and `2^(n+1) = 2 * 2^n` up to the widest shift.
The last is a fact about numbers and not about the code: the solvers know powers
of fixed numbers only. TLC evaluates all of them.

*Only model-checked.* Of the cache, liveness (`RecompilerReturns`), which the
prover cannot do under fairness. Of single instructions, `ShiftsRight` (products
and quotients with powers of a number in a register), `ProductsRight` (products of
unknown words), `AccessesRight` (addresses cut to one and a half bytes, which the
assumptions on `Byte` do not take apart) and `RefusalsKnown`, which is no theorem:
where bytes have an odd number of bits it is false for the immediates
`EvenHigh` leaves out of the run. Of segments, every property of
`SegmentMeaning`: the passes over whole lists and the execution of a segment,
which a branch can leave at any record, are recursive operators, and the prover
does not take those.

## What is not modelled

The bit fields of the ARM words and the floating-point instructions, on which
`Translate_FPU` aborts; DMA and other writes to code (the cache is
modelled for code that stays as it is, and nothing in the source reacts to a
write); the stubs of `C_Interface.c` beyond the calls they make; the TLB tables
(`tlb_map` and `tlb_unmap` have no caller); the ROM loader; shut-down; disassembly
and the debugger's printing. `PROJECT.json` gives the state and the reason for
each component.

## Plan

1. *(done)* `CodeSegments`, `SegmentTable`: cache, links, deletion.
2. *(done)* `Literals`: pools and offsets.
3. *(done)* `Decode`, `ALU`, `Memory`, `Operations`: what an instruction becomes.
4. *(done)* `Branching`, `Registers`, `SegmentCode`: what a segment becomes.
5. *(done)* Proofs of the cache and the pools: every safety property and the
   refinement.
6. *(done)* Proofs of the decoder's tables.
7. *(done)* Proofs of single operations: types, the registers that change,
   comparisons, sums and logic.
8. Left: proofs of shifts, products and accesses; `cc_interrupt` with the PI registers,
   should the code come to expire what a DMA overwrites; shut-down.
