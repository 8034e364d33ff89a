---------------------------- MODULE CodeSegments ----------------------------
(***************************************************************************)
(* The code cache of the recompiler: the code segments, the address map    *)
(* that finds them, the caller lists that tie them together, and the ARM   *)
(* code that is emitted for them, patched and left behind.                 *)
(*                                                                         *)
(* Sources: Recompiler/CodeSegments.c, Recompiler/callers.c,               *)
(* Recompiler/mem_state_full.c, Translations/C_Interface.c (branchUnknown),*)
(* Translations/Branching.c (how a branch is linked when it is translated) *)
(* and emit_arm_code.                                                      *)
(*                                                                         *)
(* MIPS addresses are word indices into one memory block.  An ARM block is *)
(* what one Translate() emits; emit_out only ever moves forward, so blocks *)
(* are numbered in emission order and block b falls through into b + 1.    *)
(* Block number 0 stands for a NULL ARMEntryPoint and for the branch       *)
(* target FUNC_GEN_BRANCH_UNKNOWN.                                         *)
(*                                                                         *)
(* The C code is single threaded, but delSegment() is recursive and works  *)
(* on objects that an outer call may have freed, so each C function is a   *)
(* sequence of steps here and its locals are state.                        *)
(***************************************************************************)
EXTENDS Integers, Sequences, FiniteSets, SequencesExt

CONSTANTS
    NWords,       \* words of MIPS memory
    Programs,     \* the memory images to run: functions of Addr to Instr
    Segs,         \* the addresses malloc may return for a code_seg_t
    NULL,         \* the null code_seg_t*
    Entry,        \* the address compiled at start-up (0x88000040)
    RegTargets,   \* the values a JR or JALR register may hold
    DebugTargets, \* the addresses the debugger's "compile" is given
    GlobalSlots,  \* the global slots a return address may be found or put in
    MaxBlocks,    \* bound: no compilation starts once this many blocks exist
    MaxCalls      \* bound: depth of the JAL calls in progress

Addr == 0 .. NWords - 1

ASSUME ConstantsAssumption ==
    /\ NWords \in Nat \ {0}
    /\ NULL \notin Segs
    /\ Entry \in Addr /\ RegTargets \subseteq Addr /\ DebugTargets \subseteq Addr
    /\ GlobalSlots # {} /\ GlobalSlots \subseteq 2 .. 1024
    /\ MaxBlocks \in Nat /\ MaxCalls \in Nat

(***************************************************************************)
(* MIPS instructions, as far as the cache tells them apart (ops_type).     *)
(* "ret" is JR r31, "jr" a JR through another register, "bal" is BLTZAL or *)
(* BGEZAL, "ball" BLTZALL or BGEZALL, "br" every other branch; v is the    *)
(* offset of a branch and the target of a "j" or "jal".                    *)
(***************************************************************************)
BranchKinds == {"br", "bal", "ball"}
Kinds == BranchKinds \cup {"op", "j", "jal", "jr", "ret", "jalr", "inv"}
PatchedKinds == BranchKinds \cup {"j", "jal"}   \* linked here, patched by branchUnknown
Instr == [k : Kinds, v : Int]

ASSUME ProgramsAssumption == Programs \subseteq [Addr -> Instr]

IsJump(i)   == i.k \in {"j", "jal", "jr", "ret", "jalr"}  \* op & OPS_JUMP
IsLink(i)   == i.k \in {"jal", "jalr", "bal", "ball"}     \* op & OPS_LINK
IsBranch(i) == i.k \in BranchKinds                        \* op & OPS_BRANCH
IsControl(i) == IsJump(i) \/ IsBranch(i)
BranchLinks(i) == IsBranch(i) /\ IsLink(i)

\* Faulty variant: JR is not recognised as the end of a super block.
EndsSuperBlock_OnlyJ(i) == i.k = "j"

EndsSuperBlock(i) == IsJump(i) /\ ~IsLink(i)

SegTypes == {"ALONE", "START", "END", "SANDWICH"}

VARIABLES
    code,    \* the MIPS memory
    mem,     \* mem_state_full.c: word |-> code_seg_t* or NULL
    heap,    \* contents of every code_seg_t, freed ones included
    live,    \* the segments malloc has handed out and free not taken back
    arm,     \* the emitted ARM blocks, in emission order
    cc,      \* the CompileCodeAt() in progress
    dels,    \* the nested delSegment() calls in progress, innermost last
    bu,      \* the branchUnknown() in progress
    cur,     \* the ARM block the guest executes, 0 when it has returned
    calls,   \* the blocks whose BL has not returned yet
    halted   \* "no", or what has stopped the process

cacheVars == <<mem, heap, live, arm>>
callVars  == <<cc, dels, bu>>
guestVars == <<cur, calls>>
vars == <<code, cacheVars, callVars, guestVars, halted>>

Idle   == [phase |-> "idle", by |-> "boot", addr |-> 0, n |-> 0,
           x |-> 0, start |-> 0, prev |-> NULL, seg |-> NULL]
NoCall == [phase |-> "idle", seg |-> NULL, blk |-> 0, kind |-> "op", tgt |-> 0]

-----------------------------------------------------------------------------
(* Memory map, segments and caller lists. *)

SegAt(a) == IF a \in Addr THEN mem[a] ELSE NULL           \* getSegmentAt

Words(start, len) == {a \in Addr : start <= a /\ a < start + len}
RangeOf(s)        == Words(heap[s].start, heap[s].len)

\* Faulty variants: the last word is left out; words are never given back.
SetMem_Short(m, start, len, s) ==
    [a \in Addr |-> IF a \in Words(start, len - 1) THEN s ELSE m[a]]
SetMem_Keeps(m, start, len, s) ==
    IF s = NULL THEN m ELSE [a \in Addr |-> IF a \in Words(start, len) THEN s ELSE m[a]]

SetMem(m, start, len, s) ==                               \* setMemState
    [a \in Addr |-> IF a \in Words(start, len) THEN s ELSE m[a]]

WordAt(a) == IF a \in Addr THEN code[a] ELSE [k |-> "inv", v |-> 0]

\* *(MIPScode + MIPScodeLen - 1): the word before MIPScode if the length is 0.
LastInstr(s) == WordAt(heap[s].start + heap[s].len - 1)

ZeroSegment == [start |-> 0, len |-> 0, type |-> "ALONE", cont |-> NULL,
                br |-> NULL, callers |-> <<>>, entry |-> 0]

\* Faulty variant: the length leaves out the jump or branch.
Segment_Short(start, len, type) ==
    [ZeroSegment EXCEPT !.start = start, !.len = len - 1, !.type = type]

\* A zeroed segment with its MIPS range and type filled in.
Segment(start, len, type) ==
    [ZeroSegment EXCEPT !.start = start, !.len = len, !.type = type]

\* Faulty variant: the previous segment is not added to the callers.
Chain_NoCaller(h, prev, s) ==
    IF prev = NULL THEN h ELSE [h EXCEPT ![prev].cont = s]

\* prevSeg->pContinueNext = s; addToCallers(prevSeg, s), if there is a prevSeg.
Chain(h, prev, s) ==
    IF prev = NULL THEN h
    ELSE [h EXCEPT ![prev].cont = s, ![s].callers = Append(h[s].callers, prev)]

-----------------------------------------------------------------------------
(* Emitted code. *)

\* The offset Translate_Branch works with.  The branches that link first call
\* addLiteral for their return address, which overwrites it with the offset of
\* that literal, in bytes: of a global slot that holds the value, of a new one
\* if the segment is a SANDWICH, or else of the first or second literal of the
\* segment.  (Translate_CountRegister has asked for cc_interrupt before: that is
\* in global slot 1, or in front of the return address.)
BranchOffsets(i, type) ==
    IF ~BranchLinks(i) THEN {i.v}
    ELSE {4 * n : n \in GlobalSlots}
         \cup (IF type = "SANDWICH" THEN {-4 * n : n \in GlobalSlots} ELSE {0, 4})

\* Faulty variant: a J target is taken as an offset too.
TranslateTarget_Relative(i, e, off) == e + IF IsBranch(i) THEN off ELSE i.v

\* The word a branch targets: where Translate_Branch looks (getTgtAddress), in
\* words with the offset it works with, and where branchUnknown looks, given
\* the terminator i of a segment ending at word e - 1.
TranslateTarget(i, e, off) == IF IsBranch(i) THEN e + off ELSE i.v
UnknownTarget(i, e)        == IF IsBranch(i) THEN e - 1 + i.v ELSE i.v

EntryAt(a) == IF SegAt(a) = NULL THEN 0 ELSE heap[SegAt(a)].entry

\* The translator takes the branch of s for a loop onto s itself.
LoopsBack(s, off) ==
    LET i == LastInstr(s)
    IN  IsBranch(i) /\ SegAt(TranslateTarget(i, heap[s].start + heap[s].len, off)) = s

\* The block a freshly translated branch goes to: itself, the entry point its
\* target already has, or 0 for FUNC_GEN_BRANCH_UNKNOWN.
InitialLink(s, off) ==
    LET i == LastInstr(s)
    IN  IF LoopsBack(s, off) THEN Len(arm) + 1
        ELSE IF i.k \in PatchedKinds
             THEN EntryAt(TranslateTarget(i, heap[s].start + heap[s].len, off)) ELSE 0

\* What Translate(s) appends to the emitted code.  The BL that takes BLTZAL and
\* BGEZAL back to their own segment is made but put nowhere (placed).  tail
\* records that the last ARM word has been overwritten by invalidateBranch.
Block(s, off) == [owner |-> s, start |-> heap[s].start, len |-> heap[s].len,
                  type |-> heap[s].type, link |-> InitialLink(s, off),
                  placed |-> ~(LastInstr(s).k = "bal" /\ LoopsBack(s, off)),
                  tail |-> FALSE]

\* Translate_CountRegister runs off the end of a segment of several words that
\* ends in no jump or branch, Translate_Registers off an empty one.
NullInstruction(s) ==
    heap[s].len = 0 \/ (heap[s].len > 1 /\ ~IsControl(LastInstr(s)))

\* Translate_Branch looks at what follows an instruction: a jump or branch that
\* is the whole of a START segment reaches arm_encode as it is, which aborts.
NotEncoded(s) ==
    heap[s].type = "START" /\ heap[s].len = 1 /\ IsControl(LastInstr(s))

\* Translate(s), with b as the entry point of s.
TranslateTo(s, b) ==
    \/ /\ ~NullInstruction(s) /\ ~NotEncoded(s)
       /\ \E off \in BranchOffsets(LastInstr(s), heap[s].type) :
             arm' = Append(arm, Block(s, off))
       /\ heap' = [heap EXCEPT ![s].entry = b]
       /\ UNCHANGED halted
    \/ /\ NullInstruction(s) \/ NotEncoded(s)
       /\ halted' = IF NullInstruction(s) THEN "null_instruction" ELSE "not_encoded"
       /\ UNCHANGED <<arm, heap>>

\* Faulty variants: the entry point is the block before, or the one after.
Translate_Behind(s) == TranslateTo(s, Len(arm))
Translate_Ahead(s)  == TranslateTo(s, Len(arm) + 2)

Translate(s) == TranslateTo(s, Len(arm) + 1)

Terminator(b) == WordAt(arm[b].start + arm[b].len - 1)

\* invalidateBranch on each segment of S: the LAST word of its ARM code is
\* overwritten, which is not where the branch is.
InvalidateAll(S) ==
    LET blocks == {heap[c].entry : c \in {c \in S : heap[c].len > 0}}
    IN  [b \in DOMAIN arm |-> IF b \in blocks THEN [arm[b] EXCEPT !.tail = TRUE]
                                              ELSE arm[b]]

-----------------------------------------------------------------------------
(* delSegment and freeCallers. *)

DelFrame == Last(dels)

\* Faulty variant: callers that continue to the segment are not deleted.
DelCaller_Keeps ==
    /\ halted = "no" /\ dels # <<>>
    /\ LET s == DelFrame.seg
           c == heap[s].callers[DelFrame.i]
       IN  /\ DelFrame.i <= Len(heap[s].callers)
           /\ heap' = IF heap[c].br = s THEN [heap EXCEPT ![c].br = NULL] ELSE heap
           /\ dels' = Append(Front(dels), [DelFrame EXCEPT !.i = @ + 1])
    /\ UNCHANGED <<code, mem, live, arm, cc, bu, guestVars, halted>>

\* One turn of the loop over the callers.  A caller that branches here loses
\* the reference, one that continues here is deleted as well.
DelCaller ==
    /\ halted = "no" /\ dels # <<>>
    /\ LET s     == DelFrame.seg
           i     == DelFrame.i
           outer == Append(Front(dels), [DelFrame EXCEPT !.i = i + 1])
           c     == heap[s].callers[i]
       IN  /\ i <= Len(heap[s].callers)
           /\ \/ /\ heap[c].br = s
                 /\ heap' = [heap EXCEPT ![c].br = NULL]
                 /\ dels' = outer
              \/ /\ heap[c].br # s
                 /\ dels' = IF heap[c].cont = s
                            THEN Append(outer, [seg |-> c, i |-> 1]) ELSE outer
                 /\ UNCHANGED heap
    /\ UNCHANGED <<code, mem, live, arm, cc, bu, guestVars, halted>>

\* freeCallers, setMemState, free.  Freeing a segment twice aborts the process.
\* free() overwrites the ARMEntryPoint of a freed caller, so whether that one
\* is invalidated depends on what was written: any subset is.
DelFinish ==
    /\ halted = "no" /\ dels # <<>>
    /\ LET s       == DelFrame.seg
           callers == ToSet(heap[s].callers)
       IN  /\ DelFrame.i > Len(heap[s].callers)
           /\ \E freed \in SUBSET (callers \ live) :
                 arm' = InvalidateAll((callers \cap live) \cup freed)
           /\ heap' = [heap EXCEPT ![s].callers = <<>>]
           /\ mem'  = SetMem(mem, heap[s].start, heap[s].len, NULL)
           /\ live' = live \ {s}
           /\ halted' = IF s \in live THEN "no" ELSE "double_free"
    /\ dels' = Front(dels)
    /\ UNCHANGED <<code, cc, bu, guestVars>>

-----------------------------------------------------------------------------
(* CompileCodeAt. *)

StartCompile(a, by) == [Idle EXCEPT !.phase = "scan", !.by = by, !.addr = a]

Compiling(phase) ==
    halted = "no" /\ dels = <<>> /\ cc.phase = phase

\* uiMIPScodeLen: the words up to the first jump that is not a link, or 0 when
\* an invalid word comes first.
IsSuperBlock(a, n) ==
    LET Stops(w) == EndsSuperBlock(code[w]) \/ code[w].k = "inv"
    IN  \E e \in Addr : /\ e >= a /\ Stops(e)
                        /\ \A w \in a .. e - 1 : ~Stops(w)
                        /\ n = IF code[e].k = "inv" THEN 0 ELSE e - a + 1

CompileScan ==
    /\ Compiling("scan")
    /\ \E n \in 0 .. NWords :
          /\ IsSuperBlock(cc.addr, n)
          /\ cc' = [cc EXCEPT !.phase = "expire", !.n = n]
    /\ UNCHANGED <<code, cacheVars, dels, bu, guestVars, halted>>

\* One turn of the expiry loop.  toDelete->MIPScodeLen is read after the
\* segment has been freed; no allocation intervenes, so it is still there.
CompileExpire ==
    /\ Compiling("expire") /\ cc.x < cc.n
    /\ LET t == SegAt(cc.addr + cc.x)
       IN  \/ /\ t # NULL
              /\ mem'  = SetMem(mem, heap[t].start, heap[t].len, NULL)
              /\ dels' = <<[seg |-> t, i |-> 1]>>
              /\ cc'   = [cc EXCEPT !.x = @ + heap[t].len]
           \/ /\ t = NULL
              /\ cc' = [cc EXCEPT !.x = @ + 1]
              /\ UNCHANGED <<mem, dels>>
    /\ UNCHANGED <<code, heap, live, arm, bu, guestVars, halted>>

\* Faulty variant: the loop may stop before the super block is cleared.
CompileExpired_Early ==
    /\ Compiling("expire")
    /\ cc' = [cc EXCEPT !.phase = IF cc.n = 0 THEN "chosen" ELSE "split", !.x = 0]
    /\ UNCHANGED <<code, cacheVars, dels, bu, guestVars, halted>>

CompileExpired ==
    /\ Compiling("expire") /\ cc.x >= cc.n
    /\ cc' = [cc EXCEPT !.phase = IF cc.n = 0 THEN "chosen" ELSE "split", !.x = 0]
    /\ UNCHANGED <<code, cacheVars, dels, bu, guestVars, halted>>

Word(x) == WordAt(cc.addr + x)                            \* address[x]

\* The splitting loop runs over plain instructions to the next jump or branch.
NextControl(x) ==
    /\ x < cc.n /\ IsControl(Word(x))
    /\ \A y \in cc.x .. x - 1 : ~IsControl(Word(y))

\* A segment of words cc.start .. x, chained to the previous one.
SplitJump(x) ==
    LET i    == Word(x)
        a    == cc.addr + cc.start
        len  == x - cc.start + 1
        type == IF cc.start = 0 THEN "START" ELSE "END"
    IN  /\ IsJump(i)
        /\ \E s \in Segs \ live :
              /\ live' = live \cup {s}
              /\ heap' = Chain([heap EXCEPT ![s] = Segment(a, len, type)], cc.prev, s)
              /\ mem'  = SetMem(mem, a, len, s)
              /\ cc'   = [cc EXCEPT !.prev = s, !.start = x + 1, !.x = x + 1,
                                    !.phase = IF IsLink(i) THEN "split" ELSE "chosen"]
        /\ UNCHANGED halted

\* Faulty variant: a loop onto the second word of a segment is not split off.
IsInternal_Strict(x, off) == off < 0 /\ (x + off > cc.start \/ x + off < 0)

\* x + offset is unsigned: a target before word 0 of the super block wraps and
\* passes the test too.
IsInternal(x, off) == off < 0 /\ (x + off >= cc.start \/ x + off < 0)

\* An internal loop: a segment up to its head and one for the loop itself.
\* A head that wrapped makes the first segment some 2^32 words long, unless
\* it is just one word before the start, when its length wraps to 0.
SplitLoop(x) ==
    LET off  == Word(x).v
        a    == cc.addr + cc.start
        len  == x + off - cc.start + 1
        b    == cc.addr + x + 1 + off
        type == IF cc.start = 0 THEN "START" ELSE "SANDWICH"
    IN  /\ IsBranch(Word(x)) /\ IsInternal(x, off)
        /\ \/ /\ len < 0
              /\ halted' = "runaway_length"
              /\ UNCHANGED <<live, heap, mem, cc>>
           \/ /\ len >= 0
              /\ \E s, t \in Segs \ live :
                    /\ s # t
                    /\ live' = live \cup {s, t}
                    /\ heap' = Chain(Chain([heap EXCEPT
                                       ![s] = Segment(a, len, type),
                                       ![t] = Segment(b, -off, "SANDWICH")],
                                     cc.prev, s), s, t)
                    /\ mem'  = SetMem(SetMem(mem, a, len, s), b, -off, t)
                    /\ cc'   = [cc EXCEPT !.prev = t, !.start = x + 1, !.x = x + 1]
              /\ UNCHANGED halted

\* A branch out of the segment.  The segment it is recorded to branch to is
\* looked up at an offset from the START of the segment.
SplitBranch(x) ==
    LET off  == Word(x).v
        a    == cc.addr + cc.start
        len  == x - cc.start + 1
        type == IF cc.start = 0 THEN "START" ELSE "SANDWICH"
    IN  /\ IsBranch(Word(x)) /\ ~IsInternal(x, off)
        /\ \E s \in Segs \ live :
              LET m == SetMem(mem, a, len, s)
              IN  /\ live' = live \cup {s}
                  /\ mem'  = m
                  /\ heap' = Chain([heap EXCEPT ![s] =
                                 [Segment(a, len, type) EXCEPT !.br =
                                    IF a + off \in Addr THEN m[a + off] ELSE NULL]],
                               cc.prev, s)
                  /\ cc'   = [cc EXCEPT !.prev = s, !.start = x + 1, !.x = x + 1]
        /\ UNCHANGED halted

CompileSplit ==
    /\ Compiling("split")
    /\ \E x \in cc.x .. NWords - 1 :
          NextControl(x) /\ (SplitJump(x) \/ SplitLoop(x) \/ SplitBranch(x))
    /\ UNCHANGED <<code, arm, dels, bu, guestVars>>

\* newSeg = getSegmentAt(address): the head of the chain to translate, or the
\* failure that returns NULL.  Start-up dereferences the result.
CompileChosen ==
    /\ Compiling("chosen")
    /\ \/ /\ SegAt(cc.addr) # NULL
          /\ cc' = [cc EXCEPT !.phase = "translate", !.seg = SegAt(cc.addr)]
          /\ UNCHANGED halted
       \/ /\ SegAt(cc.addr) = NULL
          /\ cc' = Idle
          /\ halted' = IF cc.by = "boot" THEN "null_segment" ELSE "no"
    /\ UNCHANGED <<code, cacheVars, dels, bu, guestVars>>

\* Faulty variant: only the segments with a continuation are translated.
CompileTranslate_NotLast ==
    /\ Compiling("translate")
    /\ IF heap[cc.seg].cont = NULL
       THEN cc' = Idle /\ UNCHANGED <<heap, arm, halted>>
       ELSE Translate(cc.seg) /\ cc' = [cc EXCEPT !.seg = heap[cc.seg].cont]
    /\ UNCHANGED <<code, mem, live, dels, bu, guestVars>>

\* Translate one segment and follow pContinueNext.
CompileTranslate ==
    /\ Compiling("translate")
    /\ Translate(cc.seg)
    /\ cc' = IF halted' # "no" THEN cc
             ELSE IF heap[cc.seg].cont = NULL THEN Idle
             ELSE [cc EXCEPT !.seg = heap[cc.seg].cont]
    /\ UNCHANGED <<code, mem, live, dels, bu, guestVars>>

-----------------------------------------------------------------------------
(* branchUnknown. *)

Answering(phase) ==
    halted = "no" /\ dels = <<>> /\ cc.phase = "idle" /\ bu.phase = phase

\* The segment has no branch to resolve when R0 names a segment whose contents
\* are no longer those of the block that branched: the address used is wild.
WildCall == bu.kind \in {"op", "inv", "ret"} \/ bu.tgt \notin Addr

\* The target is looked up, and compiled if no segment is mapped there.
BranchLookup ==
    /\ Answering("lookup")
    /\ \/ /\ WildCall
          /\ halted' = "wild_address"
          /\ UNCHANGED <<heap, arm, cc, bu>>
       \/ /\ ~WildCall
          /\ bu' = [bu EXCEPT !.phase = "link"]
          /\ LET t == SegAt(bu.tgt)
             IN  IF t = NULL
                 THEN /\ cc' = StartCompile(bu.tgt, "guest")
                      /\ UNCHANGED <<heap, arm, halted>>
                 ELSE /\ IF heap[t].entry = 0 THEN Translate(t)
                                              ELSE UNCHANGED <<heap, arm, halted>>
                      /\ UNCHANGED cc
    /\ UNCHANGED <<code, mem, live, dels, guestVars>>

\* The caller is linked to the target segment, its branch instruction patched
\* (never for JR and JALR), and the guest resumes at the entry point.  The
\* caller may have been freed by the compilation: it is written to anyway.
BranchLink ==
    /\ Answering("link")
    /\ LET t       == SegAt(bu.tgt)
           patched == bu.kind \in PatchedKinds
           linked  == [heap EXCEPT ![bu.seg].br = t]
       IN  \/ /\ t = NULL
              /\ halted' = "null_segment"
              /\ UNCHANGED <<heap, arm, bu, cur>>
           \/ /\ t # NULL
              /\ heap' = IF patched
                         THEN [linked EXCEPT ![t].callers = Append(@, bu.seg)]
                         ELSE linked
              /\ arm'  = IF patched
                         THEN [arm EXCEPT ![bu.blk].link = heap[t].entry] ELSE arm
              /\ cur'  = heap[t].entry
              /\ bu'   = NoCall
              /\ UNCHANGED halted
    /\ UNCHANGED <<code, mem, live, dels, cc, calls>>

-----------------------------------------------------------------------------
(* The guest: the emitted code running, one block per step. *)

Running == halted = "no" /\ dels = <<>> /\ cc.phase = "idle" /\ bu.phase = "idle"
ByRegister(i)  == i.k \in {"jr", "jalr"}
AtEndOf(kinds) == Running /\ cur # 0 /\ Terminator(cur).k \in kinds

\* The branch at the end of block cur is taken: directly, or through
\* FUNC_GEN_BRANCH_UNKNOWN with R0 = its segment and R1 = its own address, or
\* the register of a JR or JALR.  branchUnknown decodes whatever the segment
\* holds by now; if that expects the other meaning of R1, R1 is wild ("inv"), and
\* so is R0 if its literal, behind the code of an END block, was overwritten.
GoTo ==
    \/ /\ arm[cur].link # 0 /\ arm[cur].placed
       /\ cur' = arm[cur].link
       /\ UNCHANGED bu
    \/ /\ arm[cur].link = 0
       /\ Len(arm) < MaxBlocks
       /\ LET s == arm[cur].owner
              i == LastInstr(s)
              sameR1 == ByRegister(i) = ByRegister(Terminator(cur))
              goodR0 == ~(arm[cur].tail /\ arm[cur].type = "END")
          IN  \E r \in IF ByRegister(i) THEN RegTargets
                       ELSE {UnknownTarget(i, heap[s].start + heap[s].len)} :
                 bu' = [phase |-> "lookup", seg |-> s, blk |-> cur, tgt |-> r,
                        kind |-> IF sameR1 /\ goodR0 THEN i.k ELSE "inv"]
       /\ UNCHANGED cur

GuestBranch ==
    /\ AtEndOf({"br", "j", "jr"})
    /\ GoTo
    /\ UNCHANGED <<code, cacheVars, cc, dels, calls, halted>>

\* Host managed branching: BL, with the host LR pushed.
GuestCall ==
    /\ AtEndOf({"jal", "jalr", "bal", "ball"})
    /\ Len(calls) < MaxCalls
    /\ GoTo
    /\ calls' = Append(calls, cur)
    /\ UNCHANGED <<code, cacheVars, cc, dels, halted>>

\* Execution runs on behind block b: into the next block, into the literals of
\* b, or out of all code.  invalidateBranch keeps the condition of a branch, so
\* the branch it has written is taken where that condition still holds, and
\* behind other instructions always.
ContinueAfter(b, holds) ==
    LET overwritten == arm[b].tail /\ (IsBranch(Terminator(b)) => holds)
    IN  IF overwritten \/ arm[b].type = "END" \/ b = Len(arm)
        THEN /\ halted' = IF overwritten THEN "wild_address"
                          ELSE IF arm[b].type = "END" THEN "ran_into_literals"
                          ELSE "ran_off_the_code"
             /\ UNCHANGED cur
        ELSE cur' = b + 1 /\ UNCHANGED halted

\* A branch not taken, one that is not there, or a segment cut before a loop
\* head, runs on into the next block.
GuestFallThrough ==
    /\ AtEndOf({"op"} \cup BranchKinds)
    /\ \E holds \in IF arm[cur].placed THEN {FALSE} ELSE BOOLEAN :
          ContinueAfter(cur, holds)
    /\ UNCHANGED <<code, cacheVars, callVars, calls>>

\* MOV PC, LR: back behind the BL, if it has not been overwritten, with the
\* condition flags of the code that returns.
GuestReturn ==
    /\ AtEndOf({"ret"})
    /\ \/ /\ arm[cur].tail
          /\ halted' = "wild_address"
          /\ UNCHANGED guestVars
       \/ /\ ~arm[cur].tail
          /\ \/ /\ calls = <<>>
                /\ cur' = 0
                /\ UNCHANGED <<calls, halted>>
             \/ /\ calls # <<>>
                /\ \E holds \in BOOLEAN : ContinueAfter(Last(calls), holds)
                /\ calls' = Front(calls)
    /\ UNCHANGED <<code, cacheVars, callVars>>

\* The debugger's "start" enters at RECOMPILED_CODE_START, the first block.
DebuggerStart ==
    /\ Running /\ cur = 0 /\ arm # <<>>
    /\ cur' = 1
    /\ UNCHANGED <<code, cacheVars, callVars, calls, halted>>

\* The debugger's "compile".
DebuggerCompile ==
    /\ Running /\ Len(arm) < MaxBlocks
    /\ \E a \in DebugTargets : cc' = StartCompile(a, "debugger")
    /\ UNCHANGED <<code, cacheVars, dels, bu, guestVars, halted>>

-----------------------------------------------------------------------------
Init ==
    /\ code \in Programs
    /\ mem  = [a \in Addr |-> NULL]
    /\ heap = [s \in Segs |-> ZeroSegment]
    /\ live = {} /\ arm = <<>>
    /\ cc = StartCompile(Entry, "boot") /\ dels = <<>> /\ bu = NoCall
    /\ cur = 0 /\ calls = <<>> /\ halted = "no"

Compile == \/ CompileScan \/ CompileExpire \/ CompileExpired \/ CompileSplit
           \/ CompileChosen \/ CompileTranslate
Delete  == DelCaller \/ DelFinish
Branch  == BranchLookup \/ BranchLink
Guest   == GuestBranch \/ GuestCall \/ GuestFallThrough \/ GuestReturn
Debugger == DebuggerStart \/ DebuggerCompile

Recompiler == Compile \/ Delete \/ Branch
Next == Recompiler \/ Guest \/ Debugger

Spec == Init /\ [][Next]_vars

\* The C code is one thread: once entered it runs until it returns.
FairSpec == Spec /\ WF_vars(Recompiler)

-----------------------------------------------------------------------------
(* Properties. *)

SegOrNull == Segs \cup {NULL}

\* Types of the records, with n blocks emitted.
SegmentType(n) == [start : Int, len : Int, type : SegTypes, cont : SegOrNull,
                   br : SegOrNull, callers : Seq(Segs), entry : 0 .. n]
BlockType(n)   == [owner : Segs, start : Int, len : Int, type : SegTypes,
                   link : 0 .. n, placed : BOOLEAN, tail : BOOLEAN]
CompileType == [phase : {"idle", "scan", "expire", "split", "chosen", "translate"},
                by : {"boot", "guest", "debugger"}, addr : Addr, n : 0 .. NWords,
                x : Int, start : Int, prev : SegOrNull, seg : SegOrNull]
DelType     == [seg : Segs, i : Nat \ {0}]
BranchType(n) == [phase : {"idle", "lookup", "link"}, seg : SegOrNull, blk : 0 .. n,
                  kind : Kinds, tgt : Int]
HaltType    == {"no", "double_free", "runaway_length", "null_segment", "null_instruction",
                "not_encoded", "wild_address",
                "ran_into_literals", "ran_off_the_code"}

\* Every variable has its type; block numbers name emitted blocks.
TypeOK ==
    /\ code \in [Addr -> Instr]
    /\ mem  \in [Addr -> SegOrNull]
    /\ heap \in [Segs -> SegmentType(Len(arm))]
    /\ live \subseteq Segs
    /\ arm \in Seq(BlockType(Len(arm)))
    /\ cc \in CompileType
    /\ cc.phase = "translate" => cc.seg \in Segs
    /\ dels \in Seq(DelType)
    /\ bu \in BranchType(Len(arm))
    /\ bu.phase # "idle" => bu.seg \in Segs /\ bu.blk # 0
    /\ bu.phase = "link" => bu.tgt \in Addr
    /\ cur \in 0 .. Len(arm)
    /\ calls \in Seq(1 .. Len(arm))
    /\ halted \in HaltType

\* A word of memory maps only to a segment that has not been freed and that
\* covers the word: getSegmentAt() never hands out a dangling pointer.
MapSound ==
    \A a \in Addr : mem[a] # NULL => mem[a] \in live /\ a \in RangeOf(mem[a])

Deleting == {dels[i].seg : i \in DOMAIN dels}

\* No segment is lost: each one allocated and not being deleted is mapped at
\* every word it covers, so a later CompileCodeAt() over any of them finds it.
MapComplete ==
    halted = "no" =>
        \A s \in live \ Deleting : \A a \in RangeOf(s) : mem[a] = s

\* pContinueNext of a segment in use never dangles, leads to the segment that
\* follows in memory, and is known to that segment's callers.  A segment that
\* ends in JALR is left out: when its register holds the word behind it, it also
\* branches to the segment it continues to, and delSegment() takes only the
\* first arm of its else-if for such a caller and keeps it.  So is an empty
\* segment, one cut before a loop to the first word compiled: branchUnknown may
\* record a branch in it that was made by the segment it has the address of.
ChainSound ==
    halted = "no" =>
        \A s \in {s \in live \ Deleting : heap[s].len > 0 /\ LastInstr(s).k # "jalr"} :
            LET t == heap[s].cont
            IN  t # NULL => /\ t \in live
                            /\ heap[t].start = heap[s].start + heap[s].len
                            /\ t \notin Deleting => s \in ToSet(heap[t].callers)

\* When the guest runs, every mapped segment has been translated: branchUnknown
\* never finds a segment without an ARMEntryPoint.
MappedTranslated ==
    Running => \A a \in Addr : mem[a] # NULL => heap[mem[a]].entry # 0

\* ARMEntryPoint is the block emitted for the segment, with its MIPS range.
EntryFaithful ==
    \A s \in Segs : heap[s].entry # 0 =>
        LET b == arm[heap[s].entry]
        IN  b.owner = s /\ b.start = heap[s].start /\ b.len = heap[s].len

\* Code that runs on past its end runs into the code of the next MIPS word:
\* emit_out keeps a chain contiguous although nothing but the order of the
\* calls to Translate() says so.
FallsIntoContinuation ==
    cc.phase # "translate" =>
        \A b \in DOMAIN arm :
            Terminator(b).k \in BranchKinds \cup {"op", "jal", "jalr"} =>
                /\ b < Len(arm)
                /\ arm[b + 1].start = arm[b].start + arm[b].len

\* The MIPS address the branch at the end of block b goes to: a branch offset
\* counts from the next instruction.
MipsTarget(b) == LET i == Terminator(b)
                 IN  IF IsBranch(i) THEN arm[b].start + arm[b].len + i.v ELSE i.v

BlockWords(b) == Words(arm[b].start, arm[b].len)

\* A linked J or JAL in the code of a segment enters a block that holds its
\* target, however the link was made, by Translate_Branch or by branchUnknown.
\* Code left behind by a segment whose address is in use again is left out:
\* branchUnknown links it to the target of the segment that is there now.
JumpsLandInSegment ==
    \A s \in Segs :
        LET b == heap[s].entry
        IN  b # 0 /\ Terminator(b).k \in {"j", "jal"} /\ arm[b].link # 0 =>
                MipsTarget(b) \in BlockWords(arm[b].link)

\* A branch without link that is linked to its own segment goes to the first
\* word of it, which is where the loop re-enters, or is a branch to the next
\* word, which branchUnknown takes for the word of the branch itself.  (For the
\* branches that link, see LinkingLoopsReturn.)
SelfLoopsAtHead ==
    \A b \in DOMAIN arm :
        Terminator(b).k = "br" /\ arm[b].link = b =>
            MipsTarget(b) = arm[b].start \/ Terminator(b).v = 0

Mapped == {mem[a] : a \in Addr} \ {NULL}

\* The address map as a table of compiled intervals, until the process stops.
Table == INSTANCE SegmentTable WITH
            table <- {<<heap[s].start, heap[s].len>> : s \in Mapped},
            running <- halted = "no"
ImplementsTable == Table!Spec

\* Every call into the recompiler ends: branchUnknown returns to the guest, or
\* the process has stopped.
RecompilerReturns == (halted = "no" /\ ~Running) ~> (Running \/ halted # "no")

-----------------------------------------------------------------------------
(* What comments of the code say and the code does not do. *)

\* "Function to free a segment and its associated data ... and delete segments
\* that 'continue' execution to this one": each segment is freed once.
SegmentsFreedOnce == halted # "double_free"

\* "Function to overwrite the Branch instruction at the end of ARM code so that
\* it points to FUNC_GEN_BRANCH_UNKNOWN" (invalidateBranch).
InvalidateRedirects ==
    [][\A b \in DOMAIN arm : arm'[b].tail # arm[b].tail => arm'[b].link = 0]_vars

\* "Then we need to patch the code_segment branch we came from" (branchUnknown):
\* that segment is still there once the target has been compiled.
CallerSurvives ==
    bu.phase = "link" /\ cc.phase = "idle" /\ halted = "no" => bu.seg \in live

\* "offset is imm16 << 2 added to next instruction address" (MIPS_BEQ): a linked
\* branch enters a block that holds its target.
BranchesLandInSegment ==
    \A b \in DOMAIN arm :
        IsBranch(Terminator(b)) /\ arm[b].link # 0 =>
            MipsTarget(b) \in BlockWords(arm[b].link)

\* "if segment loops on its self" (BLTZAL, BLTZALL, BGEZAL and BGEZALL in
\* Translate_Branch): a branch that links and that the translator takes for a
\* loop of its segment goes to a word of that segment.
LinkingLoopsReturn ==
    \A b \in DOMAIN arm :
        BranchLinks(Terminator(b)) /\ arm[b].link = b =>
            MipsTarget(b) \in BlockWords(b) \/ Terminator(b).v = 0

=============================================================================
