------------------------ MODULE CodeSegments_proofs ------------------------
(* Proofs about CodeSegments for every program, memory size and number of    *)
(* segments.                                                                 *)
EXTENDS CodeSegments, SequenceTheorems, TLAPS

USE DEF SegOrNull

-----------------------------------------------------------------------------
(* What the operators return. *)

LEMMA WordType == ASSUME code \in [Addr -> Instr], NEW a
                  PROVE  WordAt(a) \in Instr
BY DEF WordAt, Instr, Kinds, BranchKinds

LEMMA SegAtType == ASSUME mem \in [Addr -> SegOrNull], NEW a
                   PROVE  SegAt(a) \in SegOrNull
BY DEF SegAt

LEMMA SetMemType ==
    ASSUME NEW m \in [Addr -> SegOrNull], NEW s \in SegOrNull, NEW start, NEW len
    PROVE  SetMem(m, start, len, s) \in [Addr -> SegOrNull]
BY DEF SetMem

\* A block number stays one when more blocks are emitted.
LEMMA MoreBlocks ==
    ASSUME NEW n \in Nat, NEW k \in Nat, n <= k
    PROVE  /\ SegmentType(n) \subseteq SegmentType(k)
           /\ BlockType(n) \subseteq BlockType(k)
           /\ BranchType(n) \subseteq BranchType(k)
           /\ 0 .. n \subseteq 0 .. k
<1>1. 0 .. n \subseteq 0 .. k
  OBVIOUS
<1>2. SegmentType(n) \subseteq SegmentType(k)
  BY <1>1, Zenon DEF SegmentType
<1>3. BlockType(n) \subseteq BlockType(k)
  BY <1>1, Zenon DEF BlockType
<1>4. BranchType(n) \subseteq BranchType(k)
  BY <1>1, Zenon DEF BranchType
<1> QED
  BY <1>1, <1>2, <1>3, <1>4

LEMMA SegmentHasType ==
    ASSUME NEW start \in Int, NEW len \in Int, NEW type \in SegTypes, NEW n \in Nat
    PROVE  Segment(start, len, type) \in SegmentType(n)
<1>1. ZeroSegment \in SegmentType(n)
  <2>1. <<>> \in Seq(Segs)
    OBVIOUS
  <2>2. 0 \in 0 .. n
    OBVIOUS
  <2> QED
    BY <2>1, <2>2 DEF ZeroSegment, SegmentType, SegTypes
<1>2. [ZeroSegment EXCEPT !.start = start, !.len = len, !.type = type] \in SegmentType(n)
  BY <1>1 DEF SegmentType
<1> QED
  BY <1>2 DEF Segment

LEMMA ChainType ==
    ASSUME NEW n \in Nat, NEW h \in [Segs -> SegmentType(n)],
           NEW prev \in SegOrNull, NEW s \in Segs
    PROVE  Chain(h, prev, s) \in [Segs -> SegmentType(n)]
<1>1. CASE prev = NULL
  BY <1>1 DEF Chain
<1>2. CASE prev # NULL
  <2>1. prev \in Segs
    BY <1>2
  <2> DEFINE g == [h EXCEPT ![prev].cont = s]
  <2>2. g \in [Segs -> SegmentType(n)]
    BY <2>1 DEF SegmentType
  <2>3. Append(h[s].callers, prev) \in Seq(Segs)
    <3>1. h[s].callers \in Seq(Segs)
      BY DEF SegmentType
    <3> QED
      BY <3>1, <2>1, AppendProperties
  <2>4. [g EXCEPT ![s].callers = Append(h[s].callers, prev)] \in [Segs -> SegmentType(n)]
    BY <2>2, <2>3, ZenonT(40) DEF SegmentType
  <2> QED
    BY <1>2, <2>4 DEF Chain
<1> QED
  BY <1>1, <1>2

LEMMA LastType ==
    ASSUME NEW S, NEW q \in Seq(S), q # <<>>
    PROVE  Last(q) \in S /\ Front(q) \in Seq(S)
<1>1. Len(q) \in Nat \ {0} /\ Last(q) \in S
  BY EmptySeq, LenProperties, ElementOfSeq DEF Last
<1>2. \A k \in 1 .. Len(q) - 1 : q[k] \in S
  BY <1>1, ElementOfSeq
<1>3. Front(q) \in Seq(S)
  BY <1>1, <1>2, SubSeqProperties DEF Front
<1> QED
  BY <1>1, <1>3

LEMMA LastInstrType ==
    ASSUME code \in [Addr -> Instr], NEW s
    PROVE  LastInstr(s) \in Instr
BY WordType DEF LastInstr

LEMMA InvalidateAllType ==
    ASSUME NEW n \in Nat, arm \in Seq(BlockType(n)), NEW S
    PROVE  InvalidateAll(S) \in Seq(BlockType(n)) /\ Len(InvalidateAll(S)) = Len(arm)
<1>1. DOMAIN arm = 1 .. Len(arm) /\ Len(arm) \in Nat
  BY LenProperties
<1>2. \A b \in 1 .. Len(arm) : arm[b] \in BlockType(n) /\ [arm[b] EXCEPT !.tail = TRUE] \in BlockType(n)
  <2> TAKE b \in 1 .. Len(arm)
  <2>1. arm[b] \in BlockType(n)
    BY ElementOfSeq
  <2>2. [arm[b] EXCEPT !.tail = TRUE] \in BlockType(n)
    BY <2>1, Zenon DEF BlockType
  <2> QED
    BY <2>1, <2>2
<1> DEFINE f(b) == IF b \in {heap[c].entry : c \in {c \in S : heap[c].len > 0}}
                   THEN [arm[b] EXCEPT !.tail = TRUE] ELSE arm[b]
<1>3. InvalidateAll(S) = [b \in 1 .. Len(arm) |-> f(b)]
  BY <1>1 DEF InvalidateAll
<1>4. \A b \in 1 .. Len(arm) : f(b) \in BlockType(n)
  BY <1>2
<1> HIDE DEF f
<1> QED
  BY <1>1, <1>3, <1>4

LEMMA StartCompileType ==
    ASSUME NEW a \in Addr, NEW by \in {"boot", "guest", "debugger"}
    PROVE  /\ StartCompile(a, by) \in CompileType
           /\ StartCompile(a, by).phase = "scan"
<1>1. 0 \in Addr /\ 0 \in 0 .. NWords
  BY ConstantsAssumption DEF Addr
<1>2. Idle \in CompileType
  BY <1>1 DEF Idle, CompileType
<1>3. [Idle EXCEPT !.phase = "scan", !.by = by, !.addr = a] \in CompileType
  BY <1>2 DEF CompileType
<1> QED
  BY <1>2, <1>3 DEF StartCompile, CompileType

\* What the splitting steps do to the state of CompileCodeAt().
Advance(c, phase, prev, start, x) ==
    [c EXCEPT !.phase = phase, !.prev = prev, !.start = start, !.x = x]

LEMMA AdvanceType ==
    ASSUME NEW c \in CompileType, NEW phase \in {"split", "chosen"},
           NEW prev \in SegOrNull, NEW start \in Int, NEW x \in Int
    PROVE  /\ Advance(c, phase, prev, start, x) \in CompileType
           /\ Advance(c, phase, prev, start, x).phase # "translate"
<1>1. PICK d : d = [c EXCEPT !.phase = phase, !.prev = prev, !.start = start, !.x = x]
  OBVIOUS
<1>2. d = [phase |-> phase, by |-> c.by, addr |-> c.addr, n |-> c.n, x |-> x,
           start |-> start, prev |-> prev, seg |-> c.seg]
  BY <1>1 DEF CompileType
<1>3. phase \in {"idle", "scan", "expire", "split", "chosen", "translate"}
  OBVIOUS
<1>4. c.by \in {"boot", "guest", "debugger"} /\ c.addr \in Addr /\ c.n \in 0 .. NWords /\ c.seg \in SegOrNull
  BY DEF CompileType
<1>5. d \in CompileType /\ d.phase # "translate"
  BY <1>2, <1>3, <1>4 DEF CompileType
<1> QED
  BY <1>1, <1>5 DEF Advance

LEMMA IdleType == Idle \in CompileType /\ Idle.phase = "idle"
<1>1. 0 \in Addr /\ 0 \in 0 .. NWords
  BY ConstantsAssumption DEF Addr
<1> QED
  BY <1>1 DEF Idle, CompileType

LEMMA CallsType ==
    ASSUME TypeOK, NEW k \in Nat, Len(arm) <= k
    PROVE  calls \in Seq(1 .. k)
<1>1. Len(arm) \in Nat
  BY LenProperties DEF TypeOK
<1>2. calls \in Seq(1 .. Len(arm))
  BY DEF TypeOK
<1>3. \A b \in 1 .. Len(calls) : calls[b] \in 1 .. k
  BY <1>1, <1>2, ElementOfSeq
<1>4. Len(calls) \in Nat /\ calls = [b \in 1 .. Len(calls) |-> calls[b]]
  BY <1>2
<1> QED
  BY <1>3, <1>4

-----------------------------------------------------------------------------
(* TypeOK is inductive. *)

LEMMA InitType == Init => TypeOK
<1> SUFFICES ASSUME Init PROVE TypeOK
  OBVIOUS
<1> USE DEF Init
<1>1. <<>> \in Seq(Segs) /\ arm \in Seq(BlockType(0)) /\ dels \in Seq(DelType) /\ calls \in Seq(1 .. 0) /\ Len(arm) = 0
  BY EmptySeq
<1>2. 0 \in 0 .. 0 /\ 0 \in 0 .. NWords
  BY ConstantsAssumption
<1>3. heap \in [Segs -> SegmentType(0)]
  BY <1>1, <1>2 DEF ZeroSegment, SegmentType, SegTypes
<1>4. cc \in CompileType
  BY StartCompileType, ConstantsAssumption
<1>5. bu \in BranchType(0)
  BY <1>2 DEF NoCall, BranchType, Kinds, BranchKinds
<1>6. code \in [Addr -> Instr]
  BY ProgramsAssumption
<1> QED
  BY <1>1, <1>2, <1>3, <1>4, <1>5, <1>6, StartCompileType, ConstantsAssumption
     DEF TypeOK, NoCall, HaltType

LEMMA DelCallerType == TypeOK /\ DelCaller => TypeOK'
<1> SUFFICES ASSUME TypeOK, DelCaller PROVE TypeOK'
  OBVIOUS
<1> DEFINE n == Len(arm)
           s == DelFrame.seg
           c == heap[s].callers[DelFrame.i]
<1>1. DelFrame \in DelType /\ Front(dels) \in Seq(DelType)
  BY LastType DEF TypeOK, DelCaller, DelFrame
<1>2. s \in Segs /\ DelFrame.i \in Nat \ {0} /\ DelFrame.i <= Len(heap[s].callers)
  BY <1>1 DEF DelType, DelCaller
<1>3. heap[s].callers \in Seq(Segs)
  BY <1>2 DEF TypeOK, SegmentType
<1>4. c \in Segs
  BY <1>2, <1>3, ElementOfSeq
<1>5. n' = n
  BY DEF DelCaller
<1>6. [heap EXCEPT ![c].br = NULL] \in [Segs -> SegmentType(n)]
  BY <1>4 DEF TypeOK, SegmentType
<1>7. heap' \in [Segs -> SegmentType(n)]
  BY <1>6 DEF TypeOK, DelCaller
<1> DEFINE outer == Append(Front(dels), [DelFrame EXCEPT !.i = DelFrame.i + 1])
<1>8. outer \in Seq(DelType)
  <2>1. [DelFrame EXCEPT !.i = DelFrame.i + 1] \in DelType
    BY <1>1, <1>2 DEF DelType
  <2> QED
    BY <2>1, <1>1, AppendProperties
<1>9. Append(outer, [seg |-> c, i |-> 1]) \in Seq(DelType)
  <2>1. [seg |-> c, i |-> 1] \in DelType
    BY <1>4 DEF DelType
  <2> QED
    BY <2>1, <1>8, AppendProperties
<1>10. dels' \in Seq(DelType)
  BY <1>8, <1>9 DEF DelCaller
<1> QED
  BY <1>5, <1>7, <1>10 DEF TypeOK, DelCaller, guestVars

LEMMA DelFinishType == TypeOK /\ DelFinish => TypeOK'
<1> SUFFICES ASSUME TypeOK, DelFinish PROVE TypeOK'
  OBVIOUS
<1> DEFINE n == Len(arm)
           s == DelFrame.seg
<1>1. DelFrame \in DelType /\ Front(dels) \in Seq(DelType)
  BY LastType DEF TypeOK, DelFinish, DelFrame
<1>2. s \in Segs
  BY <1>1 DEF DelType
<1>3. n \in Nat /\ arm' \in Seq(BlockType(n)) /\ n' = n
  BY InvalidateAllType, LenProperties DEF TypeOK, DelFinish
<1>4. heap' \in [Segs -> SegmentType(n)]
  <2>1. <<>> \in Seq(Segs)
    OBVIOUS
  <2> QED
    BY <1>2, <2>1, ZenonT(40) DEF TypeOK, DelFinish, SegmentType
<1>5. mem' \in [Addr -> SegOrNull]
  BY SetMemType DEF TypeOK, DelFinish
<1>6. live' \subseteq Segs /\ dels' \in Seq(DelType) /\ halted' \in HaltType
  BY <1>1 DEF TypeOK, DelFinish, HaltType
<1> QED
  BY <1>3, <1>4, <1>5, <1>6 DEF TypeOK, DelFinish, guestVars

LEMMA CompileScanType == TypeOK /\ CompileScan => TypeOK'
<1> SUFFICES ASSUME TypeOK, CompileScan PROVE TypeOK'
  OBVIOUS
<1>1. cc' \in CompileType /\ cc'.phase = "expire"
  BY DEF TypeOK, CompileScan, CompileType
<1> QED
  BY <1>1 DEF TypeOK, CompileScan, cacheVars, guestVars

LEMMA CompileExpireType == TypeOK /\ CompileExpire => TypeOK'
<1> SUFFICES ASSUME TypeOK, CompileExpire PROVE TypeOK'
  OBVIOUS
<1> DEFINE t == SegAt(cc.addr + cc.x)
<1>1. t \in SegOrNull
  BY SegAtType DEF TypeOK
<1>2. cc \in CompileType /\ cc.x \in Int /\ cc.phase = "expire"
  BY DEF TypeOK, CompileExpire, CompileType, Compiling
<1>3. CASE t # NULL
  <2>1. t \in Segs /\ heap[t].len \in Int
    BY <1>1, <1>3 DEF TypeOK, SegmentType
  <2>2. /\ mem' = SetMem(mem, heap[t].start, heap[t].len, NULL)
        /\ dels' = <<[seg |-> t, i |-> 1]>>
        /\ cc' = [cc EXCEPT !.x = cc.x + heap[t].len]
    BY <1>3 DEF CompileExpire
  <2>3. mem' \in [Addr -> SegOrNull]
    BY <2>2, SetMemType DEF TypeOK
  <2>4. cc' \in CompileType /\ cc'.phase = "expire"
    BY <2>1, <2>2, <1>2 DEF CompileType
  <2>5. dels' \in Seq(DelType)
    <3>1. [seg |-> t, i |-> 1] \in DelType
      BY <2>1 DEF DelType
    <3> QED
      BY <3>1, <2>2
  <2> QED
    BY <2>3, <2>4, <2>5 DEF TypeOK, CompileExpire, guestVars
<1>4. CASE t = NULL
  <2>1. cc' = [cc EXCEPT !.x = cc.x + 1] /\ UNCHANGED <<mem, dels>>
    BY <1>4 DEF CompileExpire
  <2>2. cc' \in CompileType /\ cc'.phase = "expire"
    BY <2>1, <1>2 DEF CompileType
  <2> QED
    BY <2>1, <2>2 DEF TypeOK, CompileExpire, guestVars
<1> QED
  BY <1>3, <1>4

LEMMA CompileExpiredType == TypeOK /\ CompileExpired => TypeOK'
<1> SUFFICES ASSUME TypeOK, CompileExpired PROVE TypeOK'
  OBVIOUS
<1>1. cc' \in CompileType /\ cc'.phase # "translate"
  <2> DEFINE next == IF cc.n = 0 THEN "chosen" ELSE "split"
  <2>1. next \in {"split", "chosen"}
    OBVIOUS
  <2>2. cc' = [cc EXCEPT !.phase = next, !.x = 0] /\ cc \in CompileType
    BY DEF TypeOK, CompileExpired
  <2> HIDE DEF next
  <2>3. cc' = Advance(cc, next, cc.prev, cc.start, 0)
    BY <2>2 DEF Advance, CompileType
  <2> QED
    BY <2>1, <2>2, <2>3, AdvanceType DEF CompileType
<1> QED
  BY <1>1 DEF TypeOK, CompileExpired, cacheVars, guestVars

LEMMA CompileChosenType == TypeOK /\ CompileChosen => TypeOK'
<1> SUFFICES ASSUME TypeOK, CompileChosen PROVE TypeOK'
  OBVIOUS
<1>1. SegAt(cc.addr) \in SegOrNull
  BY SegAtType DEF TypeOK
<1>2. CASE SegAt(cc.addr) # NULL
  <2>1. cc' \in CompileType /\ cc'.seg \in Segs
    BY <1>1, <1>2 DEF TypeOK, CompileChosen, CompileType
  <2> QED
    BY <2>1, <1>2 DEF TypeOK, CompileChosen, cacheVars, guestVars
<1>3. CASE SegAt(cc.addr) = NULL
  <2>1. halted' \in HaltType
    BY <1>3 DEF TypeOK, CompileChosen, HaltType
  <2> QED
    BY <2>1, <1>3, IdleType DEF TypeOK, CompileChosen, cacheVars, guestVars
<1> QED
  BY <1>2, <1>3

\* Translate() adds a block, and the entry point of s is its number.
LEMMA InitialLinkType ==
    ASSUME TypeOK, NEW s \in Segs, NEW off
    PROVE  InitialLink(s, off) \in 0 .. Len(arm) + 1
<1>1. Len(arm) \in Nat
  BY LenProperties DEF TypeOK
<1>2. \A a : EntryAt(a) \in 0 .. Len(arm)
  BY SegAtType DEF TypeOK, EntryAt, SegmentType
<1> QED
  BY <1>1, <1>2 DEF InitialLink

\* The offsets the branch at the end of s may be translated with.
OffsetsOf(s) == BranchOffsets(LastInstr(s), heap[s].type)

\* What Translate() does, whichever way it goes.
LEMMA TranslateCases ==
    ASSUME NEW s, Translate(s)
    PROVE  \/ /\ \E off \in OffsetsOf(s) : arm' = Append(arm, Block(s, off))
              /\ heap' = [heap EXCEPT ![s].entry = Len(arm) + 1]
              /\ UNCHANGED halted
           \/ UNCHANGED <<arm, heap>> /\ halted' \in {"null_instruction", "not_encoded"}
BY DEF Translate, TranslateTo, OffsetsOf

LEMMA TranslateType ==
    ASSUME TypeOK, NEW s \in Segs, Translate(s)
    PROVE  /\ Len(arm) \in Nat /\ Len(arm') \in {Len(arm), Len(arm) + 1}
           /\ arm' \in Seq(BlockType(Len(arm')))
           /\ heap' \in [Segs -> SegmentType(Len(arm'))]
           /\ halted' \in HaltType
<1> DEFINE n == Len(arm)
<1>1. n \in Nat
  BY LenProperties DEF TypeOK
<1>2. CASE UNCHANGED <<arm, heap>> /\ halted' \in {"null_instruction", "not_encoded"}
  BY <1>1, <1>2 DEF TypeOK, HaltType
<1>3. ASSUME NEW off \in OffsetsOf(s), arm' = Append(arm, Block(s, off)),
             heap' = [heap EXCEPT ![s].entry = n + 1], UNCHANGED halted
      PROVE  /\ Len(arm') = n + 1 /\ arm' \in Seq(BlockType(n + 1))
             /\ heap' \in [Segs -> SegmentType(n + 1)] /\ halted' \in HaltType
  <2>1. SegmentType(n) \subseteq SegmentType(n + 1) /\ BlockType(n) \subseteq BlockType(n + 1)
    BY <1>1, MoreBlocks
  <2>2. Block(s, off) \in BlockType(n + 1)
    BY InitialLinkType DEF Block, BlockType, TypeOK, SegmentType
  <2>3. arm \in Seq(BlockType(n + 1))
    <3>1. \A b \in 1 .. n : arm[b] \in BlockType(n + 1)
      BY <2>1, ElementOfSeq DEF TypeOK
    <3>2. arm = [b \in 1 .. n |-> arm[b]]
      BY SeqDef DEF TypeOK
    <3> QED
      BY <1>1, <3>1, <3>2
  <2>4. Len(arm') = n + 1 /\ arm' \in Seq(BlockType(n + 1))
    BY <1>3, <2>2, <2>3, AppendProperties
  <2>5. heap' \in [Segs -> SegmentType(n + 1)]
    <3>1. heap \in [Segs -> SegmentType(n + 1)]
      BY <2>1 DEF TypeOK
    <3>2. n + 1 \in 0 .. n + 1
      BY <1>1
    <3> QED
      BY <1>3, <3>1, <3>2 DEF SegmentType
  <2> QED
    BY <1>1, <1>3, <2>4, <2>5 DEF TypeOK
<1> QED
  BY <1>1, <1>2, <1>3, TranslateCases

\* Everything that counts blocks keeps its type when Translate() adds one or none.
LEMMA TranslateKeeps ==
    ASSUME TypeOK, Len(arm) \in Nat, Len(arm') \in {Len(arm), Len(arm) + 1}
    PROVE  /\ BranchType(Len(arm)) \subseteq BranchType(Len(arm'))
           /\ cur \in 0 .. Len(arm') /\ calls \in Seq(1 .. Len(arm'))
<1> DEFINE n == Len(arm)
<1>1. BranchType(n) \subseteq BranchType(n + 1) /\ 0 .. n \subseteq 0 .. n + 1
  BY MoreBlocks
<1>2. calls \in Seq(1 .. n) /\ calls \in Seq(1 .. n + 1) /\ cur \in 0 .. n
  BY CallsType DEF TypeOK
<1> QED
  BY <1>1, <1>2

LEMMA CompileTranslateType == TypeOK /\ CompileTranslate => TypeOK'
<1> SUFFICES ASSUME TypeOK, CompileTranslate PROVE TypeOK'
  OBVIOUS
<1> DEFINE s == cc.seg
<1>1. s \in Segs /\ Translate(s)
  BY DEF TypeOK, CompileTranslate, Compiling
<1>2. /\ Len(arm) \in Nat /\ Len(arm') \in {Len(arm), Len(arm) + 1}
      /\ arm' \in Seq(BlockType(Len(arm')))
      /\ heap' \in [Segs -> SegmentType(Len(arm'))]
      /\ halted' \in HaltType
  BY <1>1, TranslateType
<1>3. cc' \in CompileType /\ (cc'.phase = "translate" => cc'.seg \in Segs)
  <2>1. heap[s].cont \in SegOrNull /\ cc \in CompileType
    BY <1>1 DEF TypeOK, SegmentType
  <2>2. CASE cc' = cc
    BY <1>1, <2>1, <2>2
  <2>3. CASE heap[s].cont = NULL /\ cc' = Idle
    BY <2>3, IdleType
  <2>4. CASE heap[s].cont # NULL /\ cc' = [cc EXCEPT !.seg = heap[s].cont]
    BY <2>1, <2>4 DEF CompileType
  <2> QED
    BY <2>2, <2>3, <2>4 DEF CompileTranslate
<1>4. bu' \in BranchType(Len(arm')) /\ cur' \in 0 .. Len(arm') /\ calls' \in Seq(1 .. Len(arm'))
  BY <1>2, TranslateKeeps DEF TypeOK, CompileTranslate, guestVars
<1> QED
  BY <1>2, <1>3, <1>4 DEF TypeOK, CompileTranslate, guestVars

LEMMA CompileSplitType == TypeOK /\ CompileSplit => TypeOK'
<1> SUFFICES ASSUME TypeOK, CompileSplit PROVE TypeOK'
  OBVIOUS
<1> DEFINE n == Len(arm)
<1>1. /\ n \in Nat /\ cc \in CompileType /\ cc.prev \in SegOrNull /\ cc.addr \in Int
      /\ cc.start \in Int /\ cc.x \in Int /\ cc.phase = "split"
      /\ heap \in [Segs -> SegmentType(n)] /\ mem \in [Addr -> SegOrNull] /\ live \subseteq Segs
  BY LenProperties DEF TypeOK, CompileType, CompileSplit, Compiling, Addr
<1>2. PICK x \in cc.x .. NWords - 1 : SplitJump(x) \/ SplitLoop(x) \/ SplitBranch(x)
  BY DEF CompileSplit
<1>3. x \in Int
  BY <1>1
<1>4. Word(x) \in Instr /\ Word(x).v \in Int
  BY WordType DEF TypeOK, Word, Instr
<1> DEFINE cacheOK == /\ heap' \in [Segs -> SegmentType(n)] /\ mem' \in [Addr -> SegOrNull]
                      /\ live' \subseteq Segs /\ cc' \in CompileType
                      /\ cc'.phase # "translate" /\ halted' \in HaltType
<1>5. ASSUME SplitJump(x) PROVE cacheOK
  <2> DEFINE a    == cc.addr + cc.start
             len  == x - cc.start + 1
             type == IF cc.start = 0 THEN "START" ELSE "END"
             next == IF IsLink(Word(x)) THEN "split" ELSE "chosen"
  <2>1. PICK s \in Segs \ live :
              /\ live' = live \cup {s}
              /\ heap' = Chain([heap EXCEPT ![s] = Segment(a, len, type)], cc.prev, s)
              /\ mem'  = SetMem(mem, a, len, s)
              /\ cc'   = [cc EXCEPT !.prev = s, !.start = x + 1, !.x = x + 1,
                                    !.phase = next]
    BY <1>5 DEF SplitJump
  <2>2. a \in Int /\ len \in Int /\ type \in SegTypes /\ next \in {"split", "chosen"}
    BY <1>1, <1>3 DEF SegTypes
  <2> HIDE DEF a, len, type, next
  <2>3. heap' \in [Segs -> SegmentType(n)]
    <3>1. [heap EXCEPT ![s] = Segment(a, len, type)] \in [Segs -> SegmentType(n)]
      BY <2>2, <1>1, SegmentHasType
    <3> QED
      BY <3>1, <2>1, <1>1, ChainType
  <2>4. mem' \in [Addr -> SegOrNull] /\ live' \subseteq Segs
    BY <2>1, <1>1, SetMemType
  <2>5. cc' \in CompileType /\ cc'.phase # "translate"
    <3>1. cc' = Advance(cc, next, s, x + 1, x + 1)
      BY <2>1, <1>1 DEF Advance, CompileType
    <3> QED
      BY <3>1, <2>2, <1>1, <1>3, AdvanceType
  <2> QED
    BY <2>3, <2>4, <2>5, <1>5 DEF SplitJump, TypeOK
<1>6. ASSUME SplitLoop(x) PROVE cacheOK
  <2> DEFINE off  == Word(x).v
             a    == cc.addr + cc.start
             len  == x + off - cc.start + 1
             b    == cc.addr + x + 1 + off
             type == IF cc.start = 0 THEN "START" ELSE "SANDWICH"
  <2>1. CASE len < 0
    <3>1. off \in Int
      BY <1>4
    <3>2. UNCHANGED <<live, heap, mem, cc>> /\ halted' = "runaway_length"
      <4> HIDE DEF off
      <4>1. len \in Int
        BY <3>1, <1>1, <1>3
      <4>2. len < 0 /\ ~(len >= 0)
        <5> HIDE DEF len
        <5> QED
          BY <4>1, <2>1
      <4> QED
        BY <4>2, <1>6 DEF SplitLoop, off
    <3> QED
      BY <3>2, <1>1 DEF HaltType
  <2>2. CASE ~(len < 0)
    <3>1. PICK s, t \in Segs \ live :
                    /\ s # t
                    /\ live' = live \cup {s, t}
                    /\ heap' = Chain(Chain([heap EXCEPT
                                       ![s] = Segment(a, len, type),
                                       ![t] = Segment(b, -off, "SANDWICH")],
                                     cc.prev, s), s, t)
                    /\ mem'  = SetMem(SetMem(mem, a, len, s), b, -off, t)
                    /\ cc'   = [cc EXCEPT !.prev = t, !.start = x + 1, !.x = x + 1]
      BY <1>6, <2>2 DEF SplitLoop
    <3>2. /\ a \in Int /\ len \in Int /\ b \in Int /\ -off \in Int
          /\ type \in SegTypes /\ "SANDWICH" \in SegTypes
      <4>1. off \in Int
        BY <1>4
      <4> HIDE DEF off
      <4> QED
        BY <1>1, <1>3, <4>1 DEF SegTypes
    <3> HIDE DEF a, len, b, type, off
    <3>3. heap' \in [Segs -> SegmentType(n)]
      <4>1. Segment(a, len, type) \in SegmentType(n) /\ Segment(b, -off, "SANDWICH") \in SegmentType(n)
        BY <3>2, <1>1, SegmentHasType
      <4> DEFINE h == [heap EXCEPT ![s] = Segment(a, len, type), ![t] = Segment(b, -off, "SANDWICH")]
      <4>2. h \in [Segs -> SegmentType(n)]
        BY <4>1, <1>1
      <4> HIDE DEF h
      <4>3. Chain(h, cc.prev, s) \in [Segs -> SegmentType(n)]
        BY <4>2, <1>1, ChainType
      <4>4. Chain(Chain(h, cc.prev, s), s, t) \in [Segs -> SegmentType(n)]
        BY <4>3, <1>1, ChainType
      <4> QED
        BY <4>4, <3>1 DEF h
    <3>4. mem' \in [Addr -> SegOrNull]
      <4>1. SetMem(mem, a, len, s) \in [Addr -> SegOrNull]
        BY <1>1, SetMemType
      <4> QED
        BY <4>1, <3>1, SetMemType
    <3>5. cc' \in CompileType /\ cc'.phase # "translate"
      <4>1. cc' = Advance(cc, "split", t, x + 1, x + 1)
        BY <3>1, <1>1 DEF Advance, CompileType
      <4>2. "split" \in {"split", "chosen"}
        OBVIOUS
      <4>3. Advance(cc, "split", t, x + 1, x + 1) \in CompileType /\ Advance(cc, "split", t, x + 1, x + 1).phase # "translate"
        <5>1. t \in SegOrNull /\ x + 1 \in Int /\ cc \in CompileType
          BY <3>1, <1>1, <1>3
        <5> QED
          BY <4>2, <5>1, AdvanceType
      <4> QED
        BY <4>1, <4>3, <1>1, AdvanceType
    <3>6. live' \subseteq Segs /\ halted' \in HaltType
      BY <3>1, <1>1, <1>6, <2>2 DEF SplitLoop, TypeOK, HaltType, off, len
    <3> QED
      BY <3>3, <3>4, <3>5, <3>6
  <2> QED
    BY <2>1, <2>2
<1>7. ASSUME SplitBranch(x) PROVE cacheOK
  <2> DEFINE off  == Word(x).v
             a    == cc.addr + cc.start
             len  == x - cc.start + 1
             type == IF cc.start = 0 THEN "START" ELSE "SANDWICH"
  <2>1. PICK s \in Segs \ live :
              LET m == SetMem(mem, a, len, s)
              IN  /\ live' = live \cup {s}
                  /\ mem'  = m
                  /\ heap' = Chain([heap EXCEPT ![s] =
                                 [Segment(a, len, type) EXCEPT !.br =
                                    IF a + off \in Addr THEN m[a + off] ELSE NULL]],
                               cc.prev, s)
                  /\ cc'   = [cc EXCEPT !.prev = s, !.start = x + 1, !.x = x + 1]
    BY <1>7 DEF SplitBranch
  <2>2. a \in Int /\ len \in Int /\ type \in SegTypes
    BY <1>1, <1>3 DEF SegTypes
  <2> HIDE DEF a, len, type, off
  <2> DEFINE m  == SetMem(mem, a, len, s)
             br == IF a + off \in Addr THEN m[a + off] ELSE NULL
             h  == [heap EXCEPT ![s] = [Segment(a, len, type) EXCEPT !.br = br]]
  <2>3. m \in [Addr -> SegOrNull]
    BY <1>1, SetMemType
  <2>4. br \in SegOrNull
    BY <2>3
  <2>5. h \in [Segs -> SegmentType(n)]
    <3>1. Segment(a, len, type) \in SegmentType(n)
      BY <2>2, <1>1, SegmentHasType
    <3> HIDE DEF br
    <3>2. [Segment(a, len, type) EXCEPT !.br = br] \in SegmentType(n)
      BY <3>1, <2>4 DEF SegmentType
    <3> QED
      BY <3>2, <1>1
  <2>6. heap' = Chain(h, cc.prev, s) /\ mem' = m
    BY <2>1
  <2> HIDE DEF h
  <2>7. heap' \in [Segs -> SegmentType(n)]
    BY <2>5, <2>6, <1>1, ChainType
  <2>8. cc' \in CompileType /\ cc'.phase # "translate"
    <3>1. cc' = Advance(cc, "split", s, x + 1, x + 1)
      BY <2>1, <1>1 DEF Advance, CompileType
    <3>2. "split" \in {"split", "chosen"}
      OBVIOUS
    <3>3. Advance(cc, "split", s, x + 1, x + 1) \in CompileType /\ Advance(cc, "split", s, x + 1, x + 1).phase # "translate"
      <4>1. s \in SegOrNull /\ x + 1 \in Int /\ cc \in CompileType
        BY <2>1, <1>1, <1>3
      <4> QED
        BY <3>2, <4>1, AdvanceType
    <3> QED
      BY <3>1, <3>3, <1>1, AdvanceType
  <2>9. live' \subseteq Segs /\ halted' \in HaltType
    BY <2>1, <1>7 DEF SplitBranch, TypeOK
  <2> QED
    BY <2>3, <2>6, <2>7, <2>8, <2>9
<1>8. cacheOK
  BY <1>2, <1>5, <1>6, <1>7
<1> QED
  BY <1>8 DEF TypeOK, CompileSplit, guestVars

LEMMA BranchLookupType == TypeOK /\ BranchLookup => TypeOK'
<1> SUFFICES ASSUME TypeOK, BranchLookup PROVE TypeOK'
  OBVIOUS
<1> DEFINE n == Len(arm)
           t == SegAt(bu.tgt)
<1>1. bu.phase = "lookup" /\ bu.seg \in Segs /\ bu.blk # 0 /\ cc.phase = "idle" /\ bu \in BranchType(n)
  BY DEF TypeOK, BranchLookup, Answering
<1>2. CASE WildCall
  BY <1>2 DEF TypeOK, BranchLookup, HaltType, guestVars
<1>3. CASE ~WildCall
  <2>1. bu.tgt \in Addr
    BY <1>3 DEF WildCall
  <2>2. bu' \in BranchType(n) /\ bu'.phase = "link" /\ bu'.seg = bu.seg /\ bu'.blk = bu.blk /\ bu'.tgt = bu.tgt
    BY <1>1, <1>3 DEF BranchLookup, BranchType
  <2>3. t \in SegOrNull
    BY SegAtType DEF TypeOK
  <2>4. CASE t = NULL
    <3>1. cc' = StartCompile(bu.tgt, "guest") /\ UNCHANGED <<heap, arm, halted>>
      BY <1>3, <2>4 DEF BranchLookup
    <3>2. cc' \in CompileType /\ cc'.phase = "scan"
      BY <3>1, <2>1, StartCompileType
    <3> QED
      BY <3>1, <3>2, <2>1, <2>2, <1>1 DEF TypeOK, BranchLookup, guestVars
  <2>5. CASE t # NULL /\ heap[t].entry # 0
    <3>1. UNCHANGED <<cc, heap, arm, halted>>
      BY <1>3, <2>5 DEF BranchLookup
    <3> QED
      BY <3>1, <2>1, <2>2, <1>1 DEF TypeOK, BranchLookup, guestVars
  <2>6. CASE t # NULL /\ heap[t].entry = 0
    <3>1. Translate(t) /\ UNCHANGED cc /\ t \in Segs
      BY <1>3, <2>3, <2>6 DEF BranchLookup
    <3>2. /\ Len(arm) \in Nat /\ Len(arm') \in {Len(arm), Len(arm) + 1}
          /\ arm' \in Seq(BlockType(Len(arm')))
          /\ heap' \in [Segs -> SegmentType(Len(arm'))]
          /\ halted' \in HaltType
      BY <3>1, TranslateType
    <3>3. bu' \in BranchType(Len(arm')) /\ cur' \in 0 .. Len(arm') /\ calls' \in Seq(1 .. Len(arm'))
      BY <3>2, <2>2, TranslateKeeps DEF BranchLookup, guestVars
    <3> QED
      BY <3>1, <3>2, <3>3, <2>1, <2>2, <1>1 DEF TypeOK, BranchLookup, guestVars
  <2> QED
    BY <2>4, <2>5, <2>6
<1> QED
  BY <1>2, <1>3

LEMMA BranchLinkType == TypeOK /\ BranchLink => TypeOK'
<1> SUFFICES ASSUME TypeOK, BranchLink PROVE TypeOK'
  OBVIOUS
<1> DEFINE n       == Len(arm)
           t       == SegAt(bu.tgt)
           linked  == [heap EXCEPT ![bu.seg].br = t]
           patched == bu.kind \in PatchedKinds
<1>1. /\ bu.phase = "link" /\ bu.seg \in Segs /\ bu.blk \in 1 .. n /\ cc.phase = "idle"
      /\ bu \in BranchType(n) /\ t \in SegOrNull /\ n \in Nat
  BY SegAtType, LenProperties DEF TypeOK, BranchLink, Answering, BranchType
<1>2. CASE t = NULL
  BY <1>1, <1>2 DEF TypeOK, BranchLink, HaltType
<1>3. CASE t # NULL
  <2>1. t \in Segs /\ heap[t].entry \in 0 .. n
    BY <1>1, <1>3 DEF TypeOK, SegmentType
  <2>2. linked \in [Segs -> SegmentType(n)]
    BY <1>1 DEF TypeOK, SegmentType
  <2>3. [linked EXCEPT ![t].callers = Append(linked[t].callers, bu.seg)] \in [Segs -> SegmentType(n)]
    <3>1. Append(linked[t].callers, bu.seg) \in Seq(Segs)
      <4>1. linked[t].callers \in Seq(Segs)
        BY <2>1, <2>2 DEF SegmentType
      <4> QED
        BY <4>1, <1>1, AppendProperties
    <3> HIDE DEF linked
    <3> QED
      BY <2>2, <3>1 DEF SegmentType
  <2>4. heap' \in [Segs -> SegmentType(n)]
    BY <1>3, <2>2, <2>3 DEF BranchLink
  <2>5. arm' \in Seq(BlockType(n)) /\ Len(arm') = n
    <3>1. arm[bu.blk] \in BlockType(n)
      BY <1>1, ElementOfSeq DEF TypeOK
    <3>2. [arm[bu.blk] EXCEPT !.link = heap[t].entry] \in BlockType(n)
      BY <3>1, <2>1 DEF BlockType
    <3>3. [arm EXCEPT ![bu.blk].link = heap[t].entry] = [arm EXCEPT ![bu.blk] = [arm[bu.blk] EXCEPT !.link = heap[t].entry]]
      OBVIOUS
    <3>4. LET q == [arm EXCEPT ![bu.blk].link = heap[t].entry] IN q \in Seq(BlockType(n)) /\ Len(q) = n
      BY <3>2, <3>3, <1>1, ExceptSeq DEF TypeOK
    <3> QED
      BY <3>4, <1>3 DEF BranchLink, TypeOK
  <2>6. /\ cur' = heap[t].entry /\ bu' = NoCall /\ UNCHANGED halted
    BY <1>3 DEF BranchLink
  <2>7. bu' \in BranchType(n) /\ bu'.phase = "idle"
    BY <2>6, <1>1 DEF NoCall, BranchType, Kinds, BranchKinds
  <2> QED
    BY <2>1, <2>4, <2>5, <2>6, <2>7 DEF TypeOK, BranchLink
<1> QED
  BY <1>2, <1>3

LEMMA GoToType ==
    ASSUME TypeOK, Running, cur # 0, GoTo
    PROVE  /\ cur' \in 0 .. Len(arm) /\ bu' \in BranchType(Len(arm))
           /\ bu'.phase # "idle" => bu'.seg \in Segs /\ bu'.blk # 0
           /\ bu'.phase # "link"
<1>1. cur \in 1 .. Len(arm) /\ arm[cur] \in BlockType(Len(arm)) /\ Len(arm) \in Nat
  BY ElementOfSeq, LenProperties DEF TypeOK
<1>2. arm[cur].link \in 0 .. Len(arm) /\ arm[cur].owner \in Segs
  BY <1>1 DEF BlockType
<1>3. CASE arm[cur].link # 0
  BY <1>2, <1>3 DEF GoTo, TypeOK, Running
<1>4. CASE arm[cur].link = 0
  <2> DEFINE s == arm[cur].owner
             i == LastInstr(s)
             end == heap[s].start + heap[s].len
  <2>1. i \in Instr
    BY LastInstrType DEF TypeOK
  <2>2. end \in Int /\ UnknownTarget(i, end) \in Int
    <3>1. end \in Int
      BY <1>2 DEF TypeOK, SegmentType
    <3> HIDE DEF end, i
    <3> QED
      BY <3>1, <2>1 DEF UnknownTarget, Instr
  <2>3. PICK r \in (IF ByRegister(i) THEN RegTargets ELSE {UnknownTarget(i, end)}), k \in {i.k, "inv"} :
           bu' = [phase |-> "lookup", seg |-> s, blk |-> cur, tgt |-> r, kind |-> k]
    BY <1>4 DEF GoTo
  <2>4. r \in Int
    <3>1. RegTargets \subseteq Int
      BY ConstantsAssumption DEF Addr
    <3> HIDE DEF i, end
    <3> QED
      BY <2>2, <2>3, <3>1
  <2>5. k \in Kinds
    BY <2>1 DEF Instr, Kinds, BranchKinds
  <2>6. cur' = cur
    BY <1>4 DEF GoTo
  <2>7. bu' \in BranchType(Len(arm)) /\ bu'.phase = "lookup" /\ bu'.seg \in Segs /\ bu'.blk # 0
    BY <2>3, <2>4, <2>5, <1>1, <1>2 DEF BranchType
  <2> QED
    BY <2>6, <2>7, <1>1
<1> QED
  BY <1>3, <1>4

LEMMA GuestType == TypeOK /\ Guest => TypeOK'
<1> SUFFICES ASSUME TypeOK, Guest PROVE TypeOK'
  OBVIOUS
<1>0. Len(arm) \in Nat /\ cur \in 0 .. Len(arm) /\ calls \in Seq(1 .. Len(arm)) /\ halted \in HaltType
  BY LenProperties DEF TypeOK
<1>1. CASE GuestBranch
  BY <1>1, GoToType DEF GuestBranch, AtEndOf, TypeOK, cacheVars
<1>2. CASE GuestCall
  <2>1. calls' \in Seq(1 .. Len(arm))
    BY <1>0, <1>2, AppendProperties DEF GuestCall, AtEndOf
  <2> QED
    BY <1>2, <2>1, GoToType DEF GuestCall, AtEndOf, TypeOK, cacheVars
<1>3. \A b \in 1 .. Len(arm) : \A holds : ContinueAfter(b, holds) => cur' \in 0 .. Len(arm) /\ halted' \in HaltType
  BY <1>0 DEF ContinueAfter, HaltType
<1>4. CASE GuestFallThrough
  <2>1. cur \in 1 .. Len(arm)
    BY <1>0, <1>4 DEF GuestFallThrough, AtEndOf
  <2> QED
    BY <1>4, <1>3, <2>1 DEF GuestFallThrough, TypeOK, cacheVars, callVars
<1>5. CASE GuestReturn
  <2>1. calls # <<>> => Last(calls) \in 1 .. Len(arm) /\ Front(calls) \in Seq(1 .. Len(arm))
    BY <1>0, LastType
  <2>2. CASE arm[cur].tail
    BY <1>0, <1>5, <2>2 DEF GuestReturn, TypeOK, cacheVars, callVars, guestVars, HaltType
  <2>3. CASE ~arm[cur].tail /\ calls = <<>>
    <3>1. cur' = 0 /\ UNCHANGED <<calls, halted>> /\ UNCHANGED <<code, cacheVars, callVars>>
      BY <1>5, <2>3 DEF GuestReturn
    <3> QED
      BY <1>0, <3>1 DEF TypeOK, cacheVars, callVars
  <2>4. CASE ~arm[cur].tail /\ calls # <<>>
    <3>1. (\E holds : ContinueAfter(Last(calls), holds)) /\ calls' = Front(calls)
      BY <1>5, <2>4 DEF GuestReturn
    <3>2. cur' \in 0 .. Len(arm) /\ halted' \in HaltType
      BY <1>3, <2>1, <2>4, <3>1
    <3>3. calls' \in Seq(1 .. Len(arm))
      BY <2>1, <2>4, <3>1
    <3> QED
      BY <1>5, <3>2, <3>3 DEF GuestReturn, TypeOK, cacheVars, callVars
  <2> QED
    BY <2>2, <2>3, <2>4
<1> QED
  BY <1>1, <1>2, <1>4, <1>5 DEF Guest

LEMMA DebuggerType == TypeOK /\ Debugger => TypeOK'
<1> SUFFICES ASSUME TypeOK, Debugger PROVE TypeOK'
  OBVIOUS
<1>1. CASE DebuggerStart
  <2>1. 1 \in 0 .. Len(arm)
    BY <1>1, EmptySeq, LenProperties DEF DebuggerStart, TypeOK
  <2> QED
    BY <1>1, <2>1 DEF DebuggerStart, TypeOK, cacheVars, callVars
<1>2. CASE DebuggerCompile
  <2>1. cc' \in CompileType /\ cc'.phase = "scan"
    BY <1>2, StartCompileType, ConstantsAssumption DEF DebuggerCompile
  <2> QED
    BY <1>2, <2>1 DEF DebuggerCompile, TypeOK, cacheVars, guestVars
<1> QED
  BY <1>1, <1>2 DEF Debugger

LEMMA NextType == TypeOK /\ [Next]_vars => TypeOK'
<1> SUFFICES ASSUME TypeOK, [Next]_vars PROVE TypeOK'
  OBVIOUS
<1>1. CASE Compile
  BY <1>1, CompileScanType, CompileExpireType, CompileExpiredType, CompileSplitType,
     CompileChosenType, CompileTranslateType DEF Compile
<1>2. CASE Delete
  BY <1>2, DelCallerType, DelFinishType DEF Delete
<1>3. CASE Branch
  BY <1>3, BranchLookupType, BranchLinkType DEF Branch
<1>4. CASE UNCHANGED vars
  BY <1>4 DEF vars, cacheVars, callVars, guestVars, TypeOK
<1> QED
  BY <1>1, <1>2, <1>3, <1>4, GuestType, DebuggerType DEF Next, Recompiler

\* Every variable keeps its type, whatever the program and however much memory.
THEOREM TypeCorrect == Spec => []TypeOK
BY InitType, NextType, PTL DEF Spec

-----------------------------------------------------------------------------
(* MapSound is inductive given TypeOK: a segment is always unmapped over its *)
(* whole range before it is freed, and a fresh one is not mapped anywhere.   *)

\* MapSound of a map m, contents h and live segments L.
Sound(m, h, L) ==
    \A a \in Addr : m[a] # NULL => m[a] \in L /\ a \in Words(h[m[a]].start, h[m[a]].len)

\* The segments of S cover in heap h the words they covered in heap g.
SameRanges(g, h, S) == \A s \in S : h[s].start = g[s].start /\ h[s].len = g[s].len

LEMMA SoundIsMapSound == MapSound <=> Sound(mem, heap, live)
BY DEF MapSound, Sound, RangeOf

LEMMA SoundIsMapSoundNext == MapSound' <=> Sound(mem', heap', live')
BY DEF MapSound, Sound, RangeOf, Words

LEMMA ChainKeeps ==
    ASSUME NEW n, NEW h \in [Segs -> SegmentType(n)], NEW prev, NEW s \in Segs, NEW u \in Segs
    PROVE  /\ Chain(h, prev, s)[u].start = h[u].start
           /\ Chain(h, prev, s)[u].len = h[u].len
           /\ Chain(h, prev, s)[u].entry = h[u].entry
BY DEF Chain, SegmentType

\* Mapping a fresh segment at the words it covers.
LEMMA InstallSound ==
    ASSUME NEW m \in [Addr -> SegOrNull], NEW g, NEW h, NEW L \in SUBSET Segs,
           Sound(m, g, L), SameRanges(g, h, L),
           NEW s \in Segs \ L
    PROVE  Sound(SetMem(m, h[s].start, h[s].len, s), h, L \cup {s})
BY ConstantsAssumption DEF Sound, SetMem, SameRanges

\* Unmapping any words.
LEMMA ClearSound ==
    ASSUME NEW m, NEW h, NEW L, Sound(m, h, L), NEW start, NEW len
    PROVE  Sound(SetMem(m, start, len, NULL), h, L)
BY DEF Sound, SetMem

LEMMA UnchangedSound ==
    ASSUME TypeOK, MapSound, mem' = mem, live' = live, SameRanges(heap, heap', Segs)
    PROVE  MapSound'
BY SoundIsMapSound, SoundIsMapSoundNext DEF Sound, SameRanges, TypeOK

LEMMA InitSound == Init => MapSound
BY DEF Init, MapSound

LEMMA DelFinishSound == TypeOK /\ MapSound /\ DelFinish => MapSound'
<1> SUFFICES ASSUME TypeOK, MapSound, DelFinish PROVE MapSound'
  OBVIOUS
<1> DEFINE s == DelFrame.seg
<1>1. s \in Segs
  <2>1. DelFrame \in DelType
    BY LastType DEF TypeOK, DelFinish, DelFrame
  <2> QED
    BY <2>1 DEF DelType
<1>2. /\ mem' = SetMem(mem, heap[s].start, heap[s].len, NULL)
      /\ live' = live \ {s}
      /\ heap' = [heap EXCEPT ![s].callers = <<>>]
  BY DEF DelFinish
<1>3. SameRanges(heap, heap', Segs)
  BY <1>1, <1>2 DEF SameRanges, TypeOK, SegmentType
<1> HIDE DEF s
<1>4. Sound(mem', heap, live \ {s})
  BY <1>2, SoundIsMapSound DEF Sound, SetMem
<1>5. Sound(mem', heap', live \ {s})
  BY <1>3, <1>4 DEF Sound, SameRanges, TypeOK
<1> QED
  BY <1>2, <1>5, SoundIsMapSoundNext

LEMMA CompileExpireSound == TypeOK /\ MapSound /\ CompileExpire => MapSound'
BY ClearSound, SoundIsMapSound, SoundIsMapSoundNext DEF CompileExpire

LEMMA CompileSplitSound == TypeOK /\ MapSound /\ CompileSplit => MapSound'
<1> SUFFICES ASSUME TypeOK, MapSound, CompileSplit PROVE MapSound'
  OBVIOUS
<1> DEFINE n == Len(arm)
<1>1. /\ heap \in [Segs -> SegmentType(n)] /\ mem \in [Addr -> SegOrNull]
      /\ live \in SUBSET Segs /\ Sound(mem, heap, live)
  BY SoundIsMapSound DEF TypeOK
<1>2. PICK x \in cc.x .. NWords - 1 : SplitJump(x) \/ SplitLoop(x) \/ SplitBranch(x)
  BY DEF CompileSplit
<1>3. x \in Int /\ cc.addr \in Int /\ cc.start \in Int
  BY DEF TypeOK, CompileType, Addr
<1>4. n \in Nat
  BY LenProperties DEF TypeOK
<1>5. CASE SplitJump(x)
  <2> DEFINE a    == cc.addr + cc.start
             len  == x - cc.start + 1
             type == IF cc.start = 0 THEN "START" ELSE "END"
  <2>1. PICK s \in Segs \ live :
              /\ live' = live \cup {s}
              /\ heap' = Chain([heap EXCEPT ![s] = Segment(a, len, type)], cc.prev, s)
              /\ mem'  = SetMem(mem, a, len, s)
    BY <1>5 DEF SplitJump
  <2>2. a \in Int /\ len \in Int /\ type \in SegTypes
    BY <1>3 DEF SegTypes
  <2> HIDE DEF a, len, type
  <2> DEFINE h == [heap EXCEPT ![s] = Segment(a, len, type)]
  <2>3. h \in [Segs -> SegmentType(n)]
    BY <2>2, <1>1, <1>4, SegmentHasType
  <2>4. h[s].start = a /\ h[s].len = len /\ SameRanges(heap, h, live)
    BY <1>1 DEF SameRanges, Segment, ZeroSegment
  <2>5. heap' = Chain(h, cc.prev, s)
    BY <2>1
  <2> HIDE DEF h
  <2>6. heap'[s].start = a /\ heap'[s].len = len /\ SameRanges(heap, heap', live)
    BY <2>3, <2>4, <2>5, <1>1, ChainKeeps DEF SameRanges
  <2>7. Sound(SetMem(mem, heap'[s].start, heap'[s].len, s), heap', live \cup {s})
    BY <2>6, <1>1, InstallSound
  <2> QED
    BY <2>1, <2>6, <2>7, SoundIsMapSoundNext
<1>6. CASE SplitLoop(x)
  <2> DEFINE off  == Word(x).v
             a    == cc.addr + cc.start
             len  == x + off - cc.start + 1
             b    == cc.addr + x + 1 + off
             type == IF cc.start = 0 THEN "START" ELSE "SANDWICH"
  <2>1. CASE UNCHANGED <<live, heap, mem>>
    BY <2>1, UnchangedSound DEF SameRanges
  <2>2. CASE \E s, t \in Segs \ live :
                    /\ s # t
                    /\ live' = live \cup {s, t}
                    /\ heap' = Chain(Chain([heap EXCEPT
                                       ![s] = Segment(a, len, type),
                                       ![t] = Segment(b, -off, "SANDWICH")],
                                     cc.prev, s), s, t)
                    /\ mem'  = SetMem(SetMem(mem, a, len, s), b, -off, t)
    <3>1. PICK s, t \in Segs \ live :
                    /\ s # t
                    /\ live' = live \cup {s, t}
                    /\ heap' = Chain(Chain([heap EXCEPT
                                       ![s] = Segment(a, len, type),
                                       ![t] = Segment(b, -off, "SANDWICH")],
                                     cc.prev, s), s, t)
                    /\ mem'  = SetMem(SetMem(mem, a, len, s), b, -off, t)
      BY <2>2
    <3>2. off \in Int
      BY WordType DEF TypeOK, Word, Instr
    <3>3. a \in Int /\ len \in Int /\ b \in Int /\ -off \in Int /\ type \in SegTypes /\ "SANDWICH" \in SegTypes
      <4> HIDE DEF off
      <4> QED
        BY <3>2, <1>3 DEF SegTypes
    <3> DEFINE size == -off
    <3>4. size \in Int
      BY <3>3
    <3> HIDE DEF a, len, b, type
    <3> DEFINE h == [heap EXCEPT ![s] = Segment(a, len, type), ![t] = Segment(b, size, "SANDWICH")]
               g == Chain(h, cc.prev, s)
    <3>5. heap' = Chain(g, s, t) /\ mem' = SetMem(SetMem(mem, a, len, s), b, size, t)
      BY <3>1
    <3> HIDE DEF size
    <3>6. h \in [Segs -> SegmentType(n)]
      <4>1. Segment(a, len, type) \in SegmentType(n) /\ Segment(b, size, "SANDWICH") \in SegmentType(n)
        BY <3>3, <3>4, <1>4, SegmentHasType
      <4> QED
        BY <4>1, <1>1
    <3>7. /\ h[s].start = a /\ h[s].len = len /\ h[t].start = b /\ h[t].len = size
          /\ SameRanges(heap, h, live)
      BY <3>1, <1>1 DEF SameRanges, Segment, ZeroSegment
    <3> HIDE DEF h
    <3>8. g \in [Segs -> SegmentType(n)]
      BY <3>6, <1>4, ChainType DEF TypeOK, CompileType
    <3>9. SameRanges(h, g, Segs)
      BY <3>6, <3>1, ChainKeeps DEF SameRanges
    <3> HIDE DEF g
    <3>10. SameRanges(g, heap', Segs)
      <4>1. s \in Segs /\ t \in Segs
        BY <3>1
      <4>2. SameRanges(g, Chain(g, s, t), Segs)
        BY <3>8, <4>1, ChainKeeps DEF SameRanges
      <4> QED
        BY <4>2, <3>5
    <3>11. /\ heap'[s].start = a /\ heap'[s].len = len /\ heap'[t].start = b /\ heap'[t].len = size
           /\ SameRanges(heap, heap', live)
      <4>1. s \in Segs /\ t \in Segs
        BY <3>1
      <4>2. SameRanges(h, heap', Segs)
        BY <3>9, <3>10 DEF SameRanges
      <4> QED
        BY <3>7, <4>1, <4>2, <1>1 DEF SameRanges
    <3>12. Sound(SetMem(mem, a, len, s), heap', live \cup {s})
      BY <3>11, <1>1, InstallSound
    <3>13. SetMem(mem, a, len, s) \in [Addr -> SegOrNull]
      BY <1>1, SetMemType
    <3>14. Sound(SetMem(SetMem(mem, a, len, s), b, size, t), heap', (live \cup {s}) \cup {t})
      <4>1. t \in Segs \ (live \cup {s}) /\ live \cup {s} \in SUBSET Segs
        BY <3>1, <1>1
      <4>2. SameRanges(heap', heap', live \cup {s})
        BY DEF SameRanges
      <4>3. Sound(SetMem(SetMem(mem, a, len, s), heap'[t].start, heap'[t].len, t), heap', (live \cup {s}) \cup {t})
        BY <4>1, <4>2, <3>12, <3>13, InstallSound
      <4> QED
        BY <4>3, <3>11
    <3>15. live' = (live \cup {s}) \cup {t}
      BY <3>1
    <3> QED
      BY <3>5, <3>14, <3>15, SoundIsMapSoundNext
  <2> QED
    BY <1>6, <2>1, <2>2 DEF SplitLoop
<1>7. CASE SplitBranch(x)
  <2> DEFINE off  == Word(x).v
             a    == cc.addr + cc.start
             len  == x - cc.start + 1
             type == IF cc.start = 0 THEN "START" ELSE "SANDWICH"
  <2>1. PICK s \in Segs \ live, br \in SegOrNull :
              /\ live' = live \cup {s}
              /\ mem'  = SetMem(mem, a, len, s)
              /\ heap' = Chain([heap EXCEPT ![s] = [Segment(a, len, type) EXCEPT !.br = br]],
                               cc.prev, s)
    <3>1. PICK s \in Segs \ live :
              LET m == SetMem(mem, a, len, s)
              IN  /\ live' = live \cup {s}
                  /\ mem'  = m
                  /\ heap' = Chain([heap EXCEPT ![s] =
                                 [Segment(a, len, type) EXCEPT !.br =
                                    IF a + off \in Addr THEN m[a + off] ELSE NULL]],
                               cc.prev, s)
      BY <1>7 DEF SplitBranch
    <3> DEFINE m == SetMem(mem, a, len, s)
               target == IF a + off \in Addr THEN m[a + off] ELSE NULL
    <3>2. m \in [Addr -> SegOrNull]
      BY <1>1, SetMemType
    <3>3. target \in SegOrNull
      BY <3>2
    <3> QED
      BY <3>1, <3>3
  <2>2. a \in Int /\ len \in Int /\ type \in SegTypes
    BY <1>3 DEF SegTypes
  <2> HIDE DEF a, len, type
  <2> DEFINE new == [Segment(a, len, type) EXCEPT !.br = br]
             h   == [heap EXCEPT ![s] = new]
  <2>3. new \in SegmentType(n) /\ new.start = a /\ new.len = len
    <3>1. Segment(a, len, type) \in SegmentType(n)
      BY <2>2, <1>4, SegmentHasType
    <3>2. new \in SegmentType(n)
      BY <3>1, <2>1 DEF SegmentType
    <3>3. new.start = a /\ new.len = len
      BY DEF Segment, ZeroSegment
    <3> QED
      BY <3>2, <3>3
  <2>4. heap' = Chain(h, cc.prev, s)
    BY <2>1
  <2> HIDE DEF new
  <2>5. h \in [Segs -> SegmentType(n)] /\ h[s].start = a /\ h[s].len = len /\ SameRanges(heap, h, live)
    BY <2>3, <1>1 DEF SameRanges
  <2> HIDE DEF h
  <2>6. heap'[s].start = a /\ heap'[s].len = len /\ SameRanges(heap, heap', live)
    BY <2>4, <2>5, <1>1, ChainKeeps DEF SameRanges
  <2>7. Sound(SetMem(mem, heap'[s].start, heap'[s].len, s), heap', live \cup {s})
    BY <2>6, <1>1, InstallSound
  <2> QED
    BY <2>1, <2>6, <2>7, SoundIsMapSoundNext
<1> QED
  BY <1>2, <1>5, <1>6, <1>7

\* The other actions leave the map, the live segments and their ranges alone.
LEMMA TranslateRanges ==
    ASSUME TypeOK, NEW s \in Segs, Translate(s)
    PROVE  SameRanges(heap, heap', Segs)
<1>1. heap' = heap \/ heap' = [heap EXCEPT ![s].entry = Len(arm) + 1]
  BY TranslateCases
<1>2. heap \in [Segs -> SegmentType(Len(arm))]
  BY DEF TypeOK
<1>3. CASE heap' = [heap EXCEPT ![s].entry = Len(arm) + 1]
  BY <1>2, <1>3 DEF SegmentType, SameRanges
<1> QED
  BY <1>1, <1>3 DEF SameRanges

LEMMA BranchLookupSound == TypeOK /\ MapSound /\ BranchLookup => MapSound'
<1> SUFFICES ASSUME TypeOK, MapSound, BranchLookup PROVE MapSound'
  OBVIOUS
<1>1. UNCHANGED heap \/ (SegAt(bu.tgt) # NULL /\ Translate(SegAt(bu.tgt)))
  BY DEF BranchLookup
<1>2. SegAt(bu.tgt) \in SegOrNull
  BY SegAtType DEF TypeOK
<1>3. SameRanges(heap, heap', Segs)
  BY <1>1, <1>2, TranslateRanges DEF SameRanges
<1> QED
  BY <1>3, UnchangedSound DEF BranchLookup

LEMMA BranchLinkSound == TypeOK /\ MapSound /\ BranchLink => MapSound'
<1> SUFFICES ASSUME TypeOK, MapSound, BranchLink PROVE MapSound'
  OBVIOUS
<1> DEFINE t      == SegAt(bu.tgt)
           linked == [heap EXCEPT ![bu.seg].br = t]
<1>1. t \in SegOrNull /\ bu.seg \in Segs
  BY SegAtType DEF TypeOK, BranchLink, Answering
<1>2. \/ heap' = heap \/ heap' = linked
      \/ t # NULL /\ heap' = [linked EXCEPT ![t].callers = Append(linked[t].callers, bu.seg)]
  BY DEF BranchLink
<1>3. linked \in [Segs -> SegmentType(Len(arm))] /\ SameRanges(heap, linked, Segs)
  BY <1>1, ZenonT(40) DEF TypeOK, SegmentType, SameRanges
<1> HIDE DEF linked
<1>4. SameRanges(heap, heap', Segs)
  BY <1>1, <1>2, <1>3 DEF SameRanges, SegmentType
<1> QED
  BY <1>4, UnchangedSound DEF BranchLink

LEMMA NextSound == TypeOK /\ MapSound /\ [Next]_vars => MapSound'
<1> SUFFICES ASSUME TypeOK, MapSound, [Next]_vars PROVE MapSound'
  OBVIOUS
<1> USE DEF cacheVars, SameRanges
<1>1. CASE CompileScan \/ CompileExpired \/ CompileChosen
  BY <1>1, UnchangedSound DEF CompileScan, CompileExpired, CompileChosen
<1>2. CASE CompileTranslate
  <2>1. cc.seg \in Segs
    BY <1>2 DEF TypeOK, CompileTranslate, Compiling
  <2> QED
    BY <1>2, <2>1, TranslateRanges, UnchangedSound DEF CompileTranslate
<1>3. CASE DelCaller
  <2>1. \E c : heap' = heap \/ heap' = [heap EXCEPT ![c].br = NULL]
    BY <1>3 DEF DelCaller
  <2>2. SameRanges(heap, heap', Segs)
    <3>1. PICK c : heap' = heap \/ heap' = [heap EXCEPT ![c].br = NULL]
      BY <2>1
    <3>2. heap \in [Segs -> SegmentType(Len(arm))]
      BY DEF TypeOK
    <3>3. CASE heap' = [heap EXCEPT ![c].br = NULL]
      <4> TAKE s \in Segs
      <4>1. heap[s] \in SegmentType(Len(arm))
        BY <3>2
      <4>2. heap'[s] = heap[s] \/ heap'[s] = [heap[s] EXCEPT !.br = NULL]
        BY <3>2, <3>3
      <4> QED
        BY <4>1, <4>2 DEF SegmentType
    <3> QED
      BY <3>1, <3>3
  <2> QED
    BY <1>3, <2>2, UnchangedSound DEF DelCaller
<1>4. CASE Guest
  BY <1>4, UnchangedSound DEF Guest, GuestBranch, GuestCall, GuestFallThrough, GuestReturn
<1>5. CASE Debugger
  BY <1>5, UnchangedSound DEF Debugger, DebuggerStart, DebuggerCompile
<1>6. CASE UNCHANGED vars
  BY <1>6, UnchangedSound DEF vars
<1> QED
  BY <1>1, <1>2, <1>3, <1>4, <1>5, <1>6, DelFinishSound, CompileExpireSound, CompileSplitSound,
     BranchLookupSound, BranchLinkSound DEF Next, Recompiler, Compile, Delete, Branch

\* getSegmentAt() never hands out a freed segment or one that does not cover
\* the address, for every program and sequence of branches and commands.
THEOREM MapIsSound == Spec => []MapSound
<1>1. Init => TypeOK /\ MapSound
  BY InitType, InitSound
<1>2. (TypeOK /\ MapSound) /\ [Next]_vars => (TypeOK /\ MapSound)'
  BY NextType, NextSound
<1> QED
  BY <1>1, <1>2, PTL DEF Spec

-----------------------------------------------------------------------------
(* ARMEntryPoint of a segment always is the block emitted for it. *)

\* EntryFaithful of heap h and emitted blocks q, for the segments of S.
Faithful(h, q, S) ==
    \A s \in S : h[s].entry # 0 =>
        /\ q[h[s].entry].owner = s
        /\ q[h[s].entry].start = h[s].start
        /\ q[h[s].entry].len = h[s].len

LEMMA FaithfulIsEntryFaithful ==
    /\ EntryFaithful <=> Faithful(heap, arm, Segs)
    /\ EntryFaithful' <=> Faithful(heap', arm', Segs)
BY DEF EntryFaithful, Faithful

SameEntries(g, h, S) ==
    SameRanges(g, h, S) /\ \A s \in S : h[s].entry = g[s].entry

\* Blocks with the same owner and MIPS range.
SameBlocks(p, q) ==
    \A b \in DOMAIN p : q[b].owner = p[b].owner /\ q[b].start = p[b].start /\ q[b].len = p[b].len

LEMMA UnchangedFaithful ==
    ASSUME TypeOK, EntryFaithful, SameEntries(heap, heap', Segs), SameBlocks(arm, arm')
    PROVE  EntryFaithful'
<1>1. \A s \in Segs : heap[s].entry # 0 => heap[s].entry \in DOMAIN arm
  BY LenProperties DEF TypeOK, SegmentType
<1> QED
  BY <1>1, FaithfulIsEntryFaithful DEF Faithful, SameEntries, SameRanges, SameBlocks

LEMMA InitFaithful == Init => EntryFaithful
BY DEF Init, EntryFaithful, ZeroSegment

LEMMA DelCallerFaithful == TypeOK /\ EntryFaithful /\ DelCaller => EntryFaithful'
<1> SUFFICES ASSUME TypeOK, EntryFaithful, DelCaller PROVE EntryFaithful'
  OBVIOUS
<1>1. PICK c : heap' = heap \/ heap' = [heap EXCEPT ![c].br = NULL]
  BY DEF DelCaller
<1>2. heap \in [Segs -> SegmentType(Len(arm))]
  BY DEF TypeOK
<1>3. SameEntries(heap, heap', Segs)
  <2>1. CASE heap' = [heap EXCEPT ![c].br = NULL]
    <3>1. ASSUME NEW s \in Segs
          PROVE  /\ heap'[s].start = heap[s].start /\ heap'[s].len = heap[s].len
                 /\ heap'[s].entry = heap[s].entry
      <4>1. heap[s] \in SegmentType(Len(arm))
        BY <1>2
      <4>2. heap'[s] = heap[s] \/ heap'[s] = [heap[s] EXCEPT !.br = NULL]
        BY <1>2, <2>1
      <4> QED
        BY <4>1, <4>2 DEF SegmentType
    <3> QED
      BY <3>1 DEF SameEntries, SameRanges
  <2> QED
    BY <1>1, <2>1 DEF SameEntries, SameRanges
<1> QED
  BY <1>3, UnchangedFaithful DEF DelCaller, SameBlocks

LEMMA DelFinishFaithful == TypeOK /\ EntryFaithful /\ DelFinish => EntryFaithful'
<1> SUFFICES ASSUME TypeOK, EntryFaithful, DelFinish PROVE EntryFaithful'
  OBVIOUS
<1> DEFINE s == DelFrame.seg
<1>1. s \in Segs
  <2>1. DelFrame \in DelType
    BY LastType DEF TypeOK, DelFinish, DelFrame
  <2> QED
    BY <2>1 DEF DelType
<1>2. heap' = [heap EXCEPT ![s].callers = <<>>]
  BY DEF DelFinish
<1>3. SameEntries(heap, heap', Segs)
  <2> HIDE DEF s
  <2> QED
    BY <1>1, <1>2 DEF SameEntries, SameRanges, TypeOK, SegmentType
<1>4. PICK S : arm' = InvalidateAll(S)
  BY DEF DelFinish
<1>5. SameBlocks(arm, arm')
  <2>1. ASSUME NEW b \in DOMAIN arm
        PROVE  /\ arm'[b].owner = arm[b].owner
               /\ arm'[b].start = arm[b].start /\ arm'[b].len = arm[b].len
    <3>1. arm[b] \in BlockType(Len(arm))
      BY ElementOfSeq, LenProperties DEF TypeOK
    <3>2. arm'[b] = arm[b] \/ arm'[b] = [arm[b] EXCEPT !.tail = TRUE]
      BY <1>4 DEF InvalidateAll
    <3> QED
      BY <3>1, <3>2 DEF BlockType
  <2> QED
    BY <2>1 DEF SameBlocks
<1> QED
  BY <1>3, <1>5, UnchangedFaithful

\* A new block for s is the last one, and the entry point of s.
LEMMA TranslateFaithful ==
    ASSUME TypeOK, EntryFaithful, NEW s \in Segs, Translate(s)
    PROVE  EntryFaithful'
<1> DEFINE n == Len(arm)
<1>0. CASE UNCHANGED <<arm, heap>>
  BY <1>0, UnchangedFaithful DEF SameEntries, SameRanges, SameBlocks
<1> SUFFICES ASSUME NEW off, arm' = Append(arm, Block(s, off)),
                    heap' = [heap EXCEPT ![s].entry = n + 1]
             PROVE  EntryFaithful'
  BY <1>0, TranslateCases
<1>1. /\ n \in Nat /\ arm' = Append(arm, Block(s, off))
      /\ heap' = [heap EXCEPT ![s].entry = n + 1]
  BY LenProperties DEF TypeOK
<1>2. arm'[n + 1] = Block(s, off) /\ \A b \in 1 .. n : arm'[b] = arm[b]
  BY <1>1, AppendProperties DEF TypeOK
<1>3. ASSUME NEW u \in Segs, heap'[u].entry # 0
      PROVE  /\ arm'[heap'[u].entry].owner = u
             /\ arm'[heap'[u].entry].start = heap'[u].start
             /\ arm'[heap'[u].entry].len = heap'[u].len
  <2>1. heap[u] \in SegmentType(n) /\ heap \in [Segs -> SegmentType(n)]
    BY DEF TypeOK
  <2>2. CASE u = s
    <3>1. heap'[u] = [heap[u] EXCEPT !.entry = n + 1]
      BY <1>1, <2>1, <2>2
    <3>2. heap'[u].entry = n + 1 /\ heap'[u].start = heap[u].start /\ heap'[u].len = heap[u].len
      BY <3>1, <2>1 DEF SegmentType
    <3> QED
      BY <3>2, <2>2, <1>2 DEF Block
  <2>3. CASE u # s
    <3>1. heap'[u] = heap[u]
      BY <1>1, <2>1, <2>3
    <3>2. heap[u].entry \in 1 .. n
      BY <3>1, <1>3, <1>1, <2>1 DEF SegmentType
    <3>3. arm'[heap[u].entry] = arm[heap[u].entry]
      BY <3>2, <1>2
    <3>4. /\ arm[heap[u].entry].owner = u /\ arm[heap[u].entry].start = heap[u].start
          /\ arm[heap[u].entry].len = heap[u].len
      BY <3>1, <1>3 DEF EntryFaithful
    <3> QED
      BY <3>1, <3>3, <3>4
  <2> QED
    BY <2>2, <2>3
<1> QED
  BY <1>3, FaithfulIsEntryFaithful DEF Faithful

\* Splitting: every segment either keeps its range and entry point or is new
\* and has none.
LEMMA FreshFaithful ==
    ASSUME TypeOK, EntryFaithful, UNCHANGED arm,
           \A s \in Segs : heap'[s].entry = 0 \/ SameEntries(heap, heap', {s})
    PROVE  EntryFaithful'
BY FaithfulIsEntryFaithful DEF Faithful, SameEntries, SameRanges

\* Allocating s and chaining it.
LEMMA ChainedFresh ==
    ASSUME NEW n, NEW g \in [Segs -> SegmentType(n)], NEW prev, NEW s \in Segs, NEW u \in Segs
    PROVE  SameEntries(g, Chain(g, prev, s), {u})
BY ChainKeeps DEF SameEntries, SameRanges

LEMMA CompileSplitFaithful == TypeOK /\ EntryFaithful /\ CompileSplit => EntryFaithful'
<1> SUFFICES ASSUME TypeOK, EntryFaithful, CompileSplit PROVE EntryFaithful'
  OBVIOUS
<1> DEFINE n == Len(arm)
<1>1. heap \in [Segs -> SegmentType(n)] /\ mem \in [Addr -> SegOrNull] /\ n \in Nat
  BY LenProperties DEF TypeOK
<1>2. PICK x \in cc.x .. NWords - 1 : SplitJump(x) \/ SplitLoop(x) \/ SplitBranch(x)
  BY DEF CompileSplit
<1>3. x \in Int /\ cc.addr \in Int /\ cc.start \in Int /\ cc.prev \in SegOrNull
  BY DEF TypeOK, CompileType, Addr
<1>4. ASSUME NEW s \in Segs, NEW new \in SegmentType(n), new.entry = 0,
             heap' = Chain([heap EXCEPT ![s] = new], cc.prev, s)
      PROVE  \A u \in Segs : heap'[u].entry = 0 \/ SameEntries(heap, heap', {u})
  <2> DEFINE h == [heap EXCEPT ![s] = new]
  <2>1. h \in [Segs -> SegmentType(n)] /\ h[s].entry = 0 /\ \A u \in Segs \ {s} : h[u] = heap[u]
    BY <1>1, <1>4
  <2> HIDE DEF h
  <2>2. \A u \in Segs : SameEntries(h, Chain(h, cc.prev, s), {u})
    BY <2>1, ChainedFresh
  <2>3. heap' = Chain(h, cc.prev, s)
    BY <1>4 DEF h
  <2> QED
    BY <2>1, <2>2, <2>3 DEF SameEntries, SameRanges
<1>5. ASSUME NEW a \in Int, NEW len \in Int, NEW type \in SegTypes, NEW br \in SegOrNull
      PROVE  LET new == [Segment(a, len, type) EXCEPT !.br = br]
             IN  /\ new \in SegmentType(n) /\ new.entry = 0
                 /\ Segment(a, len, type) \in SegmentType(n) /\ Segment(a, len, type).entry = 0
  <2>1. Segment(a, len, type) \in SegmentType(n)
    BY <1>1, SegmentHasType
  <2>2. [Segment(a, len, type) EXCEPT !.br = br] \in SegmentType(n)
    BY <2>1 DEF SegmentType
  <2>3. Segment(a, len, type).entry = 0 /\ [Segment(a, len, type) EXCEPT !.br = br].entry = 0
    BY DEF Segment, ZeroSegment
  <2> QED
    BY <2>1, <2>2, <2>3
<1>6. CASE SplitJump(x)
  <2> DEFINE a    == cc.addr + cc.start
             len  == x - cc.start + 1
             type == IF cc.start = 0 THEN "START" ELSE "END"
  <2>1. PICK s \in Segs : heap' = Chain([heap EXCEPT ![s] = Segment(a, len, type)], cc.prev, s)
    BY <1>6 DEF SplitJump
  <2>2. a \in Int /\ len \in Int /\ type \in SegTypes /\ NULL \in SegOrNull
    BY <1>3 DEF SegTypes
  <2> HIDE DEF a, len, type
  <2>3. Segment(a, len, type) \in SegmentType(n) /\ Segment(a, len, type).entry = 0
    BY <2>2, <1>5
  <2> QED
    BY <2>1, <2>3, <1>4, FreshFaithful DEF CompileSplit
<1>7. CASE SplitLoop(x)
  <2> DEFINE off  == Word(x).v
             a    == cc.addr + cc.start
             len  == x + off - cc.start + 1
             b    == cc.addr + x + 1 + off
             size == -off
             type == IF cc.start = 0 THEN "START" ELSE "SANDWICH"
  <2>1. CASE UNCHANGED heap
    BY <2>1, FreshFaithful DEF CompileSplit, SameEntries, SameRanges
  <2>2. CASE \E s, t \in Segs : heap' = Chain(Chain([heap EXCEPT
                                       ![s] = Segment(a, len, type),
                                       ![t] = Segment(b, size, "SANDWICH")],
                                     cc.prev, s), s, t)
    <3>1. PICK s, t \in Segs : heap' = Chain(Chain([heap EXCEPT
                                       ![s] = Segment(a, len, type),
                                       ![t] = Segment(b, size, "SANDWICH")],
                                     cc.prev, s), s, t)
      BY <2>2
    <3>2. off \in Int
      BY WordType DEF TypeOK, Word, Instr
    <3>3. /\ a \in Int /\ len \in Int /\ b \in Int /\ size \in Int /\ NULL \in SegOrNull
          /\ type \in SegTypes /\ "SANDWICH" \in SegTypes
      <4> HIDE DEF off
      <4> QED
        BY <3>2, <1>3 DEF SegTypes
    <3> HIDE DEF a, len, b, size, type
    <3> DEFINE p == Segment(a, len, type)
               q == Segment(b, size, "SANDWICH")
               h == [heap EXCEPT ![s] = p, ![t] = q]
               g == Chain(h, cc.prev, s)
    <3>4. p \in SegmentType(n) /\ q \in SegmentType(n) /\ p.entry = 0 /\ q.entry = 0
      BY <3>3, <1>5
    <3>5. heap' = Chain(g, s, t)
      BY <3>1
    <3> HIDE DEF p, q
    <3>6. /\ h \in [Segs -> SegmentType(n)] /\ h[s].entry = 0 /\ h[t].entry = 0
          /\ \A u \in Segs \ {s, t} : h[u] = heap[u]
      BY <3>4, <1>1
    <3> HIDE DEF h
    <3>7. g \in [Segs -> SegmentType(n)]
      BY <3>6, <1>1, <1>3, ChainType
    <3>8. \A u \in Segs : SameEntries(h, g, {u})
      BY <3>6, ChainedFresh
    <3> HIDE DEF g
    <3>9. \A u \in Segs : SameEntries(g, heap', {u})
      <4>1. \A u \in Segs : SameEntries(g, Chain(g, s, t), {u})
        BY <3>7, ChainedFresh
      <4> QED
        BY <4>1, <3>5
    <3>10. \A u \in Segs : heap'[u].entry = 0 \/ SameEntries(heap, heap', {u})
      BY <3>6, <3>8, <3>9 DEF SameEntries, SameRanges
    <3> QED
      BY <3>10, FreshFaithful DEF CompileSplit
  <2> QED
    BY <1>7, <2>1, <2>2 DEF SplitLoop
<1>8. CASE SplitBranch(x)
  <2> DEFINE off  == Word(x).v
             a    == cc.addr + cc.start
             len  == x - cc.start + 1
             type == IF cc.start = 0 THEN "START" ELSE "SANDWICH"
  <2>1. PICK s \in Segs, br \in SegOrNull :
           heap' = Chain([heap EXCEPT ![s] = [Segment(a, len, type) EXCEPT !.br = br]], cc.prev, s)
    <3>1. PICK s \in Segs : heap' = Chain([heap EXCEPT ![s] =
                                 [Segment(a, len, type) EXCEPT !.br =
                                    IF a + off \in Addr THEN SetMem(mem, a, len, s)[a + off] ELSE NULL]],
                               cc.prev, s)
      BY <1>8 DEF SplitBranch
    <3> DEFINE target == IF a + off \in Addr THEN SetMem(mem, a, len, s)[a + off] ELSE NULL
    <3>2. SetMem(mem, a, len, s) \in [Addr -> SegOrNull]
      BY <1>1, SetMemType
    <3>3. target \in SegOrNull
      BY <3>2
    <3> QED
      BY <3>1, <3>3
  <2>2. a \in Int /\ len \in Int /\ type \in SegTypes
    BY <1>3 DEF SegTypes
  <2> HIDE DEF a, len, type
  <2> DEFINE new == [Segment(a, len, type) EXCEPT !.br = br]
  <2>3. new \in SegmentType(n) /\ new.entry = 0
    BY <2>2, <1>5
  <2> QED
    BY <2>1, <2>3, <1>4, FreshFaithful DEF CompileSplit
<1> QED
  BY <1>2, <1>6, <1>7, <1>8

LEMMA BranchLookupFaithful == TypeOK /\ EntryFaithful /\ BranchLookup => EntryFaithful'
<1> SUFFICES ASSUME TypeOK, EntryFaithful, BranchLookup PROVE EntryFaithful'
  OBVIOUS
<1>1. UNCHANGED <<heap, arm>> \/ (SegAt(bu.tgt) # NULL /\ Translate(SegAt(bu.tgt)))
  BY DEF BranchLookup
<1>2. SegAt(bu.tgt) \in SegOrNull
  BY SegAtType DEF TypeOK
<1>3. CASE UNCHANGED <<heap, arm>>
  BY <1>3, UnchangedFaithful DEF SameEntries, SameRanges, SameBlocks
<1> QED
  BY <1>1, <1>2, <1>3, TranslateFaithful

LEMMA BranchLinkFaithful == TypeOK /\ EntryFaithful /\ BranchLink => EntryFaithful'
<1> SUFFICES ASSUME TypeOK, EntryFaithful, BranchLink PROVE EntryFaithful'
  OBVIOUS
<1> DEFINE t      == SegAt(bu.tgt)
           linked == [heap EXCEPT ![bu.seg].br = t]
<1>1. t \in SegOrNull /\ bu.seg \in Segs /\ bu.blk \in 1 .. Len(arm)
  BY SegAtType, LenProperties DEF TypeOK, BranchLink, Answering, BranchType
<1>2. \/ heap' = heap \/ heap' = linked
      \/ t # NULL /\ heap' = [linked EXCEPT ![t].callers = Append(linked[t].callers, bu.seg)]
  BY DEF BranchLink
<1>3. linked \in [Segs -> SegmentType(Len(arm))] /\ SameEntries(heap, linked, Segs)
  <2>1. heap \in [Segs -> SegmentType(Len(arm))]
    BY DEF TypeOK
  <2>2. linked \in [Segs -> SegmentType(Len(arm))]
    BY <2>1, <1>1 DEF SegmentType
  <2>3. \A u \in Segs : linked[u].start = heap[u].start /\ linked[u].len = heap[u].len
                         /\ linked[u].entry = heap[u].entry
    BY <2>1, <1>1 DEF SegmentType
  <2> QED
    BY <2>2, <2>3 DEF SameEntries, SameRanges
<1> HIDE DEF linked
<1>4. SameEntries(heap, heap', Segs)
  BY <1>1, <1>2, <1>3 DEF SameEntries, SameRanges, SegmentType
<1>5. arm' = arm \/ \E e : arm' = [arm EXCEPT ![bu.blk].link = e]
  BY DEF BranchLink
<1>6. SameBlocks(arm, arm')
  <2>1. CASE \E e : arm' = [arm EXCEPT ![bu.blk].link = e]
    <3>1. PICK e : arm' = [arm EXCEPT ![bu.blk].link = e]
      BY <2>1
    <3>2. ASSUME NEW b \in DOMAIN arm
          PROVE  /\ arm'[b].owner = arm[b].owner
                 /\ arm'[b].start = arm[b].start /\ arm'[b].len = arm[b].len
      <4>1. arm[b] \in BlockType(Len(arm))
        BY ElementOfSeq, LenProperties DEF TypeOK
      <4>2. arm'[b] = arm[b] \/ arm'[b] = [arm[b] EXCEPT !.link = e]
        BY <3>1
      <4> QED
        BY <4>1, <4>2 DEF BlockType
    <3> QED
      BY <3>2 DEF SameBlocks
  <2> QED
    BY <1>5, <2>1 DEF SameBlocks
<1> QED
  BY <1>4, <1>6, UnchangedFaithful

LEMMA NextFaithful == TypeOK /\ EntryFaithful /\ [Next]_vars => EntryFaithful'
<1> SUFFICES ASSUME TypeOK, EntryFaithful, [Next]_vars PROVE EntryFaithful'
  OBVIOUS
<1>1. CASE UNCHANGED <<heap, arm>>
  BY <1>1, UnchangedFaithful DEF SameEntries, SameRanges, SameBlocks
<1>2. CASE CompileTranslate
  <2>1. cc.seg \in Segs
    BY <1>2 DEF TypeOK, CompileTranslate, Compiling
  <2> QED
    BY <1>2, <2>1, TranslateFaithful DEF CompileTranslate
<1>3. CASE CompileScan \/ CompileExpire \/ CompileExpired \/ CompileChosen
  BY <1>1, <1>3 DEF CompileScan, CompileExpire, CompileExpired, CompileChosen, cacheVars
<1>4. CASE Guest
  BY <1>1, <1>4 DEF Guest, GuestBranch, GuestCall, GuestFallThrough, GuestReturn, cacheVars
<1>5. CASE Debugger
  BY <1>1, <1>5 DEF Debugger, DebuggerStart, DebuggerCompile, cacheVars
<1>6. CASE UNCHANGED vars
  BY <1>1, <1>6 DEF vars, cacheVars
<1> QED
  BY <1>2, <1>3, <1>4, <1>5, <1>6, DelCallerFaithful, DelFinishFaithful, CompileSplitFaithful,
     BranchLookupFaithful, BranchLinkFaithful DEF Next, Recompiler, Compile, Delete, Branch

\* ARMEntryPoint always is the block emitted for the segment, with the MIPS
\* range the segment has: where branchUnknown sends the guest.
THEOREM EntryIsFaithful == Spec => []EntryFaithful
<1>1. Init => TypeOK /\ EntryFaithful
  BY InitType, InitFaithful
<1>2. (TypeOK /\ EntryFaithful) /\ [Next]_vars => (TypeOK /\ EntryFaithful)'
  BY NextType, NextFaithful
<1> QED
  BY <1>1, <1>2, PTL DEF Spec

=============================================================================
