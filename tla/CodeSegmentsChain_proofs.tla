--------------------- MODULE CodeSegmentsChain_proofs ---------------------
(* Proofs about a compilation in progress: how CompileCodeAt() splits a      *)
(* super block, that the segments it chains are all translated before the    *)
(* guest runs, and that their code is emitted in the order of their words.   *)
EXTENDS CodeSegments_proofs

USE DEF SegOrNull

-----------------------------------------------------------------------------
(* The state of CompileCodeAt() and of the branchUnknown() that called it.    *)

CompileOK ==
    /\ dels # <<>> => cc.phase = "expire"
    /\ cc.phase \in {"scan", "expire"} => cc.start = 0 /\ cc.prev = NULL
    /\ cc.phase = "scan" => cc.x = 0
    /\ cc.phase = "expire" => cc.x >= 0
    /\ cc.phase \in {"expire", "split", "chosen"} => IsSuperBlock(cc.addr, cc.n)
    /\ cc.phase = "split" =>
          /\ cc.x = cc.start /\ 0 <= cc.start /\ cc.start < cc.n
          /\ cc.start = 0 => cc.prev = NULL
          /\ cc.prev \in live \cup {NULL}
    /\ cc.phase # "idle" => bu.phase = "idle" \/ (bu.phase = "link" /\ bu.tgt = cc.addr)

LEMMA SameCode ==
    ASSUME code' = code
    PROVE  /\ IsSuperBlock(cc.addr, cc.n)' <=> IsSuperBlock(cc'.addr, cc'.n)
           /\ \A a : WordAt(a)' = WordAt(a)
BY DEF IsSuperBlock, WordAt

\* A super block ends in a jump that is no link, and nothing in it ends one.
LEMMA SuperBlockShape ==
    ASSUME NEW a \in Addr, NEW n, IsSuperBlock(a, n), n # 0
    PROVE  /\ n \in Nat \ {0} /\ a + n - 1 \in Addr
           /\ EndsSuperBlock(code[a + n - 1])
           /\ \A w \in a .. a + n - 2 : ~EndsSuperBlock(code[w]) /\ code[w].k # "inv"
<1>1. PICK e \in Addr : /\ e >= a
                        /\ EndsSuperBlock(code[e]) \/ code[e].k = "inv"
                        /\ \A w \in a .. e - 1 : ~(EndsSuperBlock(code[w]) \/ code[w].k = "inv")
                        /\ n = IF code[e].k = "inv" THEN 0 ELSE e - a + 1
  BY DEF IsSuperBlock
<1>2. e \in Int /\ a \in Int
  BY ConstantsAssumption DEF Addr
<1>3. n = e - a + 1 /\ EndsSuperBlock(code[e])
  BY <1>1
<1>4. a + n - 1 = e /\ a + n - 2 = e - 1 /\ n \in Nat \ {0}
  BY <1>1, <1>2, <1>3
<1> QED
  BY <1>1, <1>3, <1>4

\* A word of the super block being split, by its distance from the start.
LEMMA WordsOfBlock ==
    ASSUME TypeOK, CompileOK, cc.phase \in {"expire", "split", "chosen"}, cc.n # 0
    PROVE  /\ cc.n \in Nat \ {0} /\ cc.addr + cc.n <= NWords
           /\ EndsSuperBlock(Word(cc.n - 1))
           /\ \A x \in 0 .. cc.n - 1 : cc.addr + x \in Addr
           /\ \A x \in 0 .. cc.n - 2 : ~EndsSuperBlock(Word(x)) /\ Word(x).k # "inv"
<1>1. cc.addr \in Addr /\ IsSuperBlock(cc.addr, cc.n)
  BY DEF TypeOK, CompileType, CompileOK
<1>2. /\ cc.n \in Nat \ {0} /\ cc.addr + cc.n - 1 \in Addr
      /\ EndsSuperBlock(code[cc.addr + cc.n - 1])
      /\ \A w \in cc.addr .. cc.addr + cc.n - 2 : ~EndsSuperBlock(code[w]) /\ code[w].k # "inv"
  BY <1>1, SuperBlockShape
<1>3. cc.addr \in Nat /\ NWords \in Nat
  BY <1>1, ConstantsAssumption DEF Addr
<1>4. \A x \in 0 .. cc.n - 1 : cc.addr + x \in Addr /\ Word(x) = code[cc.addr + x]
  BY <1>2, <1>3 DEF Addr, Word, WordAt
<1>5. cc.addr + cc.n <= NWords
  BY <1>2, <1>3 DEF Addr
<1>6. EndsSuperBlock(Word(cc.n - 1))
  <2>1. cc.n - 1 \in 0 .. cc.n - 1 /\ cc.addr + (cc.n - 1) = cc.addr + cc.n - 1
    BY <1>2, <1>3
  <2> QED
    BY <2>1, <1>2, <1>4
<1>7. ASSUME NEW x \in 0 .. cc.n - 2 PROVE ~EndsSuperBlock(Word(x)) /\ Word(x).k # "inv"
  <2>1. x \in 0 .. cc.n - 1 /\ cc.addr + x \in cc.addr .. cc.addr + cc.n - 2
    BY <1>2, <1>3
  <2> QED
    BY <2>1, <1>2, <1>4
<1> QED
  BY <1>2, <1>4, <1>5, <1>6, <1>7

-----------------------------------------------------------------------------
(* What one turn of the splitting loop does.                                  *)

\* A segment of the words lo .. hi - 1 as it is allocated.
Cut(r, lo, hi) ==
    /\ r \in SegmentType(Len(arm)) /\ r.start = lo /\ r.len = hi - lo
    /\ r.cont = NULL /\ r.callers = <<>> /\ r.entry = 0

Put(g, s, r) == [g EXCEPT ![s] = r]

\* The segment s with contents r, added to map m, contents g and live segments
\* L and chained to prev, gives w, h and K.
Adds(m, g, L, prev, s, r, w, h, K) ==
    /\ m \in [Addr -> SegOrNull] /\ g \in [Segs -> SegmentType(Len(arm))] /\ L \in SUBSET Segs
    /\ prev \in L \cup {NULL} /\ r \in SegmentType(Len(arm))
    /\ s \in Segs \ L /\ K = L \cup {s}
    /\ w = SetMem(m, r.start, r.len, s)
    /\ h = Chain(Put(g, s, r), prev, s)

\* What is different then.
Added(m, g, L, prev, s, r, w, h, K) ==
    /\ s \in Segs /\ s \notin L /\ s # prev /\ K = L \cup {s}
    /\ h \in [Segs -> SegmentType(Len(arm))] /\ w \in [Addr -> SegOrNull] /\ K \in SUBSET Segs
    /\ \A a \in Addr : w[a] = IF r.start <= a /\ a < r.start + r.len THEN s ELSE m[a]
    /\ h[s].start = r.start /\ h[s].len = r.len /\ h[s].entry = r.entry
    /\ h[s].cont = r.cont /\ h[s].br = r.br
    /\ h[s].callers = IF prev = NULL THEN r.callers ELSE Append(r.callers, prev)
    /\ \A u \in Segs \ {s} :
          /\ h[u].start = g[u].start /\ h[u].len = g[u].len /\ h[u].entry = g[u].entry
          /\ h[u].br = g[u].br /\ h[u].callers = g[u].callers
          /\ h[u].cont = IF u = prev THEN s ELSE g[u].cont

LEMMA AddsChange ==
    ASSUME NEW m, NEW g, NEW L, NEW prev, NEW s, NEW r, NEW w, NEW h, NEW K,
           Adds(m, g, L, prev, s, r, w, h, K)
    PROVE  Added(m, g, L, prev, s, r, w, h, K)
<1>0. /\ m \in [Addr -> SegOrNull] /\ g \in [Segs -> SegmentType(Len(arm))] /\ L \in SUBSET Segs
      /\ r \in SegmentType(Len(arm))
  BY DEF Adds
<1>1. /\ s \in Segs /\ s \notin L /\ s # prev /\ K = L \cup {s} /\ prev \in SegOrNull
      /\ w = SetMem(m, r.start, r.len, s) /\ h = Chain(Put(g, s, r), prev, s)
  BY ConstantsAssumption DEF Adds
<1>2. w \in [Addr -> SegOrNull]
  BY <1>0, <1>1, SetMemType
<1>3. \A a \in Addr : w[a] = IF r.start <= a /\ a < r.start + r.len THEN s ELSE m[a]
  BY <1>1 DEF SetMem, Words
<1> DEFINE f == Put(g, s, r)
<1>4. f \in [Segs -> SegmentType(Len(arm))] /\ f[s] = r /\ \A u \in Segs \ {s} : f[u] = g[u]
  BY <1>0, <1>1 DEF Put
<1> HIDE DEF f
<1>5. h \in [Segs -> SegmentType(Len(arm))]
  <2>1. CASE prev = NULL
    BY <1>1, <1>4, <2>1 DEF Chain, f
  <2>2. CASE prev # NULL
    <3> DEFINE e == [f EXCEPT ![prev].cont = s]
               c == Append(f[s].callers, prev)
    <3>1. e \in [Segs -> SegmentType(Len(arm))]
      BY <1>1, <1>4, <2>2 DEF SegmentType
    <3>2. f[s].callers \in Seq(Segs) /\ prev \in Segs
      BY <1>1, <1>4, <2>2 DEF SegmentType
    <3>3. c \in Seq(Segs)
      BY <3>2, AppendProperties
    <3>4. h = [e EXCEPT ![s].callers = c]
      BY <1>1, <2>2 DEF Chain, f
    <3> HIDE DEF e, c
    <3> QED
      BY <3>1, <3>3, <3>4, <1>1 DEF SegmentType
  <2> QED
    BY <2>1, <2>2
<1>6. CASE prev = NULL
  <2>1. h = f
    BY <1>1, <1>6 DEF Chain, f
  <2>2. prev \notin Segs
    BY <1>6, ConstantsAssumption
  <2> QED
    BY <1>0, <1>1, <1>2, <1>3, <1>4, <1>5, <1>6, <2>1, <2>2 DEF Added
<1>7. CASE prev # NULL
  <2>1. h = [f EXCEPT ![prev].cont = s, ![s].callers = Append(f[s].callers, prev)]
    BY <1>1, <1>7 DEF Chain, f
  <2> DEFINE c == Append(f[s].callers, prev)
  <2>2. c = Append(r.callers, prev)
    BY <1>4
  <2>3. h[s] = [r EXCEPT !.callers = c]
    BY <1>1, <1>4, <1>7, <2>1
  <2>4. h[prev] = [g[prev] EXCEPT !.cont = s] /\ prev \in Segs
    BY <1>1, <1>4, <1>7, <2>1
  <2>5. \A u \in Segs \ {s, prev} : h[u] = g[u]
    BY <1>1, <1>4, <2>1
  <2>6. \A u \in Segs : g[u] \in SegmentType(Len(arm))
    BY <1>0
  <2> HIDE DEF c
  <2>7. /\ h[s].start = r.start /\ h[s].len = r.len /\ h[s].entry = r.entry
        /\ h[s].cont = r.cont /\ h[s].br = r.br /\ h[s].callers = c
    BY <1>0, <2>3 DEF SegmentType
  <2>8. /\ h[prev].start = g[prev].start /\ h[prev].len = g[prev].len /\ h[prev].entry = g[prev].entry
        /\ h[prev].br = g[prev].br /\ h[prev].callers = g[prev].callers /\ h[prev].cont = s
    <3>1. g[prev] \in SegmentType(Len(arm))
      BY <2>4, <2>6
    <3> QED
      BY <3>1, <2>4 DEF SegmentType
  <2> QED
    BY <1>0, <1>1, <1>2, <1>3, <1>5, <1>7, <2>2, <2>5, <2>7, <2>8 DEF Added
<1> QED
  BY <1>6, <1>7

\* A branch in the last of the words lo .. hi - 1 targets the first or none.
HeadOrOut(lo, hi) ==
    IsBranch(WordAt(hi - 1)) =>
        LET i   == WordAt(hi - 1)
            tgt == TranslateTarget(i, hi, i.v)
        IN  tgt = lo \/ ~(lo <= tgt /\ tgt < hi)

\* The words up to the jump or branch at x become one segment, or two when x
\* is an internal loop whose head is at mid.
SplitOne(x) ==
    \E s \in Segs, r \in SegmentType(Len(arm)) :
        /\ Cut(r, cc.addr + cc.start, cc.addr + x + 1)
        /\ Adds(mem, heap, live, cc.prev, s, r, mem', heap', live')
        /\ HeadOrOut(r.start, r.start + r.len)
        /\ r.br = NULL \/ \E a \in Addr : r.br = mem'[a]
        /\ cc' = Advance(cc, IF EndsSuperBlock(Word(x)) THEN "chosen" ELSE "split", s, x + 1, x + 1)

\* The segments s and t get the words up to mid and from there on.
SplitInto(x, s, t, p, q, mid) ==
    \E m, h, L :
        /\ Cut(p, cc.addr + cc.start, mid) /\ p.br = NULL
        /\ Cut(q, mid, cc.addr + x + 1) /\ q.br = NULL
        /\ Adds(mem, heap, live, cc.prev, s, p, m, h, L)
        /\ Adds(m, h, L, s, t, q, mem', heap', live')
        /\ HeadOrOut(mid, cc.addr + x + 1)
        /\ mid = cc.addr + cc.start => cc.start = 0
        /\ ~EndsSuperBlock(Word(x))
        /\ cc' = Advance(cc, "split", t, x + 1, x + 1)

SplitTwo(x) ==
    \E s, t \in Segs, p, q \in SegmentType(Len(arm)), mid \in cc.addr + cc.start .. cc.addr + x :
        SplitInto(x, s, t, p, q, mid)

\* Chaining t behind s after both are allocated is allocating t later.
LEMMA ChainTwice ==
    ASSUME NEW n, NEW g \in [Segs -> SegmentType(n)], NEW prev \in SegOrNull,
           NEW s \in Segs, NEW t \in Segs, s # t, prev # t, NEW q \in SegmentType(n)
    PROVE  Chain(Put(g, t, q), prev, s) = Put(Chain(g, prev, s), t, q)
<1> DEFINE gq == [g EXCEPT ![t] = q]
<1>0. gq = [g EXCEPT ![t] = q]
  OBVIOUS
<1> HIDE DEF gq
<1>1. CASE prev = NULL
  BY <1>1 DEF Chain, Put
<1>2. CASE prev # NULL
  <2>1. gq[s] = g[s] /\ prev \in Segs
    BY <1>0, <1>2
  <2> DEFINE c == Append(g[s].callers, prev)
  <2>2. /\ Chain(gq, prev, s) = [gq EXCEPT ![prev].cont = s, ![s].callers = c]
        /\ Chain(g, prev, s) = [g EXCEPT ![prev].cont = s, ![s].callers = c]
    BY <1>2, <2>1 DEF Chain
  <2> HIDE DEF c
  <2>3. [[g EXCEPT ![t] = q] EXCEPT ![prev].cont = s, ![s].callers = c]
          = [[g EXCEPT ![prev].cont = s, ![s].callers = c] EXCEPT ![t] = q]
    BY <2>1
  <2> QED
    BY <2>2, <2>3, <1>0 DEF Put
<1> QED
  BY <1>1, <1>2

LEMMA SegmentIsCut ==
    ASSUME TypeOK, NEW start \in Int, NEW len \in Int, NEW type \in SegTypes
    PROVE  /\ Cut(Segment(start, len, type), start, start + len)
           /\ Segment(start, len, type).br = NULL
<1>1. Len(arm) \in Nat
  BY LenProperties DEF TypeOK
<1>2. Segment(start, len, type) \in SegmentType(Len(arm))
  BY <1>1, SegmentHasType
<1>3. start + len - start = len
  OBVIOUS
<1> QED
  BY <1>2, <1>3 DEF Cut, Segment, ZeroSegment

LEMMA BranchIsCut ==
    ASSUME TypeOK, NEW start \in Int, NEW len \in Int, NEW type \in SegTypes, NEW br \in SegOrNull
    PROVE  /\ Cut([Segment(start, len, type) EXCEPT !.br = br], start, start + len)
           /\ [Segment(start, len, type) EXCEPT !.br = br].br = br
<1> DEFINE r == Segment(start, len, type)
<1>1. Cut(r, start, start + len)
  BY SegmentIsCut
<1>2. r \in SegmentType(Len(arm))
  BY <1>1 DEF Cut
<1> HIDE DEF r
<1>3. [r EXCEPT !.br = br] \in SegmentType(Len(arm))
  BY <1>2 DEF SegmentType
<1>4. Cut([r EXCEPT !.br = br], start, start + len) /\ [r EXCEPT !.br = br].br = br
  BY <1>1, <1>2, <1>3 DEF Cut, SegmentType
<1> QED
  BY <1>4 DEF r

LEMMA SplitCases ==
    ASSUME TypeOK, CompileOK, CompileSplit
    PROVE  \/ UNCHANGED <<mem, heap, live, cc>> /\ halted' = "runaway_length"
           \/ /\ halted' = "no"
              /\ \E x \in cc.start .. cc.n - 1 : NextControl(x) /\ (SplitOne(x) \/ SplitTwo(x))
<1> DEFINE n == Len(arm)
<1>1. /\ n \in Nat /\ cc \in CompileType /\ cc.prev \in SegOrNull /\ cc.addr \in Addr /\ cc.addr \in Int
      /\ cc.start \in Int /\ cc.x \in Int /\ cc.phase = "split" /\ cc.n \in Int
      /\ heap \in [Segs -> SegmentType(n)] /\ mem \in [Addr -> SegOrNull] /\ live \subseteq Segs
  BY LenProperties DEF TypeOK, CompileType, CompileSplit, Compiling, Addr
<1>2. PICK x \in cc.x .. NWords - 1 : NextControl(x) /\ (SplitJump(x) \/ SplitLoop(x) \/ SplitBranch(x))
  BY DEF CompileSplit
<1>3. /\ cc.x = cc.start /\ 0 <= cc.start /\ cc.prev \in live \cup {NULL} /\ halted = "no"
      /\ cc.start = 0 => cc.prev = NULL
  BY <1>1 DEF CompileOK, CompileSplit, Compiling
<1>4. NWords \in Int
  BY ConstantsAssumption
<1>5. x \in Int /\ cc.start <= x /\ x < cc.n /\ x \in cc.start .. cc.n - 1
  BY <1>1, <1>2, <1>3, <1>4 DEF NextControl
<1>6. Word(x) \in Instr /\ Word(x).v \in Int /\ Word(x) = WordAt(cc.addr + x)
  BY WordType DEF TypeOK, Word, Instr
<1>7. cc.n # 0
  BY <1>1, <1>3, <1>5
<1> DEFINE lo == cc.addr + cc.start
           hi == cc.addr + x + 1
<1>8. lo \in Int /\ hi \in Int /\ lo < hi /\ hi - 1 = cc.addr + x /\ WordAt(hi - 1) = Word(x)
  BY <1>1, <1>5, <1>6
<1>9. CASE SplitJump(x)
  <2> DEFINE len  == x - cc.start + 1
             type == IF cc.start = 0 THEN "START" ELSE "END"
             next == IF IsLink(Word(x)) THEN "split" ELSE "chosen"
             r    == Segment(lo, len, type)
  <2>1. PICK s \in Segs \ live :
              /\ live' = live \cup {s}
              /\ heap' = Chain([heap EXCEPT ![s] = r], cc.prev, s)
              /\ mem'  = SetMem(mem, lo, len, s)
              /\ cc'   = [cc EXCEPT !.prev = s, !.start = x + 1, !.x = x + 1, !.phase = next]
    BY <1>9 DEF SplitJump
  <2>2. type \in SegTypes /\ len \in Int /\ lo + len = hi
    BY <1>1, <1>5 DEF SegTypes
  <2>3. next = IF EndsSuperBlock(Word(x)) THEN "chosen" ELSE "split"
    BY <1>9 DEF SplitJump, EndsSuperBlock
  <2>4. ~IsBranch(Word(x))
    BY <1>9 DEF SplitJump, IsJump, IsBranch, BranchKinds
  <2> HIDE DEF len, type, next
  <2>5. Cut(r, lo, hi) /\ r.br = NULL
    <3> HIDE DEF lo, hi
    <3> QED
      BY <2>2, <1>8, SegmentIsCut
  <2> HIDE DEF r
  <2>6. r.start = lo /\ r.len = len /\ r \in SegmentType(n)
    <3> HIDE DEF lo, hi
    <3> QED
      BY <2>5, <2>2, <1>8 DEF Cut
  <2>7. Adds(mem, heap, live, cc.prev, s, r, mem', heap', live')
    BY <2>1, <2>6, <1>1, <1>3 DEF Adds, Put
  <2>8. cc' = Advance(cc, next, s, x + 1, x + 1)
    BY <2>1, <1>1 DEF Advance, CompileType
  <2>9. HeadOrOut(r.start, r.start + r.len)
    <3> HIDE DEF lo, hi
    <3> QED
      BY <2>4, <2>6, <2>2, <1>8 DEF HeadOrOut
  <2>10. SplitOne(x)
    BY <2>3, <2>5, <2>6, <2>7, <2>8, <2>9 DEF SplitOne
  <2> QED
    BY <2>10, <1>9, <1>2, <1>3, <1>5 DEF SplitJump
<1>10. CASE SplitBranch(x)
  <2> DEFINE off  == Word(x).v
             len  == x - cc.start + 1
             type == IF cc.start = 0 THEN "START" ELSE "SANDWICH"
  <2>1. PICK s \in Segs \ live, br \in SegOrNull :
              /\ live' = live \cup {s}
              /\ mem'  = SetMem(mem, lo, len, s)
              /\ br = NULL \/ \E a \in Addr : br = mem'[a]
              /\ heap' = Chain([heap EXCEPT ![s] = [Segment(lo, len, type) EXCEPT !.br = br]],
                               cc.prev, s)
              /\ cc'   = [cc EXCEPT !.prev = s, !.start = x + 1, !.x = x + 1]
    <3>1. PICK s \in Segs \ live :
              LET m == SetMem(mem, lo, len, s)
              IN  /\ live' = live \cup {s}
                  /\ mem'  = m
                  /\ heap' = Chain([heap EXCEPT ![s] =
                                 [Segment(lo, len, type) EXCEPT !.br =
                                    IF lo + off \in Addr THEN m[lo + off] ELSE NULL]],
                               cc.prev, s)
                  /\ cc'   = [cc EXCEPT !.prev = s, !.start = x + 1, !.x = x + 1]
      BY <1>10 DEF SplitBranch
    <3> DEFINE m == SetMem(mem, lo, len, s)
               target == IF lo + off \in Addr THEN m[lo + off] ELSE NULL
    <3>2. m \in [Addr -> SegOrNull] /\ mem' = m
      BY <1>1, <3>1, SetMemType
    <3>3. target \in SegOrNull /\ (target = NULL \/ \E a \in Addr : target = mem'[a])
      BY <3>2
    <3> QED
      BY <3>1, <3>3
  <2> DEFINE r == [Segment(lo, len, type) EXCEPT !.br = br]
  <2>2. type \in SegTypes /\ len \in Int /\ lo + len = hi
    BY <1>1, <1>5, SMTT(30) DEF SegTypes
  <2>3. off \in Int /\ IsBranch(Word(x)) /\ (off >= 0 \/ (x + off < cc.start /\ x + off >= 0))
    <3>1. off \in Int
      BY <1>6
    <3>2. IsBranch(Word(x)) /\ ~IsInternal(x, off)
      BY <1>10 DEF SplitBranch
    <3> HIDE DEF off
    <3> QED
      BY <3>1, <3>2, <1>1, <1>5 DEF IsInternal
  <2>4. HeadOrOut(lo, hi)
    <3>1. TranslateTarget(WordAt(hi - 1), hi, WordAt(hi - 1).v) = hi + off
      BY <2>3, <1>8 DEF TranslateTarget
    <3> HIDE DEF off
    <3>2. hi + off >= hi \/ hi + off <= lo
      BY <2>3, <1>1, <1>5
    <3>3. hi + off \in Int
      BY <2>3, <1>8
    <3> HIDE DEF hi, lo
    <3>4. hi + off = lo \/ ~(lo <= hi + off /\ hi + off < hi)
      BY <3>2, <3>3, <1>8, <2>3
    <3> QED
      BY <3>1, <3>4 DEF HeadOrOut
  <2>5. ~EndsSuperBlock(Word(x))
    BY <2>3 DEF EndsSuperBlock, IsJump, IsBranch, BranchKinds
  <2> HIDE DEF len, type
  <2>6. Cut(r, lo, hi) /\ r.br = br
    <3> HIDE DEF lo, hi
    <3> QED
      BY <2>1, <2>2, <1>8, BranchIsCut
  <2> HIDE DEF r
  <2>7. r.start = lo /\ r.len = len /\ r \in SegmentType(n)
    <3> HIDE DEF lo, hi
    <3> QED
      BY <2>6, <2>2, <1>8 DEF Cut
  <2>8. Adds(mem, heap, live, cc.prev, s, r, mem', heap', live')
    BY <2>1, <2>7, <1>1, <1>3 DEF Adds, Put, r
  <2>9. cc' = Advance(cc, "split", s, x + 1, x + 1)
    BY <2>1, <1>1 DEF Advance, CompileType
  <2>10. r.start + r.len = hi
    BY <2>7, <2>2
  <2>11. SplitOne(x)
    BY <2>1, <2>4, <2>5, <2>6, <2>7, <2>8, <2>9, <2>10 DEF SplitOne
  <2> QED
    BY <2>11, <1>10, <1>2, <1>3, <1>5 DEF SplitBranch
<1>11. CASE SplitLoop(x)
  <2> DEFINE off  == Word(x).v
             len  == x + off - cc.start + 1
             mid  == cc.addr + x + 1 + off
             size == -off
             type == IF cc.start = 0 THEN "START" ELSE "SANDWICH"
  <2>1. off \in Int /\ IsBranch(Word(x)) /\ IsInternal(x, off)
    BY <1>6, <1>11 DEF SplitLoop
  <2>2. /\ off < 0 /\ len \in Int /\ mid \in Int /\ size \in Int /\ size > 0 /\ lo + len = mid
        /\ mid + size = hi /\ mid <= cc.addr + x
    <3>1. off < 0 /\ off \in Int
      BY <2>1 DEF IsInternal
    <3> HIDE DEF off
    <3>2. size \in Int /\ size > 0 /\ size + off = 0
      BY <3>1
    <3> DEFINE base == cc.addr
               from == cc.start
    <3>3. /\ lo = base + from /\ hi = base + x + 1 /\ len = x + off - from + 1 /\ mid = base + x + 1 + off
          /\ base \in Int /\ from \in Int /\ x \in Int
      BY <1>1, <1>5
    <3>4. mid <= base + x
      <4> HIDE DEF base, from, lo, hi, len, mid, size
      <4> QED
        BY <3>1, <3>2, <3>3
    <3>5. len \in Int /\ mid \in Int /\ lo + len = mid /\ mid + size = hi
      <4> HIDE DEF base, from, lo, hi, len, mid, size
      <4> QED
        BY <3>1, <3>2, <3>3
    <3> QED
      BY <3>1, <3>2, <3>4, <3>5
  <2>3. type \in SegTypes /\ "SANDWICH" \in SegTypes
    BY DEF SegTypes
  <2>4. CASE len < 0
    <3>1. ~(len >= 0)
      <4>1. len \in Int
        <5>1. off \in Int
          BY <2>1
        <5> HIDE DEF off
        <5> QED
          BY <5>1, <1>1, <1>5
      <4> HIDE DEF len
      <4> QED
        BY <4>1, <2>4
    <3> QED
      BY <3>1, <1>11 DEF SplitLoop
  <2>5. CASE ~(len < 0)
    <3>1. PICK s, t \in Segs \ live :
                    /\ s # t
                    /\ live' = live \cup {s, t}
                    /\ heap' = Chain(Chain([heap EXCEPT
                                       ![s] = Segment(lo, len, type),
                                       ![t] = Segment(mid, size, "SANDWICH")],
                                     cc.prev, s), s, t)
                    /\ mem'  = SetMem(SetMem(mem, lo, len, s), mid, size, t)
                    /\ cc'   = [cc EXCEPT !.prev = t, !.start = x + 1, !.x = x + 1]
                    /\ UNCHANGED halted
      BY <1>11, <2>5 DEF SplitLoop
    <3>2. len >= 0 /\ mid \in lo .. cc.addr + x
      <4> HIDE DEF len, mid, size, off, lo, hi
      <4> QED
        BY <2>2, <2>5, <1>1, <1>5, <1>8
    <3>3. mid = lo => cc.start = 0
      <4>1. off \in Int /\ (x + off >= cc.start \/ x + off < 0)
        BY <2>1 DEF IsInternal
      <4> HIDE DEF off
      <4> QED
        BY <4>1, <1>1, <1>3, <1>5, <3>2, SMTT(30)
    <3> DEFINE p == Segment(lo, len, type)
               q == Segment(mid, size, "SANDWICH")
               g == [heap EXCEPT ![s] = p]
               h == Chain(g, cc.prev, s)
               m == SetMem(mem, lo, len, s)
               L == live \cup {s}
    <3>4. Cut(p, lo, mid) /\ p.br = NULL /\ Cut(q, mid, hi) /\ q.br = NULL
      <4> HIDE DEF len, mid, size, type, off, lo, hi
      <4>1. Cut(p, lo, lo + len) /\ p.br = NULL
        BY <2>2, <2>3, <2>5, <1>8, SegmentIsCut DEF p
      <4>2. Cut(q, mid, mid + size) /\ q.br = NULL
        BY <2>2, <2>3, <2>5, SegmentIsCut DEF q
      <4> QED
        BY <4>1, <4>2, <2>2, <2>5
    <3> HIDE DEF p, q
    <3>5. /\ p \in SegmentType(n) /\ q \in SegmentType(n)
          /\ p.start = lo /\ p.len = len /\ q.start = mid /\ q.len = size
      <4> HIDE DEF len, mid, size, type, off, lo, hi
      <4> QED
        BY <3>4, <2>2, <2>5, <1>8 DEF Cut
    <3>6. Adds(mem, heap, live, cc.prev, s, p, m, h, L)
      BY <3>1, <3>5, <1>1, <1>3 DEF Adds, Put
    <3>7. heap' = Chain(Put(h, t, q), s, t)
      <4>1. heap' = Chain(Chain([heap EXCEPT ![s] = p, ![t] = q], cc.prev, s), s, t)
        BY <3>1 DEF p, q
      <4>2. cc.prev # t /\ s \in Segs /\ t \in Segs /\ s # t
        BY <3>1, <1>1, <1>3, ConstantsAssumption
      <4>3. Put(g, t, q) = [heap EXCEPT ![s] = p, ![t] = q] /\ g \in [Segs -> SegmentType(n)]
        BY <1>1, <3>5 DEF Put
      <4>4. Chain(Put(g, t, q), cc.prev, s) = Put(Chain(g, cc.prev, s), t, q)
        <5>1. /\ cc.prev \in SegOrNull /\ s # t /\ cc.prev # t /\ s \in Segs /\ t \in Segs
              /\ q \in SegmentType(n) /\ g \in [Segs -> SegmentType(n)]
          BY <4>2, <4>3, <3>5, <1>1
        <5> HIDE DEF n, g
        <5> QED
          BY <5>1, ChainTwice
      <4> QED
        BY <4>1, <4>3, <4>4
    <3>8. Adds(m, h, L, s, t, q, mem', heap', live')
      <4>0. /\ m \in [Addr -> SegOrNull] /\ h \in [Segs -> SegmentType(n)] /\ L \in SUBSET Segs
            /\ s \in L \cup {NULL} /\ q \in SegmentType(n)
        <5> HIDE DEF m, h, L
        <5>1. Added(mem, heap, live, cc.prev, s, p, m, h, L)
          BY <3>6, AddsChange
        <5> QED
          BY <3>5, <5>1 DEF Added
      <4>1. mem' = SetMem(m, mid, size, t) /\ live' = L \cup {t} /\ t \in Segs \ L
        BY <3>1
      <4> HIDE DEF m, h, L
      <4> QED
        BY <4>0, <4>1, <3>5, <3>7 DEF Adds
    <3>9. HeadOrOut(mid, hi)
      <4>1. TranslateTarget(WordAt(hi - 1), hi, WordAt(hi - 1).v) = hi + off
        BY <2>1, <1>8 DEF TranslateTarget
      <4>2. hi + off = mid
        <5>1. off \in Int
          BY <2>1
        <5> HIDE DEF off
        <5> QED
          BY <5>1, <1>1, <1>5
      <4> QED
        BY <4>1, <4>2 DEF HeadOrOut
    <3>10. cc' = Advance(cc, "split", t, x + 1, x + 1)
      BY <3>1, <1>1 DEF Advance, CompileType
    <3>11. ~EndsSuperBlock(Word(x))
      BY <2>1 DEF EndsSuperBlock, IsJump, IsBranch, BranchKinds
    <3> HIDE DEF m, h, L, len, mid, size, type, off
    <3>12. SplitInto(x, s, t, p, q, mid)
      BY <3>1, <3>2, <3>3, <3>4, <3>5, <3>6, <3>8, <3>9, <3>10, <3>11 DEF SplitInto
    <3>13. SplitTwo(x)
      BY <3>1, <3>2, <3>4, <3>5, <3>12 DEF SplitTwo
    <3> QED
      BY <3>13, <3>1, <1>2, <1>3, <1>5
  <2> QED
    BY <2>4, <2>5
<1> QED
  BY <1>2, <1>9, <1>10, <1>11

-----------------------------------------------------------------------------
(* The segments allocated and not yet translated form one chain.              *)

\* The segments of map m that have no code in heap h.
Pending(m, h) == {s \in Segs : h[s].entry = 0 /\ \E a \in Addr : m[a] = s}

EndOf(h, s) == h[s].start + h[s].len

Apart(h, P) == \A u, w \in P : u # w => EndOf(h, u) <= h[w].start \/ EndOf(h, w) <= h[u].start

\* The segment u of P continues to the one of P that follows it in memory.
Linked(h, P, u) == h[u].cont \in P /\ h[h[u].cont].start = EndOf(h, u)

\* While the words from lo to f are split off, all but the last continue.
Growing(m, h, prev, lo, f) ==
    LET P == Pending(m, h)
    IN  /\ \A u \in P : lo <= h[u].start /\ h[u].len > 0 /\ EndOf(h, u) <= f
        /\ Apart(h, P)
        /\ \A u \in P \ {prev} : Linked(h, P, u)
        /\ f # lo => prev \in P /\ EndOf(h, prev) = f /\ m[lo] \in P
        /\ f = lo => P = {}

\* The last word of a segment with contents r.
TailOf(r) == WordAt(r.start + r.len - 1)

\* Once the super block is split, each continues, but for the last one.
Chained(m, h) ==
    LET P == Pending(m, h)
    IN  /\ \A u \in P : h[u].len > 0
        /\ Apart(h, P)
        /\ \A u \in P : \/ Linked(h, P, u)
                        \/ /\ EndsSuperBlock(TailOf(h[u])) /\ h[u].cont = NULL
                           /\ \A w \in P : h[w].start <= h[u].start

ChainIs(c, m, h) ==
    /\ c.phase \in {"idle", "scan", "expire"} => Pending(m, h) = {}
    /\ c.phase = "split" => Growing(m, h, c.prev, c.addr, c.addr + c.start)
    /\ c.phase = "chosen" =>
          /\ Chained(m, h)
          /\ \A u \in Pending(m, h) : c.addr <= h[u].start
          /\ IF c.n = 0 THEN Pending(m, h) = {} ELSE m[c.addr] \in Pending(m, h)
    /\ c.phase = "translate" =>
          /\ Chained(m, h) /\ c.seg \in Pending(m, h)
          /\ \A u \in Pending(m, h) : h[c.seg].start <= h[u].start

ChainOK == ChainIs(cc, mem, heap)

\* A word that no jump follows, only a word that is no instruction, is never
\* mapped: CompileCodeAt() finds a length of 0 and allocates nothing.
Enclosed == \A a \in Addr : mem[a] # NULL => ~IsSuperBlock(a, 0)

LEMMA SegmentFields ==
    ASSUME NEW n, NEW h \in [Segs -> SegmentType(n)], NEW u \in Segs
    PROVE  /\ h[u].start \in Int /\ h[u].len \in Int /\ EndOf(h, u) \in Int /\ h[u].cont \in SegOrNull
           /\ h[u].br \in SegOrNull /\ h[u].callers \in Seq(Segs)
BY DEF SegmentType, EndOf

LEMMA PendingAreLive ==
    ASSUME NEW m, NEW h, NEW L, Sound(m, h, L)
    PROVE  Pending(m, h) \subseteq L
BY ConstantsAssumption DEF Pending, Sound

Grown(m, g, L, prev, lo, f) == Growing(m, g, prev, lo, f) /\ Sound(m, g, L)

\* The words f .. e - 1 of the super block at lo come next.
InBlock(lo, f, e) == /\ lo \in Addr /\ f \in Int /\ e \in Int
                   /\ lo <= f /\ f <= e /\ e <= NWords /\ (f = e => f = lo)

\* One more segment is split off.
LEMMA GrowStep ==
    ASSUME NEW m, NEW g, NEW L, NEW prev, NEW s, NEW r, NEW w, NEW h, NEW K, NEW lo, NEW f, NEW e,
           Grown(m, g, L, prev, lo, f), InBlock(lo, f, e), Cut(r, f, e), Adds(m, g, L, prev, s, r, w, h, K)
    PROVE  Grown(w, h, K, s, lo, e)
<1>h. /\ lo \in Addr /\ f \in Int /\ e \in Int
      /\ lo <= f /\ f <= e /\ e <= NWords /\ (f = e => f = lo)
      /\ Growing(m, g, prev, lo, f) /\ Sound(m, g, L)
  BY DEF Grown, InBlock
<1> USE <1>h
<1>0. /\ m \in [Addr -> SegOrNull] /\ g \in [Segs -> SegmentType(Len(arm))] /\ L \in SUBSET Segs
      /\ w = SetMem(m, r.start, r.len, s)
  BY DEF Adds
<1> DEFINE P == Pending(m, g)
           Q == Pending(w, h)
<1>1. /\ s \in Segs /\ s \notin L /\ s # prev /\ K = L \cup {s}
      /\ h \in [Segs -> SegmentType(Len(arm))] /\ w \in [Addr -> SegOrNull]
      /\ \A a \in Addr : w[a] = IF f <= a /\ a < e THEN s ELSE m[a]
      /\ h[s].start = f /\ h[s].len = e - f /\ h[s].entry = 0 /\ EndOf(h, s) = e
      /\ \A u \in Segs \ {s} :
            /\ h[u].start = g[u].start /\ h[u].len = g[u].len /\ h[u].entry = g[u].entry
            /\ EndOf(h, u) = EndOf(g, u)
            /\ h[u].cont = IF u = prev THEN s ELSE g[u].cont
  <2>1. r.start = f /\ r.len = e - f /\ r.entry = 0 /\ f + (e - f) = e
    BY DEF Cut
  <2> QED
    BY <2>1, AddsChange DEF EndOf, Added
<1>2. /\ \A u \in P : lo <= g[u].start /\ g[u].len > 0 /\ EndOf(g, u) <= f
      /\ Apart(g, P) /\ \A u \in P \ {prev} : Linked(g, P, u)
      /\ f # lo => prev \in P /\ EndOf(g, prev) = f /\ m[lo] \in P
      /\ f = lo => P = {}
  BY DEF Growing
<1>3. P \subseteq L /\ s \notin P /\ P \subseteq Segs
  BY <1>1, PendingAreLive DEF Pending
<1>4. lo \in Int /\ NWords \in Int /\ \A a \in Int : lo <= a /\ a < NWords => a \in Addr
  BY ConstantsAssumption DEF Addr
<1>5. ASSUME NEW u \in P PROVE u \in Q
  <2>1. PICK a \in Addr : m[a] = u
    BY DEF Pending
  <2>2. g[u].start <= a /\ a < EndOf(g, u)
    BY <2>1, <1>3, ConstantsAssumption DEF Sound, Words, EndOf
  <2>3. a < f
    <3>1. a \in Int /\ EndOf(g, u) \in Int
      BY <1>0, <1>3, SegmentFields DEF Addr
    <3> QED
      BY <2>2, <1>2, <3>1
  <2>4. w[a] = u
    BY <1>1, <2>1, <2>3 DEF Addr
  <2> QED
    BY <1>1, <1>3, <2>4 DEF Pending
<1>6. ASSUME NEW u \in Q, u # s PROVE u \in P
  <2>1. PICK a \in Addr : w[a] = u
    BY DEF Pending
  <2>2. m[a] = u
    BY <1>1, <1>6, <2>1
  <2> QED
    BY <1>1, <1>6, <2>2 DEF Pending
<1>7. s \in Q <=> f < e
  <2>1. ASSUME f < e PROVE s \in Q
    <3>1. f \in Addr /\ w[f] = s
      BY <2>1, <1>1, <1>4
    <3> QED
      BY <3>1, <1>1 DEF Pending
  <2>2. ASSUME s \in Q PROVE f < e
    <3>1. PICK a \in Addr : w[a] = s
      BY <2>2 DEF Pending
    <3>2. m[a] # s
      BY <1>1, ConstantsAssumption DEF Sound
    <3>3. f <= a /\ a < e
      BY <3>1, <3>2, <1>1
    <3> QED
      BY <3>3 DEF Addr
  <2> QED
    BY <2>1, <2>2
<1>8. Sound(w, h, K)
  <2> SUFFICES ASSUME NEW a \in Addr, w[a] # NULL
               PROVE  w[a] \in K /\ a \in Words(h[w[a]].start, h[w[a]].len)
    BY DEF Sound
  <2>1. CASE f <= a /\ a < e
    <3>1. w[a] = s /\ h[s].start + h[s].len = e
      BY <1>1, <2>1 DEF EndOf
    <3> QED
      BY <1>1, <2>1, <3>1 DEF Words
  <2>2. CASE ~(f <= a /\ a < e)
    <3>1. w[a] = m[a]
      BY <1>1, <2>2
    <3>2. m[a] \in L /\ a \in Words(g[m[a]].start, g[m[a]].len)
      BY <3>1 DEF Sound
    <3>3. m[a] \in Segs \ {s}
      BY <3>2, <1>0, <1>1
    <3> QED
      BY <1>1, <3>1, <3>2, <3>3
  <2> QED
    BY <2>1, <2>2
<1>9. CASE f = e
  <2>1. P = {} /\ Q = {} /\ e = lo
    BY <1>9, <1>2, <1>6, <1>7
  <2> QED
    BY <1>8, <2>1 DEF Grown, Growing, Apart
<1>10. CASE f < e
  <2>1. Q = P \cup {s}
    BY <1>10, <1>5, <1>6, <1>7
  <2>2. \A u \in P : /\ h[u].start = g[u].start /\ h[u].len = g[u].len /\ EndOf(h, u) = EndOf(g, u)
                     /\ g[u].start \in Int /\ EndOf(g, u) \in Int /\ u \in Segs \ {s}
    BY <1>1, <1>3, SegmentFields
  <2> HIDE DEF P, Q
  <2>3. \A u \in Q : lo <= h[u].start /\ h[u].len > 0 /\ EndOf(h, u) <= e
    BY <1>1, <1>2, <1>10, <2>1, <2>2
  <2>4. Apart(h, Q)
    <3>1. \A u \in P : EndOf(h, u) <= h[s].start
      BY <1>1, <1>2, <2>2
    <3> QED
      BY <3>1, <1>2, <2>1, <2>2 DEF Apart
  <2>5. ASSUME NEW u \in Q \ {s} PROVE Linked(h, Q, u)
    <3>1. u \in P
      BY <2>1, <2>5
    <3>2. CASE u = prev
      <4>1. h[u].cont = s /\ s \in Q /\ h[s].start = f /\ EndOf(h, u) = EndOf(g, u)
        BY <1>1, <2>1, <2>2, <3>1, <3>2
      <4>2. f # lo
        BY <1>2, <3>1
      <4>3. EndOf(g, u) = f
        BY <4>2, <1>2, <3>2
      <4> QED
        BY <4>1, <4>3 DEF Linked
    <3>3. CASE u # prev
      <4>1. h[u].cont = g[u].cont
        BY <1>1, <2>2, <3>1, <3>3
      <4> QED
        BY <4>1, <1>2, <2>1, <2>2, <3>1, <3>3 DEF Linked
    <3> QED
      BY <3>2, <3>3
  <2>6. w[lo] \in Q
    <3>1. CASE f = lo
      BY <3>1, <1>1, <1>10, <2>1
    <3>2. CASE f # lo
      BY <3>2, <1>1, <1>2, <1>4, <2>1
    <3> QED
      BY <3>1, <3>2
  <2>7. e # lo /\ s \in Q /\ EndOf(h, s) = e
    BY <1>1, <1>4, <1>10, <2>1
  <2> QED
    BY <1>8, <2>3, <2>4, <2>5, <2>6, <2>7 DEF Grown, Growing, P, Q
<1> QED
  BY <1>8, <1>9, <1>10 DEF Grown

\* A chain whose last segment ends in a jump that is no link is complete.
LEMMA GrownIsChained ==
    ASSUME NEW n, NEW h \in [Segs -> SegmentType(n)], NEW m, NEW lo \in Int, NEW f \in Int, NEW s \in Segs,
           f # lo, Growing(m, h, s, lo, f), EndsSuperBlock(TailOf(h[s])), h[s].cont = NULL
    PROVE  /\ Chained(m, h) /\ m[lo] \in Pending(m, h)
           /\ \A u \in Pending(m, h) : lo <= h[u].start
<1> DEFINE P == Pending(m, h)
<1>1. /\ \A u \in P : lo <= h[u].start /\ h[u].len > 0 /\ EndOf(h, u) <= f
      /\ Apart(h, P) /\ \A u \in P \ {s} : Linked(h, P, u)
      /\ s \in P /\ EndOf(h, s) = f /\ m[lo] \in P
  BY DEF Growing
<1>2. \A u \in P : h[u].start \in Int /\ h[u].len \in Int /\ EndOf(h, u) = h[u].start + h[u].len
  BY SegmentFields DEF Pending, EndOf
<1> HIDE DEF P
<1>3. \A u \in P : h[u].start <= h[s].start
  <2> SUFFICES ASSUME NEW u \in P, u # s PROVE h[u].start <= h[s].start
    BY <1>2, <1>1
  <2>1. EndOf(h, u) <= h[s].start \/ EndOf(h, s) <= h[u].start
    BY <1>1 DEF Apart
  <2>2. h[u].start < EndOf(h, u) /\ EndOf(h, u) <= EndOf(h, s)
    BY <1>1, <1>2
  <2> QED
    BY <2>1, <2>2, <1>1, <1>2
<1> QED
  BY <1>1, <1>3 DEF Chained, P

-----------------------------------------------------------------------------
(* CompileOK is inductive. *)

LEMMA InitCompile == Init => CompileOK
BY DEF Init, CompileOK, StartCompile, Idle, NoCall

\* The state of CompileCodeAt() is left alone.
LEMMA KeepsCompile ==
    ASSUME CompileOK, UNCHANGED <<code, cc>>, dels' # <<>> => cc.phase = "expire",
           cc.phase = "split" => UNCHANGED live, cc.phase # "idle" => UNCHANGED bu
    PROVE  CompileOK'
BY SameCode DEF CompileOK

LEMMA StartCompileFields ==
    ASSUME NEW a, NEW by
    PROVE  /\ StartCompile(a, by).phase = "scan" /\ StartCompile(a, by).x = 0 /\ StartCompile(a, by).addr = a
           /\ StartCompile(a, by).start = 0 /\ StartCompile(a, by).prev = NULL
BY DEF StartCompile, Idle

LEMMA AdvanceFields ==
    ASSUME NEW phase, NEW prev, NEW start, NEW x, cc \in CompileType
    PROVE  LET c == Advance(cc, phase, prev, start, x)
           IN  /\ c.phase = phase /\ c.prev = prev /\ c.start = start /\ c.x = x
               /\ c.addr = cc.addr /\ c.n = cc.n /\ c.by = cc.by /\ c.seg = cc.seg
BY DEF Advance, CompileType

\* What one turn of the splitting loop does to the state of CompileCodeAt().
LEMMA SplitAdvances ==
    ASSUME TypeOK, CompileOK, CompileSplit, halted' = "no",
           NEW x \in cc.start .. cc.n - 1, SplitOne(x) \/ SplitTwo(x)
    PROVE  /\ cc'.addr = cc.addr /\ cc'.n = cc.n /\ cc'.prev \in Segs /\ cc'.prev \in live'
           /\ cc'.start = x + 1 /\ cc'.x = x + 1
           /\ cc'.phase = IF EndsSuperBlock(Word(x)) THEN "chosen" ELSE "split"
<1>1. cc \in CompileType
  BY DEF TypeOK
<1>2. CASE SplitOne(x)
  <2>1. PICK s \in Segs, r \in SegmentType(Len(arm)) :
        /\ Adds(mem, heap, live, cc.prev, s, r, mem', heap', live')
        /\ cc' = Advance(cc, IF EndsSuperBlock(Word(x)) THEN "chosen" ELSE "split", s, x + 1, x + 1)
    BY <1>2 DEF SplitOne
  <2>2. s \in live'
    BY <2>1 DEF Adds
  <2> QED
    BY <1>1, <2>1, <2>2, AdvanceFields
<1>3. CASE SplitTwo(x)
  <2>0. PICK s, t \in Segs, p, q \in SegmentType(Len(arm)), mid \in cc.addr + cc.start .. cc.addr + x :
            SplitInto(x, s, t, p, q, mid)
    BY <1>3 DEF SplitTwo
  <2>1. PICK m, h, L :
        /\ Adds(m, h, L, s, t, q, mem', heap', live')
        /\ ~EndsSuperBlock(Word(x))
        /\ cc' = Advance(cc, "split", t, x + 1, x + 1)
    BY <2>0 DEF SplitInto
  <2>2. t \in live'
    BY <2>1 DEF Adds
  <2> QED
    BY <1>1, <2>1, <2>2, AdvanceFields
<1> QED
  BY <1>2, <1>3

LEMMA NextCompile == TypeOK /\ MapSound /\ CompileOK /\ [Next]_vars => CompileOK'
<1> SUFFICES ASSUME TypeOK, MapSound, CompileOK, [Next]_vars PROVE CompileOK'
  OBVIOUS
<1>0. cc \in CompileType
  BY DEF TypeOK
<1>1. CASE CompileScan
  <2>1. PICK n \in 0 .. NWords : IsSuperBlock(cc.addr, n) /\ cc' = [cc EXCEPT !.phase = "expire", !.n = n]
    BY <1>1 DEF CompileScan
  <2>2. /\ cc'.phase = "expire" /\ cc'.n = n /\ cc'.addr = cc.addr /\ cc'.x = cc.x
        /\ cc'.start = cc.start /\ cc'.prev = cc.prev
    BY <1>0, <2>1 DEF CompileType
  <2>3. IsSuperBlock(cc.addr, cc.n)'
    BY <1>1, <2>1, <2>2, SameCode DEF CompileScan
  <2> QED
    BY <1>1, <2>2, <2>3 DEF CompileScan, CompileOK, Compiling
<1>2. CASE CompileExpire
  <2>1. cc.phase = "expire" /\ cc.x \in Int /\ cc.addr \in Int /\ UNCHANGED <<code, bu>>
    BY <1>0, <1>2 DEF CompileExpire, Compiling, CompileType, Addr
  <2> DEFINE t == SegAt(cc.addr + cc.x)
  <2>2. t # NULL => t \in Segs /\ heap[t].len \in Int /\ heap[t].len > 0
    <3>1. ASSUME t # NULL PROVE t \in Segs /\ heap[t].len \in Int /\ heap[t].len > 0
      <4>1. cc.addr + cc.x \in Addr /\ t = mem[cc.addr + cc.x]
        BY <3>1 DEF SegAt
      <4>2. cc.addr + cc.x \in Words(heap[t].start, heap[t].len) /\ t \in live
        BY <4>1, <3>1 DEF MapSound, RangeOf
      <4>3. heap[t].start \in Int /\ heap[t].len \in Int /\ t \in Segs
        BY <4>2, SegmentFields DEF TypeOK
      <4> HIDE DEF t
      <4> QED
        BY <4>2, <4>3, <2>1 DEF Words
    <3> QED
      BY <3>1
  <2>3. PICK k \in Int : k >= 0 /\ cc' = [cc EXCEPT !.x = cc.x + k]
    <3> HIDE DEF t
    <3>1. cc' = [cc EXCEPT !.x = cc.x + 1] \/ (t # NULL /\ cc' = [cc EXCEPT !.x = cc.x + heap[t].len])
      BY <1>2 DEF CompileExpire, t
    <3> QED
      BY <3>1, <2>2
  <2>4. /\ cc'.phase = "expire" /\ cc'.n = cc.n /\ cc'.addr = cc.addr /\ cc'.x = cc.x + k
        /\ cc'.start = cc.start /\ cc'.prev = cc.prev
    BY <1>0, <2>1, <2>3 DEF CompileType
  <2>5. IsSuperBlock(cc.addr, cc.n)'
    BY <2>1, <2>4, SameCode DEF CompileOK
  <2>6. cc'.x >= 0
    BY <2>1, <2>3, <2>4 DEF CompileOK
  <2> QED
    BY <2>1, <2>4, <2>5, <2>6 DEF CompileOK
<1>3. CASE CompileExpired
  <2>1. cc.phase = "expire" /\ dels = <<>> /\ UNCHANGED <<code, bu, dels, live>>
    BY <1>3 DEF CompileExpired, Compiling, cacheVars
  <2> DEFINE next == IF cc.n = 0 THEN "chosen" ELSE "split"
  <2>2. cc' = [cc EXCEPT !.phase = next, !.x = 0]
    BY <1>3 DEF CompileExpired
  <2>3. next \in {"chosen", "split"} /\ (next = "split" => cc.n # 0)
    OBVIOUS
  <2> HIDE DEF next
  <2>4. /\ cc'.phase = next /\ cc'.n = cc.n /\ cc'.addr = cc.addr /\ cc'.x = 0
        /\ cc'.start = 0 /\ cc'.prev = NULL
    BY <1>0, <2>1, <2>2 DEF CompileType, CompileOK
  <2>5. IsSuperBlock(cc.addr, cc.n)'
    BY <2>1, <2>4, SameCode DEF CompileOK
  <2>6. next = "split" => 0 < cc.n
    BY <1>0, <2>3 DEF CompileType
  <2> QED
    BY <2>1, <2>3, <2>4, <2>5, <2>6 DEF CompileOK
<1>4. CASE CompileSplit
  <2>1. cc.phase = "split" /\ dels = <<>> /\ UNCHANGED <<code, bu, dels>>
    BY <1>4 DEF CompileSplit, Compiling
  <2>2. CASE UNCHANGED <<mem, heap, live, cc>>
    BY <2>1, <2>2, KeepsCompile
  <2>3. ASSUME halted' = "no", NEW x \in cc.start .. cc.n - 1, SplitOne(x) \/ SplitTwo(x) PROVE CompileOK'
    <3>1. /\ cc'.addr = cc.addr /\ cc'.n = cc.n /\ cc'.prev \in live'
          /\ cc'.start = x + 1 /\ cc'.x = x + 1
          /\ cc'.phase = IF EndsSuperBlock(Word(x)) THEN "chosen" ELSE "split"
      BY <1>4, <2>3, SplitAdvances
    <3>2. IsSuperBlock(cc.addr, cc.n)'
      BY <2>1, <3>1, SameCode DEF CompileOK
    <3>3. cc.start \in Int /\ 0 <= cc.start /\ cc.n \in Int /\ cc.n # 0 /\ x \in Int /\ cc.start <= x /\ x <= cc.n - 1
      BY <1>0, <2>1 DEF CompileType, CompileOK
    <3>4. EndsSuperBlock(Word(cc.n - 1))
      BY <2>1, <3>3, WordsOfBlock
    <3>5. cc'.phase = "split" => x + 1 < cc.n
      BY <3>1, <3>3, <3>4
    <3>6. 0 < x + 1 /\ 0 <= x + 1
      BY <3>3
    <3> QED
      BY <2>1, <3>1, <3>2, <3>5, <3>6 DEF CompileOK
  <2> QED
    BY <1>4, <2>2, <2>3, SplitCases
<1>5. CASE CompileChosen
  <2>1. cc.phase = "chosen" /\ dels = <<>> /\ UNCHANGED <<code, bu, dels, live>>
    BY <1>5 DEF CompileChosen, Compiling, cacheVars
  <2>2. cc' = [cc EXCEPT !.phase = "translate", !.seg = SegAt(cc.addr)] \/ cc' = Idle
    BY <1>5 DEF CompileChosen
  <2>3. cc'.phase \in {"translate", "idle"} /\ (cc'.phase # "idle" => cc'.addr = cc.addr)
    <3>1. CASE cc' = Idle
      BY <3>1 DEF Idle
    <3>2. CASE cc' = [cc EXCEPT !.phase = "translate", !.seg = SegAt(cc.addr)]
      BY <1>0, <3>2 DEF CompileType
    <3> QED
      BY <2>2, <3>1, <3>2
  <2> QED
    BY <2>1, <2>3 DEF CompileOK
<1>6. CASE CompileTranslate
  <2>1. cc.phase = "translate" /\ dels = <<>> /\ UNCHANGED <<code, bu, dels, live>>
    BY <1>6 DEF CompileTranslate, Compiling
  <2>2. cc' = cc \/ cc' = Idle \/ cc' = [cc EXCEPT !.seg = heap[cc.seg].cont]
    BY <1>6 DEF CompileTranslate
  <2>3. cc'.phase \in {"translate", "idle"} /\ (cc'.phase # "idle" => cc'.addr = cc.addr)
    <3>1. CASE cc' = cc
      BY <2>1, <3>1
    <3>2. CASE cc' = Idle
      BY <3>2 DEF Idle
    <3>3. CASE cc' = [cc EXCEPT !.seg = heap[cc.seg].cont]
      BY <1>0, <2>1, <3>3 DEF CompileType
    <3> QED
      BY <2>2, <3>1, <3>2, <3>3
  <2> QED
    BY <2>1, <2>3 DEF CompileOK
<1>7. CASE Delete
  <2>1. UNCHANGED <<code, cc, bu>> /\ cc.phase = "expire"
    BY <1>7 DEF Delete, DelCaller, DelFinish, CompileOK
  <2> QED
    BY <2>1, KeepsCompile
<1>8. CASE BranchLookup
  <2>1. cc.phase = "idle" /\ dels = <<>> /\ UNCHANGED <<code, dels, live>>
    BY <1>8 DEF BranchLookup, Answering
  <2>2. CASE cc' = cc
    BY <2>1, <2>2, KeepsCompile
  <2>3. CASE cc' # cc
    <3>1. cc' = StartCompile(bu.tgt, "guest") /\ bu' = [bu EXCEPT !.phase = "link"]
      BY <1>8, <2>3 DEF BranchLookup
    <3>2. bu'.phase = "link" /\ bu'.tgt = bu.tgt
      BY <3>1 DEF TypeOK, BranchType
    <3> QED
      BY <2>1, <3>1, <3>2, StartCompileFields DEF CompileOK
  <2> QED
    BY <2>2, <2>3
<1>9. CASE BranchLink
  BY <1>9, KeepsCompile DEF BranchLink, Answering
<1>10. CASE Guest
  BY <1>10, KeepsCompile DEF Guest, GuestBranch, GuestCall, GuestFallThrough, GuestReturn, AtEndOf, Running,
        cacheVars, callVars
<1>11. CASE DebuggerStart
  BY <1>11, KeepsCompile DEF DebuggerStart, Running, cacheVars, callVars
<1>12. CASE DebuggerCompile
  <2>1. dels = <<>> /\ bu.phase = "idle" /\ UNCHANGED <<code, bu, dels, live>>
    BY <1>12 DEF DebuggerCompile, Running, cacheVars
  <2>2. PICK a \in DebugTargets : cc' = StartCompile(a, "debugger")
    BY <1>12 DEF DebuggerCompile
  <2> QED
    BY <2>1, <2>2, StartCompileFields DEF CompileOK
<1>13. CASE UNCHANGED vars
  BY <1>13, KeepsCompile DEF vars, callVars, cacheVars, CompileOK
<1> QED
  BY <1>1, <1>2, <1>3, <1>4, <1>5, <1>6, <1>7, <1>8, <1>9, <1>10, <1>11, <1>12, <1>13
     DEF Next, Recompiler, Compile, Delete, Branch, Debugger

-----------------------------------------------------------------------------
(* What the steps that translate nothing leave alone in the segments.         *)

SameChain(g, h) ==
    \A u \in Segs : /\ h[u].start = g[u].start /\ h[u].len = g[u].len
                    /\ h[u].entry = g[u].entry /\ h[u].cont = g[u].cont

LEMMA DelCallerHeap ==
    ASSUME TypeOK, DelCaller
    PROVE  /\ SameChain(heap, heap')
           /\ \A u \in Segs : heap'[u].callers = heap[u].callers /\ heap'[u].br \in {heap[u].br, NULL}
<1>1. heap \in [Segs -> SegmentType(Len(arm))]
  BY DEF TypeOK
<1>2. PICK c : heap' = heap \/ heap' = [heap EXCEPT ![c].br = NULL]
  BY DEF DelCaller
<1>3. ASSUME NEW u \in Segs
      PROVE  /\ heap'[u].start = heap[u].start /\ heap'[u].len = heap[u].len
             /\ heap'[u].entry = heap[u].entry /\ heap'[u].cont = heap[u].cont
             /\ heap'[u].callers = heap[u].callers /\ heap'[u].br \in {heap[u].br, NULL}
  <2>1. heap[u] \in SegmentType(Len(arm))
    BY <1>1
  <2>2. heap'[u] = heap[u] \/ heap'[u] = [heap[u] EXCEPT !.br = NULL]
    BY <1>1, <1>2
  <2> QED
    BY <2>1, <2>2 DEF SegmentType
<1> QED
  BY <1>3 DEF SameChain

LEMMA DelFrameType ==
    ASSUME TypeOK, dels # <<>>
    PROVE  /\ DelFrame \in DelType /\ DelFrame.seg \in Segs /\ DelFrame.i \in Nat \ {0}
           /\ Front(dels) \in Seq(DelType)
<1>1. DelFrame \in DelType /\ Front(dels) \in Seq(DelType)
  BY LastType DEF TypeOK, DelFrame
<1> QED
  BY <1>1 DEF DelType

LEMMA DelFinishHeap ==
    ASSUME TypeOK, DelFinish
    PROVE  /\ SameChain(heap, heap')
           /\ \A u \in Segs : heap'[u].br = heap[u].br
           /\ \A u \in Segs \ {DelFrame.seg} : heap'[u].callers = heap[u].callers
<1> DEFINE s == DelFrame.seg
<1>1. s \in Segs /\ heap \in [Segs -> SegmentType(Len(arm))] /\ heap' = [heap EXCEPT ![s].callers = <<>>]
  BY DelFrameType DEF DelFinish, TypeOK
<1> HIDE DEF s
<1>2. ASSUME NEW u \in Segs
      PROVE  /\ heap'[u].start = heap[u].start /\ heap'[u].len = heap[u].len
             /\ heap'[u].entry = heap[u].entry /\ heap'[u].cont = heap[u].cont
             /\ heap'[u].br = heap[u].br /\ (u # s => heap'[u].callers = heap[u].callers)
  <2>1. heap[u] \in SegmentType(Len(arm))
    BY <1>1
  <2>2. heap'[u] = IF u = s THEN [heap[u] EXCEPT !.callers = <<>>] ELSE heap[u]
    BY <1>1
  <2> QED
    BY <2>1, <2>2 DEF SegmentType
<1> QED
  BY <1>2 DEF SameChain, s

LEMMA BranchLinkHeap ==
    ASSUME TypeOK, BranchLink
    PROVE  /\ SameChain(heap, heap')
           /\ \A u \in Segs : /\ heap'[u].br = heap[u].br \/ (u = bu.seg /\ heap'[u].br = SegAt(bu.tgt))
                              /\ \/ heap'[u].callers = heap[u].callers
                                 \/ /\ u = SegAt(bu.tgt) /\ bu.kind \in PatchedKinds
                                    /\ heap'[u].callers = Append(heap[u].callers, bu.seg)
<1> DEFINE t      == SegAt(bu.tgt)
           linked == [heap EXCEPT ![bu.seg].br = t]
           called == [linked EXCEPT ![t].callers = Append(linked[t].callers, bu.seg)]
<1>1. heap \in [Segs -> SegmentType(Len(arm))] /\ bu.seg \in Segs /\ t \in SegOrNull
  BY SegAtType DEF TypeOK, BranchLink, Answering
<1>2. heap' = heap \/ heap' = linked \/ (heap' = called /\ bu.kind \in PatchedKinds)
  BY DEF BranchLink
<1>3. linked \in [Segs -> SegmentType(Len(arm))]
  BY <1>1 DEF SegmentType
<1>4. ASSUME NEW u \in Segs
      PROVE  /\ linked[u].start = heap[u].start /\ linked[u].len = heap[u].len
             /\ linked[u].entry = heap[u].entry /\ linked[u].cont = heap[u].cont
             /\ linked[u].callers = heap[u].callers
             /\ linked[u].br = heap[u].br \/ (u = bu.seg /\ linked[u].br = t)
  <2>1. heap[u] \in SegmentType(Len(arm))
    BY <1>1
  <2> HIDE DEF t
  <2>2. linked[u] = IF u = bu.seg THEN [heap[u] EXCEPT !.br = t] ELSE heap[u]
    BY <1>1
  <2> QED
    BY <2>1, <2>2 DEF SegmentType
<1> HIDE DEF t, linked
<1>5. ASSUME NEW u \in Segs
      PROVE  /\ called[u].start = linked[u].start /\ called[u].len = linked[u].len
             /\ called[u].entry = linked[u].entry /\ called[u].cont = linked[u].cont
             /\ called[u].br = linked[u].br
             /\ \/ called[u].callers = linked[u].callers
                \/ u = t /\ called[u].callers = Append(linked[u].callers, bu.seg)
  <2>1. linked[u] \in SegmentType(Len(arm))
    BY <1>3
  <2> DEFINE c == Append(linked[t].callers, bu.seg)
  <2>2. called[u] = IF u = t THEN [linked[u] EXCEPT !.callers = c] ELSE linked[u]
    BY <1>3
  <2>3. u = t => c = Append(linked[u].callers, bu.seg)
    OBVIOUS
  <2> HIDE DEF c
  <2> QED
    BY <2>1, <2>2, <2>3 DEF SegmentType
<1> HIDE DEF called
<1>6. \A u \in Segs :
         /\ heap'[u].start = heap[u].start /\ heap'[u].len = heap[u].len
         /\ heap'[u].entry = heap[u].entry /\ heap'[u].cont = heap[u].cont
         /\ heap'[u].br = heap[u].br \/ (u = bu.seg /\ heap'[u].br = t)
         /\ \/ heap'[u].callers = heap[u].callers
            \/ /\ u = t /\ bu.kind \in PatchedKinds
               /\ heap'[u].callers = Append(heap[u].callers, bu.seg)
  <2>1. CASE heap' = heap \/ heap' = linked
    BY <2>1, <1>4
  <2>2. CASE heap' = called /\ bu.kind \in PatchedKinds
    BY <2>2, <1>4, <1>5, ZenonT(40)
  <2> QED
    BY <1>2, <2>1, <2>2
<1> QED
  BY <1>6 DEF SameChain, t

-----------------------------------------------------------------------------
(* ChainOK and Enclosed are inductive. *)

LEMMA ChainOKNext ==
    ASSUME code' = code
    PROVE  ChainOK' <=> ChainIs(cc', mem', heap')
BY DEF ChainOK, ChainIs, Growing, Chained, Pending, Apart, Linked, EndOf, TailOf, WordAt

LEMMA NothingPending ==
    ASSUME NEW c, NEW m, NEW h, c.phase \in {"idle", "scan", "expire"}, Pending(m, h) = {}
    PROVE  ChainIs(c, m, h)
BY DEF ChainIs

\* Words are unmapped, and no segment loses its code.
LEMMA ClearedPending ==
    ASSUME \A u \in Segs : heap'[u].entry = heap[u].entry,
           \A a \in Addr : mem'[a] = mem[a] \/ mem'[a] = NULL
    PROVE  Pending(mem', heap') \subseteq Pending(mem, heap)
BY ConstantsAssumption DEF Pending

LEMMA ClearedWords ==
    ASSUME NEW m \in [Addr -> SegOrNull], NEW start, NEW len, NEW a \in Addr
    PROVE  SetMem(m, start, len, NULL)[a] = m[a] \/ SetMem(m, start, len, NULL)[a] = NULL
BY DEF SetMem

LEMMA InitChain == Init => ChainOK /\ Enclosed
BY ConstantsAssumption DEF Init, ChainOK, ChainIs, Pending, Enclosed, StartCompile, Idle

LEMMA CompileSplitChain ==
    ASSUME TypeOK, MapSound, CompileOK, ChainOK, CompileSplit
    PROVE  ChainOK'
<1>1. code' = code /\ cc.phase = "split" /\ cc \in CompileType /\ cc.addr \in Addr
  BY DEF CompileSplit, Compiling, TypeOK, CompileType
<1>2. Grown(mem, heap, live, cc.prev, cc.addr, cc.addr + cc.start)
  BY <1>1, SoundIsMapSound DEF ChainOK, ChainIs, Grown
<1>3. CASE UNCHANGED <<mem, heap, live, cc>>
  BY <1>1, <1>3, ChainOKNext DEF ChainOK
<1>4. ASSUME NEW x \in cc.start .. cc.n - 1, halted' = "no", SplitOne(x) \/ SplitTwo(x)
      PROVE  ChainIs(cc', mem', heap')
  <2> DEFINE lo == cc.addr
             f  == cc.addr + cc.start
             e  == cc.addr + x + 1
  <2>1. /\ cc.start \in Int /\ 0 <= cc.start /\ cc.n \in Int /\ cc.n # 0 /\ x \in Int
        /\ cc.start <= x /\ x <= cc.n - 1 /\ cc.addr \in Int
    BY <1>1 DEF CompileType, CompileOK, Addr
  <2>2. cc.addr + cc.n <= NWords /\ NWords \in Int
    BY <1>1, <2>1, WordsOfBlock, ConstantsAssumption
  <2>3. f \in Int /\ e \in Int /\ lo <= f /\ f < e /\ e <= NWords /\ f # e /\ lo # e /\ f <= e
    BY <2>1, <2>2
  <2>4. /\ cc'.addr = cc.addr /\ cc'.n = cc.n /\ cc'.start = x + 1
        /\ cc'.phase = IF EndsSuperBlock(Word(x)) THEN "chosen" ELSE "split"
    BY <1>4, SplitAdvances
  <2>5. CASE SplitOne(x)
    <3>1. PICK s \in Segs, r \in SegmentType(Len(arm)) :
              /\ Cut(r, f, e)
              /\ Adds(mem, heap, live, cc.prev, s, r, mem', heap', live')
              /\ cc' = Advance(cc, IF EndsSuperBlock(Word(x)) THEN "chosen" ELSE "split", s, x + 1, x + 1)
      BY <2>5 DEF SplitOne
    <3>2. Grown(mem', heap', live', s, lo, e)
      <4>1. InBlock(lo, f, e) /\ Grown(mem, heap, live, cc.prev, lo, f)
        BY <1>1, <1>2, <2>3 DEF InBlock
      <4> HIDE DEF lo, f, e
      <4> QED
        BY <3>1, <4>1, GrowStep
    <3>3. cc'.prev = s
      BY <1>1, <3>1, AdvanceFields
    <3>4. CASE EndsSuperBlock(Word(x))
      <4>1. Added(mem, heap, live, cc.prev, s, r, mem', heap', live')
        BY <3>1, AddsChange
      <4>2. /\ heap'[s].cont = NULL /\ heap'[s].start = f /\ heap'[s].len = e - f
            /\ heap' \in [Segs -> SegmentType(Len(arm))]
        BY <3>1, <4>1 DEF Added, Cut
      <4>3. heap'[s].start + heap'[s].len - 1 = cc.addr + x
        BY <4>2, <2>1
      <4>4. EndsSuperBlock(TailOf(heap'[s]))
        BY <3>4, <4>3 DEF TailOf, Word
      <4>5. /\ Chained(mem', heap') /\ mem'[lo] \in Pending(mem', heap')
            /\ \A u \in Pending(mem', heap') : lo <= heap'[u].start
        <5> HIDE DEF e, f
        <5> QED
          BY <2>1, <2>3, <3>2, <4>2, <4>4, GrownIsChained DEF Grown
      <4> QED
        BY <2>1, <2>4, <3>4, <4>5 DEF ChainIs
    <3>5. CASE ~EndsSuperBlock(Word(x))
      <4>1. e = cc'.addr + cc'.start
        BY <2>1, <2>4
      <4> QED
        BY <2>4, <3>2, <3>3, <3>5, <4>1 DEF ChainIs, Grown
    <3> QED
      BY <3>4, <3>5
  <2>6. CASE SplitTwo(x)
    <3>0. PICK s, t \in Segs, p, q \in SegmentType(Len(arm)), mid \in f .. cc.addr + x :
              SplitInto(x, s, t, p, q, mid)
      BY <2>6 DEF SplitTwo
    <3>1. PICK m, h, L :
              /\ Cut(p, f, mid) /\ Cut(q, mid, e)
              /\ Adds(mem, heap, live, cc.prev, s, p, m, h, L)
              /\ Adds(m, h, L, s, t, q, mem', heap', live')
              /\ mid = f => cc.start = 0
              /\ ~EndsSuperBlock(Word(x))
              /\ cc' = Advance(cc, "split", t, x + 1, x + 1)
      BY <3>0 DEF SplitInto
    <3>2. mid \in Int /\ f <= mid /\ mid <= cc.addr + x
      <4> DEFINE b == cc.addr + x
      <4>1. f \in Int /\ b \in Int /\ mid \in f .. b
        BY <2>1, <3>1
      <4> HIDE DEF f, b
      <4>2. mid \in Int /\ f <= mid /\ mid <= b
        BY <4>1
      <4> QED
        BY <4>2 DEF b
    <3>3. f = mid => f = lo
      BY <2>1, <3>1
    <3>4. InBlock(lo, f, mid) /\ InBlock(lo, mid, e)
      <4>1. e = cc.addr + x + 1
        OBVIOUS
      <4> HIDE DEF f, e
      <4> QED
        BY <1>1, <2>1, <2>2, <2>3, <3>2, <3>3, <4>1 DEF InBlock
    <3>5. Grown(mem', heap', live', t, lo, e)
      <4>1. Grown(mem, heap, live, cc.prev, lo, f)
        BY <1>2
      <4> HIDE DEF lo, e, f
      <4>2. Grown(m, h, L, s, lo, mid)
        BY <3>1, <3>4, <4>1, GrowStep
      <4> QED
        BY <3>1, <3>4, <4>2, GrowStep
    <3>6. cc'.prev = t
      BY <1>1, <3>1, AdvanceFields
    <3>7. e = cc'.addr + cc'.start
      BY <2>1, <2>4
    <3> QED
      BY <2>4, <3>1, <3>5, <3>6, <3>7 DEF ChainIs, Grown
  <2> QED
    BY <1>4, <2>5, <2>6
<1> QED
  BY <1>1, <1>3, <1>4, SplitCases, ChainOKNext

\* What Translate() does to the segments.
LEMMA TranslateHeap ==
    ASSUME TypeOK, NEW s \in Segs, Translate(s)
    PROVE  \/ UNCHANGED <<arm, heap>> /\ halted' # "no"
           \/ /\ \E off \in OffsetsOf(s) : arm' = Append(arm, Block(s, off))
              /\ halted' = halted
              /\ heap'[s].entry = Len(arm) + 1
              /\ \A u \in Segs : /\ heap'[u].start = heap[u].start /\ heap'[u].len = heap[u].len
                                 /\ heap'[u].cont = heap[u].cont /\ heap'[u].br = heap[u].br
                                 /\ heap'[u].callers = heap[u].callers
                                 /\ u # s => heap'[u].entry = heap[u].entry
<1>1. heap \in [Segs -> SegmentType(Len(arm))]
  BY DEF TypeOK
<1>2. CASE UNCHANGED <<arm, heap>> /\ halted' \in {"null_instruction", "not_encoded"}
  BY <1>2
<1>3. CASE /\ \E off \in OffsetsOf(s) : arm' = Append(arm, Block(s, off))
           /\ heap' = [heap EXCEPT ![s].entry = Len(arm) + 1]
           /\ UNCHANGED halted
  <2> DEFINE b == Len(arm) + 1
  <2>1. heap' = [heap EXCEPT ![s].entry = b]
    BY <1>3
  <2> HIDE DEF b
  <2>2. ASSUME NEW u \in Segs
        PROVE  /\ heap'[u].start = heap[u].start /\ heap'[u].len = heap[u].len
               /\ heap'[u].cont = heap[u].cont /\ heap'[u].br = heap[u].br
               /\ heap'[u].callers = heap[u].callers
               /\ heap'[u].entry = IF u = s THEN b ELSE heap[u].entry
    <3>1. heap[u] \in SegmentType(Len(arm))
      BY <1>1
    <3>2. heap'[u] = IF u = s THEN [heap[u] EXCEPT !.entry = b] ELSE heap[u]
      BY <1>1, <2>1
    <3> QED
      BY <3>1, <3>2 DEF SegmentType
  <2> QED
    BY <1>3, <2>2 DEF b
<1> QED
  BY <1>2, <1>3, TranslateCases

\* Nothing is pending, and nothing becomes so.
LEMMA QuietChain ==
    ASSUME ChainOK, code' = code, cc.phase \in {"idle", "scan", "expire"}, cc'.phase \in {"idle", "scan", "expire"},
           \A u \in Segs : heap'[u].entry = heap[u].entry,
           \A a \in Addr : mem'[a] = mem[a] \/ mem'[a] = NULL
    PROVE  ChainOK'
<1>1. Pending(mem, heap) = {}
  BY DEF ChainOK, ChainIs
<1>2. Pending(mem', heap') = {}
  BY <1>1, ClearedPending
<1> QED
  BY <1>2, NothingPending, ChainOKNext

\* Of the segments pending, the one translated is the first in memory.
LEMMA CompileTranslateChain ==
    ASSUME TypeOK, MapSound, ChainOK, CompileTranslate
    PROVE  ChainOK'
<1> DEFINE t == cc.seg
           P == Pending(mem, heap)
           Q == Pending(mem', heap')
<1>1. /\ cc \in CompileType /\ cc.phase = "translate" /\ t \in Segs /\ Translate(t)
      /\ code' = code /\ mem' = mem /\ halted = "no"
      /\ cc' = IF halted' # "no" THEN cc
               ELSE IF heap[t].cont = NULL THEN Idle ELSE [cc EXCEPT !.seg = heap[t].cont]
  BY DEF TypeOK, CompileTranslate, Compiling
<1>2. /\ Chained(mem, heap) /\ t \in P /\ \A u \in P : heap[t].start <= heap[u].start
  BY <1>1 DEF ChainOK, ChainIs
<1>3. CASE UNCHANGED <<arm, heap>> /\ halted' # "no"
  BY <1>1, <1>3, ChainOKNext DEF ChainOK
<1>4. ASSUME halted' = halted, heap'[t].entry = Len(arm) + 1,
             \A u \in Segs : /\ heap'[u].start = heap[u].start /\ heap'[u].len = heap[u].len
                             /\ heap'[u].cont = heap[u].cont
                             /\ u # t => heap'[u].entry = heap[u].entry
      PROVE  ChainIs(cc', mem', heap')
  <2>0. Len(arm) \in Nat
    BY LenProperties DEF TypeOK
  <2>1. Q = P \ {t}
    BY <1>1, <1>4, <2>0 DEF Pending
  <2>2. \A u \in P : /\ u \in Segs /\ heap[u].start \in Int /\ heap[u].len \in Int
                     /\ EndOf(heap, u) = heap[u].start + heap[u].len
                     /\ heap'[u].start = heap[u].start /\ EndOf(heap', u) = EndOf(heap, u)
    BY <1>4, SegmentFields DEF TypeOK, Pending, EndOf
  <2>3. /\ \A u \in P : heap[u].len > 0
        /\ Apart(heap, P)
        /\ \A u \in P : \/ Linked(heap, P, u)
                        \/ /\ EndsSuperBlock(TailOf(heap[u])) /\ heap[u].cont = NULL
                           /\ \A w \in P : heap[w].start <= heap[u].start
    BY <1>2 DEF Chained
  <2>4. NULL \notin P
    BY <2>2, ConstantsAssumption
  <2>5. \A u \in P \ {t} : EndOf(heap, t) <= heap[u].start
    <3> HIDE DEF t, P, Q
    <3> SUFFICES ASSUME NEW u \in P \ {t} PROVE EndOf(heap, t) <= heap[u].start
      OBVIOUS
    <3>1. EndOf(heap, u) <= heap[t].start \/ EndOf(heap, t) <= heap[u].start
      BY <1>2, <2>3 DEF Apart
    <3> QED
      BY <3>1, <1>2, <2>2, <2>3
  <2>6. CASE heap[t].cont = NULL
    <3>1. \A w \in P : heap[w].start <= heap[t].start
      BY <1>2, <2>3, <2>4, <2>6 DEF Linked
    <3>2. P \ {t} = {}
      <4> HIDE DEF t, P, Q
      <4> QED
        BY <3>1, <1>2, <2>2, <2>3, <2>5
    <3>3. cc'.phase = "idle"
      BY <1>1, <1>4, <2>6 DEF Idle
    <3> QED
      BY <2>1, <3>2, <3>3, NothingPending
  <2>7. CASE heap[t].cont # NULL
    <3> DEFINE s == heap[t].cont
    <3>1. Linked(heap, P, t) /\ s \in P /\ heap[s].start = EndOf(heap, t)
      BY <1>2, <2>3, <2>7 DEF Linked
    <3>2. cc'.phase = "translate" /\ cc'.seg = s
      BY <1>1, <1>4, <2>7 DEF CompileType
    <3> HIDE DEF s, t, P, Q
    <3>3. s \in Q
      BY <1>2, <2>1, <2>2, <2>3, <3>1
    <3>4. \A u \in Q : heap'[s].start <= heap'[u].start
      BY <2>1, <2>2, <2>5, <3>1
    <3>5. Apart(heap', Q)
      BY <2>1, <2>2, <2>3 DEF Apart
    <3>6. ASSUME NEW u \in Q, Linked(heap, P, u) PROVE Linked(heap', Q, u)
      <4>1. heap[u].cont \in P /\ heap[heap[u].cont].start = EndOf(heap, u)
        BY <3>6 DEF Linked
      <4>2. heap[u].cont # t
        BY <4>1, <1>2, <2>1, <2>2, <2>3
      <4>3. heap'[u].cont = heap[u].cont
        BY <1>4, <2>1, <2>2
      <4> QED
        BY <4>1, <4>2, <4>3, <2>1, <2>2 DEF Linked
    <3>7. ASSUME NEW u \in Q
          PROVE  /\ TailOf(heap'[u]) = TailOf(heap[u]) /\ heap'[u].cont = heap[u].cont
                 /\ heap'[u].len = heap[u].len
      BY <1>4, <2>1, <2>2 DEF TailOf
    <3>8. Chained(mem', heap')
      <4>1. \A u \in Q : heap'[u].len > 0
        BY <2>1, <2>3, <3>7
      <4>2. ASSUME NEW u \in Q
            PROVE  \/ Linked(heap', Q, u)
                   \/ /\ EndsSuperBlock(TailOf(heap'[u])) /\ heap'[u].cont = NULL
                      /\ \A w \in Q : heap'[w].start <= heap'[u].start
        <5>1. CASE Linked(heap, P, u)
          BY <5>1, <3>6
        <5>2. CASE ~Linked(heap, P, u)
          BY <5>2, <2>1, <2>2, <2>3, <3>7
        <5> QED
          BY <5>1, <5>2
      <4> QED
        BY <4>1, <4>2, <3>5 DEF Chained, Q
    <3> QED
      BY <3>2, <3>3, <3>4, <3>8 DEF ChainIs, Q
  <2> QED
    BY <2>6, <2>7
<1> QED
  BY <1>1, <1>3, <1>4, TranslateHeap, ChainOKNext

\* Start addresses of mapped segments do not lie behind the words they map.
LEMMA MappedCovers ==
    ASSUME TypeOK, MapSound, NEW a \in Addr, mem[a] # NULL
    PROVE  /\ mem[a] \in Segs /\ mem[a] \in live
           /\ heap[mem[a]].start <= a /\ a < EndOf(heap, mem[a])
BY DEF TypeOK, MapSound, RangeOf, Words, EndOf

LEMMA CompileChosenChain ==
    ASSUME TypeOK, MapSound, CompileOK, ChainOK, Enclosed, CompileChosen
    PROVE  ChainOK'
<1> DEFINE s == mem[cc.addr]
           P == Pending(mem, heap)
<1>1. /\ cc \in CompileType /\ cc.phase = "chosen" /\ cc.addr \in Addr /\ UNCHANGED <<code, mem, heap>>
      /\ IsSuperBlock(cc.addr, cc.n) /\ SegAt(cc.addr) = s
  BY DEF TypeOK, CompileType, CompileChosen, Compiling, cacheVars, CompileOK, SegAt
<1>2. /\ Chained(mem, heap)
      /\ \A u \in P : cc.addr <= heap[u].start
      /\ IF cc.n = 0 THEN P = {} ELSE s \in P
  BY <1>1 DEF ChainOK, ChainIs
<1>3. s # NULL => cc.n # 0
  BY <1>1 DEF Enclosed
<1>4. CASE s # NULL
  <2>1. s \in P
    BY <1>2, <1>3, <1>4
  <2>2. s \in Segs /\ heap[s].start <= cc.addr
    BY <1>1, <1>4, MappedCovers
  <2>3. \A u \in P : heap[s].start \in Int /\ heap[u].start \in Int /\ cc.addr \in Int
    BY <1>1, <2>2, SegmentFields DEF TypeOK, Pending, Addr
  <2>4. \A u \in P : heap[s].start <= heap[u].start
    <3> HIDE DEF s, P
    <3> QED
      BY <1>2, <2>2, <2>3
  <2>5. cc'.phase = "translate" /\ cc'.seg = s
    BY <1>1, <1>4 DEF CompileChosen, CompileType
  <2> QED
    BY <1>1, <1>2, <2>1, <2>4, <2>5, ChainOKNext DEF ChainIs
<1>5. CASE s = NULL
  <2>1. cc'.phase = "idle"
    BY <1>1, <1>5 DEF CompileChosen, Idle
  <2>2. P = {}
    BY <1>2, <1>5, ConstantsAssumption DEF Pending
  <2> QED
    BY <1>1, <2>1, <2>2, NothingPending, ChainOKNext
<1> QED
  BY <1>4, <1>5

LEMMA CompileExpiredChain ==
    ASSUME TypeOK, CompileOK, ChainOK, CompileExpired
    PROVE  ChainOK'
<1> DEFINE next == IF cc.n = 0 THEN "chosen" ELSE "split"
<1>1. /\ cc \in CompileType /\ cc.phase = "expire" /\ cc.addr \in Int /\ UNCHANGED <<code, mem, heap>>
      /\ cc' = [cc EXCEPT !.phase = next, !.x = 0] /\ cc.start = 0 /\ Pending(mem, heap) = {}
  BY DEF TypeOK, CompileType, CompileExpired, Compiling, cacheVars, CompileOK, Addr, ChainOK, ChainIs
<1>2. (next = "chosen" /\ cc.n = 0) \/ next = "split"
  OBVIOUS
<1> HIDE DEF next
<1>3. cc'.phase = next /\ cc'.addr = cc.addr /\ cc'.n = cc.n /\ cc'.start = 0
  BY <1>1 DEF CompileType
<1>4. cc.addr + 0 = cc.addr
  BY <1>1
<1> QED
  BY <1>1, <1>2, <1>3, <1>4, ChainOKNext DEF ChainIs, Chained, Growing, Apart

\* branchUnknown() translates nothing: what it finds has code.
LEMMA BranchLookupHeap ==
    ASSUME TypeOK, ChainOK, BranchLookup
    PROVE  /\ UNCHANGED <<code, mem, live, dels, heap, arm>> /\ cc.phase = "idle" /\ halted = "no"
           /\ \/ UNCHANGED <<cc, bu>> /\ halted' # "no"
              \/ /\ ~WildCall /\ bu' = [bu EXCEPT !.phase = "link"] /\ halted' = "no"
                 /\ IF SegAt(bu.tgt) = NULL THEN cc' = StartCompile(bu.tgt, "guest") ELSE cc' = cc
<1>1. Pending(mem, heap) = {} /\ cc.phase = "idle" /\ halted = "no"
  BY DEF BranchLookup, Answering, ChainOK, ChainIs
<1>2. SegAt(bu.tgt) # NULL => heap[SegAt(bu.tgt)].entry # 0
  BY <1>1 DEF SegAt, Pending, TypeOK
<1> QED
  BY <1>1, <1>2 DEF BranchLookup

LEMMA NextChain ==
    TypeOK /\ MapSound /\ CompileOK /\ ChainOK /\ Enclosed /\ [Next]_vars => ChainOK'
<1> SUFFICES ASSUME TypeOK, MapSound, CompileOK, ChainOK, Enclosed, [Next]_vars PROVE ChainOK'
  OBVIOUS
<1>1. CASE CompileScan
  <2>1. cc'.phase = "expire"
    BY <1>1 DEF CompileScan, TypeOK, CompileType
  <2> QED
    BY <1>1, <2>1, QuietChain DEF CompileScan, Compiling, cacheVars
<1>2. CASE CompileExpire
  <2>1. cc.phase = "expire" /\ cc'.phase = "expire" /\ UNCHANGED <<code, heap>>
    BY <1>2 DEF CompileExpire, Compiling, TypeOK, CompileType
  <2>2. \A a \in Addr : mem'[a] = mem[a] \/ mem'[a] = NULL
    <3>1. PICK t : mem' = mem \/ mem' = SetMem(mem, heap[t].start, heap[t].len, NULL)
      BY <1>2 DEF CompileExpire
    <3> QED
      BY <3>1, ClearedWords DEF TypeOK
  <2> QED
    BY <2>1, <2>2, QuietChain
<1>3. CASE Delete
  <2>1. cc.phase = "expire" /\ UNCHANGED <<code, cc>>
    BY <1>3 DEF Delete, DelCaller, DelFinish, CompileOK
  <2>2. \A u \in Segs : heap'[u].entry = heap[u].entry
    BY <1>3, DelCallerHeap, DelFinishHeap DEF Delete, SameChain
  <2>3. \A a \in Addr : mem'[a] = mem[a] \/ mem'[a] = NULL
    <3>1. PICK t : mem' = mem \/ mem' = SetMem(mem, heap[t].start, heap[t].len, NULL)
      BY <1>3 DEF Delete, DelCaller, DelFinish
    <3> QED
      BY <3>1, ClearedWords DEF TypeOK
  <2> QED
    BY <2>1, <2>2, <2>3, QuietChain
<1>4. CASE BranchLookup
  <2>1. /\ UNCHANGED <<code, mem, heap>> /\ cc.phase = "idle"
        /\ cc' = cc \/ cc' = StartCompile(bu.tgt, "guest")
    BY <1>4, BranchLookupHeap
  <2> QED
    BY <2>1, StartCompileFields, QuietChain
<1>5. CASE BranchLink
  <2>1. UNCHANGED <<code, mem, cc>> /\ cc.phase = "idle" /\ \A u \in Segs : heap'[u].entry = heap[u].entry
    BY <1>5, BranchLinkHeap DEF BranchLink, Answering, SameChain
  <2> QED
    BY <2>1, QuietChain
<1>6. CASE Guest
  <2>1. UNCHANGED <<code, mem, cc, heap>>
    BY <1>6 DEF Guest, GuestBranch, GuestCall, GuestFallThrough, GuestReturn, cacheVars, callVars
  <2> QED
    BY <2>1, ChainOKNext DEF ChainOK
<1>7. CASE DebuggerStart \/ UNCHANGED vars
  <2>1. UNCHANGED <<code, mem, cc, heap>>
    BY <1>7 DEF DebuggerStart, vars, cacheVars, callVars
  <2> QED
    BY <2>1, ChainOKNext DEF ChainOK
<1>8. CASE DebuggerCompile
  <2>1. cc.phase = "idle" /\ UNCHANGED <<code, mem, heap>> /\ cc'.phase = "scan"
    BY <1>8, StartCompileFields DEF DebuggerCompile, Running, cacheVars
  <2> QED
    BY <2>1, QuietChain
<1> QED
  BY <1>1, <1>2, <1>3, <1>4, <1>5, <1>6, <1>7, <1>8, CompileExpiredChain, CompileSplitChain,
     CompileChosenChain, CompileTranslateChain
     DEF Next, Recompiler, Compile, Delete, Branch, Debugger

\* No word of a super block has only an invalid word behind it.
LEMMA BlockEnclosed ==
    ASSUME NEW a \in Addr, NEW n, IsSuperBlock(a, n), n # 0, NEW w \in Addr, a <= w, w < a + n
    PROVE  ~IsSuperBlock(w, 0)
<1> SUFFICES ASSUME IsSuperBlock(w, 0) PROVE FALSE
  OBVIOUS
<1>1. /\ n \in Nat \ {0} /\ a + n - 1 \in Addr /\ EndsSuperBlock(code[a + n - 1])
      /\ \A v \in a .. a + n - 2 : ~EndsSuperBlock(code[v]) /\ code[v].k # "inv"
  BY SuperBlockShape
<1>2. PICK e \in Addr : /\ e >= w /\ \A v \in w .. e - 1 : ~EndsSuperBlock(code[v])
                        /\ 0 = IF code[e].k = "inv" THEN 0 ELSE e - w + 1
  BY DEF IsSuperBlock
<1>3. a \in Int /\ w \in Int /\ e \in Int /\ NWords \in Int
  BY ConstantsAssumption DEF Addr
<1>4. code[e].k = "inv"
  BY <1>2, <1>3
<1>5. CASE e <= a + n - 2
  <2>1. e \in a .. a + n - 2
    BY <1>1, <1>2, <1>3, <1>5
  <2> QED
    BY <2>1, <1>1, <1>4
<1>6. CASE e = a + n - 1
  BY <1>1, <1>4, <1>6 DEF EndsSuperBlock, IsJump
<1>7. CASE a + n - 1 < e
  <2>1. a + n - 1 \in w .. e - 1
    BY <1>1, <1>2, <1>3, <1>7
  <2> QED
    BY <2>1, <1>1, <1>2
<1> QED
  BY <1>1, <1>3, <1>5, <1>6, <1>7

\* Splitting maps words of the super block, and no others.
LEMMA SplitWords ==
    ASSUME TypeOK, CompileOK, NEW x \in cc.start .. cc.n - 1, cc.phase = "split",
           SplitOne(x) \/ SplitTwo(x), NEW a \in Addr
    PROVE  mem'[a] = mem[a] \/ (cc.addr + cc.start <= a /\ a < cc.addr + x + 1)
<1> DEFINE f == cc.addr + cc.start
           e == cc.addr + x + 1
           b == cc.addr + x
<1>0. f \in Int /\ e \in Int /\ b \in Int /\ a \in Int /\ b < e /\ f < e
  BY SMTT(30) DEF TypeOK, CompileType, Addr
<1>1. CASE SplitOne(x)
  <2>1. PICK s \in Segs, r \in SegmentType(Len(arm)) :
            Cut(r, f, e) /\ Adds(mem, heap, live, cc.prev, s, r, mem', heap', live')
    BY <1>1 DEF SplitOne
  <2> HIDE DEF f, e
  <2>2. r.start = f /\ r.start + r.len = e
    BY <1>0, <2>1 DEF Cut
  <2>3. mem'[a] = IF r.start <= a /\ a < r.start + r.len THEN s ELSE mem[a]
    BY <2>1, AddsChange DEF Added
  <2> QED
    BY <2>2, <2>3 DEF f, e
<1>2. CASE SplitTwo(x)
  <2>0. PICK s, t \in Segs, p, q \in SegmentType(Len(arm)), mid \in f .. b :
            SplitInto(x, s, t, p, q, mid)
    BY <1>2 DEF SplitTwo
  <2>1. PICK m, h, L :
              /\ Cut(p, f, mid) /\ Cut(q, mid, e)
              /\ Adds(mem, heap, live, cc.prev, s, p, m, h, L)
              /\ Adds(m, h, L, s, t, q, mem', heap', live')
    BY <2>0 DEF SplitInto
  <2> HIDE DEF f, e, b
  <2>2. mid \in Int /\ f <= mid /\ mid < e
    BY <1>0, <2>1
  <2>3. p.start = f /\ p.start + p.len = mid /\ q.start = mid /\ q.start + q.len = e
    BY <1>0, <2>1, <2>2 DEF Cut
  <2>4. m[a] = IF p.start <= a /\ a < p.start + p.len THEN s ELSE mem[a]
    BY <2>1, AddsChange DEF Added
  <2>5. mem'[a] = IF q.start <= a /\ a < q.start + q.len THEN t ELSE m[a]
    BY <2>1, AddsChange DEF Added
  <2>6. mem'[a] = mem[a] \/ (f <= a /\ a < e)
    BY <1>0, <2>2, <2>3, <2>4, <2>5
  <2> QED
    BY <2>6 DEF f, e
<1> QED
  BY <1>1, <1>2

\* The words of the map change by unmapping and by splitting only.
LEMMA MapChange ==
    ASSUME TypeOK, [Next]_vars, ~CompileSplit, NEW a \in Addr
    PROVE  mem'[a] = mem[a] \/ mem'[a] = NULL
<1>1. CASE CompileExpire \/ DelFinish
  <2>1. PICK t : mem' = mem \/ mem' = SetMem(mem, heap[t].start, heap[t].len, NULL)
    BY <1>1 DEF CompileExpire, DelFinish
  <2> QED
    BY <2>1, ClearedWords DEF TypeOK
<1>2. CASE ~(CompileExpire \/ DelFinish)
  <2>1. mem' = mem
    BY <1>2 DEF Next, Recompiler, Compile, Delete, Branch, Debugger, CompileScan, CompileExpired, CompileChosen,
       CompileTranslate, DelCaller, BranchLookup, BranchLink, Guest, GuestBranch, GuestCall, GuestFallThrough,
       GuestReturn, DebuggerStart, DebuggerCompile, vars, cacheVars
  <2> QED
    BY <2>1
<1> QED
  BY <1>1, <1>2

\* The program is not written to.
LEMMA CodeStays == [Next]_vars => code' = code
BY DEF Next, Recompiler, Compile, Delete, Branch, Debugger, CompileScan, CompileExpire, CompileExpired,
   CompileSplit, CompileChosen, CompileTranslate, DelCaller, DelFinish, BranchLookup, BranchLink, Guest, GuestBranch,
   GuestCall, GuestFallThrough, GuestReturn, DebuggerStart, DebuggerCompile, vars

LEMMA NextEnclosed == TypeOK /\ CompileOK /\ Enclosed /\ [Next]_vars => Enclosed'
<1> SUFFICES ASSUME TypeOK, CompileOK, Enclosed, [Next]_vars, NEW a \in Addr, mem'[a] # NULL
             PROVE  ~IsSuperBlock(a, 0)'
  BY DEF Enclosed
<1>1. IsSuperBlock(a, 0)' <=> IsSuperBlock(a, 0)
  BY CodeStays DEF IsSuperBlock
<1>2. CASE mem'[a] = mem[a]
  BY <1>1, <1>2 DEF Enclosed
<1>3. CASE mem'[a] # mem[a]
  <2>1. CompileSplit
    BY <1>3, MapChange
  <2>2. PICK x \in cc.start .. cc.n - 1 : SplitOne(x) \/ SplitTwo(x)
    BY <1>3, <2>1, SplitCases
  <2>3. cc.phase = "split" /\ IsSuperBlock(cc.addr, cc.n) /\ cc.addr \in Addr
    BY <2>1 DEF CompileSplit, Compiling, CompileOK, TypeOK, CompileType
  <2>4. cc.addr + cc.start <= a /\ a < cc.addr + x + 1
    BY <1>3, <2>2, <2>3, SplitWords
  <2>5. /\ cc.start \in Int /\ 0 <= cc.start /\ cc.n \in Int /\ cc.n # 0 /\ x \in Int
        /\ cc.start <= x /\ x <= cc.n - 1 /\ cc.addr \in Int /\ a \in Int
    BY <2>3 DEF TypeOK, CompileType, CompileOK, Addr
  <2>6. cc.addr <= a /\ a < cc.addr + cc.n
    BY <2>4, <2>5
  <2> QED
    BY <1>1, <2>3, <2>5, <2>6, BlockEnclosed
<1> QED
  BY <1>2, <1>3

-----------------------------------------------------------------------------
(* The blocks of a chain lie behind one another. *)

SameBlock(p, q) == q.owner = p.owner /\ q.start = p.start /\ q.len = p.len

\* Outside Translate(), blocks keep their MIPS range; branchUnknown() links one.
LEMMA BlocksChange ==
    ASSUME TypeOK, ChainOK, [Next]_vars, ~CompileTranslate
    PROVE  /\ DOMAIN arm' = DOMAIN arm /\ Len(arm') = Len(arm)
           /\ \A b \in DOMAIN arm :
                 /\ SameBlock(arm[b], arm'[b])
                 /\ \/ arm'[b].link = arm[b].link
                    \/ /\ BranchLink /\ b = bu.blk /\ bu.kind \in PatchedKinds
                       /\ SegAt(bu.tgt) # NULL /\ arm'[b].link = heap[SegAt(bu.tgt)].entry
<1> USE DEF SameBlock
<1>1. Len(arm) \in Nat /\ DOMAIN arm = 1 .. Len(arm) /\ \A b \in DOMAIN arm : arm[b] \in BlockType(Len(arm))
  BY LenProperties, ElementOfSeq DEF TypeOK
<1>2. CASE arm' = arm
  BY <1>2
<1>3. CASE DelFinish
  <2>1. PICK S : arm' = InvalidateAll(S)
    BY <1>3 DEF DelFinish
  <2>2. DOMAIN arm' = DOMAIN arm /\ Len(arm') = Len(arm)
    BY <2>1, <1>1, InvalidateAllType, LenProperties DEF TypeOK
  <2>3. ASSUME NEW b \in DOMAIN arm
        PROVE  SameBlock(arm[b], arm'[b]) /\ arm'[b].link = arm[b].link
    <3>1. arm'[b] = arm[b] \/ arm'[b] = [arm[b] EXCEPT !.tail = TRUE]
      BY <2>1 DEF InvalidateAll
    <3> QED
      BY <3>1, <1>1 DEF BlockType
  <2> QED
    BY <2>2, <2>3
<1>4. CASE BranchLink /\ arm' # arm
  <2> DEFINE e == heap[SegAt(bu.tgt)].entry
  <2>1. arm' = [arm EXCEPT ![bu.blk].link = e] /\ bu.kind \in PatchedKinds /\ SegAt(bu.tgt) # NULL
    BY <1>4 DEF BranchLink
  <2> HIDE DEF e
  <2>2. ASSUME NEW b \in DOMAIN arm
        PROVE  SameBlock(arm[b], arm'[b]) /\ (arm'[b].link = arm[b].link \/ (b = bu.blk /\ arm'[b].link = e))
    <3>1. arm[b] \in BlockType(Len(arm))
      BY <1>1
    <3>2. arm'[b] = IF b = bu.blk THEN [arm[b] EXCEPT !.link = e] ELSE arm[b]
      BY <2>1
    <3> QED
      BY <3>1, <3>2 DEF BlockType
  <2>3. DOMAIN arm' = DOMAIN arm
    BY <2>1
  <2>4. Len(arm') = Len(arm)
    <3>1. arm' \in Seq(BlockType(Len(arm')))
      BY NextType DEF TypeOK
    <3>2. DOMAIN arm' = 1 .. Len(arm') /\ Len(arm') \in Nat
      BY <3>1, LenProperties
    <3> DEFINE m == Len(arm')
               n == Len(arm)
    <3>3. 1 .. m = 1 .. n /\ m \in Nat /\ n \in Nat
      BY <2>3, <3>2, <1>1
    <3> HIDE DEF m, n
    <3>4. ~(m < n) /\ ~(n < m)
      <4>1. m < n => n \in 1 .. n /\ n \notin 1 .. m
        BY <3>3
      <4>2. n < m => m \in 1 .. m /\ m \notin 1 .. n
        BY <3>3
      <4> QED
        BY <3>3, <4>1, <4>2
    <3> QED
      BY <3>3, <3>4 DEF m, n
  <2> QED
    BY <1>4, <2>1, <2>2, <2>3, <2>4 DEF e
<1>5. ASSUME ~DelFinish, ~BranchLink PROVE arm' = arm
  <2>1. CASE BranchLookup
    BY <2>1, BranchLookupHeap
  <2> QED
    BY <1>5, <2>1 DEF Next, Recompiler, Compile, Delete, Branch, Debugger, CompileScan, CompileExpire,
       CompileExpired, CompileSplit, CompileChosen, DelCaller, Guest, GuestBranch,
       GuestCall, GuestFallThrough, GuestReturn, DebuggerStart, DebuggerCompile, vars, cacheVars
<1> QED
  BY <1>2, <1>3, <1>4, <1>5

\* The chain being translated starts where the last block ends, if that one can
\* be left at its end.
FallsOn ==
    \A b \in DOMAIN arm :
        Terminator(b).k \in BranchKinds \cup {"op", "jal", "jalr"} =>
            IF b < Len(arm) THEN arm[b + 1].start = arm[b].start + arm[b].len
            ELSE cc.phase = "translate" /\ heap[cc.seg].start = arm[b].start + arm[b].len

LEMMA UnchangedFallsOn ==
    ASSUME FallsOn, code' = code, DOMAIN arm' = DOMAIN arm, Len(arm') = Len(arm), Len(arm) \in Nat,
           DOMAIN arm = 1 .. Len(arm),
           \A b \in DOMAIN arm : SameBlock(arm[b], arm'[b]),
           cc.phase = "translate" => cc'.phase = "translate" /\ heap'[cc'.seg].start = heap[cc.seg].start
    PROVE  FallsOn'
<1>1. ASSUME NEW b \in DOMAIN arm, Terminator(b)'.k \in BranchKinds \cup {"op", "jal", "jalr"}
      PROVE  IF b < Len(arm) THEN arm'[b + 1].start = arm'[b].start + arm'[b].len
             ELSE cc'.phase = "translate" /\ heap'[cc'.seg].start = arm'[b].start + arm'[b].len
  <2>1. arm'[b].start = arm[b].start /\ arm'[b].len = arm[b].len
    BY DEF SameBlock
  <2>2. Terminator(b).k \in BranchKinds \cup {"op", "jal", "jalr"}
    BY <1>1, <2>1 DEF Terminator, WordAt
  <2>3. b < Len(arm) => b + 1 \in DOMAIN arm
    OBVIOUS
  <2> QED
    BY <2>1, <2>2, <2>3 DEF FallsOn, SameBlock
<1> QED
  BY <1>1 DEF FallsOn

LEMMA CompileTranslateFalls ==
    ASSUME TypeOK, ChainOK, FallsOn, CompileTranslate
    PROVE  FallsOn'
<1> DEFINE t == cc.seg
           n == Len(arm)
<1>1. /\ cc \in CompileType /\ cc.phase = "translate" /\ t \in Segs /\ Translate(t)
      /\ code' = code /\ halted = "no" /\ n \in Nat /\ DOMAIN arm = 1 .. n
      /\ cc' = IF halted' # "no" THEN cc
               ELSE IF heap[t].cont = NULL THEN Idle ELSE [cc EXCEPT !.seg = heap[t].cont]
  BY LenProperties DEF TypeOK, CompileTranslate, Compiling
<1>2. CASE UNCHANGED <<arm, heap>> /\ halted' # "no"
  BY <1>1, <1>2, UnchangedFallsOn DEF SameBlock
<1>3. ASSUME halted' = "no", NEW off, arm' = Append(arm, Block(t, off)),
             \A u \in Segs : heap'[u].start = heap[u].start
      PROVE  FallsOn'
  <2>1. /\ Len(arm') = n + 1 /\ DOMAIN arm' = 1 .. n + 1
        /\ \A b \in 1 .. n : arm'[b] = arm[b]
        /\ arm'[n + 1].start = heap[t].start /\ arm'[n + 1].len = heap[t].len
    BY <1>1, <1>3, AppendProperties, LenProperties DEF TypeOK, Block
  <2>2. \A a : WordAt(a)' = WordAt(a)
    BY <1>1, SameCode
  <2>3. \A b \in 1 .. n : Terminator(b)' = Terminator(b)
    BY <2>1, <2>2 DEF Terminator
  <2>4. \A b : b = n + 1 => Terminator(b)' = TailOf(heap[t])
    BY <2>1, <2>2 DEF Terminator, TailOf
  <2>5. ASSUME NEW b \in 1 .. n, Terminator(b)'.k \in BranchKinds \cup {"op", "jal", "jalr"}
        PROVE  arm'[b + 1].start = arm'[b].start + arm'[b].len
    <3>1. IF b < n THEN arm[b + 1].start = arm[b].start + arm[b].len
          ELSE heap[t].start = arm[b].start + arm[b].len
      BY <1>1, <2>3, <2>5 DEF FallsOn
    <3>2. b < n => b + 1 \in 1 .. n
      BY <1>1
    <3>3. b >= n => b = n
      BY <1>1
    <3> HIDE DEF n, t
    <3> QED
      BY <2>1, <3>1, <3>2, <3>3, <1>1
  <2>6. ASSUME NEW b, b = n + 1, Terminator(b)'.k \in BranchKinds \cup {"op", "jal", "jalr"}
        PROVE  cc'.phase = "translate" /\ heap'[cc'.seg].start = arm'[b].start + arm'[b].len
    <3>1. ~EndsSuperBlock(TailOf(heap[t]))
      BY <2>4, <2>6 DEF EndsSuperBlock, IsJump, IsLink, BranchKinds
    <3>2. Linked(heap, Pending(mem, heap), t)
      BY <1>1, <3>1 DEF ChainOK, ChainIs, Chained
    <3>3. heap[t].cont \in Segs /\ heap[heap[t].cont].start = heap[t].start + heap[t].len
      BY <3>2 DEF Linked, Pending, EndOf
    <3>4. cc' = [cc EXCEPT !.seg = heap[t].cont]
      BY <1>1, <1>3, <3>3, ConstantsAssumption
    <3>5. cc'.phase = "translate" /\ cc'.seg = heap[t].cont
      BY <3>4, <1>1 DEF CompileType
    <3> QED
      BY <3>3, <3>5, <1>3, <2>1, <2>6
  <2> HIDE DEF n, t
  <2>7. ASSUME NEW b \in DOMAIN arm', Terminator(b)'.k \in BranchKinds \cup {"op", "jal", "jalr"}
        PROVE  IF b < Len(arm') THEN arm'[b + 1].start = arm'[b].start + arm'[b].len
               ELSE cc'.phase = "translate" /\ heap'[cc'.seg].start = arm'[b].start + arm'[b].len
    <3>1. CASE b \in 1 .. n
      BY <3>1, <2>1, <2>5, <2>7, <1>1
    <3>2. CASE b = n + 1
      <4>1. ~(b < Len(arm'))
        BY <3>2, <2>1, <1>1
      <4> QED
        BY <3>2, <4>1, <2>6, <2>7
    <3> QED
      BY <3>1, <3>2, <2>1, <1>1
  <2> QED
    BY <2>7 DEF FallsOn
<1> QED
  BY <1>1, <1>2, <1>3, TranslateHeap

LEMMA NextFalls == TypeOK /\ CompileOK /\ ChainOK /\ FallsOn /\ [Next]_vars => FallsOn'
<1> SUFFICES ASSUME TypeOK, CompileOK, ChainOK, FallsOn, [Next]_vars, ~CompileTranslate PROVE FallsOn'
  BY CompileTranslateFalls
<1>1. Len(arm) \in Nat /\ DOMAIN arm = 1 .. Len(arm)
  BY LenProperties DEF TypeOK
<1>2. ASSUME cc.phase = "translate" PROVE UNCHANGED <<cc, heap>>
  <2>1. ~Delete
    BY <1>2 DEF CompileOK, Delete, DelCaller, DelFinish
  <2>2. ~Compile
    BY <1>2 DEF Compile, CompileScan, CompileExpire, CompileExpired, CompileSplit, CompileChosen, Compiling
  <2>3. ~Branch
    BY <1>2 DEF Branch, BranchLookup, BranchLink, Answering
  <2>4. ~Guest /\ ~Debugger
    BY <1>2 DEF Guest, GuestBranch, GuestCall, GuestFallThrough, GuestReturn, AtEndOf, Running,
       Debugger, DebuggerStart, DebuggerCompile
  <2> QED
    BY <2>1, <2>2, <2>3, <2>4 DEF Next, Recompiler, vars, cacheVars, callVars
<1> QED
  BY <1>1, <1>2, BlocksChange, CodeStays, UnchangedFallsOn

-----------------------------------------------------------------------------
(* The theorems. *)

ChainInv == TypeOK /\ MapSound /\ CompileOK /\ ChainOK /\ Enclosed /\ FallsOn

LEMMA ChainInvariant == Spec => []ChainInv
<1>1. Init => ChainInv
  <2>1. ASSUME Init PROVE FallsOn
    BY <2>1 DEF Init, FallsOn
  <2> QED
    BY <2>1, InitType, InitSound, InitCompile, InitChain DEF ChainInv
<1>2. ChainInv /\ [Next]_vars => ChainInv'
  BY NextType, NextSound, NextCompile, NextChain, NextEnclosed, NextFalls DEF ChainInv
<1> QED
  BY <1>1, <1>2, PTL DEF Spec

\* When the guest runs, every segment the map holds has been translated:
\* branchUnknown() never finds one without an ARMEntryPoint, which it would
\* translate alone and out of the order of its chain.
THEOREM MappedAreTranslated == Spec => []MappedTranslated
<1>1. ChainInv => MappedTranslated
  BY DEF ChainInv, MappedTranslated, ChainOK, ChainIs, Pending, Running, TypeOK
<1> QED
  BY <1>1, ChainInvariant, PTL

\* Code that runs on past its end runs into the code of the next MIPS word,
\* which nothing but the order of the calls to Translate() sees to.
THEOREM CodeFallsOn == Spec => []FallsIntoContinuation
<1>1. ASSUME ChainInv PROVE FallsIntoContinuation
  BY <1>1 DEF ChainInv, FallsIntoContinuation, FallsOn
<1> QED
  BY <1>1, ChainInvariant, PTL
=============================================================================
