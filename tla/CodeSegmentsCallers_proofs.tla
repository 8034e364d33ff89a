-------------------- MODULE CodeSegmentsCallers_proofs --------------------
(* Proofs about the address map and about what refers to a segment.  As long *)
(* as only the guest's branches ask for code, no segment is lost and the map *)
(* is a table of disjoint intervals.  Where the branches in the emitted code *)
(* go, whether Translate_Branch or branchUnknown() has linked them; and that *)
(* pContinueNext never dangles: a segment that is deleted takes along those  *)
(* that continue to it, because its caller list names them.                  *)
EXTENDS CodeSegmentsChain_proofs

USE DEF SegOrNull

-----------------------------------------------------------------------------
(* The nested calls of delSegment(). *)

LEMMA FrontParts ==
    ASSUME NEW S, NEW q \in Seq(S), q # <<>>
    PROVE  /\ Len(q) \in Nat \ {0} /\ DOMAIN q = 1 .. Len(q) /\ Last(q) = q[Len(q)]
           /\ Front(q) \in Seq(S) /\ Len(Front(q)) = Len(q) - 1 /\ DOMAIN Front(q) = 1 .. Len(q) - 1
           /\ \A i \in 1 .. Len(q) - 1 : Front(q)[i] = q[i]
<1>1. Len(q) \in Nat \ {0} /\ DOMAIN q = 1 .. Len(q)
  BY EmptySeq, LenProperties
<1>2. Front(q) \in Seq(S)
  BY LastType
<1>3. /\ Len(SubSeq(q, 1, Len(q) - 1)) = Len(q) - 1
      /\ \A i \in 1 .. Len(q) - 1 : SubSeq(q, 1, Len(q) - 1)[i] = q[1 + i - 1]
  <2>1. \A k \in 1 .. Len(q) - 1 : q[k] \in S
    BY <1>1, ElementOfSeq
  <2> QED
    BY <1>1, <2>1, SubSeqProperties
<1>4. \A i \in 1 .. Len(q) - 1 : 1 + i - 1 = i
  BY <1>1
<1>5. Len(Front(q)) = Len(q) - 1 /\ \A i \in 1 .. Len(q) - 1 : Front(q)[i] = q[i]
  BY <1>3, <1>4 DEF Front
<1> QED
  BY <1>1, <1>2, <1>5, LenProperties DEF Last

\* The segments a call works on: its own, and the callers of it.
LEMMA DelFrames ==
    ASSUME TypeOK, dels # <<>>
    PROVE  /\ Len(dels) \in Nat \ {0} /\ DOMAIN dels = 1 .. Len(dels) /\ DelFrame = dels[Len(dels)]
           /\ Front(dels) \in Seq(DelType) /\ DOMAIN Front(dels) = 1 .. Len(dels) - 1
           /\ \A i \in 1 .. Len(dels) - 1 : Front(dels)[i] = dels[i]
           /\ Deleting = {Front(dels)[i].seg : i \in DOMAIN Front(dels)} \cup {DelFrame.seg}
<1> DEFINE n == Len(dels)
           q == Front(dels)
<1>1. /\ n \in Nat \ {0} /\ DOMAIN dels = 1 .. n /\ DelFrame = dels[n]
      /\ q \in Seq(DelType) /\ DOMAIN q = 1 .. n - 1
      /\ \A i \in 1 .. n - 1 : q[i] = dels[i]
  BY FrontParts DEF TypeOK, DelFrame
<1>2. Deleting = {q[i].seg : i \in DOMAIN q} \cup {DelFrame.seg}
  <2> HIDE DEF n, q
  <2>1. 1 .. n = (1 .. n - 1) \cup {n}
    BY <1>1
  <2> QED
    BY <1>1, <2>1 DEF Deleting
<1> QED
  BY <1>1, <1>2

LEMMA DelCallerFrames ==
    ASSUME TypeOK, DelCaller
    PROVE  LET s == DelFrame.seg
               i == DelFrame.i
               c == heap[s].callers[i]
               n == Len(dels)
           IN  /\ s \in Segs /\ i \in Nat \ {0} /\ i <= Len(heap[s].callers) /\ c \in Segs
               /\ heap[s].callers \in Seq(Segs)
               /\ n \in Nat \ {0} /\ DOMAIN dels = 1 .. n /\ dels[n] = DelFrame
               /\ \A k \in 1 .. n - 1 : dels'[k] = dels[k]
               /\ dels'[n].seg = s /\ dels'[n].i = i + 1
               /\ \/ DOMAIN dels' = 1 .. n /\ ~(heap[c].br # s /\ heap[c].cont = s)
                  \/ /\ heap[c].br # s /\ heap[c].cont = s /\ heap' = heap
                     /\ DOMAIN dels' = 1 .. n + 1 /\ dels'[n + 1].seg = c /\ dels'[n + 1].i = 1
<1> DEFINE s == DelFrame.seg
           i == DelFrame.i
           c == heap[s].callers[i]
           n == Len(dels)
           f == [DelFrame EXCEPT !.i = i + 1]
           outer == Append(Front(dels), f)
<1>1. dels # <<>> /\ i <= Len(heap[s].callers)
  BY DEF DelCaller
<1>2. /\ s \in Segs /\ i \in Nat \ {0} /\ DelFrame \in DelType /\ heap[s].callers \in Seq(Segs)
      /\ n \in Nat \ {0} /\ DOMAIN dels = 1 .. n /\ dels[n] = DelFrame
      /\ Front(dels) \in Seq(DelType) /\ DOMAIN Front(dels) = 1 .. n - 1
      /\ \A k \in 1 .. n - 1 : Front(dels)[k] = dels[k]
  BY <1>1, DelFrameType, DelFrames DEF TypeOK, SegmentType
<1>3. c \in Segs
  BY <1>1, <1>2, ElementOfSeq
<1>4. Len(Front(dels)) = n - 1
  BY <1>1, FrontParts DEF TypeOK
<1>5. f \in DelType /\ f.seg = s /\ f.i = i + 1
  BY <1>2 DEF DelType
<1> HIDE DEF f
<1>6. /\ outer \in Seq(DelType) /\ Len(outer) = n /\ DOMAIN outer = 1 .. n
      /\ \A k \in 1 .. n - 1 : outer[k] = dels[k]
      /\ outer[n] = f
  <2>1. n - 1 + 1 = n
    BY <1>2
  <2>2. /\ outer \in Seq(DelType) /\ Len(outer) = n /\ outer[n] = f
        /\ \A k \in 1 .. n - 1 : outer[k] = Front(dels)[k]
    <3> HIDE DEF n, s, i
    <3> QED
      BY <1>2, <1>4, <1>5, <2>1, AppendProperties DEF outer
  <2> QED
    BY <1>2, <2>2, LenProperties
<1> HIDE DEF outer
<1>7. CASE dels' = outer /\ ~(heap[c].br # s /\ heap[c].cont = s)
  BY <1>1, <1>2, <1>3, <1>5, <1>6, <1>7
<1>8. CASE dels' = Append(outer, [seg |-> c, i |-> 1]) /\ heap[c].br # s /\ heap[c].cont = s /\ heap' = heap
  <2> DEFINE e == [seg |-> c, i |-> 1]
  <2>1. e \in DelType /\ e.seg = c /\ e.i = 1
    BY <1>3 DEF DelType
  <2>2. dels' = Append(outer, e)
    BY <1>8
  <2> HIDE DEF e
  <2>3. /\ dels' \in Seq(DelType) /\ Len(dels') = n + 1 /\ dels'[n + 1] = e
        /\ \A k \in 1 .. n : dels'[k] = outer[k]
    <3> HIDE DEF n, s, i, c
    <3> QED
      BY <2>1, <2>2, <1>6, AppendProperties
  <2>4. DOMAIN dels' = 1 .. n + 1
    BY <2>3, LenProperties
  <2>5. \A k \in 1 .. n - 1 : k \in 1 .. n
    BY <1>2
  <2>6. n \in 1 .. n
    BY <1>2
  <2>7. (\A k \in 1 .. n - 1 : dels'[k] = dels[k]) /\ dels'[n] = f
    BY <1>6, <2>3, <2>5, <2>6
  <2> QED
    BY <1>1, <1>2, <1>3, <1>5, <1>8, <2>1, <2>3, <2>4, <2>7
<1>9. \/ dels' = outer /\ ~(heap[c].br # s /\ heap[c].cont = s)
      \/ dels' = Append(outer, [seg |-> c, i |-> 1]) /\ heap[c].br # s /\ heap[c].cont = s /\ heap' = heap
  BY DEF DelCaller, outer, f
<1> QED
  BY <1>7, <1>8, <1>9

-----------------------------------------------------------------------------
(* The strengthened invariant. *)

\* The words of every live segment lie in memory.
InMemory(h, L) == \A s \in L : 0 <= h[s].start /\ 0 <= h[s].len /\ EndOf(h, s) <= NWords

Covers(h, s, a) == h[s].start <= a /\ a < EndOf(h, s)

Mapping(m, h, S) == \A s \in S : \A a \in Addr : Covers(h, s, a) => m[a] = s

NoOverlap(h, L) == \A s, u \in L : s # u => \A a \in Addr : ~(Covers(h, s, a) /\ Covers(h, u, a))

\* The words of the super block that CompileCodeAt() has dealt with are free
\* for the segments it will allocate.
Cleared(c, m) ==
    /\ c.phase \in {"scan", "expire"} => m[c.addr] = NULL
    /\ c.phase = "expire" => \A a \in Addr : c.addr <= a /\ a < c.addr + c.x => m[a] = NULL
    /\ c.phase = "split" => \A a \in Addr : c.addr + c.start <= a /\ a < c.addr + c.n => m[a] = NULL

MapFull == /\ InMemory(heap, live) /\ Mapping(mem, heap, live \ Deleting)
           /\ NoOverlap(heap, live) /\ Cleared(cc, mem)

MapInv == halted = "no" => MapFull

LEMMA MappingIsMapComplete ==
    MapComplete <=> (halted = "no" => Mapping(mem, heap, live \ Deleting))
BY DEF MapComplete, Mapping, Covers, RangeOf, Words, EndOf

LEMMA MapFullNext ==
    MapFull' <=> /\ InMemory(heap', live') /\ Mapping(mem', heap', live' \ Deleting')
                 /\ NoOverlap(heap', live') /\ Cleared(cc', mem')
BY DEF MapFull, InMemory, Mapping, NoOverlap, Covers, Cleared, EndOf

\* Nothing changes but the segments being deleted and CompileCodeAt().
LEMMA UnchangedMap ==
    ASSUME TypeOK, MapFull, mem' = mem, live' = live, SameRanges(heap, heap', Segs),
           Deleting \subseteq Deleting', Cleared(cc', mem)
    PROVE  MapFull'
<1>1. live \subseteq Segs /\ \A u \in live : heap'[u].start = heap[u].start /\ EndOf(heap', u) = EndOf(heap, u)
                                               /\ heap'[u].len = heap[u].len
  BY DEF TypeOK, SameRanges, EndOf
<1>2. InMemory(heap', live)
  BY <1>1 DEF MapFull, InMemory
<1>3. \A s \in live : \A a : Covers(heap', s, a) <=> Covers(heap, s, a)
  BY <1>1 DEF Covers
<1> QED
  BY <1>2, <1>3, MapFullNext DEF MapFull, Mapping, NoOverlap

\* Adding a segment at words that no segment covers.
Full(m, h, L) == Sound(m, h, L) /\ InMemory(h, L) /\ Mapping(m, h, L)

Free(m, lo, hi) == /\ lo \in Int /\ hi \in Int /\ 0 <= lo /\ lo <= hi /\ hi <= NWords
                   /\ \A a \in Addr : lo <= a /\ a < hi => m[a] = NULL

LEMMA FullStep ==
    ASSUME NEW m, NEW g, NEW L, NEW prev, NEW s, NEW r, NEW w, NEW h, NEW K, NEW lo, NEW hi,
           Full(m, g, L), Free(m, lo, hi), Cut(r, lo, hi), Adds(m, g, L, prev, s, r, w, h, K)
    PROVE  /\ Full(w, h, K) /\ \A a \in Addr : w[a] = IF lo <= a /\ a < hi THEN s ELSE m[a]
<1>1. /\ m \in [Addr -> SegOrNull] /\ L \in SUBSET Segs
  BY DEF Adds
<1>2. lo \in Int /\ hi \in Int /\ r.start = lo /\ r.len = hi - lo /\ lo + (hi - lo) = hi
  BY DEF Cut, Free
<1>3. /\ s \in Segs /\ s \notin L /\ K = L \cup {s}
      /\ \A a \in Addr : w[a] = IF lo <= a /\ a < hi THEN s ELSE m[a]
      /\ h[s].start = lo /\ h[s].len = hi - lo /\ EndOf(h, s) = hi
      /\ \A u \in L : h[u].start = g[u].start /\ h[u].len = g[u].len /\ EndOf(h, u) = EndOf(g, u)
  BY <1>1, <1>2, AddsChange DEF Added, EndOf
<1>4. s # NULL /\ NULL \notin L
  BY <1>1, <1>3, ConstantsAssumption
<1>5. InMemory(h, K)
  <2>1. 0 <= lo /\ hi <= NWords /\ 0 <= hi - lo
    BY DEF Free
  <2> QED
    BY <2>1, <1>3 DEF Full, InMemory
<1>6. Mapping(w, h, K)
  <2>1. ASSUME NEW u \in L, NEW a \in Addr, Covers(h, u, a) PROVE w[a] = u
    <3>1. m[a] = u
      BY <2>1, <1>3 DEF Full, Mapping, Covers
    <3>2. ~(lo <= a /\ a < hi)
      BY <3>1, <1>4 DEF Free
    <3> QED
      BY <3>1, <3>2, <1>3
  <2>2. ASSUME NEW a \in Addr, Covers(h, s, a) PROVE w[a] = s
    BY <2>2, <1>3 DEF Covers
  <2> QED
    BY <2>1, <2>2, <1>3 DEF Mapping
<1>7. Sound(w, h, K)
  <2>1. ASSUME NEW a \in Addr, w[a] # NULL
        PROVE  w[a] \in K /\ a \in Words(h[w[a]].start, h[w[a]].len)
    <3>1. CASE lo <= a /\ a < hi
      BY <3>1, <1>2, <1>3 DEF Words
    <3>2. CASE ~(lo <= a /\ a < hi)
      BY <2>1, <3>2, <1>3 DEF Full, Sound
    <3> QED
      BY <3>1, <3>2
  <2> QED
    BY <2>1 DEF Sound
<1> QED
  BY <1>3, <1>5, <1>6, <1>7 DEF Full

LEMMA CompileSplitMap ==
    ASSUME TypeOK, MapSound, CompileOK, MapFull, CompileSplit, halted' = "no"
    PROVE  MapFull'
<1>1. /\ cc.phase = "split" /\ dels = <<>> /\ dels' = dels /\ cc \in CompileType /\ cc.addr \in Addr /\ halted = "no"
  BY DEF CompileSplit, Compiling, TypeOK, CompileType
<1>2. Deleting = {} /\ Deleting' = {}
  BY <1>1 DEF Deleting
<1>3. Full(mem, heap, live)
  <2>1. live \ {} = live
    OBVIOUS
  <2> QED
    BY <1>2, <2>1, SoundIsMapSound DEF Full, MapFull
<1>4. PICK x \in cc.start .. cc.n - 1 : SplitOne(x) \/ SplitTwo(x)
  BY SplitCases
<1>5. /\ cc.start \in Int /\ 0 <= cc.start /\ cc.n \in Int /\ cc.n # 0 /\ x \in Int
      /\ cc.start <= x /\ x <= cc.n - 1 /\ cc.addr \in Int /\ 0 <= cc.addr
  BY <1>1 DEF CompileType, CompileOK, Addr
<1>6. cc.addr + cc.n <= NWords /\ NWords \in Int
  BY <1>1, <1>5, WordsOfBlock, ConstantsAssumption
<1> DEFINE f == cc.addr + cc.start
           e == cc.addr + x + 1
           b == cc.addr + x
<1>7. f \in Int /\ e \in Int /\ b \in Int /\ 0 <= f /\ f < e /\ e <= NWords /\ b < e
  BY <1>5, <1>6
<1>8. \A a \in Addr : f <= a /\ a < e => mem[a] = NULL
  <2>1. \A a \in Addr : f <= a /\ a < cc.addr + cc.n => mem[a] = NULL
    BY <1>1 DEF MapFull, Cleared
  <2>2. \A a \in Addr : a \in Int /\ (a < e => a < cc.addr + cc.n)
    BY <1>5 DEF Addr
  <2> QED
    BY <2>1, <2>2
<1>9. Full(mem', heap', live')
  <2>1. CASE SplitOne(x)
    <3>1. PICK s \in Segs, r \in SegmentType(Len(arm)) :
              Cut(r, f, e) /\ Adds(mem, heap, live, cc.prev, s, r, mem', heap', live')
      BY <2>1 DEF SplitOne
    <3>2. Free(mem, f, e)
      BY <1>7, <1>8 DEF Free
    <3> HIDE DEF f, e, b
    <3> QED
      BY <1>3, <3>1, <3>2, FullStep
  <2>2. CASE SplitTwo(x)
    <3>0. PICK s, t \in Segs, p, q \in SegmentType(Len(arm)), mid \in f .. b :
              SplitInto(x, s, t, p, q, mid)
      BY <2>2 DEF SplitTwo
    <3>1. PICK m, h, L :
              /\ Cut(p, f, mid) /\ Cut(q, mid, e)
              /\ Adds(mem, heap, live, cc.prev, s, p, m, h, L)
              /\ Adds(m, h, L, s, t, q, mem', heap', live')
      BY <3>0 DEF SplitInto
    <3> HIDE DEF f, e, b
    <3>2. mid \in Int /\ f <= mid /\ mid < e
      BY <1>7, <3>1
    <3>3. Free(mem, f, mid)
      <4>1. \A a \in Addr : a \in Int /\ (a < mid => a < e)
        BY <1>7, <3>2 DEF Addr
      <4> QED
        BY <1>7, <1>8, <3>2, <4>1, <1>6 DEF Free
    <3>4. Full(m, h, L) /\ \A a \in Addr : m[a] = IF f <= a /\ a < mid THEN s ELSE mem[a]
      BY <1>3, <3>1, <3>3, FullStep
    <3>5. Free(m, mid, e)
      <4>1. \A a \in Addr : a \in Int /\ (mid <= a => f <= a /\ ~(a < mid))
        BY <1>7, <3>2 DEF Addr
      <4> QED
        BY <1>7, <1>8, <3>2, <3>4, <4>1, <1>6 DEF Free
    <3> QED
      BY <3>1, <3>4, <3>5, FullStep
  <2> QED
    BY <1>4, <2>1, <2>2
<1>10. NoOverlap(heap', live')
  BY <1>9 DEF Full, Mapping, NoOverlap
<1>11. Cleared(cc', mem')
  <2>1. /\ cc'.addr = cc.addr /\ cc'.n = cc.n /\ cc'.start = x + 1
        /\ cc'.phase \in {"chosen", "split"}
    BY <1>4, SplitAdvances
  <2>2. ASSUME NEW a \in Addr, cc.addr + (x + 1) <= a, a < cc.addr + cc.n PROVE mem'[a] = NULL
    <3>1. a \in Int /\ f <= a /\ ~(a < e)
      BY <1>5, <2>2 DEF Addr
    <3>2. mem'[a] = mem[a] \/ (f <= a /\ a < e)
      BY <1>1, <1>4, SplitWords
    <3>3. mem[a] = NULL
      BY <1>1, <2>2, <3>1 DEF MapFull, Cleared
    <3> QED
      BY <3>1, <3>2, <3>3
  <2> QED
    BY <2>1, <2>2 DEF Cleared
<1> QED
  BY <1>2, <1>9, <1>10, <1>11, MapFullNext DEF Full, Mapping

\* The segment found while clearing the words of a super block begins there, as
\* the words before are free: its length takes CompileCodeAt() behind it.
LEMMA CompileExpireMap ==
    ASSUME TypeOK, MapSound, CompileOK, MapFull, CompileExpire
    PROVE  MapFull'
<1>1. /\ cc.phase = "expire" /\ dels = <<>> /\ cc \in CompileType /\ cc.addr \in Addr /\ cc.x \in Int
      /\ 0 <= cc.x /\ cc.addr \in Int /\ 0 <= cc.addr /\ UNCHANGED <<heap, live>>
  BY DEF CompileExpire, Compiling, TypeOK, CompileType, CompileOK, Addr
<1>2. Deleting = {}
  BY <1>1 DEF Deleting
<1> DEFINE w == cc.addr + cc.x
           t == SegAt(w)
<1>3. Mapping(mem, heap, live)
  <2>1. live \ {} = live
    OBVIOUS
  <2> QED
    BY <1>2, <2>1 DEF MapFull
<1>4. CASE t = NULL
  <2>1. cc' = [cc EXCEPT !.x = cc.x + 1] /\ UNCHANGED <<mem, dels>>
    BY <1>4 DEF CompileExpire
  <2>2. cc'.phase = "expire" /\ cc'.addr = cc.addr /\ cc'.x = cc.x + 1
    BY <1>1, <2>1 DEF CompileType
  <2>3. ASSUME NEW a \in Addr, cc.addr <= a, a < cc.addr + (cc.x + 1) PROVE mem[a] = NULL
    <3>1. a \in Int /\ (a < w \/ a = w)
      BY <1>1, <2>3 DEF Addr
    <3>2. a = w => mem[a] = NULL
      BY <1>4 DEF SegAt
    <3> QED
      BY <1>1, <2>3, <3>1, <3>2 DEF MapFull, Cleared
  <2>4. Cleared(cc', mem)
    BY <1>1, <2>2, <2>3 DEF MapFull, Cleared
  <2>5. Deleting' = Deleting
    BY <2>1 DEF Deleting
  <2> QED
    BY <1>1, <2>1, <2>4, <2>5, UnchangedMap DEF SameRanges
<1>5. CASE t # NULL
  <2>1. /\ mem' = SetMem(mem, heap[t].start, heap[t].len, NULL)
        /\ dels' = <<[seg |-> t, i |-> 1]>> /\ cc' = [cc EXCEPT !.x = cc.x + heap[t].len]
    BY <1>5 DEF CompileExpire
  <2>2. w \in Addr /\ mem[w] = t /\ w \in Int
    BY <1>5 DEF SegAt, Addr
  <2>3. t \in Segs /\ t \in live /\ heap[t].start <= w /\ w < EndOf(heap, t)
    BY <1>5, <2>2, MappedCovers
  <2>4. heap[t].start \in Int /\ heap[t].len \in Int /\ EndOf(heap, t) = heap[t].start + heap[t].len
        /\ 0 <= heap[t].len
    BY <2>3, SegmentFields DEF TypeOK, EndOf, MapFull, InMemory
  <2>5. cc'.phase = "expire" /\ cc'.addr = cc.addr /\ cc'.x = cc.x + heap[t].len
    BY <1>1, <2>1, <2>4 DEF CompileType
  <2> DEFINE lo == heap[t].start
             n  == heap[t].len
  <2>6. /\ lo \in Int /\ n \in Int /\ 0 <= n /\ w < lo + n /\ lo <= w
        /\ \A a \in Addr : Covers(heap, t, a) <=> lo <= a /\ a < lo + n
        /\ \A a \in Addr : mem'[a] = IF lo <= a /\ a < lo + n THEN NULL ELSE mem[a]
    BY <2>1, <2>3, <2>4 DEF Covers, SetMem, Words
  <2> HIDE DEF lo, n, t
  <2>7. lo = w
    <3> SUFFICES ASSUME lo < w PROVE FALSE
      BY <2>2, <2>6
    <3>1. CASE cc.x = 0
      BY <1>1, <1>5, <2>2, <3>1 DEF MapFull, Cleared
    <3>2. CASE 0 < cc.x
      <4>1. w - 1 \in Addr /\ cc.addr <= w - 1 /\ w - 1 < cc.addr + cc.x
        BY <1>1, <2>2, <3>2, ConstantsAssumption DEF Addr
      <4>2. mem[w - 1] = NULL
        BY <1>1, <4>1 DEF MapFull, Cleared
      <4>3. lo <= w - 1 /\ w - 1 < lo + n
        BY <2>2, <2>6
      <4>4. mem[w - 1] = t
        BY <1>3, <2>3, <2>6, <4>1, <4>3 DEF Mapping
      <4> QED
        BY <1>5, <4>2, <4>4
    <3> QED
      BY <1>1, <3>1, <3>2
  <2>8. Cleared(cc', mem')
    <3>1. mem'[cc.addr] = NULL
      BY <1>1, <2>6 DEF MapFull, Cleared
    <3>2. ASSUME NEW a \in Addr, cc.addr <= a, a < cc.addr + (cc.x + n) PROVE mem'[a] = NULL
      <4>1. a \in Int /\ (a < w \/ (lo <= a /\ a < lo + n))
        BY <1>1, <2>6, <2>7, <3>2 DEF Addr
      <4>2. a < w => mem[a] = NULL
        BY <1>1, <3>2 DEF MapFull, Cleared
      <4> QED
        BY <2>6, <4>1, <4>2
    <3> QED
      BY <2>5, <3>1, <3>2 DEF Cleared, n
  <2>9. Deleting' = {t}
    <3>1. dels' \in Seq(DelType) /\ Len(dels') = 1 /\ dels'[1].seg = t
      BY <2>1, <2>3 DEF DelType
    <3>2. DOMAIN dels' = 1 .. 1
      BY <3>1, LenProperties
    <3> QED
      BY <3>1, <3>2 DEF Deleting
  <2>10. Mapping(mem', heap, live \ {t})
    <3> SUFFICES ASSUME NEW u \in live \ {t}, NEW a \in Addr, Covers(heap, u, a) PROVE mem'[a] = u
      BY DEF Mapping
    <3>1. mem[a] = u
      BY <1>3 DEF Mapping
    <3>2. ~Covers(heap, t, a)
      BY <2>3 DEF MapFull, NoOverlap
    <3> QED
      BY <2>6, <3>1, <3>2
  <2> QED
    BY <1>1, <2>8, <2>9, <2>10, MapFullNext DEF MapFull
<1> QED
  BY <1>4, <1>5

\* What delSegment() unmaps is the segment itself, and no other.
LEMMA DelFinishMap ==
    ASSUME TypeOK, MapSound, CompileOK, MapFull, DelFinish, halted' = "no"
    PROVE  MapFull'
<1> DEFINE s == DelFrame.seg
<1>1. /\ dels # <<>> /\ s \in live /\ live' = live \ {s} /\ cc' = cc
      /\ mem' = SetMem(mem, heap[s].start, heap[s].len, NULL) /\ dels' = Front(dels)
  BY DEF DelFinish
<1>2. s \in Segs /\ cc.phase = "expire"
  BY <1>1, DelFrameType DEF CompileOK
<1>3. Deleting = Deleting' \cup {s}
  BY <1>1, DelFrames DEF Deleting
<1>4. live \subseteq Segs /\ SameChain(heap, heap')
  BY DelFinishHeap DEF TypeOK
<1>5. \A a \in Addr : mem'[a] = IF Covers(heap, s, a) THEN NULL ELSE mem[a]
  BY <1>1 DEF SetMem, Words, Covers, EndOf
<1> HIDE DEF s
<1>6. \A u \in live : /\ heap'[u].start = heap[u].start /\ heap'[u].len = heap[u].len
                      /\ EndOf(heap', u) = EndOf(heap, u)
                      /\ \A a \in Addr : Covers(heap', u, a) <=> Covers(heap, u, a)
  BY <1>4 DEF SameChain, EndOf, Covers
<1>7. InMemory(heap', live') /\ NoOverlap(heap', live')
  <2>1. InMemory(heap', live')
    BY <1>1, <1>6 DEF MapFull, InMemory
  <2>2. NoOverlap(heap', live')
    BY <1>1, <1>6 DEF MapFull, NoOverlap
  <2> QED
    BY <2>1, <2>2
<1>8. Mapping(mem', heap', live' \ Deleting')
  <2> SUFFICES ASSUME NEW u \in live' \ Deleting', NEW a \in Addr, Covers(heap', u, a) PROVE mem'[a] = u
    BY DEF Mapping
  <2>1. u \in live \ Deleting /\ u # s /\ Covers(heap, u, a)
    BY <1>1, <1>3, <1>6
  <2>2. mem[a] = u /\ ~Covers(heap, s, a)
    BY <1>1, <2>1 DEF MapFull, Mapping, NoOverlap
  <2> QED
    BY <1>5, <2>2
<1>9. Cleared(cc', mem')
  BY <1>1, <1>2, <1>5 DEF MapFull, Cleared, TypeOK, CompileType
<1> QED
  BY <1>7, <1>8, <1>9, MapFullNext

LEMMA NextMap ==
    ASSUME DebugTargets = {}, TypeOK, MapSound, CompileOK, ChainOK, MapInv, [Next]_vars
    PROVE  MapInv'
<1> SUFFICES ASSUME halted' = "no" PROVE MapFull'
  BY DEF MapInv
<1>1. CASE UNCHANGED vars
  <2>1. UNCHANGED <<mem, live, heap, dels, cc, halted>>
    BY <1>1 DEF vars, cacheVars, callVars
  <2> QED
    BY <2>1, MapFullNext DEF MapInv, MapFull, Deleting
<1>2. ASSUME Next PROVE halted = "no"
  BY <1>2 DEF Next, Recompiler, Compile, Delete, Branch, Debugger, CompileScan, CompileExpire, CompileExpired,
   CompileSplit, CompileChosen, CompileTranslate, Compiling, DelCaller, DelFinish, BranchLookup, BranchLink, Answering,
   Guest, GuestBranch, GuestCall, GuestFallThrough, GuestReturn, AtEndOf, Running, DebuggerStart, DebuggerCompile
<1>3. CASE Next
  <2>0. MapFull
    BY <1>2, <1>3 DEF MapInv
  <2>1. cc \in CompileType /\ cc.addr \in Addr /\ cc.addr \in Int
    BY DEF TypeOK, CompileType, Addr
  <2>2. CASE CompileScan
    <3>1. PICK n : cc' = [cc EXCEPT !.phase = "expire", !.n = n]
      BY <2>2 DEF CompileScan
    <3>2. cc.phase = "scan" /\ cc.x = 0 /\ UNCHANGED <<mem, live, heap, dels>>
      BY <2>2 DEF CompileScan, Compiling, CompileOK, cacheVars
    <3>3. cc'.phase = "expire" /\ cc'.addr = cc.addr /\ cc'.x = 0
      BY <2>1, <3>1, <3>2 DEF CompileType
    <3>4. \A a \in Addr : a \in Int /\ ~(cc.addr <= a /\ a < cc.addr + 0)
      BY <2>1 DEF Addr
    <3>5. Cleared(cc', mem)
      BY <2>0, <3>2, <3>3, <3>4 DEF MapFull, Cleared
    <3> QED
      BY <2>0, <3>2, <3>5, UnchangedMap DEF SameRanges, Deleting
  <2>3. CASE CompileExpired
    <3> DEFINE next == IF cc.n = 0 THEN "chosen" ELSE "split"
    <3>1. /\ cc.phase = "expire" /\ cc.x >= cc.n /\ cc' = [cc EXCEPT !.phase = next, !.x = 0]
          /\ UNCHANGED <<mem, live, heap, dels>> /\ cc.start = 0
      BY <2>3 DEF CompileExpired, Compiling, CompileOK, cacheVars
    <3>2. next \in {"chosen", "split"}
      OBVIOUS
    <3> HIDE DEF next
    <3>3. cc'.phase = next /\ cc'.addr = cc.addr /\ cc'.n = cc.n /\ cc'.start = 0
      BY <2>1, <3>1 DEF CompileType
    <3>4. \A a \in Addr : /\ a \in Int
                          /\ cc.addr + 0 <= a /\ a < cc.addr + cc.n => cc.addr <= a /\ a < cc.addr + cc.x
      BY <2>1, <3>1 DEF Addr, CompileType
    <3>5. Cleared(cc', mem)
      BY <2>0, <3>1, <3>2, <3>3, <3>4 DEF MapFull, Cleared
    <3> QED
      BY <2>0, <3>1, <3>5, UnchangedMap DEF SameRanges, Deleting
  <2>4. CASE CompileChosen \/ CompileTranslate
    <3>1. UNCHANGED <<mem, live, dels>> /\ cc.phase \in {"chosen", "translate"}
      BY <2>4 DEF CompileChosen, CompileTranslate, Compiling, cacheVars
    <3>2. SameRanges(heap, heap', Segs)
      <4>1. CASE CompileChosen
        BY <4>1 DEF CompileChosen, SameRanges, cacheVars
      <4>2. CASE CompileTranslate
        BY <4>2, TranslateRanges DEF CompileTranslate, TypeOK, Compiling
      <4> QED
        BY <2>4, <4>1, <4>2
    <3>3. cc'.phase \in {"chosen", "translate", "idle"}
      <4>1. cc' = cc \/ cc' = Idle \/ \E s : cc' = [cc EXCEPT !.phase = "translate", !.seg = s]
                                     \/ (cc.phase = "translate" /\ cc' = [cc EXCEPT !.seg = s])
        BY <2>4 DEF CompileChosen, CompileTranslate, Compiling
      <4>2. Idle.phase = "idle"
        BY DEF Idle
      <4>3. \A s : /\ [cc EXCEPT !.phase = "translate", !.seg = s].phase = "translate"
                   /\ [cc EXCEPT !.seg = s].phase = cc.phase
        BY <2>1 DEF CompileType
      <4> QED
        BY <3>1, <4>1, <4>2, <4>3
    <3> QED
      BY <2>0, <3>1, <3>2, <3>3, UnchangedMap DEF Cleared, Deleting
  <2>5. CASE DelCaller
    <3>1. UNCHANGED <<mem, live, cc>> /\ SameRanges(heap, heap', Segs)
      BY <2>5, DelCallerHeap DEF DelCaller, SameChain, SameRanges
    <3>2. Deleting \subseteq Deleting'
      <4>1. ASSUME NEW i \in DOMAIN dels PROVE i \in DOMAIN dels' /\ dels'[i].seg = dels[i].seg
        BY <2>5, DelCallerFrames
      <4> QED
        BY <4>1 DEF Deleting
    <3> QED
      BY <2>0, <3>1, <3>2, UnchangedMap DEF MapFull
  <2>6. CASE BranchLookup
    <3>1. /\ UNCHANGED <<mem, live, heap, dels>> /\ cc.phase = "idle" /\ ~WildCall
          /\ IF SegAt(bu.tgt) = NULL THEN cc' = StartCompile(bu.tgt, "guest") ELSE cc' = cc
      BY <2>6, BranchLookupHeap
    <3>2. bu.tgt \in Addr
      BY <3>1 DEF WildCall
    <3>3. Cleared(cc', mem)
      BY <3>1, <3>2, StartCompileFields DEF Cleared, SegAt
    <3> QED
      BY <2>0, <3>1, <3>3, UnchangedMap DEF SameRanges, Deleting
  <2>7. CASE BranchLink
    <3>1. UNCHANGED <<mem, live, cc, dels>> /\ SameRanges(heap, heap', Segs)
      BY <2>7, BranchLinkHeap DEF BranchLink, SameChain, SameRanges
    <3> QED
      BY <2>0, <3>1, UnchangedMap DEF MapFull, Deleting
  <2>8. CASE Guest \/ DebuggerStart
    <3>1. UNCHANGED <<mem, live, heap, dels, cc>>
      BY <2>8 DEF Guest, GuestBranch, GuestCall, GuestFallThrough, GuestReturn, DebuggerStart, cacheVars, callVars
    <3> QED
      BY <2>0, <3>1, UnchangedMap DEF MapFull, Deleting, SameRanges
  <2>9. ~DebuggerCompile
    BY DEF DebuggerCompile
  <2> QED
    BY <1>3, <2>0, <2>2, <2>3, <2>4, <2>5, <2>6, <2>7, <2>8, <2>9, CompileSplitMap, CompileExpireMap, DelFinishMap
       DEF Next, Recompiler, Compile, Delete, Branch, Debugger
<1> QED
  BY <1>1, <1>3

LEMMA InitMap == Init => MapInv
<1> SUFFICES ASSUME Init PROVE MapFull
  BY DEF MapInv
<1>1. live = {} /\ mem = [a \in Addr |-> NULL] /\ cc.addr \in Addr /\ cc.phase = "scan"
  BY ConstantsAssumption DEF Init, StartCompile, Idle
<1> QED
  BY <1>1 DEF MapFull, InMemory, Mapping, NoOverlap, Cleared

MapInvariants == ChainInv /\ MapInv

LEMMA MapInvariant ==
    ASSUME DebugTargets = {}
    PROVE  Spec => []MapInvariants
<1>1. Init => MapInv
  BY InitMap
<1>2. ChainInv /\ MapInv /\ [Next]_vars => MapInv'
  BY NextMap DEF ChainInv
<1> QED
  BY <1>1, <1>2, ChainInvariant, PTL DEF Spec, MapInvariants

\* No segment is lost: whatever the guest branches to, each segment in use is
\* mapped at every word it covers, so that a later CompileCodeAt() finds and
\* deletes it.  The debugger's "compile" may start in the middle of a segment.
THEOREM MapIsComplete == DebugTargets = {} => (Spec => []MapComplete)
<1> SUFFICES ASSUME DebugTargets = {} PROVE Spec => []MapComplete
  OBVIOUS
<1>1. MapInvariants => MapComplete
  BY MappingIsMapComplete DEF MapInvariants, MapInv, MapFull
<1> QED
  BY <1>1, MapInvariant, PTL

-----------------------------------------------------------------------------
(* The map implements a table of disjoint intervals. *)

MappedIn(m) == {m[a] : a \in Addr} \ {NULL}

TableIn(m, h) == {<<h[s].start, h[s].len>> : s \in MappedIn(m)}

\* What is mapped is disjoint intervals of words.
LEMMA TableIntervals ==
    ASSUME NEW m \in [Addr -> SegOrNull], NEW n, NEW h \in [Segs -> SegmentType(n)], NEW L \in SUBSET Segs,
           Sound(m, h, L), InMemory(h, L), NoOverlap(h, L)
    PROVE  /\ TableIn(m, h) \subseteq Table!Intervals
           /\ \A i, j \in TableIn(m, h) : i # j => Table!Disjoint(i, j)
<1>0. NWords \in Int
  BY ConstantsAssumption
<1>1. ASSUME NEW s \in MappedIn(m)
      PROVE  /\ s \in L /\ h[s].start \in Int /\ h[s].len \in Int /\ EndOf(h, s) = h[s].start + h[s].len
             /\ 0 <= h[s].start /\ EndOf(h, s) <= NWords /\ 0 < h[s].len
  <2>1. PICK a \in Addr : m[a] = s /\ s # NULL
    BY DEF MappedIn
  <2>2. s \in L /\ h[s].start <= a /\ a < h[s].start + h[s].len /\ a \in Int
    BY <2>1 DEF Sound, Words, Addr
  <2>3. h[s].start \in Int /\ h[s].len \in Int /\ EndOf(h, s) = h[s].start + h[s].len
    BY <2>2, SegmentFields DEF EndOf
  <2> QED
    BY <2>2, <2>3 DEF InMemory
<1>2. TableIn(m, h) \subseteq Table!Intervals
  <2> SUFFICES ASSUME NEW s \in MappedIn(m) PROVE <<h[s].start, h[s].len>> \in Table!Intervals
    BY DEF TableIn
  <2> DEFINE p == h[s].start
             k == h[s].len
  <2>1. p \in Int /\ k \in Int /\ 0 <= p /\ p + k <= NWords /\ 0 < k
    BY <1>1
  <2> HIDE DEF p, k
  <2>2. p \in 0 .. NWords - 1 /\ k \in 1 .. NWords
    BY <1>0, <2>1
  <2>3. <<p, k>> \in Table!Intervals
    BY <2>1, <2>2 DEF Table!Intervals
  <2> QED
    BY <2>3 DEF p, k
<1>3. ASSUME NEW s \in MappedIn(m), NEW u \in MappedIn(m), s # u
      PROVE  EndOf(h, s) <= h[u].start \/ EndOf(h, u) <= h[s].start
  <2> SUFFICES ASSUME h[u].start < EndOf(h, s), h[s].start < EndOf(h, u) PROVE FALSE
    BY <1>1
  <2>1. \A a \in Addr : ~(Covers(h, s, a) /\ Covers(h, u, a))
    BY <1>1, <1>3 DEF NoOverlap
  <2>2. CASE h[s].start <= h[u].start
    <3>1. h[u].start \in Addr
      BY <1>0, <1>1 DEF Addr
    <3> QED
      BY <1>1, <2>1, <2>2, <3>1 DEF Covers
  <2>3. CASE h[u].start <= h[s].start
    <3>1. h[s].start \in Addr
      BY <1>0, <1>1 DEF Addr
    <3> QED
      BY <1>1, <2>1, <2>3, <3>1 DEF Covers
  <2> QED
    BY <1>1, <2>2, <2>3
<1>4. ASSUME NEW i \in TableIn(m, h), NEW j \in TableIn(m, h), i # j PROVE Table!Disjoint(i, j)
  <2>1. PICK s \in MappedIn(m) : i = <<h[s].start, h[s].len>>
    BY DEF TableIn
  <2>2. PICK u \in MappedIn(m) : j = <<h[u].start, h[u].len>>
    BY DEF TableIn
  <2>3. EndOf(h, s) <= h[u].start \/ EndOf(h, u) <= h[s].start
    BY <1>3, <1>4, <2>1, <2>2
  <2> QED
    BY <2>1, <2>2, <2>3 DEF Table!Disjoint, EndOf
<1> QED
  BY <1>2, <1>4

\* No new word is mapped: the table keeps what it held, or some of it.
LEMMA TableShrinks ==
    ASSUME TypeOK, MapSound, SameRanges(heap, heap', Segs),
           \A a \in Addr : mem'[a] = mem[a] \/ mem'[a] = NULL
    PROVE  /\ MappedIn(mem') \subseteq MappedIn(mem) /\ MappedIn(mem) \subseteq Segs
           /\ TableIn(mem', heap') \subseteq TableIn(mem, heap)
<1>1. MappedIn(mem') \subseteq MappedIn(mem) /\ MappedIn(mem) \subseteq Segs
  BY DEF MappedIn, TypeOK
<1> QED
  BY <1>1 DEF TableIn, SameRanges

\* Unmapping the words a segment covers removes its interval, if it is mapped.
LEMMA TableLoses ==
    ASSUME TypeOK, MapSound, MapFull, SameRanges(heap, heap', Segs), NEW s \in live,
           \A a \in Addr : mem'[a] = IF Covers(heap, s, a) THEN NULL ELSE mem[a]
    PROVE  \/ TableIn(mem', heap') = TableIn(mem, heap)
           \/ \E i \in TableIn(mem, heap) : TableIn(mem', heap') = TableIn(mem, heap) \ {i}
<1> DEFINE M == MappedIn(mem)
           M2 == MappedIn(mem')
<1>1. live \subseteq Segs /\ s \in Segs
  BY DEF TypeOK
<1>2. \A a \in Addr : mem[a] # NULL => mem[a] \in live /\ Covers(heap, mem[a], a)
  BY DEF MapSound, RangeOf, Words, Covers, EndOf
<1>3. \A a \in Addr : mem[a] # NULL => (mem[a] = s <=> Covers(heap, s, a))
  BY <1>2 DEF MapFull, NoOverlap
<1>4. M2 = M \ {s}
  <2>1. ASSUME NEW u \in M2 PROVE u \in M \ {s}
    BY <1>3 DEF MappedIn
  <2>2. ASSUME NEW u \in M \ {s} PROVE u \in M2
    BY <1>3 DEF MappedIn
  <2> QED
    BY <2>1, <2>2
<1>5. M \subseteq live
  BY <1>2 DEF MappedIn
<1>6. \A u \in M : u # s /\ s \in M => <<heap[u].start, heap[u].len>> # <<heap[s].start, heap[s].len>>
  <2> SUFFICES ASSUME NEW u \in M, u # s, s \in M, heap[u].start = heap[s].start, heap[u].len = heap[s].len
               PROVE  FALSE
    OBVIOUS
  <2>1. PICK a \in Addr : mem[a] = s /\ s # NULL
    BY DEF MappedIn
  <2>2. Covers(heap, s, a) /\ Covers(heap, u, a)
    BY <1>2, <2>1 DEF Covers, EndOf
  <2> QED
    BY <1>5, <2>2 DEF MapFull, NoOverlap
<1> HIDE DEF M, M2
<1>7. TableIn(mem, heap) = {<<heap[u].start, heap[u].len>> : u \in M}
  BY DEF TableIn, M
<1>8. TableIn(mem', heap') = {<<heap[u].start, heap[u].len>> : u \in M2}
  <2>1. TableIn(mem', heap') = {<<heap'[u].start, heap'[u].len>> : u \in M2}
    BY DEF TableIn, M2
  <2>2. \A u \in M2 : heap'[u].start = heap[u].start /\ heap'[u].len = heap[u].len
    BY <1>1, <1>4, <1>5 DEF SameRanges
  <2> QED
    BY <2>1, <2>2
<1>9. CASE s \in M
  <2> DEFINE i == <<heap[s].start, heap[s].len>>
  <2>1. i \in TableIn(mem, heap)
    BY <1>7, <1>9
  <2>2. TableIn(mem', heap') = TableIn(mem, heap) \ {i}
    BY <1>4, <1>6, <1>7, <1>8, <1>9
  <2> QED
    BY <2>1, <2>2
<1>10. CASE s \notin M
  <2>1. M2 = M
    BY <1>4, <1>10
  <2> QED
    BY <1>7, <1>8, <2>1
<1> QED
  BY <1>9, <1>10

\* Splitting leaves the segments in use alone, but for the end of the chain.
LEMMA SplitKeeps ==
    ASSUME TypeOK, CompileOK, NEW x, SplitOne(x) \/ SplitTwo(x), NEW u \in live
    PROVE  /\ u \in live'
           /\ heap'[u].start = heap[u].start /\ heap'[u].len = heap[u].len /\ heap'[u].entry = heap[u].entry
           /\ heap'[u].br = heap[u].br /\ heap'[u].callers = heap[u].callers
           /\ u # cc.prev => heap'[u].cont = heap[u].cont
<1>0. u \in Segs
  BY DEF TypeOK
<1>1. CASE SplitOne(x)
  <2>1. PICK s \in Segs, r \in SegmentType(Len(arm)) : Adds(mem, heap, live, cc.prev, s, r, mem', heap', live')
    BY <1>1 DEF SplitOne
  <2>2. Added(mem, heap, live, cc.prev, s, r, mem', heap', live')
    BY <2>1, AddsChange
  <2>3. u \in Segs \ {s} /\ u \in live'
    BY <1>0, <2>2 DEF Added
  <2> QED
    BY <2>2, <2>3 DEF Added
<1>2. CASE SplitTwo(x)
  <2>0. PICK s, t \in Segs, p, q \in SegmentType(Len(arm)), mid \in cc.addr + cc.start .. cc.addr + x :
            SplitInto(x, s, t, p, q, mid)
    BY <1>2 DEF SplitTwo
  <2>1. PICK m, h, L :
              /\ Adds(mem, heap, live, cc.prev, s, p, m, h, L)
              /\ Adds(m, h, L, s, t, q, mem', heap', live')
    BY <2>0 DEF SplitInto
  <2>2. Added(mem, heap, live, cc.prev, s, p, m, h, L)
    BY <2>1, AddsChange
  <2>3. Added(m, h, L, s, t, q, mem', heap', live')
    BY <2>1, AddsChange
  <2>4. u \in Segs \ {s} /\ u \in L
    BY <1>0, <2>2 DEF Added
  <2>5. u \in Segs \ {t} /\ u \in live' /\ u # s
    BY <2>3, <2>4 DEF Added
  <2>6. /\ h[u].start = heap[u].start /\ h[u].len = heap[u].len /\ h[u].entry = heap[u].entry
        /\ h[u].br = heap[u].br /\ h[u].callers = heap[u].callers
        /\ u # cc.prev => h[u].cont = heap[u].cont
    BY <2>2, <2>4 DEF Added
  <2>7. /\ heap'[u].start = h[u].start /\ heap'[u].len = h[u].len /\ heap'[u].entry = h[u].entry
        /\ heap'[u].br = h[u].br /\ heap'[u].callers = h[u].callers /\ heap'[u].cont = h[u].cont
    BY <2>3, <2>5 DEF Added
  <2> QED
    BY <2>5, <2>6, <2>7
<1> QED
  BY <1>1, <1>2

\* Splitting installs intervals over words that none covers.
LEMMA SplitInstalls ==
    ASSUME TypeOK, MapSound, CompileOK, MapFull, TypeOK', MapSound', MapFull', CompileSplit,
           halted' = "no"
    PROVE  /\ TableIn(mem', heap') \subseteq Table!Intervals
           /\ TableIn(mem, heap) \subseteq TableIn(mem', heap')
           /\ \A i, j \in TableIn(mem', heap') : i # j => Table!Disjoint(i, j)
<1>1. cc.phase = "split"
  BY DEF CompileSplit, Compiling
<1>2. PICK x \in cc.start .. cc.n - 1 : SplitOne(x) \/ SplitTwo(x)
  BY SplitCases
<1>3. TableIn(mem, heap) \subseteq TableIn(mem', heap')
  <2> SUFFICES ASSUME NEW s \in MappedIn(mem) PROVE <<heap[s].start, heap[s].len>> \in TableIn(mem', heap')
    BY DEF TableIn
  <2>1. PICK a \in Addr : mem[a] = s /\ s # NULL
    BY DEF MappedIn
  <2>2. s \in live
    BY <2>1 DEF MapSound
  <2>3. heap'[s].start = heap[s].start /\ heap'[s].len = heap[s].len
    BY <1>2, <2>2, SplitKeeps
  <2>4. mem'[a] = s
    <3>1. mem'[a] = mem[a] \/ (cc.addr + cc.start <= a /\ a < cc.addr + x + 1)
      BY <1>1, <1>2, SplitWords
    <3>2. ~(cc.addr + cc.start <= a /\ a < cc.addr + x + 1)
      <4>1. cc.addr + cc.start <= a => ~(a < cc.addr + cc.n)
        BY <1>1, <2>1 DEF MapFull, Cleared
      <4>2. a < cc.addr + x + 1 => a < cc.addr + cc.n
        <5>1. cc.addr \in Int /\ cc.n \in Int /\ cc.start \in Int /\ a \in Int
          BY DEF TypeOK, CompileType, Addr
        <5>2. x \in Int /\ x <= cc.n - 1
          BY <5>1
        <5> QED
          BY <5>1, <5>2
      <4> QED
        BY <4>1, <4>2
    <3> QED
      BY <2>1, <3>1, <3>2
  <2>5. s \in MappedIn(mem')
    BY <2>1, <2>4 DEF MappedIn
  <2> QED
    BY <2>3, <2>5 DEF TableIn
<1>4. /\ mem' \in [Addr -> SegOrNull] /\ heap' \in [Segs -> SegmentType(Len(arm'))] /\ live' \in SUBSET Segs
      /\ Sound(mem', heap', live') /\ InMemory(heap', live') /\ NoOverlap(heap', live')
  BY SoundIsMapSoundNext, MapFullNext DEF TypeOK
<1> QED
  BY <1>3, <1>4, TableIntervals

LEMMA NextTable ==
    ASSUME DebugTargets = {}, ChainInv, MapInv, TypeOK', MapSound', MapInv', [Next]_vars
    PROVE  LET T  == TableIn(mem, heap)
               T2 == TableIn(mem', heap')
           IN  \/ T2 = T /\ (halted = "no" <=> halted' = "no")
               \/ /\ halted = "no" /\ halted' = "no"
                  /\ \/ \E i \in T : T2 = T \ {i}
                     \/ /\ T2 \subseteq Table!Intervals /\ T \subseteq T2
                        /\ \A i, j \in T2 : i # j => Table!Disjoint(i, j)
               \/ halted = "no" /\ halted' # "no" /\ T2 \subseteq T
<1> DEFINE T  == TableIn(mem, heap)
           T2 == TableIn(mem', heap')
<1>0. TypeOK /\ MapSound /\ CompileOK /\ ChainOK
  BY DEF ChainInv
<1>1. CASE UNCHANGED vars
  BY <1>1 DEF vars, cacheVars
<1>2. CASE Next
  <2>1. halted = "no"
    BY <1>2 DEF Next, Recompiler, Compile, Delete, Branch, Debugger, CompileScan, CompileExpire, CompileExpired,
     CompileSplit, CompileChosen, CompileTranslate, Compiling, DelCaller, DelFinish, BranchLookup, BranchLink, Answering,
     Guest, GuestBranch, GuestCall, GuestFallThrough, GuestReturn, AtEndOf, Running, DebuggerStart, DebuggerCompile
  <2>2. MapFull
    BY <2>1 DEF MapInv
  <2>3. CASE mem' = mem /\ SameRanges(heap, heap', Segs)
    <3>1. MappedIn(mem) \subseteq Segs
      BY <1>0 DEF MappedIn, TypeOK
    <3>2. T2 = T
      BY <2>3, <3>1 DEF TableIn, SameRanges
    <3> QED
      BY <2>1, <3>2
  <2>4. CASE CompileExpire /\ mem' # mem
    <3> DEFINE t == SegAt(cc.addr + cc.x)
    <3>1. t # NULL /\ mem' = SetMem(mem, heap[t].start, heap[t].len, NULL) /\ UNCHANGED <<heap, halted>>
      BY <2>4 DEF CompileExpire
    <3>2. t \in live
      BY <1>0, <3>1, MappedCovers DEF SegAt
    <3>3. \A a \in Addr : mem'[a] = IF Covers(heap, t, a) THEN NULL ELSE mem[a]
      BY <3>1 DEF SetMem, Words, Covers, EndOf
    <3>4. SameRanges(heap, heap', Segs)
      BY <3>1 DEF SameRanges
    <3> HIDE DEF t
    <3> QED
      BY <1>0, <2>1, <2>2, <3>1, <3>2, <3>3, <3>4, TableLoses
  <2>5. CASE DelFinish
    <3> DEFINE s == DelFrame.seg
    <3>1. SameRanges(heap, heap', Segs)
      BY <1>0, <2>5, DelFinishHeap DEF SameChain, SameRanges
    <3>2. \A a \in Addr : mem'[a] = IF Covers(heap, s, a) THEN NULL ELSE mem[a]
      BY <2>5 DEF DelFinish, SetMem, Words, Covers, EndOf
    <3>3. CASE s \in live
      <4>1. halted' = "no"
        BY <2>5, <3>3 DEF DelFinish
      <4> HIDE DEF s
      <4> QED
        BY <1>0, <2>1, <2>2, <3>1, <3>2, <3>3, <4>1, TableLoses
    <3>4. CASE s \notin live
      <4>1. halted' # "no"
        BY <2>5, <3>4 DEF DelFinish
      <4>2. T2 \subseteq T
        BY <1>0, <3>1, <3>2, TableShrinks
      <4> QED
        BY <2>1, <4>1, <4>2
    <3> QED
      BY <3>3, <3>4
  <2>6. CASE CompileSplit
    <3>1. CASE halted' = "no"
      <4>1. MapFull'
        BY <3>1 DEF MapInv
      <4> QED
        BY <1>0, <2>1, <2>2, <2>6, <3>1, <4>1, SplitInstalls
    <3>2. CASE halted' # "no"
      <4>1. UNCHANGED <<mem, heap>>
        BY <1>0, <2>6, <3>2, SplitCases
      <4> QED
        BY <2>1, <3>2, <4>1
    <3> QED
      BY <3>1, <3>2
  <2>7. ASSUME ~CompileSplit, ~DelFinish, ~(CompileExpire /\ mem' # mem)
        PROVE  mem' = mem /\ SameRanges(heap, heap', Segs)
    <3>1. CASE DelCaller
      BY <1>0, <3>1, DelCallerHeap DEF DelCaller, SameChain, SameRanges
    <3>2. CASE BranchLookup
      BY <1>0, <3>2, BranchLookupHeap DEF SameRanges
    <3>3. CASE BranchLink
      BY <1>0, <3>3, BranchLinkHeap DEF BranchLink, SameChain, SameRanges
    <3>4. CASE CompileTranslate
      BY <1>0, <3>4, TranslateRanges DEF CompileTranslate, TypeOK, Compiling
    <3>5. ASSUME ~DelCaller, ~BranchLookup, ~BranchLink, ~CompileTranslate PROVE mem' = mem /\ heap' = heap
      BY <1>2, <2>7, <3>5 DEF Next, Recompiler, Compile, Delete, Branch, Debugger, CompileScan, CompileExpire,
        CompileExpired, CompileChosen, Guest, GuestBranch, GuestCall, GuestFallThrough, GuestReturn, DebuggerStart,
        DebuggerCompile, cacheVars
    <3> QED
      BY <3>1, <3>2, <3>3, <3>4, <3>5 DEF SameRanges
  <2> QED
    BY <2>3, <2>4, <2>5, <2>6, <2>7
<1> QED
  BY <1>1, <1>2

\* The code cache implements the table of disjoint intervals: CompileCodeAt()
\* installs only over words nothing covers, and a segment goes as a whole.
THEOREM CacheImplementsTable == DebugTargets = {} => (Spec => ImplementsTable)
<1> SUFFICES ASSUME DebugTargets = {} PROVE Spec => ImplementsTable
  OBVIOUS
<1>1. Init => Table!Init
  BY ConstantsAssumption DEF Init, Table!Init, Mapped
<1>2. MapInvariants /\ MapInvariants' /\ [Next]_vars
        => [Table!Next]_<<{<<heap[s].start, heap[s].len>> : s \in Mapped}, halted = "no">>
  <2> SUFFICES ASSUME MapInvariants, MapInvariants', [Next]_vars
               PROVE  [Table!Next]_<<{<<heap[s].start, heap[s].len>> : s \in Mapped}, halted = "no">>
    OBVIOUS
  <2>1. {<<heap[s].start, heap[s].len>> : s \in Mapped} = TableIn(mem, heap)
    BY DEF TableIn, Mapped, MappedIn
  <2>2. {<<heap[s].start, heap[s].len>> : s \in Mapped}' = TableIn(mem', heap')
    BY DEF TableIn, Mapped, MappedIn
  <2>3. TypeOK' /\ MapSound' /\ MapInv'
    BY DEF MapInvariants, ChainInv
  <2> QED
    BY <2>1, <2>2, <2>3, NextTable DEF MapInvariants, Table!Next, Table!Install, Table!Remove, Table!Stop
<1> QED
  BY <1>1, <1>2, MapInvariant, PTL DEF Spec, ImplementsTable, Table!Spec

-----------------------------------------------------------------------------
(* What a linked branch and a branchUnknown() in progress keep. *)

\* R0 of the branchUnknown() in progress names the owner of the block whose
\* branch it is to patch.
BuOwner == bu.phase # "idle" => arm[bu.blk].owner = bu.seg

\* If that still is the code of the owner, the target is the one of its branch.
BuTarget ==
    bu.phase # "idle" /\ bu.kind \in PatchedKinds /\ heap[bu.seg].entry = bu.blk =>
        bu.tgt = UnknownTarget(Terminator(bu.blk), arm[bu.blk].start + arm[bu.blk].len)

\* A branch at the end of a segment targets the first word of it, or none.
LoopHeads == \A s \in Segs : heap[s].len > 0 => HeadOrOut(heap[s].start, EndOf(heap, s))

LinkInv == BuOwner /\ BuTarget /\ LoopHeads

LEMMA LinkInvNext ==
    ASSUME code' = code
    PROVE  /\ BuOwner' <=> (bu'.phase # "idle" => arm'[bu'.blk].owner = bu'.seg)
           /\ LoopHeads' <=> \A s \in Segs : heap'[s].len > 0 => HeadOrOut(heap'[s].start, EndOf(heap', s))
           /\ \A lo, hi : HeadOrOut(lo, hi)' <=> HeadOrOut(lo, hi)
BY SameCode DEF BuOwner, LoopHeads, HeadOrOut, EndOf, TranslateTarget

\* The words before a jump or branch hold none, so what is split off before the
\* head of a loop ends in no branch.
LEMMA NoBranchBefore ==
    ASSUME TypeOK, CompileOK, cc.phase = "split", NEW x \in cc.start .. cc.n - 1, NextControl(x),
           NEW lo, NEW hi, lo = cc.addr + cc.start, hi \in Int, lo < hi, hi <= cc.addr + x
    PROVE  HeadOrOut(lo, hi)
<1> DEFINE y == hi - 1 - cc.addr
<1>1. /\ cc.addr \in Int /\ cc.start \in Int /\ cc.n \in Int /\ x \in Int /\ cc.x = cc.start
  BY DEF TypeOK, CompileType, CompileOK, Addr
<1>2. y \in cc.x .. x - 1 /\ cc.addr + y = hi - 1
  BY <1>1
<1>3. ~IsControl(Word(y))
  BY <1>2 DEF NextControl
<1>4. ~IsBranch(WordAt(hi - 1))
  BY <1>2, <1>3 DEF IsControl, Word
<1> QED
  BY <1>4 DEF HeadOrOut

\* Splitting changes the ranges of new segments only; a branch at their end
\* targets their first word or none of theirs.
LEMMA SplitHeads ==
    ASSUME TypeOK, CompileOK, cc.phase = "split", NEW x \in cc.start .. cc.n - 1, NextControl(x),
           SplitOne(x) \/ SplitTwo(x), NEW u \in Segs
    PROVE  \/ heap'[u].start = heap[u].start /\ heap'[u].len = heap[u].len /\ heap'[u].entry = heap[u].entry
           \/ heap'[u].entry = 0 /\ (heap'[u].len > 0 => HeadOrOut(heap'[u].start, EndOf(heap', u)))
<1> DEFINE f == cc.addr + cc.start
           e == cc.addr + x + 1
           b == cc.addr + x
<1>0. f \in Int /\ e \in Int /\ b \in Int /\ b < e
  BY DEF TypeOK, CompileType, Addr
<1>1. CASE SplitOne(x)
  <2>1. PICK s \in Segs, r \in SegmentType(Len(arm)) :
            /\ Cut(r, f, e) /\ Adds(mem, heap, live, cc.prev, s, r, mem', heap', live')
            /\ HeadOrOut(r.start, r.start + r.len)
    BY <1>1 DEF SplitOne
  <2>2. Added(mem, heap, live, cc.prev, s, r, mem', heap', live')
    BY <2>1, AddsChange
  <2>3. r.entry = 0
    BY <2>1 DEF Cut
  <2>4. CASE u = s
    BY <2>1, <2>2, <2>3, <2>4 DEF Added, EndOf
  <2>5. CASE u # s
    BY <2>2, <2>5 DEF Added
  <2> QED
    BY <2>4, <2>5
<1>2. CASE SplitTwo(x)
  <2>0. PICK s, t \in Segs, p, q \in SegmentType(Len(arm)), mid \in f .. b :
            SplitInto(x, s, t, p, q, mid)
    BY <1>2 DEF SplitTwo
  <2>1. PICK m, h, L :
              /\ Cut(p, f, mid) /\ Cut(q, mid, e)
              /\ Adds(mem, heap, live, cc.prev, s, p, m, h, L)
              /\ Adds(m, h, L, s, t, q, mem', heap', live')
              /\ HeadOrOut(mid, e)
    BY <2>0 DEF SplitInto
  <2>2. Added(mem, heap, live, cc.prev, s, p, m, h, L)
    BY <2>1, AddsChange
  <2>3. Added(m, h, L, s, t, q, mem', heap', live')
    BY <2>1, AddsChange
  <2>4. mid \in Int /\ f <= mid /\ mid <= b
    <3> HIDE DEF f, b
    <3> QED
      BY <1>0
  <2>5. /\ p.entry = 0 /\ p.start = f /\ p.len = mid - f /\ f + (mid - f) = mid
        /\ q.entry = 0 /\ q.start = mid /\ q.len = e - mid /\ mid + (e - mid) = e
    <3> HIDE DEF f, e, b
    <3> QED
      BY <2>1, <2>4, <1>0 DEF Cut
  <2>6. f < mid => HeadOrOut(f, mid)
    BY <2>4, NoBranchBefore
  <2>7. f + (mid - f) = mid /\ (mid - f > 0 => f < mid)
    <3> HIDE DEF f, e, b
    <3> QED
      BY <2>4, <1>0
  <2> HIDE DEF f, e, b
  <2>8. CASE u = t
    <3>1. heap'[u].start = mid /\ heap'[u].len = e - mid /\ heap'[u].entry = 0
      BY <2>3, <2>5, <2>8 DEF Added
    <3> QED
      BY <2>1, <2>5, <3>1 DEF EndOf
  <2>9. CASE u # t
    <3>1. /\ heap'[u].start = h[u].start /\ heap'[u].len = h[u].len /\ heap'[u].entry = h[u].entry
      BY <2>3, <2>9 DEF Added
    <3>2. CASE u = s
      <4>1. h[u].start = f /\ h[u].len = mid - f /\ h[u].entry = 0
        BY <2>2, <2>5, <3>2 DEF Added
      <4> QED
        BY <2>6, <2>7, <3>1, <4>1 DEF EndOf
    <3>3. CASE u # s
      BY <2>2, <3>1, <3>3 DEF Added
    <3> QED
      BY <3>2, <3>3
  <2> QED
    BY <2>8, <2>9
<1> QED
  BY <1>1, <1>2

\* Outside Translate(), a segment keeps its range and code, or is a new one.
LEMMA EntriesChange ==
    ASSUME TypeOK, CompileOK, ChainOK, [Next]_vars, ~CompileTranslate, NEW u \in Segs
    PROVE  \/ heap'[u].start = heap[u].start /\ heap'[u].len = heap[u].len /\ heap'[u].entry = heap[u].entry
           \/ heap'[u].entry = 0 /\ (heap'[u].len > 0 => HeadOrOut(heap'[u].start, EndOf(heap', u)))
<1>1. CASE CompileSplit
  <2>1. cc.phase = "split"
    BY <1>1 DEF CompileSplit, Compiling
  <2> QED
    BY <1>1, <2>1, SplitCases, SplitHeads
<1>2. CASE DelCaller \/ DelFinish \/ BranchLink
  BY <1>2, DelCallerHeap, DelFinishHeap, BranchLinkHeap DEF SameChain
<1>3. CASE BranchLookup
  BY <1>3, BranchLookupHeap
<1>4. ASSUME ~CompileSplit, ~DelCaller, ~DelFinish, ~BranchLink, ~BranchLookup PROVE heap' = heap
  BY <1>4 DEF Next, Recompiler, Compile, Delete, Branch, Debugger, CompileScan, CompileExpire,
     CompileExpired, CompileChosen, Guest, GuestBranch, GuestCall, GuestFallThrough, GuestReturn,
     DebuggerStart, DebuggerCompile, vars, cacheVars
<1> QED
  BY <1>1, <1>2, <1>3, <1>4

LEMMA NextLoopHeads ==
    ASSUME TypeOK, CompileOK, ChainOK, LoopHeads, [Next]_vars
    PROVE  LoopHeads'
<1>0. code' = code
  BY CodeStays
<1>1. ASSUME NEW u \in Segs, heap'[u].len > 0 PROVE HeadOrOut(heap'[u].start, EndOf(heap', u))
  <2>1. CASE CompileTranslate
    <3>1. cc.seg \in Segs /\ Translate(cc.seg)
      BY <2>1 DEF CompileTranslate, Compiling, TypeOK
    <3>2. heap'[u].start = heap[u].start /\ heap'[u].len = heap[u].len
      BY <3>1, TranslateRanges DEF SameRanges
    <3> QED
      BY <1>1, <3>2 DEF LoopHeads, EndOf
  <2>2. CASE ~CompileTranslate
    BY <1>1, <2>2, EntriesChange DEF LoopHeads, EndOf
  <2> QED
    BY <2>1, <2>2
<1> QED
  BY <1>0, <1>1, LinkInvNext

-----------------------------------------------------------------------------
(* The blocks, and the call of branchUnknown(). *)

\* Translate() adds one block or none.
LEMMA TranslateBlocks ==
    ASSUME TypeOK, NEW s \in Segs, Translate(s)
    PROVE  /\ Len(arm) \in Nat /\ DOMAIN arm = 1 .. Len(arm)
           /\ \A b \in DOMAIN arm : b \in DOMAIN arm' /\ arm'[b] = arm[b]
           /\ \/ UNCHANGED <<arm, heap>>
              \/ /\ DOMAIN arm' = 1 .. Len(arm) + 1 /\ (\E off \in OffsetsOf(s) : arm'[Len(arm) + 1] = Block(s, off))
                 /\ heap'[s].entry = Len(arm) + 1
                 /\ \A u \in Segs : /\ heap'[u].start = heap[u].start /\ heap'[u].len = heap[u].len
                                    /\ u # s => heap'[u].entry = heap[u].entry
<1> DEFINE n == Len(arm)
<1>1. n \in Nat /\ DOMAIN arm = 1 .. n
  BY LenProperties DEF TypeOK
<1>2. CASE arm' = arm /\ heap' = heap
  BY <1>1, <1>2
<1>3. ASSUME NEW off \in OffsetsOf(s), arm' = Append(arm, Block(s, off)), heap'[s].entry = n + 1,
             \A u \in Segs : /\ heap'[u].start = heap[u].start /\ heap'[u].len = heap[u].len
                             /\ u # s => heap'[u].entry = heap[u].entry
      PROVE  /\ \A b \in DOMAIN arm : b \in DOMAIN arm' /\ arm'[b] = arm[b]
             /\ DOMAIN arm' = 1 .. n + 1 /\ arm'[n + 1] = Block(s, off)
  <2>1. arm' \in Seq(BlockType(Len(arm')))
    BY TranslateType
  <2>2. Len(arm') = n + 1 /\ arm'[n + 1] = Block(s, off) /\ \A b \in 1 .. n : arm'[b] = arm[b]
    BY <1>1, <1>3, AppendProperties DEF TypeOK
  <2>3. DOMAIN arm' = 1 .. n + 1
    BY <2>1, <2>2, LenProperties
  <2> QED
    BY <1>1, <2>2, <2>3
<1> QED
  BY <1>1, <1>2, <1>3, TranslateHeap

\* What a block was emitted for does not change.
LEMMA BlocksStay ==
    ASSUME TypeOK, ChainOK, [Next]_vars, NEW b \in DOMAIN arm
    PROVE  b \in DOMAIN arm' /\ SameBlock(arm[b], arm'[b]) /\ Terminator(b)' = Terminator(b)
<1>1. b \in DOMAIN arm' /\ SameBlock(arm[b], arm'[b])
  <2>1. CASE CompileTranslate
    <3>1. cc.seg \in Segs /\ Translate(cc.seg)
      BY <2>1 DEF CompileTranslate, Compiling, TypeOK
    <3> QED
      BY <3>1, TranslateBlocks DEF SameBlock
  <2>2. CASE ~CompileTranslate
    BY <2>2, BlocksChange
  <2> QED
    BY <2>1, <2>2
<1>2. code' = code
  BY CodeStays
<1> QED
  BY <1>1, <1>2, SameCode DEF Terminator, SameBlock

\* A segment with code has the range and the last word of its block.
LEMMA EntryBlock ==
    ASSUME TypeOK, EntryFaithful, NEW s \in Segs, heap[s].entry # 0
    PROVE  LET b == heap[s].entry
           IN  /\ b \in DOMAIN arm /\ arm[b].owner = s
               /\ arm[b].start = heap[s].start /\ arm[b].len = heap[s].len
               /\ arm[b].start + arm[b].len = EndOf(heap, s) /\ Terminator(b) = LastInstr(s)
<1> DEFINE b == heap[s].entry
<1>1. b \in DOMAIN arm
  BY LenProperties DEF TypeOK, SegmentType
<1>2. arm[b].owner = s /\ arm[b].start = heap[s].start /\ arm[b].len = heap[s].len
  BY DEF EntryFaithful
<1> QED
  BY <1>1, <1>2 DEF EndOf, Terminator, LastInstr

LEMMA BlockFields ==
    ASSUME TypeOK, NEW b \in DOMAIN arm
    PROVE  /\ arm[b].owner \in Segs /\ arm[b].start \in Int /\ arm[b].len \in Int /\ arm[b].link \in 0 .. Len(arm)
           /\ Terminator(b) \in Instr /\ Terminator(b).v \in Int /\ b \in Nat \ {0} /\ b <= Len(arm)
<1>1. arm[b] \in BlockType(Len(arm)) /\ DOMAIN arm = 1 .. Len(arm) /\ Len(arm) \in Nat
  BY ElementOfSeq, LenProperties DEF TypeOK
<1>2. Terminator(b) \in Instr
  BY WordType DEF Terminator, TypeOK
<1> QED
  BY <1>1, <1>2 DEF BlockType, Instr

LEMMA BuBlock == ASSUME TypeOK, bu.phase # "idle" PROVE bu.blk \in DOMAIN arm /\ bu.seg \in Segs
BY LenProperties DEF TypeOK, BranchType

\* How branchUnknown() is called.
LEMMA GoToBu ==
    ASSUME TypeOK, EntryFaithful, cur # 0, GoTo
    PROVE  \/ bu' = bu
           \/ /\ cur \in DOMAIN arm /\ bu'.phase = "lookup" /\ bu'.blk = cur /\ bu'.seg = arm[cur].owner
              /\ bu'.kind \in {LastInstr(bu'.seg).k, "inv"}
              /\ bu'.kind \in PatchedKinds /\ heap[bu'.seg].entry = cur =>
                    bu'.tgt = UnknownTarget(Terminator(cur), arm[cur].start + arm[cur].len)
<1> DEFINE s == arm[cur].owner
           i == LastInstr(s)
           e == heap[s].start + heap[s].len
<1>1. cur \in DOMAIN arm /\ s \in Segs
  BY LenProperties, BlockFields DEF TypeOK
<1>2. CASE bu' # bu
  <2>1. PICK r, k : /\ bu' = [phase |-> "lookup", seg |-> s, blk |-> cur, tgt |-> r, kind |-> k]
                    /\ k \in {i.k, "inv"} /\ (~ByRegister(i) => r = UnknownTarget(i, e))
    BY <1>2 DEF GoTo
  <2>2. /\ bu'.phase = "lookup" /\ bu'.blk = cur /\ bu'.seg = s /\ bu'.tgt = r /\ bu'.kind = k
    BY <2>1
  <2>3. ASSUME k \in PatchedKinds, heap[s].entry = cur
        PROVE  r = UnknownTarget(Terminator(cur), arm[cur].start + arm[cur].len)
    <3>1. ~ByRegister(i)
      BY <2>1, <2>3 DEF ByRegister, PatchedKinds, BranchKinds
    <3>2. Terminator(cur) = i /\ arm[cur].start + arm[cur].len = e
      BY <1>1, <2>3, EntryBlock DEF EndOf
    <3> QED
      BY <2>1, <3>1, <3>2
  <2> QED
    BY <1>1, <2>1, <2>2, <2>3
<1> QED
  BY <1>2

\* The call lasts until it ends, with the arguments it began with.
LEMMA BuChange ==
    ASSUME TypeOK, ChainOK, EntryFaithful, [Next]_vars
    PROVE  \/ bu' = bu \/ bu'.phase = "idle"
           \/ /\ bu.phase # "idle" /\ bu'.phase # "idle" /\ bu'.blk = bu.blk /\ bu'.seg = bu.seg
              /\ bu'.tgt = bu.tgt /\ bu'.kind = bu.kind
           \/ /\ UNCHANGED <<heap, arm>>
              /\ cur \in DOMAIN arm /\ bu'.phase = "lookup" /\ bu'.blk = cur /\ bu'.seg = arm[cur].owner
              /\ bu'.kind \in {LastInstr(bu'.seg).k, "inv"}
              /\ bu'.kind \in PatchedKinds /\ heap[bu'.seg].entry = cur =>
                    bu'.tgt = UnknownTarget(Terminator(cur), arm[cur].start + arm[cur].len)
<1>1. CASE BranchLookup
  <2>1. bu' = bu \/ bu' = [bu EXCEPT !.phase = "link"]
    BY <1>1 DEF BranchLookup
  <2>2. bu \in BranchType(Len(arm)) /\ bu.phase = "lookup"
    BY <1>1 DEF TypeOK, BranchLookup, Answering
  <2> QED
    BY <2>1, <2>2 DEF BranchType
<1>2. CASE BranchLink
  BY <1>2 DEF BranchLink, NoCall
<1>3. CASE GuestBranch \/ GuestCall
  <2>1. GoTo /\ cur # 0 /\ UNCHANGED <<heap, arm>>
    BY <1>3 DEF GuestBranch, GuestCall, AtEndOf, cacheVars
  <2> QED
    BY <2>1, GoToBu
<1>4. ASSUME ~BranchLookup, ~BranchLink, ~GuestBranch, ~GuestCall PROVE bu' = bu
  BY <1>4 DEF Next, Recompiler, Compile, Delete, Branch, Debugger, CompileScan, CompileExpire, CompileTranslate,
     CompileExpired, CompileSplit, CompileChosen, DelCaller, DelFinish, Guest, GuestFallThrough,
     GuestReturn, DebuggerStart, DebuggerCompile, vars, callVars
<1> QED
  BY <1>1, <1>2, <1>3, <1>4

\* No segment comes by code that was there before.
LEMMA EntryKept ==
    ASSUME TypeOK, CompileOK, ChainOK, [Next]_vars, NEW s \in Segs, NEW b \in DOMAIN arm, heap'[s].entry = b
    PROVE  heap[s].entry = b /\ heap'[s].start = heap[s].start /\ heap'[s].len = heap[s].len
<1>1. b # 0 /\ b <= Len(arm) /\ b \in Nat
  BY BlockFields
<1>2. CASE CompileTranslate
  <2>1. cc.seg \in Segs /\ Translate(cc.seg)
    BY <1>2 DEF CompileTranslate, Compiling, TypeOK
  <2> QED
    BY <1>1, <2>1, TranslateBlocks
<1>3. CASE ~CompileTranslate
  BY <1>1, <1>3, EntriesChange
<1> QED
  BY <1>2, <1>3

LEMMA NextBu ==
    ASSUME TypeOK, CompileOK, ChainOK, EntryFaithful, BuOwner, BuTarget, [Next]_vars
    PROVE  BuOwner' /\ BuTarget'
<1>1. ASSUME bu'.phase # "idle"
      PROVE  /\ arm'[bu'.blk].owner = bu'.seg
             /\ bu'.kind \in PatchedKinds /\ heap'[bu'.seg].entry = bu'.blk =>
                   bu'.tgt = UnknownTarget(Terminator(bu.blk)', arm'[bu'.blk].start + arm'[bu'.blk].len)
  <2>1. CASE bu.phase # "idle" /\ bu'.blk = bu.blk /\ bu'.seg = bu.seg /\ bu'.tgt = bu.tgt /\ bu'.kind = bu.kind
    <3>1. bu.blk \in DOMAIN arm /\ bu.seg \in Segs
      BY <2>1, BuBlock
    <3>2. SameBlock(arm[bu.blk], arm'[bu.blk])
      BY <3>1, BlocksStay
    <3>3. heap'[bu.seg].entry = bu.blk => heap[bu.seg].entry = bu.blk
      BY <3>1, EntryKept
    <3>4. Terminator(bu.blk)' = Terminator(bu.blk)
      BY <2>1, <3>2, CodeStays, SameCode DEF Terminator, SameBlock
    <3> QED
      BY <2>1, <3>2, <3>3, <3>4 DEF BuOwner, BuTarget, SameBlock
  <2>2. CASE /\ UNCHANGED <<heap, arm>>
             /\ cur \in DOMAIN arm /\ bu'.phase = "lookup" /\ bu'.blk = cur /\ bu'.seg = arm[cur].owner
             /\ bu'.kind \in PatchedKinds /\ heap[bu'.seg].entry = cur =>
                   bu'.tgt = UnknownTarget(Terminator(cur), arm[cur].start + arm[cur].len)
    <3>1. Terminator(bu.blk)' = Terminator(cur)
      BY <2>2, CodeStays, SameCode DEF Terminator
    <3> QED
      BY <2>2, <3>1
  <2> QED
    BY <1>1, <2>1, <2>2, BuChange
<1>2. code' = code
  BY CodeStays
<1>3. BuOwner'
  BY <1>1, <1>2, LinkInvNext
<1>4. BuTarget'
  BY <1>1 DEF BuTarget, UnknownTarget
<1> QED
  BY <1>3, <1>4

-----------------------------------------------------------------------------
(* Where linked branches go. *)

\* What MapSound and EntryFaithful say of the segment mapped at a word.
LEMMA MappedBlock ==
    ASSUME TypeOK, MapSound, EntryFaithful, NEW a, SegAt(a) # NULL
    PROVE  LET t == SegAt(a)
           IN  /\ a \in Addr /\ t \in Segs /\ heap[t].start <= a /\ a < EndOf(heap, t)
               /\ heap[t].entry # 0 => a \in BlockWords(heap[t].entry)
<1> DEFINE t == SegAt(a)
<1>1. a \in Addr /\ mem[a] = t
  BY DEF SegAt
<1>2. t \in Segs /\ heap[t].start <= a /\ a < EndOf(heap, t)
  BY <1>1, MappedCovers
<1>3. ASSUME heap[t].entry # 0 PROVE a \in BlockWords(heap[t].entry)
  <2> HIDE DEF t
  <2> QED
    BY <1>1, <1>2, <1>3, EntryBlock DEF BlockWords, Words
<1> QED
  BY <1>1, <1>2, <1>3

\* The link of a block that Translate_Branch has set.
LEMMA InitialLinks ==
    ASSUME TypeOK, MapSound, EntryFaithful, LoopHeads, NEW s \in Segs, NEW off \in OffsetsOf(s)
    PROVE  LET i == LastInstr(s)
               l == InitialLink(s, off)
           IN  /\ i.k \in {"j", "jal"} /\ l # 0 => l \in DOMAIN arm /\ i.v \in BlockWords(l)
               /\ i.k = "br" /\ l = Len(arm) + 1 => EndOf(heap, s) + i.v = heap[s].start
<1> DEFINE i   == LastInstr(s)
           l   == InitialLink(s, off)
           tgt == TranslateTarget(i, heap[s].start + heap[s].len, off)
<1>0. Len(arm) \in Nat /\ DOMAIN arm = 1 .. Len(arm) /\ heap[s].start \in Int /\ heap[s].len \in Int /\ i.v \in Int
  BY LenProperties, SegmentFields, LastInstrType DEF TypeOK, Instr
<1>1. EntryAt(tgt) # 0 => /\ EntryAt(tgt) \in DOMAIN arm /\ tgt \in BlockWords(EntryAt(tgt))
  <2> SUFFICES ASSUME EntryAt(tgt) # 0
               PROVE  EntryAt(tgt) \in DOMAIN arm /\ tgt \in BlockWords(EntryAt(tgt))
    OBVIOUS
  <2>1. SegAt(tgt) # NULL /\ EntryAt(tgt) = heap[SegAt(tgt)].entry
    BY DEF EntryAt
  <2> HIDE DEF tgt
  <2>2. SegAt(tgt) \in Segs /\ tgt \in BlockWords(heap[SegAt(tgt)].entry)
    BY <2>1, MappedBlock
  <2> QED
    BY <2>1, <2>2, EntryBlock
<1>2. ASSUME i.k \in {"j", "jal"}, l # 0 PROVE l \in DOMAIN arm /\ i.v \in BlockWords(l)
  <2>1. ~IsBranch(i)
    BY <1>2 DEF IsBranch, BranchKinds
  <2>2. tgt = i.v /\ l = EntryAt(tgt)
    BY <1>2, <2>1 DEF InitialLink, LoopsBack, TranslateTarget, PatchedKinds
  <2> QED
    BY <1>1, <1>2, <2>2
<1>3. ASSUME i.k = "br", l = Len(arm) + 1 PROVE EndOf(heap, s) + i.v = heap[s].start
  <2>0. IsBranch(i) /\ off = i.v
    BY <1>3 DEF IsBranch, BranchKinds, OffsetsOf, BranchOffsets, BranchLinks, IsLink
  <2>1. tgt = EndOf(heap, s) + i.v
    BY <2>0 DEF TranslateTarget, EndOf
  <2>2. SegAt(tgt) = s
    <3> SUFFICES ASSUME SegAt(tgt) # s PROVE FALSE
      OBVIOUS
    <3>1. l = EntryAt(tgt)
      BY <1>3, <2>0 DEF InitialLink, LoopsBack, PatchedKinds, BranchKinds
    <3>2. l # 0 /\ l \notin DOMAIN arm
      BY <1>0, <1>3
    <3> QED
      BY <1>1, <3>1, <3>2
  <2>3. s # NULL
    BY ConstantsAssumption
  <2> HIDE DEF tgt
  <2>4. heap[s].start <= tgt /\ tgt < EndOf(heap, s) /\ tgt \in Int
    BY <2>2, <2>3, MappedBlock DEF Addr
  <2>5. heap[s].len > 0
    BY <1>0, <2>4 DEF EndOf
  <2>6. WordAt(EndOf(heap, s) - 1) = i
    BY <1>0 DEF EndOf, LastInstr
  <2>7. TranslateTarget(i, EndOf(heap, s), i.v) = tgt
    BY <2>0, <2>1 DEF TranslateTarget
  <2> QED
    BY <2>0, <2>1, <2>4, <2>5, <2>6, <2>7 DEF LoopHeads, HeadOrOut
<1> QED
  BY <1>2, <1>3

\* The link that branchUnknown() sets.
LEMMA PatchedLinks ==
    ASSUME TypeOK, MapSound, EntryFaithful, LinkInv, BranchLink, bu.kind \in PatchedKinds,
           SegAt(bu.tgt) # NULL
    PROVE  LET b == bu.blk
               i == Terminator(b)
               l == heap[SegAt(bu.tgt)].entry
           IN  /\ \A s \in Segs : heap[s].entry = b /\ i.k \in {"j", "jal"} /\ l # 0 => i.v \in BlockWords(l)
               /\ IsBranch(i) /\ l = b => i.v = 0 \/ MipsTarget(b) = arm[b].start
<1> DEFINE b == bu.blk
           i == Terminator(b)
           t == SegAt(bu.tgt)
<1>0. bu.phase # "idle" /\ b \in DOMAIN arm /\ bu.seg \in Segs /\ arm[b].owner = bu.seg /\ b # 0
  BY BuBlock, BlockFields DEF BranchLink, Answering, LinkInv, BuOwner
<1>1. /\ bu.tgt \in Addr /\ t \in Segs /\ heap[t].start <= bu.tgt /\ bu.tgt < EndOf(heap, t)
      /\ heap[t].entry # 0 => bu.tgt \in BlockWords(heap[t].entry)
  BY MappedBlock
<1>2. \A s \in Segs : heap[s].entry = b => s = bu.seg /\ bu.tgt = UnknownTarget(i, arm[b].start + arm[b].len)
  <2>1. \A s \in Segs : heap[s].entry = b => s = bu.seg
    BY <1>0, EntryBlock
  <2> QED
    BY <1>0, <2>1 DEF LinkInv, BuTarget
<1>3. ASSUME NEW s \in Segs, heap[s].entry = b, i.k \in {"j", "jal"}, heap[t].entry # 0
      PROVE  i.v \in BlockWords(heap[t].entry)
  <2>1. bu.tgt = i.v
    BY <1>2, <1>3 DEF UnknownTarget, IsBranch, BranchKinds
  <2> QED
    BY <1>1, <1>3, <2>1
<1>4. ASSUME IsBranch(i), heap[t].entry = b PROVE i.v = 0 \/ MipsTarget(b) = arm[b].start
  <2> DEFINE e == arm[b].start + arm[b].len
  <2>1. /\ bu.tgt = UnknownTarget(i, e) /\ arm[b].start = heap[t].start
        /\ e = EndOf(heap, t) /\ i = LastInstr(t)
    BY <1>0, <1>1, <1>2, <1>4, EntryBlock
  <2>2. bu.tgt = e - 1 + i.v /\ MipsTarget(b) = e + i.v /\ TranslateTarget(i, e, i.v) = e + i.v
    BY <1>4, <2>1 DEF UnknownTarget, MipsTarget, TranslateTarget
  <2>3. /\ arm[b].start \in Int /\ arm[b].len \in Int /\ e \in Int /\ i.v \in Int
    BY <1>0, BlockFields
  <2>4. WordAt(e - 1) = i /\ heap[t].len = arm[b].len
    <3>1. heap[t].len = arm[b].len
      BY <1>0, <1>1, <1>4, EntryBlock
    <3>2. WordAt(e - 1) = i
      BY <2>3 DEF Terminator
    <3> QED
      BY <3>1, <3>2
  <2>5. arm[b].len > 0
    <3>1. arm[b].start <= bu.tgt /\ bu.tgt < e /\ bu.tgt \in Int
      <4> HIDE DEF e, t
      <4> QED
        BY <1>1, <2>1 DEF Addr
    <3> QED
      BY <2>3, <3>1
  <2>6. HeadOrOut(arm[b].start, e)
    BY <1>1, <2>1, <2>4, <2>5 DEF LinkInv, LoopHeads
  <2>7. e + i.v = arm[b].start \/ ~(arm[b].start <= e + i.v /\ e + i.v < e)
    BY <1>4, <2>2, <2>4, <2>6 DEF HeadOrOut
  <2>8. arm[b].start <= e - 1 + i.v /\ e - 1 + i.v < e
    BY <1>1, <2>1, <2>2
  <2> HIDE DEF e
  <2> QED
    BY <2>2, <2>3, <2>7, <2>8
<1> QED
  BY <1>3, <1>4

LEMMA NextJumps ==
    ASSUME TypeOK, MapSound, CompileOK, ChainOK, EntryFaithful, LinkInv, JumpsLandInSegment, [Next]_vars
    PROVE  JumpsLandInSegment'
<1> SUFFICES ASSUME NEW s \in Segs, NEW b, b = heap'[s].entry, b # 0, Terminator(b)'.k \in {"j", "jal"},
                    arm'[b].link # 0
             PROVE  MipsTarget(b)' \in BlockWords(arm[b].link)'
  BY DEF JumpsLandInSegment
<1>1. MipsTarget(b)' = Terminator(b)'.v
  BY DEF MipsTarget, IsBranch, BranchKinds
<1>2. SUFFICES \E l \in DOMAIN arm : l = arm'[b].link /\ Terminator(b)'.v \in BlockWords(l)
  <2>1. PICK l \in DOMAIN arm : l = arm'[b].link /\ Terminator(b)'.v \in BlockWords(l)
    BY <1>2
  <2>2. arm'[l].start = arm[l].start /\ arm'[l].len = arm[l].len
    BY BlocksStay DEF SameBlock
  <2> QED
    BY <1>1, <2>1, <2>2 DEF BlockWords
<1>3. CASE b \in DOMAIN arm
  <2>1. heap[s].entry = b /\ Terminator(b)' = Terminator(b)
    BY <1>3, EntryKept, BlocksStay
  <2>2. CASE arm'[b].link = arm[b].link
    <3>1. arm[b].link \in DOMAIN arm
      BY <1>3, <2>2, BlockFields, LenProperties DEF TypeOK
    <3>2. MipsTarget(b) = Terminator(b).v
      BY <2>1 DEF MipsTarget, IsBranch, BranchKinds
    <3> QED
      BY <2>1, <2>2, <3>1, <3>2 DEF JumpsLandInSegment
  <2>3. CASE arm'[b].link # arm[b].link
    <3>1. ~CompileTranslate
      <4> SUFFICES ASSUME CompileTranslate PROVE FALSE
        OBVIOUS
      <4>1. cc.seg \in Segs /\ Translate(cc.seg)
        BY DEF CompileTranslate, Compiling, TypeOK
      <4> QED
        BY <1>3, <2>3, <4>1, TranslateBlocks
    <3>2. /\ BranchLink /\ b = bu.blk /\ bu.kind \in PatchedKinds
          /\ SegAt(bu.tgt) # NULL /\ arm'[b].link = heap[SegAt(bu.tgt)].entry
      BY <1>3, <2>3, <3>1, BlocksChange
    <3>3. heap[SegAt(bu.tgt)].entry \in DOMAIN arm
      BY <3>2, MappedBlock, EntryBlock
    <3> QED
      BY <2>1, <3>2, <3>3, PatchedLinks
  <2> QED
    BY <2>2, <2>3
<1>4. CASE b \notin DOMAIN arm
  <2>1. CompileTranslate
    <3> SUFFICES ASSUME ~CompileTranslate PROVE FALSE
      OBVIOUS
    <3>1. heap[s].entry = b
      BY EntriesChange
    <3> QED
      BY <1>4, <3>1, EntryBlock
  <2>2. cc.seg \in Segs /\ Translate(cc.seg)
    BY <2>1 DEF CompileTranslate, Compiling, TypeOK
  <2>3. \A u \in Segs : heap[u].entry # 0 => heap[u].entry \in DOMAIN arm
    BY EntryBlock
  <2>4. s = cc.seg /\ b = Len(arm) + 1 /\ \E off \in OffsetsOf(s) : arm'[b] = Block(s, off)
    BY <1>4, <2>2, <2>3, TranslateBlocks
  <2>5. PICK off \in OffsetsOf(s) :
           Terminator(b)' = LastInstr(s) /\ arm'[b].link = InitialLink(s, off)
    BY <2>4, CodeStays, SameCode DEF Terminator, LastInstr, Block
  <2> QED
    BY <2>5, InitialLinks DEF LinkInv
<1> QED
  BY <1>3, <1>4

LEMMA NextLoops ==
    ASSUME TypeOK, MapSound, CompileOK, ChainOK, EntryFaithful, LinkInv, SelfLoopsAtHead, [Next]_vars
    PROVE  SelfLoopsAtHead'
<1> SUFFICES ASSUME NEW b \in DOMAIN arm', Terminator(b)'.k = "br", arm'[b].link = b
             PROVE  arm'[b].start + arm'[b].len + Terminator(b)'.v = arm'[b].start \/ Terminator(b)'.v = 0
  BY DEF SelfLoopsAtHead, MipsTarget, IsBranch, BranchKinds
<1>1. CASE b \in DOMAIN arm
  <2>1. SameBlock(arm[b], arm'[b]) /\ Terminator(b)' = Terminator(b)
    BY <1>1, BlocksStay
  <2>2. MipsTarget(b) = arm[b].start + arm[b].len + Terminator(b).v
    BY <2>1 DEF MipsTarget, IsBranch, BranchKinds
  <2>3. CASE arm[b].link = b
    BY <1>1, <2>1, <2>2, <2>3 DEF SelfLoopsAtHead, SameBlock
  <2>4. CASE arm[b].link # b
    <3>1. ~CompileTranslate
      <4> SUFFICES ASSUME CompileTranslate PROVE FALSE
        OBVIOUS
      <4>1. cc.seg \in Segs /\ Translate(cc.seg)
        BY DEF CompileTranslate, Compiling, TypeOK
      <4> QED
        BY <1>1, <2>4, <4>1, TranslateBlocks
    <3>2. /\ BranchLink /\ b = bu.blk /\ bu.kind \in PatchedKinds
          /\ SegAt(bu.tgt) # NULL /\ heap[SegAt(bu.tgt)].entry = b
      BY <1>1, <2>4, <3>1, BlocksChange
    <3> QED
      BY <2>1, <2>2, <3>2, PatchedLinks DEF SameBlock, IsBranch, BranchKinds
  <2> QED
    BY <2>3, <2>4
<1>2. CASE b \notin DOMAIN arm
  <2>1. CompileTranslate
    BY <1>2, BlocksChange
  <2> DEFINE s == cc.seg
  <2>2. s \in Segs /\ Translate(s)
    BY <2>1 DEF CompileTranslate, Compiling, TypeOK
  <2>3. b = Len(arm) + 1 /\ \E off \in OffsetsOf(s) : arm'[b] = Block(s, off)
    BY <1>2, <2>2, TranslateBlocks
  <2> HIDE DEF s
  <2>4. PICK off \in OffsetsOf(s) :
        /\ Terminator(b)' = LastInstr(s) /\ arm'[b].link = InitialLink(s, off)
        /\ arm'[b].start = heap[s].start /\ arm'[b].start + arm'[b].len = EndOf(heap, s)
    BY <2>3, CodeStays, SameCode DEF Terminator, LastInstr, Block, EndOf
  <2> QED
    BY <2>2, <2>3, <2>4, InitialLinks DEF LinkInv
<1> QED
  BY <1>1, <1>2

-----------------------------------------------------------------------------
(* The theorems. *)

LinkInvariants == ChainInv /\ EntryFaithful /\ LinkInv /\ JumpsLandInSegment /\ SelfLoopsAtHead

LEMMA LinkInvariant == Spec => []LinkInvariants
<1>1. Init => LinkInvariants
  <2> SUFFICES ASSUME Init PROVE LinkInvariants
    OBVIOUS
  <2>1. EntryFaithful
    BY InitFaithful
  <2>2. LinkInv /\ JumpsLandInSegment /\ SelfLoopsAtHead
    BY DEF Init, NoCall, LinkInv, BuOwner, BuTarget, LoopHeads, JumpsLandInSegment, SelfLoopsAtHead, ZeroSegment
  <2>3. ChainInv
    <3>1. FallsOn
      BY DEF Init, FallsOn
    <3> QED
      BY <3>1, InitType, InitSound, InitCompile, InitChain DEF ChainInv
  <2> QED
    BY <2>1, <2>2, <2>3 DEF LinkInvariants
<1>2. ChainInv /\ EntryFaithful /\ [Next]_vars => EntryFaithful'
  BY NextFaithful DEF ChainInv
<1>3. ASSUME LinkInvariants, [Next]_vars PROVE LinkInv' /\ JumpsLandInSegment' /\ SelfLoopsAtHead'
  <2>1. BuOwner' /\ BuTarget' /\ LoopHeads'
    BY <1>3, NextBu, NextLoopHeads DEF LinkInvariants, ChainInv, LinkInv
  <2> QED
    BY <1>3, <2>1, NextJumps, NextLoops DEF LinkInvariants, ChainInv, LinkInv
<1> QED
  BY <1>1, <1>2, <1>3, ChainInvariant, PTL DEF Spec, LinkInvariants

\* A linked J or JAL in the code of a segment enters a block that holds its
\* target, whether it was linked when it was translated or by branchUnknown().
THEOREM JumpsLand == Spec => []JumpsLandInSegment
BY LinkInvariant, PTL DEF LinkInvariants

\* A branch without link that is linked to its own block goes to the first word
\* of it, where the loop re-enters, or is one to the next word that
\* branchUnknown() has linked.  For those that link this is not so: they are
\* translated with the offset of a literal (LinkingLoopsReturn).
THEOREM LoopsEnterAtHead == Spec => []SelfLoopsAtHead
BY LinkInvariant, PTL DEF LinkInvariants

-----------------------------------------------------------------------------
(* What delSegment() and the caller lists keep. *)

\* The segment u is among the callers of t from the k-th on: twice, if it also
\* branches to t, as delSegment() spends one entry on clearing that branch.
Listed(h, u, t, k) ==
    \E i \in k .. Len(h[t].callers) :
        /\ h[t].callers[i] = u
        /\ h[u].br = t => \E j \in k .. Len(h[t].callers) : j # i /\ h[t].callers[j] = u

\* The segment u continues to another and the else-if of delSegment() is not
\* met by a JALR.
Follower(h, u) == h[u].len > 0 /\ TailOf(h[u]).k # "jalr" /\ h[u].cont # NULL

\* What u continues to lies behind it and is in use; u has not been passed over
\* by a delSegment() that is under way for it.
Follows(h, L, d, u) ==
    LET t == h[u].cont
    IN  /\ t \in L /\ h[t].start = EndOf(h, u) /\ Listed(h, u, t, 1)
        /\ \A f \in DOMAIN d : d[f].seg = t => Listed(h, u, t, d[f].i)

InCalls(d) == {d[f].seg : f \in DOMAIN d}

Called(h, L, d) == \A u \in L \ InCalls(d) : Follower(h, u) => Follows(h, L, d, u)

\* What ends a super block continues to nothing.
EndsOK(h, L) == \A u \in L : h[u].len > 0 /\ EndsSuperBlock(TailOf(h[u])) => h[u].cont = NULL

\* The segment CompileCodeAt() allocated last waits for the one to chain to it.
PrevOK(c, h, L) ==
    c.phase = "split" /\ c.prev # NULL =>
        /\ h[c.prev].br \in L \cup {NULL} /\ h[c.prev].cont = NULL
        /\ h[c.prev].len > 0 => ~EndsSuperBlock(TailOf(h[c.prev]))

\* The segment a JR or JALR is resolved for still ends in it, unless the
\* compilation of the target has used its address again.
BuKind(b, h, L) ==
    /\ b.phase = "link" => b.kind \in PatchedKinds \cup {"jr", "jalr"}
    /\ b.phase # "idle" /\ b.kind \in {"jr", "jalr"} /\ b.seg \in L /\ h[b.seg].len > 0 =>
          TailOf(h[b.seg]).k = b.kind \/ (b.phase = "link" /\ h[b.seg].start >= b.tgt)

CallersInv ==
    /\ halted = "no" => Called(heap, live, dels)
    /\ EndsOK(heap, live) /\ PrevOK(cc, heap, live) /\ BuKind(bu, heap, live)

LEMMA CallersInvNext ==
    ASSUME code' = code
    PROVE  CallersInv' <=> /\ halted' = "no" => Called(heap', live', dels')
                           /\ EndsOK(heap', live') /\ PrevOK(cc', heap', live') /\ BuKind(bu', heap', live')
<1>1. \A a : WordAt(a)' = WordAt(a)
  BY SameCode
<1> QED
  BY <1>1 DEF CallersInv, Called, EndsOK, PrevOK, BuKind, Follower, Follows, Listed, TailOf, EndOf, InCalls

LEMMA InitCallers == Init => CallersInv
BY StartCompileFields DEF Init, CallersInv, Called, EndsOK, PrevOK, BuKind, NoCall

-----------------------------------------------------------------------------
(* Splitting. *)

\* A segment that splitting chains to one that is new.
NewlyChained(u) ==
    LET t == heap'[u].cont
    IN  /\ t \in live' \ live /\ heap'[t].start = EndOf(heap', u)
        /\ heap'[t].callers = <<u>> /\ heap'[u].br # t
        /\ heap'[u].len > 0 => ~EndsSuperBlock(TailOf(heap'[u]))

\* The last of the chain.
NewlyLast(u) ==
    /\ u \notin live /\ heap'[u].cont = NULL /\ heap'[u].br \in live' \cup {NULL}
    /\ cc'.phase = "split" => ~EndsSuperBlock(TailOf(heap'[u]))

\* The end of the chain so far, if there is one.
LEMMA PrevFields ==
    ASSUME TypeOK, CompileOK, ChainOK, PrevOK(cc, heap, live), cc.phase = "split", cc.prev # NULL
    PROVE  /\ cc.prev \in live /\ cc.prev \in Segs /\ EndOf(heap, cc.prev) = cc.addr + cc.start
           /\ heap[cc.prev].br \in live \cup {NULL} /\ heap[cc.prev].cont = NULL
           /\ heap[cc.prev].len > 0 => ~EndsSuperBlock(TailOf(heap[cc.prev]))
<1>1. cc.prev \in live /\ cc.start # 0
  BY DEF CompileOK
<1>2. cc.addr + cc.start # cc.addr
  BY <1>1 DEF TypeOK, CompileType, Addr
<1>3. EndOf(heap, cc.prev) = cc.addr + cc.start
  BY <1>2 DEF ChainOK, ChainIs, Growing
<1> QED
  BY <1>1, <1>3 DEF TypeOK, PrevOK

LEMMA SplitOneChains ==
    ASSUME TypeOK, MapSound, TypeOK', MapSound', CompileOK, ChainOK, PrevOK(cc, heap, live), cc.phase = "split",
           NEW x \in cc.start .. cc.n - 1, SplitOne(x)
    PROVE  /\ \A u \in live' : \/ u \in live /\ heap'[u].cont = heap[u].cont
                               \/ NewlyChained(u)
                               \/ NewlyLast(u) /\ u = cc'.prev
           /\ \A u \in live' \ live : heap'[u].start >= cc.addr
           /\ NewlyLast(cc'.prev)
<1> DEFINE f == cc.addr + cc.start
           e == cc.addr + x + 1
           v == cc.prev
<1>0. f \in Int /\ e \in Int /\ f >= cc.addr /\ f < e /\ cc.addr + x = e - 1
  <2>1. cc.addr \in Int /\ cc.start \in Int /\ cc.n \in Int /\ cc.start >= 0
    BY DEF TypeOK, CompileType, Addr, CompileOK
  <2> QED
    BY <2>1
<1>1. PICK s \in Segs, r \in SegmentType(Len(arm)) :
            /\ Cut(r, f, e) /\ Adds(mem, heap, live, v, s, r, mem', heap', live')
            /\ r.br = NULL \/ \E a \in Addr : r.br = mem'[a]
            /\ cc' = Advance(cc, IF EndsSuperBlock(Word(x)) THEN "chosen" ELSE "split", s, x + 1, x + 1)
  BY DEF SplitOne
<1>2. Added(mem, heap, live, v, s, r, mem', heap', live')
  BY <1>1, AddsChange
<1>3. /\ cc'.prev = s /\ (cc'.phase = "split" => ~EndsSuperBlock(Word(x)))
  BY <1>1, AdvanceFields DEF TypeOK
<1>4. r.br \in live' \cup {NULL}
  BY <1>1 DEF MapSound
<1>5. /\ r.start = f /\ r.len = e - f /\ r.cont = NULL /\ r.callers = <<>>
  BY <1>1 DEF Cut
<1>6. TailOf(heap'[s]) = Word(x)
  <2>1. heap'[s].start = f /\ heap'[s].len = e - f
    BY <1>2, <1>5 DEF Added
  <2>2. f + (e - f) - 1 = cc.addr + x
    <3> HIDE DEF f, e
    <3> QED BY <1>0
  <2> QED
    BY <2>1, <2>2 DEF TailOf, Word
<1> HIDE DEF f, e
<1>7. NewlyLast(s)
  BY <1>2, <1>3, <1>4, <1>5, <1>6 DEF NewlyLast, Added
<1>8. ASSUME v # NULL PROVE NewlyChained(v)
  <2>1. /\ v \in live /\ v \in Segs /\ EndOf(heap, v) = f
        /\ heap[v].br \in live \cup {NULL} /\ heap[v].cont = NULL
        /\ heap[v].len > 0 => ~EndsSuperBlock(TailOf(heap[v]))
    BY <1>8, PrevFields DEF f
  <2>2. v \in Segs \ {s} /\ s \in live' \ live /\ s \in Segs
    BY <1>2, <2>1 DEF Added
  <2>3. /\ heap'[v].start = heap[v].start /\ heap'[v].len = heap[v].len
        /\ heap'[v].br = heap[v].br /\ heap'[v].cont = s
    BY <1>2, <2>2 DEF Added
  <2>4. heap'[s].start = f /\ heap'[s].callers = <<v>>
    BY <1>2, <1>5, <1>8 DEF Added
  <2>5. s # NULL
    BY <2>2, ConstantsAssumption
  <2> QED
    BY <2>1, <2>2, <2>3, <2>4, <2>5 DEF NewlyChained, EndOf, TailOf
<1>9. ASSUME NEW u \in live', u # s, u # v PROVE u \in live /\ heap'[u].cont = heap[u].cont
  BY <1>2, <1>9 DEF Added
<1>10. heap'[s].start >= cc.addr /\ live' \ live = {s}
  BY <1>0, <1>2, <1>5 DEF Added
<1>11. NULL \notin live'
  BY ConstantsAssumption DEF TypeOK
<1> QED
  BY <1>3, <1>7, <1>8, <1>9, <1>10, <1>11

LEMMA SplitTwoChains ==
    ASSUME TypeOK, MapSound, TypeOK', CompileOK, ChainOK, PrevOK(cc, heap, live), cc.phase = "split",
           NEW x \in cc.start .. cc.n - 1, SplitTwo(x)
    PROVE  /\ \A u \in live' : \/ u \in live /\ heap'[u].cont = heap[u].cont
                               \/ NewlyChained(u)
                               \/ NewlyLast(u) /\ u = cc'.prev
           /\ \A u \in live' \ live : heap'[u].start >= cc.addr
           /\ NewlyLast(cc'.prev)
<1> DEFINE f == cc.addr + cc.start
           e == cc.addr + x + 1
           w == cc.addr + x
           v == cc.prev
<1>0. /\ cc.addr \in Int /\ cc.start \in Int /\ cc.n \in Int /\ cc.start >= 0
      /\ f \in Int /\ e \in Int /\ w \in Int /\ f >= cc.addr /\ f <= w /\ w = e - 1 /\ w < cc.addr + cc.n
  <2>1. cc.addr \in Int /\ cc.start \in Int /\ cc.n \in Int /\ cc.start >= 0
    BY DEF TypeOK, CompileType, Addr, CompileOK
  <2> QED
    BY <2>1
<1>a. PICK s, t \in Segs, p, q \in SegmentType(Len(arm)), mid \in f .. w :
          SplitInto(x, s, t, p, q, mid)
  BY DEF SplitTwo
<1>1. PICK m, h, L :
            /\ Cut(p, f, mid) /\ p.br = NULL /\ Cut(q, mid, e) /\ q.br = NULL
            /\ Adds(mem, heap, live, v, s, p, m, h, L)
            /\ Adds(m, h, L, s, t, q, mem', heap', live')
            /\ ~EndsSuperBlock(Word(x))
            /\ cc' = Advance(cc, "split", t, x + 1, x + 1)
  BY <1>a DEF SplitInto
<1>2. Added(mem, heap, live, v, s, p, m, h, L)
  BY <1>1, AddsChange
<1>3. Added(m, h, L, s, t, q, mem', heap', live')
  BY <1>1, AddsChange
<1>4. cc'.prev = t
  BY <1>1, AdvanceFields DEF TypeOK
<1>5. mid \in Int /\ f <= mid /\ mid <= w
  <2> HIDE DEF f, w
  <2> QED
    BY <1>0
<1>6. /\ p.start = f /\ p.len = mid - f /\ p.cont = NULL /\ p.callers = <<>>
      /\ q.start = mid /\ q.len = e - mid /\ q.cont = NULL /\ q.callers = <<>>
  BY <1>1 DEF Cut
<1>7. ~EndsSuperBlock(WordAt(mid + (e - mid) - 1))
  <2>1. mid + (e - mid) - 1 = cc.addr + x
    <3> HIDE DEF f, e
    <3> QED BY <1>0, <1>5
  <2> QED
    BY <1>1, <2>1 DEF Word
<1>8. mid - f > 0 => ~EndsSuperBlock(WordAt(f + (mid - f) - 1))
  <2> SUFFICES ASSUME mid - f > 0 PROVE ~EndsSuperBlock(WordAt(f + (mid - f) - 1))
    OBVIOUS
  <2> DEFINE y == mid - 1 - cc.addr
  <2>1. y \in 0 .. cc.n - 2 /\ f + (mid - f) - 1 = cc.addr + y
    <3> HIDE DEF f, e, w
    <3> QED BY <1>0, <1>5, SMTT(30)
  <2>2. cc.n # 0
    BY <1>0, SMTT(30) DEF CompileOK
  <2> HIDE DEF y
  <2>3. ~EndsSuperBlock(Word(y))
    BY <2>1, <2>2, WordsOfBlock
  <2> QED
    BY <2>1, <2>3 DEF Word
<1>9. f + (mid - f) = mid
  <2> HIDE DEF f
  <2> QED BY <1>0, <1>5
<1>10. /\ v = NULL \/ v \in live
       /\ s \notin live /\ s \in L /\ s # v /\ t \notin L /\ t # s /\ L = live \cup {s} /\ live' = L \cup {t}
       /\ s \in Segs \ {t} /\ t \in Segs /\ t # v
  BY <1>2, <1>3, ConstantsAssumption DEF Added, CompileOK
<1> HIDE DEF f, e, w
<1>11. NewlyLast(t)
  <2>1. /\ heap'[t].start = mid /\ heap'[t].len = e - mid /\ heap'[t].cont = NULL /\ heap'[t].br = NULL
    BY <1>1, <1>3, <1>6 DEF Added
  <2> QED
    BY <1>7, <1>10, <2>1 DEF NewlyLast, TailOf
<1>12. NewlyChained(s)
  <2>1. /\ h[s].start = f /\ h[s].len = mid - f /\ h[s].br = NULL
    BY <1>1, <1>2, <1>6 DEF Added
  <2>2. /\ heap'[s].start = f /\ heap'[s].len = mid - f /\ heap'[s].br = NULL /\ heap'[s].cont = t
    BY <1>3, <1>10, <2>1 DEF Added
  <2>3. heap'[t].start = mid /\ heap'[t].callers = <<s>>
    BY <1>3, <1>6, <1>10, ConstantsAssumption DEF Added
  <2> QED
    BY <1>8, <1>9, <1>10, <2>2, <2>3, ConstantsAssumption DEF NewlyChained, EndOf, TailOf
<1>13. ASSUME v # NULL PROVE NewlyChained(v)
  <2>1. /\ v \in live /\ v \in Segs /\ EndOf(heap, v) = f
        /\ heap[v].br \in live \cup {NULL} /\ heap[v].cont = NULL
        /\ heap[v].len > 0 => ~EndsSuperBlock(TailOf(heap[v]))
    BY <1>13, PrevFields DEF f
  <2>2. v \in Segs \ {s} /\ v \in Segs \ {t} /\ v # s /\ v # t /\ s \in live' \ live /\ s # NULL
    BY <1>10, <2>1, ConstantsAssumption
  <2>3. /\ h[v].start = heap[v].start /\ h[v].len = heap[v].len
        /\ h[v].br = heap[v].br /\ h[v].cont = s
    BY <1>2, <2>2 DEF Added
  <2>4. /\ heap'[v].start = h[v].start /\ heap'[v].len = h[v].len
        /\ heap'[v].br = h[v].br /\ heap'[v].cont = h[v].cont
    BY <1>3, <2>2 DEF Added
  <2>5. h[s].start = f /\ h[s].callers = <<v>>
    BY <1>2, <1>6, <1>13 DEF Added
  <2>6. heap'[s].start = h[s].start /\ heap'[s].callers = h[s].callers
    BY <1>3, <1>10 DEF Added
  <2> QED
    BY <1>10, <2>1, <2>2, <2>3, <2>4, <2>5, <2>6 DEF NewlyChained, EndOf, TailOf
<1>14. ASSUME NEW u \in live', u # s, u # t, u # v PROVE u \in live /\ heap'[u].cont = heap[u].cont
  <2>1. u \in live /\ u \in Segs \ {s} /\ u \in Segs \ {t}
    BY <1>10, <1>14 DEF TypeOK
  <2> QED
    BY <1>2, <1>3, <1>14, <2>1 DEF Added
<1>15. heap'[s].start >= cc.addr /\ heap'[t].start >= cc.addr /\ live' \ live \subseteq {s, t}
  <2>1. heap'[t].start = mid /\ h[s].start = f
    BY <1>2, <1>3, <1>6 DEF Added
  <2>2. heap'[s].start = h[s].start
    BY <1>3, <1>10 DEF Added
  <2> QED
    BY <1>0, <1>5, <1>10, <2>1, <2>2
<1>16. NULL \notin live'
  BY ConstantsAssumption DEF TypeOK
<1> QED
  BY <1>4, <1>11, <1>12, <1>13, <1>14, <1>15, <1>16

LEMMA SplitChains ==
    ASSUME TypeOK, MapSound, TypeOK', MapSound', CompileOK, ChainOK, PrevOK(cc, heap, live), cc.phase = "split",
           NEW x \in cc.start .. cc.n - 1, SplitOne(x) \/ SplitTwo(x)
    PROVE  /\ \A u \in live' : \/ u \in live /\ heap'[u].cont = heap[u].cont
                               \/ NewlyChained(u)
                               \/ NewlyLast(u) /\ u = cc'.prev
           /\ \A u \in live' \ live : heap'[u].start >= cc.addr
           /\ NewlyLast(cc'.prev)
BY SplitOneChains, SplitTwoChains

\* A segment newly chained is the one caller of what it continues to.
LEMMA NewlyFollows ==
    ASSUME NEW u, NewlyChained(u)
    PROVE  Follows(heap', live', <<>>, u)
<1> DEFINE t == heap'[u].cont
           q == heap'[t].callers
<1>1. q = <<u>> /\ heap'[u].br # t /\ t \in live' /\ heap'[t].start = EndOf(heap', u)
  BY DEF NewlyChained
<1>2. Len(q) = 1 /\ q[1] = u /\ 1 \in 1 .. 1
  BY <1>1
<1>3. Listed(heap', u, t, 1)
  <2>1. 1 \in 1 .. Len(q)
    BY <1>2
  <2> QED
    BY <1>1, <1>2, <2>1 DEF Listed
<1> QED
  BY <1>1, <1>3 DEF Follows

LEMMA CompileSplitCallers ==
    ASSUME TypeOK, MapSound, TypeOK', MapSound', CompileOK, ChainOK, CallersInv, CompileSplit
    PROVE  CallersInv'
<1>1. /\ cc.phase = "split" /\ dels = <<>> /\ halted = "no" /\ UNCHANGED <<code, dels, bu>>
  BY DEF CompileSplit, Compiling
<1>2. CASE UNCHANGED <<mem, heap, live, cc>> /\ halted' = "runaway_length"
  BY <1>1, <1>2, CallersInvNext DEF CallersInv
<1>3. ASSUME NEW x \in cc.start .. cc.n - 1, SplitOne(x) \/ SplitTwo(x), halted' = "no"
      PROVE  CallersInv'
  <2>1. PrevOK(cc, heap, live) /\ Called(heap, live, <<>>) /\ EndsOK(heap, live) /\ BuKind(bu, heap, live)
    BY <1>1 DEF CallersInv
  <2>2. /\ \A u \in live' : \/ u \in live /\ heap'[u].cont = heap[u].cont
                            \/ NewlyChained(u)
                            \/ NewlyLast(u) /\ u = cc'.prev
        /\ \A u \in live' \ live : heap'[u].start >= cc.addr
        /\ NewlyLast(cc'.prev)
    BY <1>1, <1>3, <2>1, SplitChains
  <2>3. ASSUME NEW u \in live
        PROVE  /\ u \in live'
               /\ heap'[u].start = heap[u].start /\ heap'[u].len = heap[u].len
               /\ heap'[u].br = heap[u].br /\ heap'[u].callers = heap[u].callers
               /\ TailOf(heap'[u]) = TailOf(heap[u])
    BY <1>3, SplitKeeps DEF TailOf
  <2>4. Called(heap', live', dels')
    <3> SUFFICES ASSUME NEW u \in live', Follower(heap', u) PROVE Follows(heap', live', <<>>, u)
      BY <1>1 DEF Called
    <3>1. CASE u \in live /\ heap'[u].cont = heap[u].cont
      <4>1. Follower(heap, u) /\ u \notin InCalls(<<>>)
        BY <2>3, <3>1 DEF Follower, InCalls
      <4>2. Follows(heap, live, <<>>, u)
        BY <2>1, <3>1, <4>1 DEF Called
      <4>3. heap[u].cont \in live
        BY <4>2 DEF Follows
      <4> QED
        BY <2>3, <3>1, <4>2, <4>3 DEF Follows, Listed, EndOf
    <3>2. CASE NewlyChained(u)
      BY <3>2, NewlyFollows
    <3>3. CASE NewlyLast(u)
      BY <3>3 DEF NewlyLast, Follower
    <3> QED
      BY <2>2, <3>1, <3>2, <3>3
  <2>5. EndsOK(heap', live')
    <3> SUFFICES ASSUME NEW u \in live', heap'[u].len > 0, EndsSuperBlock(TailOf(heap'[u]))
                 PROVE  heap'[u].cont = NULL
      BY DEF EndsOK
    <3>1. CASE u \in live /\ heap'[u].cont = heap[u].cont
      BY <2>1, <2>3, <3>1 DEF EndsOK
    <3> QED
      BY <2>2, <3>1 DEF NewlyChained, NewlyLast
  <2>6. PrevOK(cc', heap', live')
    BY <2>2 DEF PrevOK, NewlyLast
  <2>7. BuKind(bu', heap', live')
    <3>1. bu.phase # "idle" => bu.phase = "link" /\ bu.tgt = cc.addr
      BY <1>1 DEF CompileOK
    <3>2. CASE bu.seg \in live
      BY <1>1, <2>1, <2>3, <3>2 DEF BuKind
    <3>3. CASE bu.seg \notin live
      BY <1>1, <2>1, <2>2, <3>1, <3>3 DEF BuKind
    <3> QED
      BY <3>2, <3>3
  <2> QED
    BY <1>1, <2>4, <2>5, <2>6, <2>7, CallersInvNext
<1> QED
  BY <1>2, <1>3, SplitCases

-----------------------------------------------------------------------------
(* Deleting: a caller that continues to the segment is met in its list.       *)

\* Nothing changes that Follows depends on.
SameLinks(g, h) ==
    \A u \in Segs : /\ h[u].start = g[u].start /\ h[u].len = g[u].len /\ h[u].cont = g[u].cont
                    /\ h[u].br = g[u].br /\ h[u].callers = g[u].callers

LEMMA UnchangedCallers ==
    ASSUME TypeOK, CallersInv, code' = code, live' = live, SameLinks(heap, heap'),
           halted' = "no" => halted = "no" /\ dels' = dels, BuKind(bu', heap, live),
           cc'.phase = "split" => cc'.prev = NULL \/ (cc.phase = "split" /\ cc'.prev = cc.prev)
    PROVE  CallersInv'
<1>1. live \subseteq Segs /\ NULL \notin Segs
  BY ConstantsAssumption DEF TypeOK
<1>2. \A u \in Segs : TailOf(heap'[u]) = TailOf(heap[u]) /\ EndOf(heap', u) = EndOf(heap, u)
  BY DEF SameLinks, TailOf, EndOf
<1>3. halted' = "no" => Called(heap', live', dels')
  <2> SUFFICES ASSUME halted' = "no", NEW u \in live \ InCalls(dels), Follower(heap', u)
               PROVE  Follows(heap', live, dels, u)
    BY DEF Called
  <2>1. u \in Segs /\ Follower(heap, u)
    BY <1>1, <1>2 DEF Follower, SameLinks
  <2>2. Follows(heap, live, dels, u)
    BY <2>1 DEF CallersInv, Called
  <2>3. heap[u].cont \in Segs
    BY <1>1, <2>2 DEF Follows
  <2> DEFINE v == heap[u].cont
  <2>4. /\ heap'[u].cont = v /\ heap'[u].br = heap[u].br
        /\ heap'[v].start = heap[v].start /\ heap'[v].callers = heap[v].callers
    BY <2>1, <2>3 DEF SameLinks
  <2>5. \A k : Listed(heap, u, v, k) => Listed(heap', u, v, k)
    BY <2>4 DEF Listed
  <2> QED
    BY <1>2, <2>1, <2>2, <2>4, <2>5 DEF Follows
<1>4. EndsOK(heap', live') /\ BuKind(bu', heap', live')
  BY <1>1, <1>2 DEF CallersInv, EndsOK, BuKind, SameLinks
<1>5. PrevOK(cc', heap', live')
  <2> SUFFICES ASSUME cc'.phase = "split", cc'.prev # NULL
               PROVE  /\ heap'[cc'.prev].br \in live \cup {NULL} /\ heap'[cc'.prev].cont = NULL
                      /\ heap'[cc'.prev].len > 0 => ~EndsSuperBlock(TailOf(heap'[cc'.prev]))
    BY DEF PrevOK
  <2>1. cc.phase = "split" /\ cc'.prev = cc.prev /\ cc.prev \in Segs
    BY DEF TypeOK, CompileType
  <2> QED
    BY <1>2, <2>1 DEF CallersInv, PrevOK, SameLinks
<1> QED
  BY <1>3, <1>4, <1>5, CallersInvNext

\* One entry of the list of t is spent, on a segment that is then on its way
\* to be deleted, does not continue to t, or no longer branches to t.
LEMMA DelCallerCallers ==
    ASSUME TypeOK, CallersInv, DelCaller
    PROVE  CallersInv'
<1> DEFINE s == DelFrame.seg
           i == DelFrame.i
           c == heap[s].callers[i]
           n == Len(dels)
<1>1. /\ s \in Segs /\ i \in Nat \ {0} /\ i <= Len(heap[s].callers) /\ c \in Segs
      /\ n \in Nat \ {0} /\ DOMAIN dels = 1 .. n /\ dels[n].seg = s /\ dels[n].i = i
      /\ \A k \in 1 .. n - 1 : dels'[k] = dels[k]
      /\ dels'[n].seg = s /\ dels'[n].i = i + 1
      /\ \/ DOMAIN dels' = 1 .. n /\ ~(heap[c].br # s /\ heap[c].cont = s)
         \/ /\ heap[c].br # s /\ heap[c].cont = s /\ heap' = heap
            /\ DOMAIN dels' = 1 .. n + 1 /\ dels'[n + 1].seg = c /\ dels'[n + 1].i = 1
  BY DelCallerFrames
<1>2. /\ UNCHANGED <<code, live, cc, bu>> /\ halted = "no" /\ halted' = "no"
      /\ heap[c].br = s => heap' = [heap EXCEPT ![c].br = NULL]
  BY DEF DelCaller
<1>3. /\ SameChain(heap, heap')
      /\ \A u \in Segs : heap'[u].callers = heap[u].callers /\ heap'[u].br \in {heap[u].br, NULL}
  BY DelCallerHeap
<1>4. heap[c].br = s => heap'[c].br = NULL
  BY <1>1, <1>2 DEF TypeOK, SegmentType
<1>5. live \subseteq Segs /\ NULL \notin Segs
  BY ConstantsAssumption DEF TypeOK
<1>6. \A u \in Segs : /\ TailOf(heap'[u]) = TailOf(heap[u]) /\ heap'[u].cont = heap[u].cont
                      /\ heap'[u].start = heap[u].start /\ heap'[u].len = heap[u].len
                      /\ EndOf(heap', u) = EndOf(heap, u)
  BY <1>3 DEF SameChain, TailOf, EndOf
<1> HIDE DEF s, i, c, n
<1>7. Called(heap', live', dels')
  <2> SUFFICES ASSUME NEW u \in live \ InCalls(dels'), Follower(heap', u)
               PROVE  Follows(heap', live, dels', u)
    BY <1>2 DEF Called
  <2> DEFINE t == heap[u].cont
  <2>1. 1 .. n = (1 .. n - 1) \cup {n} /\ 1 .. n + 1 = (1 .. n - 1) \cup {n, n + 1} /\ n \in 1 .. n
    BY <1>1
  <2>2. u \in Segs /\ Follower(heap, u)
    BY <1>5, <1>6 DEF Follower
  <2>3. u \notin InCalls(dels)
    <3> SUFFICES ASSUME NEW k \in 1 .. n, dels[k].seg = u PROVE FALSE
      BY <1>1 DEF InCalls
    <3>1. k \in DOMAIN dels' /\ dels'[k].seg = dels[k].seg
      BY <1>1, <2>1
    <3> QED
      BY <3>1 DEF InCalls
  <2>4. /\ t \in live /\ heap[t].start = EndOf(heap, u) /\ Listed(heap, u, t, 1)
        /\ \A k \in 1 .. n : dels[k].seg = t => Listed(heap, u, t, dels[k].i)
    BY <1>1, <1>2, <2>2, <2>3 DEF CallersInv, Called, Follows
  <2>5. t \in Segs /\ t # NULL /\ heap'[u].cont = t
    BY <1>5, <1>6, <2>2, <2>4
  <2> HIDE DEF t
  <2>6. \A k : Listed(heap, u, t, k) => Listed(heap', u, t, k)
    <3>1. heap'[t].callers = heap[t].callers /\ (heap'[u].br = t => heap[u].br = t)
      BY <1>3, <2>2, <2>5
    <3> QED
      BY <3>1 DEF Listed
  <2>7. s = t => Listed(heap', u, t, i + 1)
    <3> SUFFICES ASSUME s = t PROVE Listed(heap', u, t, i + 1)
      OBVIOUS
    <3> DEFINE q == heap[t].callers
               l == Len(q)
    <3>1. Listed(heap, u, t, i)
      BY <1>1, <2>1, <2>4
    <3>2. heap'[t].callers = q /\ q \in Seq(Segs) /\ l \in Nat
      BY <1>3, <2>5, SegmentFields, LenProperties DEF TypeOK
    <3>3. c = q[i]
      BY DEF c, s, i
    <3> HIDE DEF q
    <3>4. PICK a \in i .. l : q[a] = u /\ (heap[u].br = t => \E j \in i .. l : j # a /\ q[j] = u)
      BY <3>1 DEF Listed, q
    <3>5. \A j \in i .. l : j # i => j \in i + 1 .. l
      BY <1>1, <3>2
    <3>6. heap'[u].br = t => heap[u].br = t /\ (heap[c].br = s => c # u)
      BY <1>3, <1>4, <2>2, <2>5
    <3>7. CASE c = u
      <4>1. heap[c].br = s
        <5>1. heap[u].cont = s
          BY DEF t
        <5>2. DOMAIN dels' = 1 .. n + 1 => u \in InCalls(dels')
          BY <1>1, <2>1, <3>7, <5>1 DEF InCalls
        <5> QED
          BY <1>1, <3>7, <5>1, <5>2
      <4>2. heap'[u].br # t
        BY <3>6, <3>7, <4>1
      <4>3. \E j \in i .. l : j # i /\ q[j] = u
        BY <3>4, <3>7, <4>1
      <4> QED
        BY <3>2, <3>5, <4>2, <4>3 DEF Listed
    <3>8. CASE c # u
      <4>1. \A j \in i .. l : q[j] = u => j \in i + 1 .. l
        BY <3>3, <3>5, <3>8
      <4> QED
        BY <3>2, <3>4, <3>6, <4>1 DEF Listed
    <3> QED
      BY <3>7, <3>8
  <2>8. \A k \in DOMAIN dels' : dels'[k].seg = t => Listed(heap', u, t, dels'[k].i)
    <3> SUFFICES ASSUME NEW k \in DOMAIN dels', dels'[k].seg = t PROVE Listed(heap', u, t, dels'[k].i)
      OBVIOUS
    <3>1. CASE k \in 1 .. n - 1
      <4>1. k \in 1 .. n /\ dels'[k] = dels[k]
        BY <1>1, <2>1, <3>1
      <4> QED
        BY <2>4, <2>6, <4>1
    <3>2. CASE k = n
      BY <1>1, <2>7, <3>2
    <3>3. CASE k = n + 1 /\ DOMAIN dels' = 1 .. n + 1
      BY <1>1, <2>4, <2>6, <3>3, n # n + 1
    <3> QED
      BY <1>1, <2>1, <3>1, <3>2, <3>3
  <2> QED
    BY <1>6, <2>2, <2>4, <2>5, <2>6, <2>8 DEF Follows
<1>8. EndsOK(heap', live') /\ BuKind(bu', heap', live')
  BY <1>2, <1>5, <1>6 DEF CallersInv, EndsOK, BuKind
<1>9. PrevOK(cc', heap', live')
  <2>1. cc.prev # NULL => cc.prev \in Segs
    BY DEF TypeOK, CompileType
  <2> QED
    BY <1>2, <1>3, <1>6, <2>1 DEF CallersInv, PrevOK
<1> QED
  BY <1>2, <1>7, <1>8, <1>9, CallersInvNext

\* No follower of a segment is left when its caller list has been worked off.
LEMMA DelFinishCallers ==
    ASSUME TypeOK, CompileOK, CallersInv, DelFinish
    PROVE  CallersInv'
<1> DEFINE s == DelFrame.seg
           n == Len(dels)
<1>1. /\ dels # <<>> /\ s \in Segs /\ n \in Nat \ {0} /\ DOMAIN dels = 1 .. n /\ DelFrame = dels[n]
      /\ dels' = Front(dels) /\ DOMAIN dels' = 1 .. n - 1 /\ \A k \in 1 .. n - 1 : dels'[k] = dels[k]
      /\ Deleting = InCalls(dels') \cup {s}
  BY DelFrames, DelFrameType DEF DelFinish, InCalls
<1>2. /\ UNCHANGED <<code, cc, bu>> /\ halted = "no" /\ live' = live \ {s}
      /\ DelFrame.i > Len(heap[s].callers)
  BY DEF DelFinish
<1>3. /\ SameChain(heap, heap') /\ \A u \in Segs : heap'[u].br = heap[u].br
      /\ \A u \in Segs \ {s} : heap'[u].callers = heap[u].callers
  BY DelFinishHeap
<1>5. live \subseteq Segs /\ NULL \notin Segs
  BY ConstantsAssumption DEF TypeOK
<1>6. \A u \in Segs : /\ TailOf(heap'[u]) = TailOf(heap[u]) /\ heap'[u].cont = heap[u].cont
                      /\ heap'[u].start = heap[u].start /\ heap'[u].len = heap[u].len
                      /\ EndOf(heap', u) = EndOf(heap, u)
  BY <1>3 DEF SameChain, TailOf, EndOf
<1>7. Called(heap', live', dels')
  <2> SUFFICES ASSUME NEW u \in live' \ InCalls(dels'), Follower(heap', u)
               PROVE  Follows(heap', live', dels', u)
    BY DEF Called
  <2> DEFINE t == heap[u].cont
  <2>1. u \in live /\ u \in Segs /\ Follower(heap, u) /\ u \notin InCalls(dels)
    BY <1>1, <1>2, <1>5, <1>6 DEF Follower, InCalls, Deleting
  <2>2. /\ t \in live /\ heap[t].start = EndOf(heap, u) /\ Listed(heap, u, t, 1)
        /\ \A k \in 1 .. n : dels[k].seg = t => Listed(heap, u, t, dels[k].i)
    BY <1>1, <1>2, <2>1 DEF CallersInv, Called, Follows
  <2>3. t # s
    <3> SUFFICES ASSUME t = s PROVE FALSE
      OBVIOUS
    <3>1. Listed(heap, u, s, dels[n].i)
      BY <1>1, <2>2
    <3>2. dels[n].i \in Nat /\ Len(heap[s].callers) \in Nat
      BY <1>1, DelFrameType, SegmentFields, LenProperties DEF TypeOK
    <3> QED
      BY <1>1, <1>2, <3>1, <3>2 DEF Listed
  <2>4. t \in Segs \ {s} /\ t \in live' /\ heap'[u].cont = t
    BY <1>2, <1>5, <1>6, <2>1, <2>2, <2>3
  <2> HIDE DEF t, s, n
  <2>5. \A k : Listed(heap, u, t, k) => Listed(heap', u, t, k)
    BY <1>3, <2>1, <2>4 DEF Listed
  <2>6. \A k \in 1 .. n - 1 : k \in 1 .. n
    BY <1>1
  <2> QED
    BY <1>1, <1>6, <2>1, <2>2, <2>4, <2>5, <2>6 DEF Follows
<1> HIDE DEF s, n
<1>8. EndsOK(heap', live') /\ BuKind(bu', heap', live')
  BY <1>2, <1>5, <1>6 DEF CallersInv, EndsOK, BuKind
<1>9. PrevOK(cc', heap', live')
  BY <1>1, <1>2 DEF PrevOK, CompileOK
<1> QED
  BY <1>2, <1>7, <1>8, <1>9, CallersInvNext

\* A delSegment() that begins has its whole list before it.
LEMMA CompileExpireCallers ==
    ASSUME TypeOK, CallersInv, CompileExpire
    PROVE  CallersInv'
<1> DEFINE t == SegAt(cc.addr + cc.x)
<1>1. /\ dels = <<>> /\ UNCHANGED <<code, heap, live, bu, halted>> /\ halted = "no"
      /\ dels' = <<[seg |-> t, i |-> 1]>> \/ dels' = dels
      /\ cc.phase = "expire" /\ cc \in CompileType
  BY DEF CompileExpire, Compiling, TypeOK
<1>2. cc'.phase = "expire"
  BY <1>1 DEF CompileExpire, CompileType
<1>3. SameLinks(heap, heap')
  BY <1>1 DEF SameLinks
<1>4. CASE dels' = dels
  BY <1>1, <1>2, <1>3, <1>4, UnchangedCallers DEF CallersInv
<1>5. CASE dels' = <<[seg |-> t, i |-> 1]>>
  <2>1. DOMAIN dels' = {1} /\ dels'[1].seg = t /\ dels'[1].i = 1
    BY <1>5
  <2> HIDE DEF t
  <2>2. Called(heap', live', dels')
    <3> SUFFICES ASSUME NEW u \in live, Follower(heap, u) PROVE Follows(heap, live, dels', u)
      BY <1>1 DEF Called
    <3>1. Follows(heap, live, <<>>, u)
      BY <1>1 DEF CallersInv, Called, InCalls
    <3> QED
      BY <2>1, <3>1 DEF Follows
  <2> QED
    BY <1>1, <1>2, <2>2, CallersInvNext DEF CallersInv, PrevOK
<1> QED
  BY <1>1, <1>4, <1>5

\* branchUnknown() adds the second entry with the branch, or the caller ends in
\* a JR, which continues to nothing, or was compiled behind the target.
LEMMA BranchLinkCallers ==
    ASSUME TypeOK, MapSound, CallersInv, BranchLink
    PROVE  CallersInv'
<1> DEFINE t == SegAt(bu.tgt)
           b == bu.seg
           patched == bu.kind \in PatchedKinds
<1>1. /\ dels = <<>> /\ UNCHANGED <<code, live, cc, dels>> /\ halted = "no" /\ cc.phase = "idle" /\ bu.phase = "link"
  BY DEF BranchLink, Answering
<1>2. /\ SameChain(heap, heap')
      /\ \A u \in Segs : /\ heap'[u].br = heap[u].br \/ (u = b /\ heap'[u].br = t)
                         /\ \/ heap'[u].callers = heap[u].callers
                            \/ u = t /\ patched /\ heap'[u].callers = Append(heap[u].callers, b)
  BY BranchLinkHeap
<1>3. CASE t = NULL
  <2>1. UNCHANGED <<heap, bu>> /\ halted' = "null_segment"
    BY <1>3 DEF BranchLink
  <2> QED
    BY <1>1, <2>1, UnchangedCallers DEF CallersInv, SameLinks
<1>4. CASE t # NULL
  <2>1. /\ t \in Segs /\ bu.tgt \in Addr /\ t = mem[bu.tgt]
        /\ heap[t].start <= bu.tgt /\ bu.tgt \in Int
    BY <1>1, <1>4, MappedCovers DEF TypeOK, SegAt, Addr
  <2>2. bu' = NoCall /\ b \in Segs
    BY <1>1, <1>4 DEF BranchLink, TypeOK
  <2>3. live \subseteq Segs /\ NULL \notin Segs
    BY ConstantsAssumption DEF TypeOK
  <2>4. patched => heap'[t].callers = Append(heap[t].callers, b)
    <3> SUFFICES ASSUME patched PROVE heap'[t].callers = Append(heap[t].callers, b)
      OBVIOUS
    <3>1. heap' = [[heap EXCEPT ![b].br = t] EXCEPT ![t].callers = Append(@, b)]
      BY <1>4 DEF BranchLink
    <3>2. [heap EXCEPT ![b].br = t][t].callers = heap[t].callers
      BY <2>1, <2>2 DEF TypeOK, SegmentType
    <3>3. [heap EXCEPT ![b].br = t] \in [Segs -> SegmentType(Len(arm))]
      BY <2>1, <2>2 DEF TypeOK, SegmentType
    <3> HIDE DEF t, b
    <3> QED
      BY <2>1, <3>1, <3>2, <3>3 DEF SegmentType
  <2>5. \A u \in Segs : /\ TailOf(heap'[u]) = TailOf(heap[u]) /\ heap'[u].cont = heap[u].cont
                        /\ heap'[u].start = heap[u].start /\ heap'[u].len = heap[u].len
                        /\ EndOf(heap', u) = EndOf(heap, u)
    BY <1>2 DEF SameChain, TailOf, EndOf
  <2>6. bu.kind \in PatchedKinds \cup {"jr", "jalr"}
    BY <1>1 DEF CallersInv, BuKind
  <2>7. Called(heap', live', dels')
    <3> SUFFICES ASSUME NEW u \in live, Follower(heap', u) PROVE Follows(heap', live, <<>>, u)
      BY <1>1 DEF Called
    <3> DEFINE v == heap[u].cont
               q == heap[v].callers
    <3>1. u \in Segs /\ Follower(heap, u)
      BY <2>3, <2>5 DEF Follower
    <3>2. v \in live /\ heap[v].start = EndOf(heap, u) /\ Listed(heap, u, v, 1)
      BY <1>1, <3>1 DEF CallersInv, Called, Follows, InCalls
    <3>3. v \in Segs /\ heap'[u].cont = v /\ q \in Seq(Segs) /\ Len(q) \in Nat
      BY <2>3, <2>5, <3>1, <3>2, SegmentFields, LenProperties DEF TypeOK
    <3>4. PICK i \in 1 .. Len(q) : q[i] = u /\ (heap[u].br = v => \E j \in 1 .. Len(q) : j # i /\ q[j] = u)
      BY <3>2 DEF Listed
    <3>5. Listed(heap', u, v, 1)
      <4> HIDE DEF t, b, v
      <4>1. CASE heap'[v].callers = q
        <5>1. heap'[u].br = v => heap[u].br = v
          <6> SUFFICES ASSUME u = b, v = t PROVE heap[u].br = v
            BY <1>2, <3>1
          <6>1. ~patched
            <7>1. Append(q, b) # q
              <8>1. Len(Append(q, b)) = Len(q) + 1
                BY <2>2, <3>3, AppendProperties
              <8> QED
                BY <3>3, <8>1
            <7> QED
              BY <2>4, <4>1, <7>1
          <6>2. bu.kind \in {"jr", "jalr"} /\ bu.seg = u
            BY <2>6, <6>1 DEF b
          <6>3. heap[u].len > 0 /\ heap[u].len \in Int /\ heap[u].start \in Int
            BY <3>1, SegmentFields DEF Follower, TypeOK
          <6>4. TailOf(heap[u]).k = bu.kind \/ heap[u].start >= bu.tgt
            BY <1>1, <6>2, <6>3 DEF CallersInv, BuKind
          <6>5. TailOf(heap[u]).k # bu.kind
            <7>1. TailOf(heap[u]).k # "jalr"
              BY <3>1 DEF Follower
            <7>2. TailOf(heap[u]).k # "jr"
              BY <3>1, <6>3 DEF CallersInv, EndsOK, Follower, EndsSuperBlock, IsJump, IsLink
            <7> QED
              BY <6>2, <7>1, <7>2
          <6>6. heap[t].start = heap[u].start + heap[u].len
            BY <3>2 DEF EndOf
          <6> QED
            BY <2>1, <6>3, <6>4, <6>5, <6>6
        <5> QED
          BY <3>4, <4>1, <5>1 DEF Listed
      <4>2. CASE v = t /\ heap'[v].callers = Append(q, b)
        <5>1. /\ Len(Append(q, b)) = Len(q) + 1 /\ Append(q, b)[Len(q) + 1] = b
              /\ \A j \in 1 .. Len(q) : Append(q, b)[j] = q[j]
          BY <2>2, <3>3, AppendProperties
        <5>2. \A j \in 1 .. Len(q) : j \in 1 .. Len(q) + 1 /\ j # Len(q) + 1
          BY <3>3
        <5>3. Len(q) + 1 \in 1 .. Len(q) + 1
          BY <3>3
        <5>4. heap'[u].br = v => heap[u].br = v \/ u = b
          BY <1>2, <3>1
        <5> HIDE DEF q
        <5> QED
          BY <3>4, <4>2, <5>1, <5>2, <5>3, <5>4 DEF Listed
      <4> QED
        BY <1>2, <3>3, <4>1, <4>2
    <3> QED
      BY <2>5, <3>1, <3>2, <3>3, <3>5 DEF Follows
  <2>8. EndsOK(heap', live') /\ PrevOK(cc', heap', live') /\ BuKind(bu', heap', live')
    BY <1>1, <2>2, <2>3, <2>5 DEF CallersInv, EndsOK, PrevOK, BuKind, NoCall
  <2> QED
    BY <1>1, <2>7, <2>8, CallersInvNext
<1> QED
  BY <1>3, <1>4

-----------------------------------------------------------------------------
(* The other actions, and the theorem. *)

\* The call is for the jump the segment ends in.
LEMMA BuKindNext ==
    ASSUME TypeOK, ChainOK, EntryFaithful, CallersInv, [Next]_vars, ~BranchLink
    PROVE  BuKind(bu', heap, live)
<1>1. CASE BranchLookup
  <2>1. bu' = bu \/ (~WildCall /\ bu' = [bu EXCEPT !.phase = "link"])
    BY <1>1 DEF BranchLookup
  <2>2. bu \in BranchType(Len(arm)) /\ bu.phase = "lookup"
    BY <1>1 DEF TypeOK, BranchLookup, Answering
  <2> QED
    BY <2>1, <2>2 DEF BranchType, WildCall, Kinds, PatchedKinds, CallersInv, BuKind
<1>2. CASE GuestBranch \/ GuestCall
  <2>1. GoTo /\ cur # 0
    BY <1>2 DEF GuestBranch, GuestCall, AtEndOf
  <2>2. \/ bu' = bu
        \/ bu'.phase = "lookup" /\ bu'.kind \in {LastInstr(bu'.seg).k, "inv"}
    BY <2>1, GoToBu
  <2> QED
    BY <2>2 DEF CallersInv, BuKind, LastInstr, TailOf
<1>3. ASSUME ~BranchLookup, ~GuestBranch, ~GuestCall PROVE bu' = bu
  BY <1>3 DEF Next, Recompiler, Compile, Delete, Branch, Debugger, CompileScan, CompileExpire, CompileTranslate,
     CompileExpired, CompileSplit, CompileChosen, DelCaller, DelFinish, Guest, GuestFallThrough,
     GuestReturn, DebuggerStart, DebuggerCompile, vars, callVars
<1> QED
  BY <1>1, <1>2, <1>3 DEF CallersInv

\* These actions delete, allocate and link nothing.
OtherAction == \/ CompileScan \/ CompileExpired \/ CompileChosen \/ CompileTranslate
               \/ BranchLookup \/ Guest \/ Debugger \/ UNCHANGED vars

LEMMA OtherSteps ==
    ASSUME TypeOK, ChainOK, OtherAction
    PROVE  /\ live' = live /\ SameLinks(heap, heap') /\ dels' = dels
           /\ halted' = "no" => halted = "no"
<1>1. CASE CompileTranslate
  <2>1. cc.seg \in Segs /\ Translate(cc.seg) /\ UNCHANGED <<live, dels>> /\ halted = "no"
    BY <1>1 DEF CompileTranslate, Compiling, TypeOK
  <2> QED
    BY <2>1, TranslateHeap DEF SameLinks
<1>2. CASE BranchLookup
  BY <1>2, BranchLookupHeap DEF SameLinks
<1>3. ASSUME ~CompileTranslate, ~BranchLookup PROVE UNCHANGED <<live, heap, dels>> /\ (halted' = "no" => halted = "no")
  BY <1>3 DEF OtherAction, CompileScan, CompileExpired, CompileChosen, Compiling, Guest, Debugger, GuestBranch, GuestCall,
     GuestFallThrough, GuestReturn, DebuggerStart, DebuggerCompile, AtEndOf, Running, vars, cacheVars, callVars
<1> QED
  BY <1>1, <1>2, <1>3 DEF SameLinks

\* When the splitting loop begins, nothing is waiting for a continuation.
LEMMA OtherPrev ==
    ASSUME TypeOK, CompileOK, ChainOK, OtherAction
    PROVE  cc'.phase = "split" => cc'.prev = NULL \/ (cc.phase = "split" /\ cc'.prev = cc.prev)
<1>0. cc \in CompileType
  BY DEF TypeOK
<1>1. CASE CompileScan
  BY <1>0, <1>1 DEF CompileScan, CompileType
<1>2. CASE CompileExpired
  BY <1>0, <1>2 DEF CompileExpired, Compiling, CompileType, CompileOK
<1>3. CASE CompileChosen
  <2>1. CASE cc' = Idle
    BY <2>1 DEF Idle
  <2>2. CASE cc' = [cc EXCEPT !.phase = "translate", !.seg = SegAt(cc.addr)]
    BY <1>0, <2>2 DEF CompileType
  <2> QED
    BY <1>3, <2>1, <2>2 DEF CompileChosen
<1>4. CASE CompileTranslate
  BY <1>0, <1>4 DEF CompileTranslate, Compiling, CompileType, Idle
<1>5. CASE BranchLookup
  BY <1>5, BranchLookupHeap, StartCompileFields
<1>6. CASE DebuggerCompile
  BY <1>6, StartCompileFields DEF DebuggerCompile
<1>7. CASE Guest \/ DebuggerStart \/ UNCHANGED vars
  BY <1>7 DEF Guest, GuestBranch, GuestCall, GuestFallThrough, GuestReturn, DebuggerStart, vars, callVars
<1> QED
  BY <1>1, <1>2, <1>3, <1>4, <1>5, <1>6, <1>7 DEF OtherAction, Debugger

LEMMA NextCallers ==
    ASSUME ChainInv, TypeOK', MapSound', EntryFaithful, CallersInv, [Next]_vars
    PROVE  CallersInv'
<1>0. TypeOK /\ MapSound /\ CompileOK /\ ChainOK /\ code' = code
  BY CodeStays DEF ChainInv
<1>1. CASE DelCaller
  BY <1>0, <1>1, DelCallerCallers
<1>2. CASE DelFinish
  BY <1>0, <1>2, DelFinishCallers
<1>3. CASE CompileExpire
  BY <1>0, <1>3, CompileExpireCallers
<1>4. CASE CompileSplit
  BY <1>0, <1>4, CompileSplitCallers
<1>5. CASE BranchLink
  BY <1>0, <1>5, BranchLinkCallers
<1>6. CASE OtherAction /\ ~BranchLink
  BY <1>0, <1>6, OtherSteps, OtherPrev, BuKindNext, UnchangedCallers
<1> QED
  BY <1>1, <1>2, <1>3, <1>4, <1>5, <1>6 DEF Next, Recompiler, Compile, Delete, Branch, OtherAction

CallersInvariants == ChainInv /\ EntryFaithful /\ CallersInv

LEMMA CallersInvariant == Spec => []CallersInvariants
<1>1. Init => CallersInv
  BY InitCallers
<1>2. ChainInv /\ ChainInv' /\ EntryFaithful /\ CallersInv /\ [Next]_vars => CallersInv'
  BY NextCallers DEF ChainInv
<1> QED
  BY <1>1, <1>2, ChainInvariant, EntryIsFaithful, PTL DEF Spec, CallersInvariants

\* A segment in use never continues to freed memory: whatever is compiled,
\* linked and deleted, in any order and however deep delSegment() nests, the
\* caller lists name everyone who continues to a segment, twice if he also
\* branches there.
THEOREM ChainIsSound == Spec => []ChainSound
<1>1. CallersInvariants => ChainSound
  <2> SUFFICES ASSUME CallersInvariants, halted = "no", NEW s \in live \ Deleting,
                      heap[s].len > 0, LastInstr(s).k # "jalr", heap[s].cont # NULL
               PROVE  LET t == heap[s].cont
                      IN  /\ t \in live
                          /\ heap[t].start = heap[s].start + heap[s].len
                          /\ t \notin Deleting => s \in ToSet(heap[t].callers)
    BY DEF ChainSound
  <2> DEFINE t == heap[s].cont
             q == heap[t].callers
  <2>1. Follower(heap, s) /\ s \in live \ InCalls(dels)
    BY DEF Follower, LastInstr, TailOf, Deleting, InCalls
  <2>2. Follows(heap, live, dels, s)
    BY <2>1 DEF CallersInvariants, CallersInv, Called
  <2>3. t \in live /\ heap[t].start = heap[s].start + heap[s].len /\ Listed(heap, s, t, 1)
    BY <2>2 DEF Follows, EndOf
  <2>4. q \in Seq(Segs)
    BY <2>3, SegmentFields DEF CallersInvariants, ChainInv, TypeOK
  <2>5. \E i \in 1 .. Len(q) : q[i] = s
    BY <2>3 DEF Listed
  <2>6. DOMAIN q = 1 .. Len(q)
    BY <2>4, LenProperties
  <2>7. s \in ToSet(q)
    BY <2>5, <2>6 DEF ToSet
  <2> QED
    BY <2>3, <2>7
<1> QED
  BY <1>1, CallersInvariant, PTL
=============================================================================
