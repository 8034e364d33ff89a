--------------------------- MODULE MCCodeSegments ---------------------------
(* Instances of CodeSegments for TLC: small MIPS programs, written out word  *)
(* by word.                                                                  *)
EXTENDS CodeSegments, TLC

Op     == [k |-> "op",  v |-> 0]
Br(o)   == [k |-> "br",   v |-> o]
Bal(o)  == [k |-> "bal",  v |-> o]
Ball(o) == [k |-> "ball", v |-> o]
J(a)   == [k |-> "j",   v |-> a]
Jal(a) == [k |-> "jal", v |-> a]
Jr     == [k |-> "jr",  v |-> 0]
Jalr   == [k |-> "jalr", v |-> 0]
Ret    == [k |-> "ret", v |-> 0]
Inv    == [k |-> "inv", v |-> 0]

\* The words s, and no instructions behind them.
Image(s) == [a \in Addr |-> IF a < Len(s) THEN s[a + 1] ELSE Inv]

\* Every program of six words made of these, that begins with a plain one and
\* ends in a jump: loops onto themselves, into and out of a block, calls and
\* returns, jumps into the middle.
Body  == {Op, Br(-2), Br(-1), Br(1), J(0), J(2), Jal(3), Ret}
\* A word ends at most one segment, and a loop at most adds an empty one before
\* it, so these programs never need more than five segments at a time.
Fits(p) == LET Ends == {w \in DOMAIN p : p[w].k \notin {"op", "inv"}}
               Back == {w \in DOMAIN p : p[w].k = "br" /\ p[w].v < 0}
           IN  Cardinality(Ends) + Cardinality(Back) <= 5

AllPrograms == {p \in {Image(<<Op, a, b, c, d, e>>) :
                          a, b, c, d \in Body, e \in {J(1), Ret}} : Fits(p)}

\* Words that are no instruction, at the entry point and behind a jump, jumps
\* and calls through a register, and a branch to the next word.
CornerPrograms ==
    {Image(<<Op, Inv, Op, Op, Op, Ret>>), Image(<<Op, J(3), Op, Inv, Op, Ret>>),
     Image(<<Op, Jr, Op, Ret, Op, Jr>>), Image(<<Op, Jalr, Op, Br(1), Jalr, Ret>>),
     Image(<<Op, Jal(2), Op, Br(-1), J(1), Jr>>), Image(<<Op, Br(0), Op, Br(-2), Op, Ret>>)}

\* Programs that jump forward first and back into the gap later, so that a
\* super block is compiled over segments that exist.
OverlapPrograms == {p \in {Image(<<Op, J(x), b, c, d, e>>) :
                              x \in {3, 4}, b, c, d \in Body, e \in {J(2), Ret}} : Fits(p)}

\* Branches that link: two loops of eight words, which slot 2 makes the translator
\* recognise, two calls forward, and one that slot 2 links to the code of word 0.
LinkPrograms ==
    {Image(<<Op, Op, Op, Op, Op, Op, Op, Op, Bal(-8), Ret>>),
     Image(<<Op, Op, Op, Op, Op, Op, Op, Op, Ball(-8), Ret>>),
     Image(<<Op, Bal(3), Op, Ret, Op, Ret>>), Image(<<Op, Ball(3), Op, J(1), Op, Ret>>),
     Image(<<Op, J(5), Op, Op, Ret, Op, Br(1), Op, Bal(1), Ret>>)}

CachePrograms == AllPrograms \cup CornerPrograms \cup OverlapPrograms \cup LinkPrograms

\* Fewer programs for the runs in which the debugger recompiles at will.
DebuggerPrograms ==
    {Image(<<Op, a, b, c, Ret>>) : a \in {Op, Br(-1), Br(1), Jal(2)},
                                   b \in {Op, Br(-2), Jal(2)}, c \in {Op, Br(-1), J(0)}}
    \cup {Image(<<Op, Bal(2), Ret, Op, Ret>>)}

\* Three programs, recompiled over and over, in which a segment takes the address
\* of a freed one that is still in a caller list.
ReusePrograms == {Image(<<Op, J(4), Op, Ret, Op, Jr>>), Image(<<Op, Jalr, Op, Ret, Op, Ret>>),
                  Image(<<Op, Br(1), Op, Ret, Op, Ret>>)}

\* Those and more, the debugger's words heads of segments (0, 2) or in the middle
\* of one (4 in the first of these), behind loops, calls and branches.  In the
\* last two a loop takes the address of the segment that jumped to it, and code
\* is left behind by a jump whose segment becomes another jump.
RecompiledPrograms == ReusePrograms \cup
    {Image(<<Op, J(3), Op, Op, Op, Ret>>), Image(<<Op, Jal(3), Op, Br(-1), Op, Ret>>),
     Image(<<Op, Br(-1), Op, Br(-2), Op, Ret>>),
     Image(<<Op, J(4), Op, Br(-2), Op, Jr>>), Image(<<Op, J(2), Op, Ret, Op, J(0)>>)}

\* One program for each disagreement between the comments and the code.
OverCaller  == Image(<<Op, J(3), Op, Op, J(2), Ret>>)      \* the target's super block holds the caller
OverChain   == Image(<<Op, J(3), Op, Op, Br(1), J(2)>>)    \* and a segment it continues to
Skip        == Image(<<Op, Br(1), J(0), Op, Op, Ret>>)     \* a branch over the next word
LoopAndBack == Image(<<Op, Br(-1), J(0), Op, Op, Ret>>)    \* linked when translated

FindingPrograms == {OverCaller, OverChain, Skip, LoopAndBack}

\* A function of eight words in the middle of a block that ends in a call forward.
\* It is the first SANDWICH, so the return address goes to slot 2.
CallForward == Image(<<Op, Br(9), Op, Op, Op, Op, Op, Op, Op, Bal(1), Op, Ret>>)
LinkingPrograms == {CallForward}

SegSymmetry == Permutations(Segs)
=============================================================================
