------------------------------ MODULE MCSegment ------------------------------
EXTENDS SegmentMeaning

Top == Words - 1
Nop == Word(0, 0, 0, 0, 0, 0, 0)
Reg3(fn, rs, rt, rd) == Word(0, rs, rt, rd, 0, fn, 0)
ADDUof(rs, rt, rd) == Reg3(33, rs, rt, rd)
DADDUof(rs, rt, rd) == Reg3(45, rs, rt, rd)
XORof(rs, rt, rd) == Reg3(38, rs, rt, rd)

ReadCount == Word(16, 0, 3, 9, 0, 0, 0)

Conditions == {Word(1, 1, t, 0, 0, 0, 1) : t \in (0..3) \cup (16..19)}
              \cup {Word(o, 1, 2, 0, 0, 0, 1) : o \in {4, 5, 20, 21}}
              \cup {Word(o, 1, 0, 0, 0, 0, 1) : o \in {4, 6, 7, 22, 23}}
JumpWords == {Word(2, 0, 0, 0, 0, 0, 1), Word(3, 0, 0, 0, 0, 0, 1),
              Word(0, 31, 0, 0, 0, 8, 0), Word(0, 2, 0, 0, 0, 8, 0), Word(0, 2, 0, 3, 0, 9, 0)}

ShortBodies == { << ADDUof(1, 2, 3) >>, << Nop, ADDUof(1, 2, 1) >>, << ADDUof(1, 2, 1), Nop >> }
\* Registers used again, written again before they are read, across a call of C,
\* and more of them than the host has; and a length that does not fit a byte.
LongBodies == { << ADDUof(1, 2, 3), XORof(3, 4, 4) >>,
          << XORof(1, 2, 3), ADDUof(4, 4, 4), ADDUof(3, 5, 3) >>,
          << ADDUof(1, 2, 3), ADDUof(4, 5, 4), ADDUof(1, 2, 3), XORof(3, 4, 5) >>,
          << Reg3(27, 1, 2, 0), XORof(3, 4, 5) >>,
          << DADDUof(1, 2, 3), DADDUof(4, 5, 3), DADDUof(1, 2, 4) >>,
          << ADDUof(1, 2, 3), Nop, Nop, Nop, Nop, Nop, XORof(3, 4, 4) >>,
          << Nop, Nop, Nop, Nop, Nop, Nop, Nop, Nop >> }
Delays == { Nop, ADDUof(3, 4, 5), ADDUof(1, 2, 1), DADDUof(4, 4, 4) }

\* The offset a branch is translated with: back to the head of its segment, or out
\* of it; that of the return address of one that links, the second global literal
\* or found as the third in a SANDWICH, else behind cc_interrupt in the segment.
OffsetsOf(second, words) ==
  LET op == ops_type(words[Len(words)])
  IN  CASE op \in Linking \ Jumps -> IF second THEN {-8, 12} ELSE {4}
        [] op \in Branches \ Linking /\ Len(words) \in 2..3 -> {-Len(words), 1}
        [] OTHER -> {1}

Built(second, body, branch, delay) ==
  LET words == Append(body, branch)
  IN  {[second |-> second, offset |-> offset, words |-> words, delay |-> delay] :
         offset \in OffsetsOf(second, words)}

\* A segment that begins with a delay slot does not begin with its branch.  A
\* jump leaves the segment.
ProgramsDef ==
  UNION ({Built(second, body, branch, delay) : second \in BOOLEAN,
            body \in ShortBodies \cup LongBodies, branch \in Conditions \cup JumpWords, delay \in Delays}
         \cup {Built(FALSE, << >>, branch, Nop) : branch \in Conditions \cup JumpWords}
         \cup {Built(FALSE, body, Word(4, 1, 2, 0, 0, 0, 1), Nop) :
                 body \in {<< ReadCount >>, << ReadCount, ReadCount >>, << Nop, ReadCount, Nop, ReadCount >>}}
         \cup {Built(FALSE, << Nop >>, b, Nop) : b \in {Nop, Word(17, 8, 0, 0, 0, 0, 1)}})

\* r1 decides the branches with one operand; the sign and the zero lie in the low
\* word, in the high one or in both.
Values(s) == IF s.words[1] = ADDUof(1, 2, 3) /\ Len(s.words) = 2
             THEN {0, 1, 2^(W - 1), Double(1, 0), Double(Top, Top), Double(Top, 0)}
             ELSE {0, 1, Double(Top, Top)}
Second(s) == IF ops_type(s.words[Len(s.words)]) \in OfTwo THEN {0, 1, Double(1, 1)} ELSE {3}
\* COUNT: the update makes it positive or not, from -3 on by the length.
EntriesDef(s) ==
  {<< d, e, flag, count >> : d \in Values(s), e \in Second(s), flag \in {0, 1},
                             count \in IF Len(s.words) = 2 THEN {Words - 3, 2^(W - 1)} ELSE {Words - 3}}
JunkDef == {6}
=============================================================================
