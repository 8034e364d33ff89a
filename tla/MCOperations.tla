---------------------------- MODULE MCOperations ----------------------------
\* An instance: 3-bit bytes, 12-bit words, 6-bit immediates.
EXTENDS Correctness

Top == Words - 1

Doubles == {0, 1, 7, Top, 2^(W - 1), Double(1, 0), Double(Top, 2^(W - 1)), Double(Top, Top),
            Double(2^(W - 1), 0), Double(2^(W - 1) - 1, Top)}
Distances == {0, 1, 5, W - 1, W, W + 1, 2 * W - 1, 2 * W, Top}
Bases == {2^(W - 1) + 8, 2^(W - 1) + 11, 2^(W - 1) + 2^(W - 3) + 47, 1024}

\* The registers 1 and 2 hold two doublewords; the others differ.
Filled(v) ==
  [r \in Registers |->
     CASE r \in {0, Wide(0)} -> 0
       [] r = 1 -> v[1] % Words [] r = Wide(1) -> v[1] \div Words
       [] r = 2 -> v[2] % Words [] r = Wide(2) -> v[2] \div Words
       [] OTHER -> (r + 6) % Words]

Chosen(w) ==
  LET op == ops_type(w)
  IN  CASE op \in ShiftedBy -> (IF w.rs = 1 THEN Distances ELSE {0}) \X Doubles
        [] op \in Loads \cup Stores -> Bases \X {Double(5, 6)}
        [] op \notin Loads \cup Stores /\ w.op # 0 -> Doubles \X {Double(5, 6)}
        [] OTHER -> Doubles \X Doubles

OperandsDef(w) == {Filled(v) : v \in Chosen(w)}

\* Three different registers, the target one of the operands, r0 somewhere.
Triples == {<<1, 2, 3>>, <<1, 2, 1>>, <<1, 2, 2>>, <<1, 1, 3>>, <<0, 2, 3>>, <<1, 0, 3>>,
            <<1, 2, 0>>}
Pairs == {<<1, 2>>, <<1, 1>>, <<0, 2>>, <<1, 0>>}

Functions(ops) == {k \in 0..63 : Special[k + 1] \in ops}
ThreeRegisters == {Word(0, r[1], r[2], r[3], 0, f, 0) : r \in Triples,
                     f \in Functions(ThreeOperand \cup ShiftedBy \cup IntoHiLo)}
FixedShifts == {Word(0, 0, r[1], r[2], s, f, 0) : r \in {<<2, 3>>, <<2, 2>>, <<2, 0>>},
                  f \in Functions(Shifted), s \in {0, 1, 4, W - 1}}
\* The high byte of an immediate begins at an even bit in the program; here it
\* does not, and the high bytes 5 and 7 could not be encoded.
EvenHigh(m) == m \div 2^Byte \notin {5, 7}
Immediates ==
  {Word(o, r[1], r[2], 0, 0, 0, m) : r \in Pairs, m \in {n \in 0..2^ImmBits - 1 : EvenHigh(n)},
     o \in 12..15}
  \cup {Word(o, r[1], r[2], 0, 0, 0, m) : r \in Pairs, m \in 0..2^ImmBits - 1,
          o \in (8..11) \cup {24, 25}}
MemoryWords == {Word(o, r[1], r[2], 0, 0, 0, m) : r \in Pairs \ {<<0, 2>>},
                  m \in 0..2^ImmBits - 1, o \in (32..63) \cup {26, 27}}

\* Every operation once: what the decoder tells apart.
Others == {Word(0, 1, 2, 3, 0, f, 0) : f \in 0..63}
     \cup {Word(1, 1, t, 0, 0, 0, m) : t \in 0..31, m \in {1, 31}}
     \cup {Word(o, 1, 2, 0, 0, 0, m) : o \in 2..63, m \in {1, 31}}
     \cup {Word(o, s, 2, 3, 1, f, 0) : o \in {16, 17}, s \in 0..31, f \in 0..63}
     \cup {Word(17, 8, t, 0, 0, 0, 1) : t \in 0..3} \cup {Word(0, 0, 0, 0, 0, 0, 0)}

ProgramsDef == Others \cup ThreeRegisters \cup FixedShifts \cup Immediates \cup MemoryWords
JunkDef == {6, Top}
=============================================================================
